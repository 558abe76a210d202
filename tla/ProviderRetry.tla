---------------------------- MODULE ProviderRetry ----------------------------
(***************************************************************************)
(* One call of a provider: the checks before it, the attempts with their   *)
(* timeouts, the delays between them, and the look at the answer.  Another *)
(* thread may cancel the call at any moment, and the provider may answer   *)
(* anything or nothing.                                                    *)
(*                                                                         *)
(* Time is counted in ticks, Ms of them to a millisecond, since the code   *)
(* measures time finer than the milliseconds its timeouts have.  Whatever  *)
(* takes longer than it was asked to (a step of the thread, a sleep, a     *)
(* timeout that comes late) is drift.                                      *)
(***************************************************************************)
EXTENDS Naturals, Sequences

CONSTANTS
    Ms,               \* ticks in a millisecond
    Budget,           \* HttpRequest::timeout_ms, in ticks
    MaxRetries,       \* MAX_RETRIES
    Slice, MaxDelay,  \* a slice of a delay, and the longest delay, in ticks
    Statuses,         \* statuses the provider answers with
    RetryAfters,      \* delays it asks for, in ticks; 0 is also a missing header
    MaxDrift          \* bound of the instance: ticks of drift

VARIABLES
    now,              \* started.elapsed()
    token,            \* whether the call is cancelled
    pc,               \* where the call is
    attempts,         \* retries so far
    limit,            \* timeout of the attempt
    answer,           \* what the last attempt came to
    left, wakeAt,     \* rest of the delay, and the end of its slice
    result,           \* what the call returns
    sentAt,           \* when the transport sent the request (its timeout counts from here)
    drift, cancelledAt, answers, answeredAt, earliest, late   \* history

clock == <<now, drift>>
request == <<attempts, limit, sentAt, late>>
reply == <<answer, answers, answeredAt, earliest>>
delay == <<left, wakeAt>>
vars == <<clock, token, cancelledAt, pc, result, request, reply, delay>>

ASSUME RetryAssumption ==
    /\ Ms \in Nat \ {0} /\ Budget \in Nat \ {0} /\ MaxRetries \in Nat
    /\ Slice \in Nat \ {0} /\ MaxDelay \in Nat /\ MaxDrift \in Nat
    /\ Statuses \subseteq Nat /\ RetryAfters \subseteq Nat /\ 0 \in RetryAfters

Smaller(a, b) == IF a < b THEN a ELSE b

-----------------------------------------------------------------------------
(* What an attempt comes to: an answer, or a failure of the transport. *)

Answered == [failure : {"none"}, status : Statuses, after : RetryAfters]
Failed(why) == [failure |-> why, status |-> 0, after |-> 0]
Outcomes == Answered \cup {Failed(why) : why \in {"timeout", "transport", "too_large", "policy"}}

Accepted(o) == o.failure = "none" /\ o.status \in 200..299

Retryable(o) ==
    \/ o.failure \in {"timeout", "transport"}
    \/ o.failure = "none" /\ o.status \in {408, 409, 429} \cup 500..599

Class(o) == IF Accepted(o) THEN "accepted" ELSE IF Retryable(o) THEN "again" ELSE "final"

Delay(o) == Smaller(o.after, MaxDelay)

\* Variant: every attempt has the timeout of the call.
FullLimit(remaining) == Budget

\* Whole milliseconds of what remains, and one of them at least.
AttemptLimit(remaining) == IF remaining < Ms THEN Ms ELSE remaining - (remaining % Ms)

-----------------------------------------------------------------------------
Init ==
    /\ now = 0 /\ drift = 0
    /\ token = FALSE /\ cancelledAt = 0
    /\ pc = "start" /\ result = "none"
    /\ attempts = 0 /\ limit = 0 /\ sentAt = 0 /\ late = 0
    /\ answer = Failed("policy") /\ answers = <<>> /\ answeredAt = 0 /\ earliest = 0
    /\ left = 0 /\ wakeAt = 0

Return(r) == pc' = "done" /\ result' = r
Goto(p) == pc' = p /\ UNCHANGED result

\* cancelled(cancellation)?
Unless(p) == IF token THEN Return("cancelled") ELSE Goto(p)

\* Request, capability, key or size do not do.  The token is looked at in between,
\* and nothing has happened yet.
Reject ==
    /\ pc = "start"
    /\ Return("rejected")
    /\ UNCHANGED <<clock, token, cancelledAt, request, reply, delay>>

Prepare ==
    /\ pc = "start"
    /\ Unless("head")
    /\ UNCHANGED <<clock, token, cancelledAt, request, reply, delay>>

LoopHead ==
    /\ pc = "head"
    /\ Unless("clock")
    /\ UNCHANGED <<clock, token, cancelledAt, request, reply, delay>>

GrantRemaining ==
    /\ pc = "clock"
    /\ IF now < Budget
       THEN limit' = AttemptLimit(Budget - now) /\ Goto("sending")
       ELSE Return("deadline") /\ UNCHANGED limit
    /\ UNCHANGED <<clock, token, cancelledAt, attempts, sentAt, late, reply, delay>>

EnterTransport ==
    /\ pc = "sending"
    /\ Unless("connecting")
    /\ UNCHANGED <<clock, token, cancelledAt, request, reply, delay>>

Send ==
    /\ pc = "connecting"
    /\ sentAt' = now
    /\ late' = IF token THEN late + 1 ELSE late
    /\ Goto("waiting")
    /\ UNCHANGED <<clock, token, cancelledAt, attempts, limit, reply, delay>>

Take(o) ==
    /\ answer' = o
    /\ answers' = Append(answers, Class(o))
    /\ answeredAt' = now
    /\ earliest' = now + Delay(o)
    /\ Goto("answered")
    /\ UNCHANGED <<clock, token, cancelledAt, request, delay>>

\* The endpoint is validated again before each request.
RefuseEndpoint == pc = "connecting" /\ Take(Failed("policy"))

\* The transport looks at the token after the headers and after the body;
\* send_with_retry does so right afterwards, whatever the transport returns.
Answer == pc = "waiting" /\ \E o \in Outcomes \ {Failed("timeout"), Failed("policy")} : Take(o)
TimeOut == pc = "waiting" /\ now >= sentAt + limit /\ Take(Failed("timeout"))

\* Variant: only the loop head looks.
LookAtNothing ==
    /\ pc = "answered"
    /\ Goto("judging")
    /\ UNCHANGED <<clock, token, cancelledAt, request, reply, delay>>

LookAtToken ==
    /\ pc = "answered"
    /\ Unless("judging")
    /\ UNCHANGED <<clock, token, cancelledAt, request, reply, delay>>

JudgeBy(mayRepeat) ==
    /\ pc = "judging"
    /\ IF now >= Budget THEN Return("deadline")
       ELSE IF Accepted(answer) THEN Goto("received")
       ELSE IF mayRepeat THEN Goto("budgeting")
       ELSE Return("failed")
    /\ attempts' = IF pc' = "budgeting" THEN attempts + 1 ELSE attempts
    /\ UNCHANGED <<clock, token, cancelledAt, limit, sentAt, late, reply, delay>>

\* Variant: counts one attempt too few.
JudgeOneMore == JudgeBy(Retryable(answer) /\ attempts <= MaxRetries)

Judge == JudgeBy(Retryable(answer) /\ attempts < MaxRetries)

GrantDelay ==
    /\ pc = "budgeting"
    /\ IF now + Delay(answer) < Budget
       THEN left' = Delay(answer) /\ Goto("delaying")
       ELSE Return("deadline") /\ UNCHANGED left
    /\ UNCHANGED <<clock, token, cancelledAt, request, reply, wakeAt>>

AfterDelay(p) ==
    /\ pc = "delaying" /\ left = 0
    /\ Unless(p)
    /\ UNCHANGED <<clock, token, cancelledAt, request, reply, delay>>

\* Variant: sleeps again while the rest is not below zero.
DelayGoesOn == AfterDelay("delaying")

DelayEnds == AfterDelay("head")

Sleep ==
    /\ pc = "delaying" /\ left > 0
    /\ Unless("sleeping")
    /\ wakeAt' = now + Smaller(left, Slice)
    /\ UNCHANGED <<clock, token, cancelledAt, request, reply, left>>

WakeWith(rest) ==
    /\ pc = "sleeping" /\ now >= wakeAt
    /\ left' = rest
    /\ Goto("delaying")
    /\ UNCHANGED <<clock, token, cancelledAt, request, reply, wakeAt>>

\* Variants: the last slice is not shortened; one slice is enough.
WakeBelowZero == WakeWith((left + 65536 - Slice) % 65536)
WakeForGood == WakeWith(0)

Wake == WakeWith(left - Smaller(left, Slice))

\* The body is parsed and validated; the token is not looked at any more.
Validate ==
    /\ pc = "received"
    /\ Return("ok") \/ Return("invalid")
    /\ UNCHANGED <<clock, token, cancelledAt, request, reply, delay>>

CallStep ==
    \/ Reject \/ Prepare \/ LoopHead \/ GrantRemaining \/ EnterTransport \/ RefuseEndpoint \/ Send
    \/ LookAtToken \/ Judge \/ GrantDelay \/ DelayEnds \/ Sleep \/ Wake \/ Validate

-----------------------------------------------------------------------------
(* The rest of the world. *)

Cancel ==
    /\ ~token
    /\ token' = TRUE /\ cancelledAt' = now
    /\ UNCHANGED <<clock, pc, result, request, reply, delay>>

\* A tick is asked for while a request has time left or a slice is not over.
Asked == (pc = "waiting" /\ now < sentAt + limit) \/ (pc = "sleeping" /\ now < wakeAt)

Tick ==
    /\ pc \notin {"start", "done"}
    /\ Asked \/ drift < MaxDrift
    /\ now' = now + 1
    /\ drift' = IF Asked THEN drift ELSE drift + 1
    /\ UNCHANGED <<token, cancelledAt, pc, result, request, reply, delay>>

Next == CallStep \/ Answer \/ TimeOut \/ Cancel \/ Tick

Spec == Init /\ [][Next]_vars

\* The thread runs, time passes and the transport keeps its timeout, if late.
\* The provider owes nothing, and nobody has to cancel.
FairSpec == Spec /\ WF_vars(CallStep) /\ WF_vars(Tick) /\ WF_vars(TimeOut)

-----------------------------------------------------------------------------
Stages == {"start", "head", "clock", "sending", "connecting", "waiting", "answered", "judging",
           "budgeting", "delaying", "sleeping", "received", "done"}
Results == {"none", "ok", "invalid", "rejected", "failed", "deadline", "cancelled"}

\* Every cell keeps its type; the rest of a delay is at most the longest delay, so
\* the subtraction of a slice (cancellable_delay) never wraps around.
TypeOK ==
    /\ now \in Nat /\ drift \in 0..MaxDrift /\ token \in BOOLEAN /\ cancelledAt \in Nat
    /\ pc \in Stages /\ result \in Results /\ (pc = "done" <=> result # "none")
    /\ attempts \in 0..MaxRetries /\ limit \in Nat /\ sentAt \in Nat /\ late \in Nat
    /\ answer \in Outcomes /\ answers \in Seq({"accepted", "again", "final"})
    /\ answeredAt \in Nat /\ earliest \in Nat
    /\ left \in 0..MaxDelay /\ wakeAt \in Nat

\* A request is repeated only after a failure that is explicitly retryable, at most
\* MaxRetries times; such a failure is given back only when no repetition is left;
\* and only an accepted answer is given back as a result (send_with_retry).
RetriesAreJustified ==
    LET n == Len(answers) IN
    /\ n <= MaxRetries + 1
    /\ \A i \in 1..n - 1 : answers[i] = "again"
    /\ result = "failed" => n > 0 /\ (answers[n] = "final" \/ (answers[n] = "again" /\ n = MaxRetries + 1))
    /\ result \in {"ok", "invalid"} => n > 0 /\ answers[n] = "accepted"

\* The configured timeout bounds the whole call, retries and delays included: but for
\* drift it ends less than a millisecond after it, which is what rounding the last
\* attempt up may add, and an answer that is used came in time (send_with_retry).
DeadlineIsKept ==
    /\ now < Budget + Ms + drift
    /\ result \in {"ok", "invalid"} => answeredAt < Budget

\* A repetition is not sent before the delay the provider asked for is over, up to
\* the longest delay (cancellable_delay and its slices).
DelayIsKept == pc = "waiting" => sentAt >= earliest

\* After a cancellation at most one request is sent, the one already past its last
\* look at the token, its answer is never used, and a delay ends with its slice.
CancellationIsObserved ==
    /\ late <= 1
    /\ late = 1 => pc \in {"waiting", "answered"} \/ result = "cancelled"
    /\ token /\ pc = "sleeping" => wakeAt <= cancelledAt + Slice

\* Every call returns, whatever the provider does.
EveryCallReturns == <>(pc = "done")
=============================================================================
