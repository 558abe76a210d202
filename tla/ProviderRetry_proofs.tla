------------------------- MODULE ProviderRetry_proofs -------------------------
(***************************************************************************)
(* What a provider call keeps to, for any budget, any delays the provider  *)
(* asks for, any number of retries and any drift: how often it asks, when  *)
(* it ends, how long it waits, and what it does once it is cancelled.      *)
(***************************************************************************)
EXTENDS ProviderRetry, TLAPS

\* The request of the current attempt is not answered yet, or there is none.
Asking == {"start", "head", "clock", "sending", "connecting", "waiting",
           "budgeting", "delaying", "sleeping"}
Judging == {"answered", "judging"}

\* What was answered, attempt by attempt.
Counted ==
    /\ pc \in Asking => Len(answers) = attempts /\ \A i \in 1..Len(answers) : answers[i] = "again"
    /\ pc \in Judging => /\ Len(answers) = attempts + 1
                         /\ answers[Len(answers)] = Class(answer)
    /\ pc = "received" => Len(answers) > 0 /\ answers[Len(answers)] = "accepted"

\* What is left of the delay, and of the attempt, ends in time.
Timed ==
    /\ now < Budget + Ms + drift
    /\ pc \in {"sending", "connecting"} => now + limit < Budget + Ms + drift
    /\ pc = "waiting" => sentAt + limit < Budget + Ms + drift
    /\ pc = "delaying" => now + left < Budget + drift
    /\ pc = "sleeping" => /\ wakeAt + left < Budget + drift + Smaller(left, Slice)
                          /\ now + left < Budget + drift + Smaller(left, Slice)
    /\ pc \in Judging => answeredAt <= now
    /\ pc = "received" => answeredAt < Budget

\* What is left of the delay is enough.
Waited ==
    /\ pc \in Judging \cup {"budgeting"} => earliest <= now + Delay(answer)
    /\ pc = "delaying" => earliest <= now + left
    /\ pc = "sleeping" => earliest + Smaller(left, Slice) <= wakeAt + left
    /\ pc \in {"start", "head", "clock", "sending", "connecting"} => earliest <= now

\* The cancellation is seen at the next look.
Observed ==
    /\ token => cancelledAt <= now
    /\ late > 0 => token
    /\ pc = "sleeping" => wakeAt <= now + Slice

-----------------------------------------------------------------------------
LEMMA OutcomeFacts ==
  ASSUME NEW o \in Outcomes
  PROVE  /\ o.after \in Nat /\ Delay(o) \in 0..MaxDelay
         /\ Class(o) \in {"accepted", "again", "final"}
<1>1. o.after \in Nat
  <2>1. CASE o \in Answered
    <3>1. o.after \in RetryAfters
      BY <2>1 DEF Answered
    <3> QED
      BY <3>1, RetryAssumption
  <2>2. CASE o \notin Answered
    <3>1. PICK why \in {"timeout", "transport", "too_large", "policy"} : o = Failed(why)
      BY <2>2 DEF Outcomes
    <3> QED
      BY <3>1 DEF Failed
  <2> QED
    BY <2>1, <2>2
<1>2. Delay(o) \in 0..MaxDelay
  BY <1>1, RetryAssumption DEF Delay, Smaller
<1>3. Class(o) \in {"accepted", "again", "final"}
  BY DEF Class
<1> QED
  BY <1>1, <1>2, <1>3

LEMMA FailuresAreOutcomes ==
  /\ Failed("timeout") \in Outcomes /\ Failed("policy") \in Outcomes
  BY DEF Outcomes

\* The limit of an attempt exceeds what remains by less than a millisecond.
LEMMA LimitFacts ==
  ASSUME NEW r \in Nat, r > 0
  PROVE  AttemptLimit(r) \in Nat /\ AttemptLimit(r) < r + Ms
<1>1. r % Ms \in Nat /\ r % Ms < Ms
  BY RetryAssumption
<1>2. CASE r < Ms
  BY <1>2, RetryAssumption DEF AttemptLimit
<1>3. CASE ~(r < Ms)
  BY <1>1, <1>3, RetryAssumption DEF AttemptLimit
<1> QED
  BY <1>2, <1>3

-----------------------------------------------------------------------------
LEMMA InitTypes == Init => TypeOK
<1> SUFFICES ASSUME Init PROVE TypeOK
  OBVIOUS
<1>1. answer \in Outcomes /\ answers \in Seq({"accepted", "again", "final"})
  BY FailuresAreOutcomes DEF Init
<1>2. token \in BOOLEAN
  BY DEF Init
<1>3. /\ now = 0 /\ drift = 0 /\ cancelledAt = 0 /\ attempts = 0 /\ limit = 0 /\ sentAt = 0
      /\ late = 0 /\ answeredAt = 0 /\ earliest = 0 /\ left = 0 /\ wakeAt = 0
      /\ pc = "start" /\ result = "none"
  BY DEF Init
<1> QED
  BY <1>1, <1>2, <1>3, RetryAssumption DEF TypeOK, Stages, Results

LEMMA StepTypes ==
  ASSUME TypeOK, Next
  PROVE  TypeOK'
<1> USE RetryAssumption DEF TypeOK, Stages, Results, Return, Goto, Unless, clock, request, reply, delay
<1>1. CASE Reject
  BY <1>1 DEF Reject
<1>2. CASE Prepare
  BY <1>2 DEF Prepare
<1>3. CASE LoopHead
  BY <1>3 DEF LoopHead
<1>4. CASE GrantRemaining
  <2>1. now < Budget => AttemptLimit(Budget - now) \in Nat
    BY LimitFacts
  <2> QED
    BY <1>4, <2>1 DEF GrantRemaining
<1>5. CASE EnterTransport
  BY <1>5 DEF EnterTransport
<1>6. CASE Send
  BY <1>6 DEF Send
<1>7. ASSUME NEW o \in Outcomes, Take(o), pc \in {"connecting", "waiting"} PROVE TypeOK'
  <2>1. answers' \in Seq({"accepted", "again", "final"})
    BY <1>7, OutcomeFacts DEF Take
  <2>2. earliest' \in Nat
    BY <1>7, OutcomeFacts DEF Take
  <2> QED
    BY <1>7, <2>1, <2>2 DEF Take
<1>8. CASE RefuseEndpoint
  BY <1>7, <1>8, FailuresAreOutcomes DEF RefuseEndpoint
<1>9. CASE Answer \/ TimeOut
  BY <1>7, <1>9, FailuresAreOutcomes DEF Answer, TimeOut
<1>10. CASE LookAtToken
  BY <1>10 DEF LookAtToken
<1>11. CASE Judge
  BY <1>11 DEF Judge, JudgeBy
<1>12. CASE GrantDelay
  BY <1>12, OutcomeFacts DEF GrantDelay
<1>13. CASE DelayEnds
  BY <1>13 DEF DelayEnds, AfterDelay
<1>14. CASE Sleep
  BY <1>14 DEF Sleep, Smaller
<1>15. CASE Wake
  BY <1>15 DEF Wake, WakeWith, Smaller
<1>16. CASE Validate
  BY <1>16 DEF Validate
<1>17. CASE Cancel
  BY <1>17 DEF Cancel
<1>18. CASE Tick
  BY <1>18 DEF Tick
<1> QED
  BY <1>1, <1>2, <1>3, <1>4, <1>5, <1>6, <1>8, <1>9, <1>10, <1>11, <1>12, <1>13, <1>14, <1>15,
     <1>16, <1>17, <1>18 DEF Next, CallStep

-----------------------------------------------------------------------------
CountInv == TypeOK /\ Counted /\ RetriesAreJustified

LEMMA StepCounts ==
  ASSUME CountInv, Next
  PROVE  Counted' /\ RetriesAreJustified'
<1>1. CASE UNCHANGED <<answers, answer, attempts>>
  <2> USE <1>1, RetryAssumption DEF CountInv, TypeOK, Counted, RetriesAreJustified, Asking, Judging,
         Return, Goto, Unless, clock, request, reply, delay, Stages, Class
  <2>1. CASE Reject \/ Prepare \/ LoopHead \/ GrantRemaining \/ EnterTransport \/ Send
    BY <2>1 DEF Reject, Prepare, LoopHead, GrantRemaining, EnterTransport, Send
  <2>2. CASE LookAtToken
    BY <2>2 DEF LookAtToken
  <2>3. CASE Judge
    BY <2>3 DEF Judge, JudgeBy
  <2>4. CASE GrantDelay \/ DelayEnds \/ Sleep \/ Wake
    BY <2>4 DEF GrantDelay, DelayEnds, AfterDelay, Sleep, Wake, WakeWith
  <2>5. CASE Validate
    BY <2>5 DEF Validate
  <2>6. CASE Cancel \/ Tick
    BY <2>6 DEF Cancel, Tick
  <2>7. ASSUME NEW o \in Outcomes, Take(o) PROVE FALSE
    BY <2>7, OutcomeFacts DEF Take
  <2>8. ~RefuseEndpoint /\ ~Answer /\ ~TimeOut
    BY <2>7, FailuresAreOutcomes DEF RefuseEndpoint, Answer, TimeOut
  <2> QED
    BY <2>1, <2>2, <2>3, <2>4, <2>5, <2>6, <2>8 DEF Next, CallStep
<1>2. CASE Judge
  <2> USE <1>2, RetryAssumption DEF CountInv, TypeOK, Counted, RetriesAreJustified, Asking, Judging,
         Return, Goto, clock, request, reply, delay, Stages
  <2>1. Judge
    BY <1>2
  <2> QED
    BY <2>1 DEF Judge, JudgeBy, Class
<1>3. ASSUME NEW o \in Outcomes, Take(o), pc \in {"connecting", "waiting"}
      PROVE  Counted' /\ RetriesAreJustified'
  <2>1. /\ answers' = Append(answers, Class(o)) /\ answer' = o /\ pc' = "answered"
        /\ attempts' = attempts /\ result' = result
    BY <1>3 DEF Take, Goto, request
  <2>2. /\ answers \in Seq({"accepted", "again", "final"}) /\ attempts \in 0..MaxRetries
        /\ Len(answers) = attempts /\ \A i \in 1..Len(answers) : answers[i] = "again"
        /\ result = "none"
    BY <1>3 DEF CountInv, TypeOK, Counted, Asking
  <2>3. /\ Len(answers') = attempts + 1 /\ answers'[attempts + 1] = Class(o)
        /\ \A i \in 1..attempts : answers'[i] = "again"
    BY <2>1, <2>2, OutcomeFacts
  <2> QED
    BY <2>1, <2>2, <2>3, RetryAssumption DEF Counted, RetriesAreJustified, Asking, Judging
<1>4. CASE RefuseEndpoint \/ Answer \/ TimeOut
  BY <1>3, <1>4, FailuresAreOutcomes DEF RefuseEndpoint, Answer, TimeOut
<1>5. ~(RefuseEndpoint \/ Answer \/ TimeOut \/ Judge) => UNCHANGED <<answers, answer, attempts>>
  BY DEF Next, CallStep, Reject, Prepare, LoopHead, GrantRemaining, EnterTransport, Send, LookAtToken,
         GrantDelay, DelayEnds, AfterDelay, Sleep, Wake, WakeWith, Validate, Cancel, Tick, request, reply
<1> QED
  BY <1>1, <1>2, <1>4, <1>5

LEMMA CountInductive == Spec => []CountInv
<1>1. Init => CountInv
  <2> SUFFICES ASSUME Init PROVE CountInv
    OBVIOUS
  <2>1. pc = "start" /\ attempts = 0 /\ answers = <<>> /\ result = "none"
    BY DEF Init
  <2>2. Counted
    BY <2>1 DEF Counted, Judging
  <2>3. RetriesAreJustified
    BY <2>1, RetryAssumption DEF RetriesAreJustified
  <2> QED
    BY <2>2, <2>3, InitTypes DEF CountInv
<1>2. CountInv /\ [Next]_vars => CountInv'
  <2>1. CASE UNCHANGED vars
    BY <2>1 DEF vars, clock, request, reply, delay, CountInv, TypeOK, Counted, RetriesAreJustified
  <2>2. ASSUME CountInv, Next PROVE CountInv'
    BY <2>2, StepTypes, StepCounts DEF CountInv
  <2> QED
    BY <2>1, <2>2
<1> QED
  BY <1>1, <1>2, PTL DEF Spec

\* A request is repeated only for what is explicitly retryable, at most MaxRetries
\* times, and nothing but an accepted answer is a result (send_with_retry).
THEOREM OnlyJustifiedRetries == Spec => []RetriesAreJustified
<1>1. CountInv => RetriesAreJustified
  BY DEF CountInv
<1> QED
  BY <1>1, CountInductive, PTL

-----------------------------------------------------------------------------

\* Every step leaves the rest of the attempt, or of the delay, in time.
LEMMA StepInTime ==
  ASSUME TypeOK, Timed, DeadlineIsKept, Next
  PROVE  Timed' /\ DeadlineIsKept'
<1> USE RetryAssumption DEF TypeOK, Stages, Timed, DeadlineIsKept, Judging,
       Return, Goto, Unless, clock, request, reply, delay
<1>1. CASE Reject
  BY <1>1 DEF Reject
<1>2. CASE Prepare
  BY <1>2 DEF Prepare
<1>3. CASE LoopHead
  BY <1>3 DEF LoopHead
<1>4. CASE EnterTransport
  BY <1>4 DEF EnterTransport
<1>5. CASE Send
  BY <1>5 DEF Send
<1>6. CASE LookAtToken
  BY <1>6 DEF LookAtToken
<1>7. CASE Judge
  BY <1>7 DEF Judge, JudgeBy
<1>8. CASE GrantDelay
  BY <1>8, OutcomeFacts DEF GrantDelay
<1>9. CASE DelayEnds
  BY <1>9 DEF DelayEnds, AfterDelay
<1>10. CASE Sleep
  BY <1>10 DEF Sleep, Smaller
<1>11. CASE Wake
  BY <1>11 DEF Wake, WakeWith, Smaller
<1>12. CASE Validate
  BY <1>12 DEF Validate
<1>13. CASE Cancel
  BY <1>13 DEF Cancel
<1>14. CASE Tick
  BY <1>14 DEF Tick, Asked, Smaller
<1>15. CASE GrantRemaining
  <2>1. now < Budget => AttemptLimit(Budget - now) \in Nat /\ AttemptLimit(Budget - now) < Budget - now + Ms
    BY LimitFacts
  <2> QED
    BY <1>15, <2>1 DEF GrantRemaining
<1>16. ASSUME NEW o \in Outcomes, Take(o), pc \in {"connecting", "waiting"}
      PROVE  Timed' /\ DeadlineIsKept'
  BY <1>16, OutcomeFacts DEF Take
<1>17. CASE RefuseEndpoint \/ Answer \/ TimeOut
  BY <1>16, <1>17, FailuresAreOutcomes DEF RefuseEndpoint, Answer, TimeOut
<1> QED
  BY <1>1, <1>2, <1>3, <1>4, <1>5, <1>6, <1>7, <1>8, <1>9, <1>10, <1>11, <1>12, <1>13, <1>14,
     <1>15, <1>17 DEF Next, CallStep


\* Every step leaves enough of the delay.
LEMMA StepWaits ==
  ASSUME TypeOK, Waited, DelayIsKept, Next
  PROVE  Waited' /\ DelayIsKept'
<1> USE RetryAssumption DEF TypeOK, Stages, Waited, DelayIsKept, Judging,
       Return, Goto, Unless, clock, request, reply, delay
<1>1. CASE Reject
  BY <1>1 DEF Reject
<1>2. CASE Prepare
  BY <1>2 DEF Prepare
<1>3. CASE LoopHead
  BY <1>3 DEF LoopHead
<1>4. CASE EnterTransport
  BY <1>4 DEF EnterTransport
<1>5. CASE Send
  BY <1>5 DEF Send
<1>6. CASE LookAtToken
  BY <1>6 DEF LookAtToken
<1>7. CASE Judge
  BY <1>7 DEF Judge, JudgeBy
<1>8. CASE GrantDelay
  BY <1>8, OutcomeFacts DEF GrantDelay
<1>9. CASE DelayEnds
  BY <1>9 DEF DelayEnds, AfterDelay
<1>10. CASE Sleep
  BY <1>10 DEF Sleep, Smaller
<1>11. CASE Wake
  BY <1>11 DEF Wake, WakeWith, Smaller
<1>12. CASE Validate
  BY <1>12 DEF Validate
<1>13. CASE Cancel
  BY <1>13 DEF Cancel
<1>14. CASE Tick
  BY <1>14, OutcomeFacts DEF Tick, Asked
<1>15. CASE GrantRemaining
  <2>1. now < Budget => AttemptLimit(Budget - now) \in Nat /\ AttemptLimit(Budget - now) < Budget - now + Ms
    BY LimitFacts
  <2> QED
    BY <1>15, <2>1 DEF GrantRemaining
<1>16. ASSUME NEW o \in Outcomes, Take(o), pc \in {"connecting", "waiting"}
      PROVE  Waited' /\ DelayIsKept'
  BY <1>16, OutcomeFacts DEF Take
<1>17. CASE RefuseEndpoint \/ Answer \/ TimeOut
  BY <1>16, <1>17, FailuresAreOutcomes DEF RefuseEndpoint, Answer, TimeOut
<1> QED
  BY <1>1, <1>2, <1>3, <1>4, <1>5, <1>6, <1>7, <1>8, <1>9, <1>10, <1>11, <1>12, <1>13, <1>14,
     <1>15, <1>17 DEF Next, CallStep


\* Every step leaves the cancellation to the next look.
LEMMA StepObserves ==
  ASSUME TypeOK, Observed, CancellationIsObserved, Next
  PROVE  Observed' /\ CancellationIsObserved'
<1> USE RetryAssumption DEF TypeOK, Stages, Observed, CancellationIsObserved, Judging,
       Return, Goto, Unless, clock, request, reply, delay
<1>1. CASE Reject
  BY <1>1 DEF Reject
<1>2. CASE Prepare
  BY <1>2 DEF Prepare
<1>3. CASE LoopHead
  BY <1>3 DEF LoopHead
<1>4. CASE EnterTransport
  BY <1>4 DEF EnterTransport
<1>5. CASE Send
  BY <1>5 DEF Send
<1>6. CASE LookAtToken
  BY <1>6 DEF LookAtToken
<1>7. CASE Judge
  BY <1>7 DEF Judge, JudgeBy
<1>8. CASE GrantDelay
  BY <1>8, OutcomeFacts DEF GrantDelay
<1>9. CASE DelayEnds
  BY <1>9 DEF DelayEnds, AfterDelay
<1>10. CASE Sleep
  BY <1>10 DEF Sleep, Smaller
<1>11. CASE Wake
  BY <1>11 DEF Wake, WakeWith, Smaller
<1>12. CASE Validate
  BY <1>12 DEF Validate
<1>13. CASE Cancel
  BY <1>13 DEF Cancel
<1>14. CASE Tick
  BY <1>14 DEF Tick, Asked
<1>15. CASE GrantRemaining
  <2>1. now < Budget => AttemptLimit(Budget - now) \in Nat /\ AttemptLimit(Budget - now) < Budget - now + Ms
    BY LimitFacts
  <2> QED
    BY <1>15, <2>1 DEF GrantRemaining
<1>16. ASSUME NEW o \in Outcomes, Take(o), pc \in {"connecting", "waiting"}
      PROVE  Observed' /\ CancellationIsObserved'
  BY <1>16, OutcomeFacts DEF Take
<1>17. CASE RefuseEndpoint \/ Answer \/ TimeOut
  BY <1>16, <1>17, FailuresAreOutcomes DEF RefuseEndpoint, Answer, TimeOut
<1> QED
  BY <1>1, <1>2, <1>3, <1>4, <1>5, <1>6, <1>7, <1>8, <1>9, <1>10, <1>11, <1>12, <1>13, <1>14,
     <1>15, <1>17 DEF Next, CallStep

CallInv ==
    /\ TypeOK
    /\ Timed /\ DeadlineIsKept
    /\ Waited /\ DelayIsKept
    /\ Observed /\ CancellationIsObserved

LEMMA CallInductive == Spec => []CallInv
<1>1. Init => CallInv
  <2> SUFFICES ASSUME Init PROVE CallInv
    OBVIOUS
  <2>1. /\ now = 0 /\ drift = 0 /\ earliest = 0 /\ late = 0 /\ token = FALSE
        /\ pc = "start" /\ result = "none"
    BY DEF Init
  <2>2. Timed /\ DeadlineIsKept
    BY <2>1, RetryAssumption DEF Timed, DeadlineIsKept, Judging
  <2>3. Waited /\ DelayIsKept
    BY <2>1 DEF Waited, DelayIsKept, Judging
  <2>4. Observed /\ CancellationIsObserved
    BY <2>1 DEF Observed, CancellationIsObserved
  <2> QED
    BY <2>2, <2>3, <2>4, InitTypes DEF CallInv
<1>2. CallInv /\ [Next]_vars => CallInv'
  <2>1. CASE UNCHANGED vars
    BY <2>1 DEF vars, clock, request, reply, delay, CallInv, TypeOK, Timed, DeadlineIsKept,
           Waited, DelayIsKept, Observed, CancellationIsObserved, Delay
  <2>2. ASSUME CallInv, Next PROVE CallInv'
    BY <2>2, StepTypes, StepInTime, StepWaits, StepObserves DEF CallInv
  <2> QED
    BY <2>1, <2>2
<1> QED
  BY <1>1, <1>2, PTL DEF Spec

\* Every cell of the call keeps its type, and a delay is never cut below zero.
THEOREM CellsKeepTheirTypes == Spec => []TypeOK
<1>1. CallInv => TypeOK
  BY DEF CallInv
<1> QED
  BY <1>1, CallInductive, PTL

\* The configured timeout bounds the whole call, but for drift and for less than a
\* millisecond (send_with_retry).
THEOREM CallIsInTime == Spec => []DeadlineIsKept
<1>1. CallInv => DeadlineIsKept
  BY DEF CallInv
<1> QED
  BY <1>1, CallInductive, PTL

\* The provider is not asked again before the delay it asked for is over.
THEOREM DelaysAreKept == Spec => []DelayIsKept
<1>1. CallInv => DelayIsKept
  BY DEF CallInv
<1> QED
  BY <1>1, CallInductive, PTL

\* A cancelled call sends at most the request that was past its last look, never
\* uses the answer, and sleeps at most one slice more.
THEOREM CancellationsAreObserved == Spec => []CancellationIsObserved
<1>1. CallInv => CancellationIsObserved
  BY DEF CallInv
<1> QED
  BY <1>1, CallInductive, PTL
=============================================================================
