----------------------------- MODULE JobScheduler -----------------------------
(***************************************************************************)
(* The job scheduler of the language bindings: the clients of one process, *)
(* each with its bounded queue and its worker threads, the projects they   *)
(* have reserved, and the record every job shares with its caller.         *)
(*                                                                         *)
(* A step is what a thread does under one lock: a submitting caller, a     *)
(* worker, or a caller that cancels a job or reads its events.  What a job *)
(* works on is left out but for what its control sees of it: progress,     *)
(* checks of the cancellation token, the announcement of the publication.  *)
(***************************************************************************)
EXTENDS Naturals, Sequences, FiniteSets

CONSTANTS
    Jobs,            \* jobs, each submitted at most once
    Schedulers,      \* one per client object
    WorkersOf,       \* [Schedulers -> number of worker threads]
    Projects,        \* canonical project paths
    Kinds,           \* kinds of jobs that are submitted
    None,
    MaxQueuedJobs,   \* room in a scheduler's channel
    MaxEventQueue,   \* progress events a job keeps
    Watched,         \* bound of the instance: jobs whose caller reads events
    MaxSequence      \* bound of the instance: events a job's work and its caller cause

VARIABLES
    job,             \* what the caller asked for
    record,          \* the job's JobRecord
    sequence,        \* the job's next_sequence
    cancelled,       \* the job's cancellation token
    reservations,    \* PROJECT_RESERVATIONS of the process
    queue,           \* the channel of each scheduler
    dropped,         \* schedulers whose last client is gone
    stage,           \* where the job's work item is
    outcome,         \* what its thread will finish it with
    answers,         \* history: what cancel() has answered
    seen             \* history: the newest event the caller has taken

vars == <<job, record, sequence, cancelled, reservations, queue, dropped,
          stage, outcome, answers, seen>>

-----------------------------------------------------------------------------
\* Reading jobs reserve nothing; only a compilation publishes.
Requests == [scheduler : Schedulers, project : Projects, kind : Kinds]

Terminal == {"completed", "failed", "cancelled"}
States == {"queued", "running", "cancelling", "publishing"} \cup Terminal
Events == [sequence : Nat, state : States]
Records == [state : States, barrier : BOOLEAN, events : Seq(Events), result : Terminal \cup {None}]

\* Before a thread of the scheduler has the item; while its work runs; after.
Stages == {"new", "reserved", "refused", "unreserved",
           "queued", "taken", "working", "entering", "publishing",
           "returned", "releasing", "finishing", "done"}
Busy == {"taken", "working", "entering", "publishing", "returned", "releasing", "finishing"}
Executing == {"working", "entering", "publishing", "returned"}

ASSUME SchedulerAssumption ==
    /\ WorkersOf \in [Schedulers -> Nat \ {0}]
    /\ MaxQueuedJobs \in Nat \ {0} /\ MaxEventQueue \in Nat \ {0} /\ MaxSequence \in Nat
    /\ Watched \subseteq Jobs
    /\ Kinds \subseteq {"read", "mutate", "compile"}
    /\ None \notin Terminal \cup Requests

Reserves(j) == job[j].kind # "read"

\* Variant: a full queue drops the new event.
PushDropsNewest(events, event, terminal) ==
    IF Len(events) = MaxEventQueue THEN events ELSE Append(events, event)

\* A full queue loses its oldest event to the terminal one, and its newest to
\* any other.
PushBounded(events, event, terminal) ==
    IF Len(events) < MaxEventQueue THEN Append(events, event)
    ELSE IF terminal THEN Append(Tail(events), event)
    ELSE [events EXCEPT ![Len(events)] = event]

\* The job enters a state (or stays in it) and says so in a numbered event.
Enter(j, state) ==
    /\ record' = [record EXCEPT ![j].state = state,
                     ![j].events = PushBounded(@, [sequence |-> sequence[j], state |-> state], FALSE)]
    /\ sequence' = [sequence EXCEPT ![j] = @ + 1]

NewRecord == [state |-> "queued", barrier |-> FALSE,
              events |-> <<[sequence |-> 0, state |-> "queued"]>>, result |-> None]

MoveTo(j, s) == stage' = [stage EXCEPT ![j] = s]
Decide(j, o) == outcome' = [outcome EXCEPT ![j] = o]

Init ==
    /\ job = [j \in Jobs |-> None]
    /\ record = [j \in Jobs |-> NewRecord]
    /\ sequence = [j \in Jobs |-> 1]
    /\ cancelled = [j \in Jobs |-> FALSE]
    /\ reservations = {}
    /\ queue = [s \in Schedulers |-> <<>>]
    /\ dropped = {}
    /\ stage = [j \in Jobs |-> "new"]
    /\ outcome = [j \in Jobs |-> None]
    /\ answers = [j \in Jobs |-> {}]
    /\ seen = [j \in Jobs |-> None]

-----------------------------------------------------------------------------
(* Submission: reserve the project, then offer the item to the channel. *)

\* Variant: a client knows the reservations of its own jobs only.
TakenFromOwnClient(request) ==
    \E i \in Jobs :
        /\ stage[i] \notin {"new", "unreserved", "finishing", "done"}
        /\ job[i].scheduler = request.scheduler /\ job[i].project = request.project
        /\ Reserves(i)

ProjectTaken(request) == request.project \in reservations

Reserve(j) ==
    /\ stage[j] = "new"
    /\ \E request \in Requests :
          /\ request.scheduler \notin dropped
          /\ request.kind # "read" => ~ProjectTaken(request)
          /\ job' = [job EXCEPT ![j] = request]
          /\ reservations' = IF request.kind = "read" THEN reservations
                             ELSE reservations \cup {request.project}
    /\ MoveTo(j, "reserved")
    /\ UNCHANGED <<record, sequence, cancelled, queue, dropped, outcome, answers, seen>>

\* PROJECT_BUSY: the caller gets a job that has failed.
RefuseBusy(j) ==
    /\ stage[j] = "new"
    /\ \E request \in Requests :
          /\ request.scheduler \notin dropped
          /\ request.kind # "read" /\ ProjectTaken(request)
          /\ job' = [job EXCEPT ![j] = request]
    /\ Decide(j, "failed")
    /\ MoveTo(j, "unreserved")
    /\ UNCHANGED <<record, sequence, cancelled, reservations, queue, dropped, answers, seen>>

\* The channel takes the item or is full: try_send never waits.
Send(j) ==
    LET s == job[j].scheduler IN
    /\ stage[j] = "reserved"
    /\ IF Len(queue[s]) < MaxQueuedJobs
       THEN /\ queue' = [queue EXCEPT ![s] = Append(@, j)]
            /\ MoveTo(j, "queued")
            /\ UNCHANGED outcome
       ELSE /\ Decide(j, "failed")
            /\ MoveTo(j, "refused")
            /\ UNCHANGED queue
    /\ UNCHANGED <<job, record, sequence, cancelled, reservations, dropped, answers, seen>>

\* The last client object of a scheduler goes away, at no time inside submit.
DropScheduler(s) ==
    /\ s \notin dropped
    /\ \A j \in Jobs : stage[j] \in {"reserved", "refused", "unreserved"} => job[j].scheduler # s
    /\ dropped' = dropped \cup {s}
    /\ UNCHANGED <<job, record, sequence, cancelled, reservations, queue, stage, outcome, answers, seen>>

-----------------------------------------------------------------------------
(* The worker loop. *)

WorkersBusy(s) == {j \in Jobs : stage[j] \in Busy /\ job[j].scheduler = s}

\* Variant: a worker stops with its client and leaves what is queued.
ReceiveWhileOpen(s) ==
    /\ s \notin dropped
    /\ queue[s] # <<>>
    /\ Cardinality(WorkersBusy(s)) < WorkersOf[s]
    /\ queue' = [queue EXCEPT ![s] = Tail(@)]
    /\ MoveTo(Head(queue[s]), "taken")
    /\ UNCHANGED <<job, record, sequence, cancelled, reservations, dropped, outcome, answers, seen>>

\* An idle worker takes the oldest item, also after the scheduler is dropped.
Receive(s) ==
    /\ queue[s] # <<>>
    /\ Cardinality(WorkersBusy(s)) < WorkersOf[s]
    /\ queue' = [queue EXCEPT ![s] = Tail(@)]
    /\ MoveTo(Head(queue[s]), "taken")
    /\ UNCHANGED <<job, record, sequence, cancelled, reservations, dropped, outcome, answers, seen>>

Begin(j) ==
    /\ stage[j] = "taken"
    /\ IF cancelled[j]
       THEN /\ Decide(j, "cancelled")
            /\ MoveTo(j, "releasing")
            /\ UNCHANGED <<record, sequence>>
       ELSE /\ Enter(j, "running")
            /\ MoveTo(j, "working")
            /\ UNCHANGED outcome
    /\ UNCHANGED <<job, cancelled, reservations, queue, dropped, answers, seen>>

\* The state a progress event of another phase than the publication reports.
ObservedState(j) ==
    IF record[j].barrier THEN "publishing"
    ELSE IF record[j].state = "cancelling" THEN "cancelling" ELSE "running"

Observe(j) ==
    /\ stage[j] \in {"working", "publishing"}
    /\ sequence[j] < MaxSequence
    /\ Enter(j, ObservedState(j))
    /\ UNCHANGED <<job, cancelled, reservations, queue, dropped, stage, outcome, answers, seen>>

\* ensure_not_cancelled(), where the work looks.
HonorCancellation(j) ==
    /\ stage[j] = "working"
    /\ cancelled[j]
    /\ Decide(j, "cancelled")
    /\ MoveTo(j, "returned")
    /\ UNCHANGED <<job, record, sequence, cancelled, reservations, queue, dropped, answers, seen>>

\* The last look of a compilation before it announces that it publishes.
PassLastCheck(j) ==
    /\ stage[j] = "working"
    /\ job[j].kind = "compile"
    /\ ~cancelled[j]
    /\ MoveTo(j, "entering")
    /\ UNCHANGED <<job, record, sequence, cancelled, reservations, queue, dropped, outcome, answers, seen>>

ObservePublishing(j) ==
    /\ stage[j] = "entering"
    /\ record' = [record EXCEPT ![j].barrier = TRUE, ![j].state = "publishing",
           ![j].events = PushBounded(@, [sequence |-> sequence[j], state |-> "publishing"], FALSE)]
    /\ sequence' = [sequence EXCEPT ![j] = @ + 1]
    /\ MoveTo(j, "publishing")
    /\ UNCHANGED <<job, cancelled, reservations, queue, dropped, outcome, answers, seen>>

\* The work returns; a compilation succeeds only after it has published.
WorkReturns(j) ==
    /\ \/ stage[j] = "publishing" /\ \E o \in {"completed", "failed"} : Decide(j, o)
       \/ stage[j] = "working" /\ Decide(j, "failed")
       \/ stage[j] = "working" /\ job[j].kind # "compile" /\ Decide(j, "completed")
    /\ MoveTo(j, "returned")
    /\ UNCHANGED <<job, record, sequence, cancelled, reservations, queue, dropped, answers, seen>>

\* Variant: the barrier does not keep a late request from counting.
OverruleAlways(j) ==
    /\ stage[j] = "returned"
    /\ Decide(j, IF cancelled[j] THEN "cancelled" ELSE outcome[j])
    /\ MoveTo(j, "releasing")
    /\ UNCHANGED <<job, record, sequence, cancelled, reservations, queue, dropped, answers, seen>>

\* A request overrules whatever the work returned, unless it has published.
Overrule(j) ==
    /\ stage[j] = "returned"
    /\ Decide(j, IF cancelled[j] /\ ~record[j].barrier THEN "cancelled" ELSE outcome[j])
    /\ MoveTo(j, "releasing")
    /\ UNCHANGED <<job, record, sequence, cancelled, reservations, queue, dropped, answers, seen>>

\* Variant: a cancelled job keeps its project.
ReleaseUnlessCancelled(j) ==
    /\ stage[j] \in {"releasing", "refused"}
    /\ reservations' = IF Reserves(j) /\ outcome[j] # "cancelled"
                       THEN reservations \ {job[j].project} ELSE reservations
    /\ MoveTo(j, IF stage[j] = "refused" THEN "unreserved" ELSE "finishing")
    /\ UNCHANGED <<job, record, sequence, cancelled, queue, dropped, outcome, answers, seen>>

\* The project is given back before the job is seen to end.
Release(j) ==
    /\ stage[j] \in {"releasing", "refused"}
    /\ reservations' = IF Reserves(j) THEN reservations \ {job[j].project} ELSE reservations
    /\ MoveTo(j, IF stage[j] = "refused" THEN "unreserved" ELSE "finishing")
    /\ UNCHANGED <<job, record, sequence, cancelled, queue, dropped, outcome, answers, seen>>

Finish(j) ==
    /\ stage[j] \in {"finishing", "unreserved"}
    /\ record' = [record EXCEPT ![j].state = outcome[j], ![j].result = outcome[j],
           ![j].events = PushBounded(@, [sequence |-> sequence[j], state |-> outcome[j]], TRUE)]
    /\ sequence' = [sequence EXCEPT ![j] = @ + 1]
    /\ MoveTo(j, "done")
    /\ UNCHANGED <<job, cancelled, reservations, queue, dropped, outcome, answers, seen>>

-----------------------------------------------------------------------------
(* What a caller does with a job that submit has returned.  Cancelling one  *)
(* that has ended changes nothing. *)

Handed(j) == stage[j] \in Busy \cup {"queued", "done"}

Answer(j, a) == answers' = [answers EXCEPT ![j] = @ \cup {a}]

CancelRequested(j) ==
    /\ Handed(j)
    /\ record[j].state \notin Terminal \cup {"publishing"} /\ ~record[j].barrier
    /\ sequence[j] < MaxSequence
    /\ cancelled' = [cancelled EXCEPT ![j] = TRUE]
    /\ Enter(j, "cancelling")
    /\ Answer(j, "requested")
    /\ UNCHANGED <<job, reservations, queue, dropped, stage, outcome, seen>>

CancelTooLate(j) ==
    /\ Handed(j)
    /\ record[j].state \notin Terminal
    /\ record[j].state = "publishing" \/ record[j].barrier
    /\ Answer(j, "too_late")
    /\ UNCHANGED <<job, record, sequence, cancelled, reservations, queue, dropped, stage, outcome, seen>>

TakeEvents(j) ==
    /\ Handed(j) /\ j \in Watched
    /\ record[j].events # <<>>
    /\ seen' = [seen EXCEPT ![j] = record[j].events[Len(record[j].events)]]
    /\ record' = [record EXCEPT ![j].events = <<>>]
    /\ UNCHANGED <<job, sequence, cancelled, reservations, queue, dropped, stage, outcome, answers>>

-----------------------------------------------------------------------------
Submit(j) == Reserve(j) \/ RefuseBusy(j) \/ Send(j)

Work(j) ==
    \/ Begin(j) \/ Observe(j) \/ HonorCancellation(j) \/ PassLastCheck(j)
    \/ ObservePublishing(j) \/ WorkReturns(j) \/ Overrule(j) \/ Release(j) \/ Finish(j)

Call(j) ==
    CancelRequested(j) \/ CancelTooLate(j) \/ TakeEvents(j)

Next ==
    \/ \E j \in Jobs : Submit(j) \/ Work(j) \/ Call(j)
    \/ \E s \in Schedulers : Receive(s) \/ DropScheduler(s)

Spec == Init /\ [][Next]_vars

\* Threads go on, and the work of a job comes to an end.
FairSpec ==
    /\ Spec
    /\ \A s \in Schedulers : WF_vars(Receive(s))
    /\ \A j \in Jobs : WF_vars(Send(j)) /\ WF_vars(Work(j))

-----------------------------------------------------------------------------
\* The records keep their shape and their bounds: events, queued items, threads.
TypeOK ==
    /\ job \in [Jobs -> Requests \cup {None}]
    /\ record \in [Jobs -> Records]
    /\ sequence \in [Jobs -> Nat]
    /\ cancelled \in [Jobs -> BOOLEAN]
    /\ reservations \subseteq Projects
    /\ queue \in [Schedulers -> Seq(Jobs)]
    /\ dropped \subseteq Schedulers
    /\ stage \in [Jobs -> Stages]
    /\ outcome \in [Jobs -> Terminal \cup {None}]
    /\ \A j \in Jobs :
          /\ stage[j] # "new" => job[j] # None
          /\ stage[j] \in {"returned", "releasing", "finishing", "refused", "unreserved"} => outcome[j] # None
          /\ Len(record[j].events) <= MaxEventQueue
    /\ \A s \in Schedulers :
          Len(queue[s]) <= MaxQueuedJobs /\ Cardinality(WorkersBusy(s)) <= WorkersOf[s]

\* Two jobs that may change a project never work on it together, whatever
\* clients they were submitted to.
ProjectExclusive ==
    \A i, j \in Jobs :
        /\ stage[i] \in Executing /\ Reserves(i)
        /\ stage[j] \in Executing /\ Reserves(j)
        /\ job[i].project = job[j].project
        => i = j

\* A caller that sees its job end is not refused because of that job: what
\* still reserves the project is another one.
ReleasedBeforeVisible ==
    \A j \in Jobs :
        record[j].state \in Terminal /\ job[j].project \in reservations =>
            \E i \in Jobs \ {j} :
                /\ stage[i] \notin {"new", "done"}
                /\ Reserves(i)
                /\ job[i].project = job[j].project

\* Once cancel() has answered too late, the job is not reported cancelled.
TooLateIsFinal ==
    \A j \in Jobs : "too_late" \in answers[j] =>
        record[j].state \in {"publishing", "completed", "failed"}

Progress == <<"queued", "running", "cancelling", "publishing">>

\* However full its queue, a caller's newest event tells the job's state (its
\* end above all), and events come in the order they were numbered.
NewestEventTellsState ==
    \A j \in Jobs :
        LET events == record[j].events IN
        /\ \A a, b \in DOMAIN events : a < b => events[a].sequence < events[b].sequence
        /\ IF events = <<>> THEN seen[j].state = record[j].state
           ELSE /\ events[Len(events)].state = record[j].state
                /\ seen[j] # None => seen[j].sequence < events[1].sequence

\* A submitted job ends, so that waiting for its result does, even if its
\* client is dropped meanwhile.
EveryJobEnds == \A j \in Jobs : stage[j] = "queued" ~> record[j].result # None
=============================================================================
