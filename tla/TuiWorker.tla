------------------------------ MODULE TuiWorker ------------------------------
(***************************************************************************)
(* The terminal UI's one worker thread: a channel with room for one        *)
(* command, a bounded channel of progress events, the retained completion  *)
(* behind its mutex, and three more cells that both threads read and write *)
(* without that mutex (the active flag, the publication barrier and the    *)
(* cancellation slot).                                                     *)
(*                                                                         *)
(* A step is one access of a thread to one of them.  The UI thread is the  *)
(* event loop of the terminal application: it drains the worker, draws,    *)
(* and turns a key into a submission, a cancellation or the end.           *)
(***************************************************************************)
EXTENDS Naturals, Sequences

CONSTANTS
    Empty,            \* of a cell: the None of the code
    MaxEvents,        \* room in the progress channel
    MaxOperations     \* bound of the instance: operations submitted

VARIABLES
    slot,             \* the command channel: an operation, Shutdown or Empty
    events,           \* the progress channel: the operation of each event
    completion,       \* the retained Finished event
    active, barrier,  \* atomic flags
    token,            \* the cancellation slot: whose token it holds
    cancelled,        \* operations whose token is cancelled
    lock,             \* who holds the completion mutex
    thread, running,  \* where the worker is, and in which operation
    ui, busy,         \* where the UI thread is, and whether it shows an operation
    submitted,        \* operations so far
    answer            \* history: what cancel() answered last

shared == <<slot, events, completion, active, barrier, token, cancelled, lock>>
workerVars == <<shared, thread, running, ui, busy, submitted, answer>>

Operations == 1..MaxOperations
Shutdown == 0        \* the command that ends the thread

ASSUME WorkerAssumption == MaxEvents \in Nat \ {0} /\ MaxOperations \in Nat /\ Empty \notin Nat

WorkerInit ==
    /\ slot = Empty /\ events = <<>> /\ completion = Empty
    /\ active = FALSE /\ barrier = FALSE /\ token = Empty
    /\ cancelled = {} /\ lock = "free"
    /\ thread = "waiting" /\ running = Empty
    /\ ui = "idle" /\ busy = FALSE
    /\ submitted = 0 /\ answer = "none"

-----------------------------------------------------------------------------
(* The worker thread. *)

\* Variant: the channel makes its sender wait.
BlockingSend(op) == Len(events) < MaxEvents /\ events' = Append(events, op)

\* try_send: what finds the channel full is dropped.
TrySend(op) == events' = IF Len(events) < MaxEvents THEN Append(events, op) ELSE events

Receive ==
    /\ thread = "waiting"
    /\ slot # Empty
    /\ slot' = Empty
    /\ IF slot = Shutdown
       THEN thread' = "gone" /\ UNCHANGED running
       ELSE thread' = "starting" /\ running' = slot
    /\ UNCHANGED <<events, completion, active, barrier, token, cancelled, lock, ui, busy, submitted, answer>>

ResetBarrier ==
    /\ thread = "starting"
    /\ barrier' = FALSE
    /\ thread' = "working"
    /\ UNCHANGED <<slot, events, completion, active, token, cancelled, lock, running, ui, busy, submitted, answer>>

Report ==
    /\ thread \in {"working", "publishing"}
    /\ TrySend(running)
    /\ UNCHANGED <<slot, completion, active, barrier, token, cancelled, lock, thread, running, ui, busy, submitted, answer>>

\* Operations look at their token; a compilation does before it announces that
\* it publishes.
PassLastCheck ==
    /\ thread = "working"
    /\ running \notin cancelled
    /\ thread' = "entering"
    /\ UNCHANGED <<shared, running, ui, busy, submitted, answer>>

\* ChannelObserver closes the barrier before it sends the event.
CloseBarrier ==
    /\ thread = "entering"
    /\ barrier' = TRUE
    /\ thread' = "announcing"
    /\ UNCHANGED <<slot, events, completion, active, token, cancelled, lock, running, ui, busy, submitted, answer>>

Announce ==
    /\ thread = "announcing"
    /\ TrySend(running)
    /\ thread' = "publishing"
    /\ UNCHANGED <<slot, completion, active, barrier, token, cancelled, lock, running, ui, busy, submitted, answer>>

\* The operation succeeds, fails or gives up because it is cancelled.
JobReturns ==
    /\ thread \in {"working", "publishing"}
    /\ thread' = "returned"
    /\ UNCHANGED <<shared, running, ui, busy, submitted, answer>>

LockCompletion ==
    /\ thread = "returned"
    /\ lock = "free"
    /\ lock' = "worker"
    /\ thread' = "opening"
    /\ UNCHANGED <<slot, events, completion, active, barrier, token, cancelled, running, ui, busy, submitted, answer>>

\* Variant: the barrier stays closed until the next operation starts.
LeaveBarrier ==
    /\ thread = "opening"
    /\ UNCHANGED barrier
    /\ thread' = "forgetting"
    /\ UNCHANGED <<slot, events, completion, active, token, cancelled, lock, running, ui, busy, submitted, answer>>

OpenBarrier ==
    /\ thread = "opening"
    /\ barrier' = FALSE
    /\ thread' = "forgetting"
    /\ UNCHANGED <<slot, events, completion, active, token, cancelled, lock, running, ui, busy, submitted, answer>>

ForgetToken ==
    /\ thread = "forgetting"
    /\ token' = Empty
    /\ thread' = "retaining"
    /\ UNCHANGED <<slot, events, completion, active, barrier, cancelled, lock, running, ui, busy, submitted, answer>>

\* Variant: the mutex is released before the flag is cleared.
RetainAndUnlock ==
    /\ thread = "retaining"
    /\ completion' = running
    /\ lock' = "free"
    /\ thread' = "deactivating"
    /\ UNCHANGED <<slot, events, active, barrier, token, cancelled, running, ui, busy, submitted, answer>>

\* Variant: the result goes through the progress channel.
SendCompletion ==
    /\ thread = "retaining"
    /\ completion' = IF Len(events) < MaxEvents THEN running ELSE Empty
    /\ thread' = "deactivating"
    /\ UNCHANGED <<slot, events, active, barrier, token, cancelled, lock, running, ui, busy, submitted, answer>>

Retain ==
    /\ thread = "retaining"
    /\ completion' = running
    /\ thread' = "deactivating"
    /\ UNCHANGED <<slot, events, active, barrier, token, cancelled, lock, running, ui, busy, submitted, answer>>

Deactivate ==
    /\ thread = "deactivating"
    /\ active' = FALSE
    /\ lock' = "free"
    /\ thread' = "waiting"
    /\ UNCHANGED <<slot, events, completion, barrier, token, cancelled, running, ui, busy, submitted, answer>>

-----------------------------------------------------------------------------
(* The UI thread. *)

\* A key starts an operation only while none is shown; Worker::submit then
\* decides under the completion mutex.
Submit ==
    /\ ui = "idle" /\ ~busy /\ submitted < MaxOperations
    /\ lock = "free"
    /\ completion = Empty /\ ~active
    /\ active' = TRUE
    /\ token' = submitted + 1
    /\ submitted' = submitted + 1
    /\ lock' = "ui"
    /\ ui' = "sending"
    /\ UNCHANGED <<slot, events, completion, barrier, cancelled, thread, running, busy, answer>>

\* send() on the channel of one command waits for room.
SendCommand ==
    /\ ui = "sending"
    /\ slot = Empty
    /\ slot' = submitted
    /\ lock' = "free"
    /\ busy' = TRUE
    /\ ui' = "idle"
    /\ UNCHANGED <<events, completion, active, barrier, token, cancelled, thread, running, submitted, answer>>

TakeProgress ==
    /\ ui = "idle"
    /\ events # <<>>
    /\ events' = Tail(events)
    /\ UNCHANGED <<slot, completion, active, barrier, token, cancelled, lock, thread, running, ui, busy, submitted, answer>>

NoProgress ==
    /\ ui = "idle"
    /\ events = <<>>
    /\ ui' = "polling"
    /\ UNCHANGED <<shared, thread, running, busy, submitted, answer>>

TakeCompletion ==
    /\ ui = "polling"
    /\ lock = "free"
    /\ completion' = Empty
    /\ busy' = (busy /\ completion = Empty)
    /\ ui' = "idle"
    /\ UNCHANGED <<slot, events, active, barrier, token, cancelled, lock, thread, running, submitted, answer>>

CancelReadsActive ==
    /\ ui = "idle" /\ busy
    /\ answer' = IF active THEN answer ELSE "idle"
    /\ ui' = IF active THEN "cancelling" ELSE "idle"
    /\ UNCHANGED <<shared, thread, running, busy, submitted>>

CancelReadsBarrier ==
    /\ ui = "cancelling"
    /\ answer' = IF barrier THEN "publication_barrier" ELSE answer
    /\ ui' = IF barrier THEN "idle" ELSE "requesting"
    /\ UNCHANGED <<shared, thread, running, busy, submitted>>

CancelTakesToken ==
    /\ ui = "requesting"
    /\ cancelled' = cancelled \cup ({token} \ {Empty})
    /\ answer' = IF token # Empty THEN "requested" ELSE "idle"
    /\ ui' = "idle"
    /\ UNCHANGED <<slot, events, completion, active, barrier, token, lock, thread, running, busy, submitted>>

\* The loop ends by a key or a terminal error, whatever is running.
Drop ==
    /\ ui = "idle"
    /\ cancelled' = cancelled \cup ({token} \ {Empty})
    /\ ui' = "dropping"
    /\ UNCHANGED <<slot, events, completion, active, barrier, token, lock, thread, running, busy, submitted, answer>>

SendShutdown ==
    /\ ui = "dropping"
    /\ slot = Empty
    /\ slot' = Shutdown
    /\ ui' = "joining"
    /\ UNCHANGED <<events, completion, active, barrier, token, cancelled, lock, thread, running, busy, submitted, answer>>

Join ==
    /\ ui = "joining"
    /\ thread = "gone"
    /\ ui' = "gone"
    /\ UNCHANGED <<shared, thread, running, busy, submitted, answer>>

-----------------------------------------------------------------------------
WorkerStep ==
    \/ Receive \/ ResetBarrier \/ Report \/ PassLastCheck \/ CloseBarrier \/ Announce
    \/ JobReturns \/ LockCompletion \/ OpenBarrier \/ ForgetToken \/ Retain \/ Deactivate

DrainStep == TakeProgress \/ NoProgress \/ TakeCompletion

UiStep ==
    \/ Submit \/ SendCommand \/ DrainStep
    \/ CancelReadsActive \/ CancelReadsBarrier \/ CancelTakesToken
    \/ Drop \/ SendShutdown \/ Join

WorkerNext == WorkerStep \/ UiStep

WorkerSpec == WorkerInit /\ [][WorkerNext]_workerVars

\* The worker thread goes on and its operation returns; the UI thread finishes
\* the call it is in, and each pass of its loop drains the worker before it looks
\* at a key, however many keys there are.
FairSpec ==
    /\ WorkerSpec
    /\ WF_workerVars(Receive) /\ WF_workerVars(ResetBarrier) /\ WF_workerVars(JobReturns)
    /\ WF_workerVars(thread \notin {"waiting", "starting", "working", "publishing"} /\ WorkerStep)
    /\ WF_workerVars(ui # "idle" /\ UiStep)
    /\ SF_workerVars(TakeProgress) /\ SF_workerVars(NoProgress)

-----------------------------------------------------------------------------
WorkerTypeOK ==
    /\ slot \in Operations \cup {Shutdown, Empty}
    /\ events \in Seq(Operations) /\ Len(events) <= MaxEvents
    /\ completion \in Operations \cup {Empty}
    /\ active \in BOOLEAN /\ barrier \in BOOLEAN
    /\ token \in Operations \cup {Empty}
    /\ cancelled \subseteq Operations
    /\ lock \in {"free", "ui", "worker"}
    /\ thread \in {"waiting", "starting", "working", "entering", "announcing", "publishing",
                   "returned", "opening", "forgetting", "retaining", "deactivating", "gone"}
    /\ running \in Operations \cup {Empty}
    /\ ui \in {"idle", "sending", "polling", "cancelling", "requesting", "dropping", "joining", "gone"}
    /\ busy \in BOOLEAN
    /\ submitted \in 0..MaxOperations
    /\ answer \in {"none", "idle", "requested", "publication_barrier"}

\* When the UI shows no operation, the next one is accepted at once: nobody
\* holds the mutex, nothing is retained, the flag is down, the slot has room.
IdleAccepts ==
    /\ ui = "idle" /\ ~busy => lock = "free" /\ completion = Empty /\ ~active
    /\ ui = "sending" => slot = Empty

\* A cancellation is turned down for a publication only while the operation
\* that is shown publishes, never for the one before it.
BarrierIsOwn ==
    barrier => thread \in {"announcing", "publishing", "returned", "opening"}

\* The operation that is shown ends for the UI too, however full the progress
\* channel is, unless the application is left.
OperationFinishes == busy ~> (~busy \/ ui = "gone")

\* Leaving the application never hangs on the worker.
ShutdownEnds == ui = "dropping" ~> ui = "gone"
=============================================================================
