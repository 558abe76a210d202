--------------------------- MODULE Terminal_proofs ---------------------------
(***************************************************************************)
(* What the terminal application promises, in its two halves.              *)
(*                                                                         *)
(* Its worker, for any room in the progress channel and any number of      *)
(* operations: one operation is at any time in one place, the call that    *)
(* submits it, the command slot, the thread or the retained completion,    *)
(* and the UI shows it exactly that long.                                  *)
(*                                                                         *)
(* Its screens, for any projects, clusters and issues: since the last      *)
(* refresh they show what the journal has, nothing changes the journal     *)
(* between the key that starts an operation and its end, and whatever      *)
(* takes a revision off the screen takes the notes about it along.         *)
(***************************************************************************)
EXTENDS TuiWorker, TerminalReview, FiniteSetTheorems, TLAPS

(***************************************************************************)
(* The worker.                                                             *)
(***************************************************************************)

InJob == {"starting", "working", "entering", "announcing", "publishing", "returned",
          "opening", "forgetting", "retaining", "deactivating"}
InMutex == {"opening", "forgetting", "retaining", "deactivating"}
Leaving == {"joining", "gone"}

\* The cells that tell a cell's owner.
Cells ==
    /\ slot \in Operations \cup {Shutdown, Empty}
    /\ completion \in Operations \cup {Empty}
    /\ active \in BOOLEAN /\ barrier \in BOOLEAN /\ busy \in BOOLEAN
    /\ running \in Operations \cup {Empty} /\ submitted \in 0..MaxOperations
    /\ thread \in {"waiting", "gone"} \cup InJob
    /\ ui \in {"idle", "sending", "polling", "cancelling", "requesting", "dropping"} \cup Leaving
    /\ thread \in InJob => running \in Operations
    /\ ui = "sending" => submitted \in Operations

\* Who holds the completion mutex.
Mutex ==
    /\ lock \in {"free", "ui", "worker"}
    /\ lock = "worker" <=> thread \in InMutex
    /\ lock = "ui" <=> ui = "sending"

\* The operation is in one place, and the flag is up from its submission to the
\* end of the step that retains its completion.
OnePlace ==
    /\ ui = "sending" => active /\ slot = Empty /\ thread = "waiting"
    /\ slot \in Operations => active /\ thread = "waiting"
    /\ thread \in InJob => active /\ slot \notin Operations
    /\ active => ui = "sending" \/ slot \in Operations \/ thread \in InJob
    /\ completion # Empty => ~active \/ thread = "deactivating"
    /\ slot = Shutdown \/ thread = "gone" => ui \in Leaving

\* The UI shows an operation until it has taken its completion.
ShowsOperation == ~busy /\ ui # "sending" => ~active /\ completion = Empty

WorkerInv == Cells /\ Mutex /\ OnePlace /\ ShowsOperation /\ BarrierIsOwn

-----------------------------------------------------------------------------
LEMMA WorkerStepKeeps ==
  ASSUME WorkerInv, WorkerStep
  PROVE  WorkerInv'
<1> USE WorkerAssumption DEF WorkerInv, Cells, Mutex, OnePlace, ShowsOperation, BarrierIsOwn, InJob, InMutex,
       Leaving, Operations, Shutdown
<1>1. CASE Receive
  BY <1>1 DEF Receive
<1>2. CASE ResetBarrier
  BY <1>2 DEF ResetBarrier
<1>3. CASE Report
  BY <1>3 DEF Report
<1>4. CASE PassLastCheck
  BY <1>4 DEF PassLastCheck, shared
<1>5. CASE CloseBarrier
  BY <1>5 DEF CloseBarrier
<1>6. CASE Announce
  BY <1>6 DEF Announce
<1>7. CASE JobReturns
  BY <1>7 DEF JobReturns, shared
<1>8. CASE LockCompletion
  BY <1>8 DEF LockCompletion
<1>9. CASE OpenBarrier
  BY <1>9 DEF OpenBarrier
<1>10. CASE ForgetToken
  BY <1>10 DEF ForgetToken
<1>11. CASE Retain
  BY <1>11 DEF Retain
<1>12. CASE Deactivate
  BY <1>12 DEF Deactivate
<1> QED
  BY <1>1, <1>2, <1>3, <1>4, <1>5, <1>6, <1>7, <1>8, <1>9, <1>10, <1>11, <1>12 DEF WorkerStep

LEMMA UiStepKeeps ==
  ASSUME WorkerInv, UiStep
  PROVE  WorkerInv'
<1> USE WorkerAssumption DEF WorkerInv, Cells, Mutex, OnePlace, ShowsOperation, BarrierIsOwn, InJob, InMutex,
       Leaving, Operations, Shutdown
<1>1. CASE Submit
  BY <1>1 DEF Submit
<1>2. CASE SendCommand
  BY <1>2 DEF SendCommand
<1>3. CASE TakeProgress
  BY <1>3 DEF TakeProgress
<1>4. CASE NoProgress
  BY <1>4 DEF NoProgress, shared
<1>5. CASE TakeCompletion
  BY <1>5 DEF TakeCompletion
<1>6. CASE CancelReadsActive
  BY <1>6 DEF CancelReadsActive, shared
<1>7. CASE CancelReadsBarrier
  BY <1>7 DEF CancelReadsBarrier, shared
<1>8. CASE CancelTakesToken
  BY <1>8 DEF CancelTakesToken
<1>9. CASE Drop
  BY <1>9 DEF Drop
<1>10. CASE SendShutdown
  BY <1>10 DEF SendShutdown
<1>11. CASE Join
  BY <1>11 DEF Join, shared
<1> QED
  BY <1>1, <1>2, <1>3, <1>4, <1>5, <1>6, <1>7, <1>8, <1>9, <1>10, <1>11 DEF UiStep, DrainStep

\* The invariant is inductive.
LEMMA WorkerInductive == WorkerSpec => []WorkerInv
<1>1. WorkerInit => WorkerInv
  <2> SUFFICES ASSUME WorkerInit PROVE WorkerInv
    OBVIOUS
  <2>1. /\ slot = Empty /\ completion = Empty /\ active = FALSE /\ barrier = FALSE /\ busy = FALSE
        /\ lock = "free" /\ thread = "waiting" /\ running = Empty /\ ui = "idle" /\ submitted = 0
    BY DEF WorkerInit
  <2>2. Empty # Shutdown /\ Empty \notin Operations
    BY WorkerAssumption DEF Shutdown, Operations
  <2>3. Cells
    <3>1. submitted \in 0..MaxOperations
      BY <2>1, WorkerAssumption
    <3>2. active \in BOOLEAN /\ barrier \in BOOLEAN /\ busy \in BOOLEAN
      BY <2>1
    <3>3. thread \notin InJob /\ ui # "sending"
      BY <2>1 DEF InJob
    <3> QED
      BY <2>1, <3>1, <3>2, <3>3 DEF Cells
  <2>4. Mutex
    BY <2>1 DEF Mutex, InMutex
  <2>5. BarrierIsOwn
    BY <2>1 DEF BarrierIsOwn
  <2>6. OnePlace /\ ShowsOperation
    BY <2>1, <2>2 DEF OnePlace, ShowsOperation, InJob
  <2> QED
    BY <2>3, <2>4, <2>5, <2>6 DEF WorkerInv
<1>2. WorkerInv /\ [WorkerNext]_workerVars => WorkerInv'
  <2>1. CASE UNCHANGED workerVars
    BY <2>1 DEF workerVars, shared, WorkerInv, Cells, Mutex, OnePlace, ShowsOperation, BarrierIsOwn
  <2> QED
    BY <2>1, WorkerStepKeeps, UiStepKeeps DEF WorkerNext
<1> QED
  BY <1>1, <1>2, PTL DEF WorkerSpec

\* While the UI shows no operation it can start the next one, without waiting for
\* the mutex (Worker::submit), and sending the command never waits for room.
THEOREM IdleUiIsAccepted == WorkerSpec => []IdleAccepts
<1>1. WorkerInv => IdleAccepts
  BY DEF WorkerInv, Cells, Mutex, OnePlace, ShowsOperation, IdleAccepts, InJob, InMutex
<1> QED
  BY <1>1, WorkerInductive, PTL

\* cancel() never turns a request down for the publication of the operation
\* before: the barrier is closed only inside the operation that closed it.
THEOREM BarrierBelongsToItsOperation == WorkerSpec => []BarrierIsOwn
<1>1. WorkerInv => BarrierIsOwn
  BY DEF WorkerInv
<1> QED
  BY <1>1, WorkerInductive, PTL

-----------------------------------------------------------------------------
(***************************************************************************)
(* The screens.                                                            *)
(***************************************************************************)

\* The application shows an operation, and nothing is asked, while one runs.
OneAtATime ==
    /\ op # None => model # None /\ model.busy
    /\ model # None /\ model.pending # None => ~model.busy

\* A taxonomy on the screen and its clusters are those of the journal, where it has any.
ShowsJournal(q, taxonomy, clusters) ==
    /\ q.proposal # 0 => taxonomy = q.proposal
    /\ \A c \in Clusters : q.run # None /\ q.critic[c].number # 0 => clusters[c] = q.critic[c]

\* After the last refresh the screen shows the journal.
FreshShows(journals, m, isFresh) ==
    m # None /\ isFresh /\ m.project # None => ShowsJournal(journals[m.project], m.taxonomy, m.clusters)

\* What an operation was started with on a fresh screen is still what the journal has.
EffectShows(journals, e) ==
    e # None /\ e.fresh /\ e.project # None =>
        LET q == journals[e.project] IN
        /\ q.proposal # 0 => e.proposal = q.proposal
        /\ \A c \in Clusters : e.cluster = c /\ q.run # None /\ q.critic[c].number # 0 => e.revision = q.critic[c].number

ReviewInv ==
    /\ TypeOK /\ OneAtATime
    /\ FreshShows(project, model, fresh)
    /\ EffectShows(project, op)
    /\ model # None => EffectShows(project, model.pending)

\* The notes of a model are about the revision it shows.
Kept(m, n) == m.clusters = n.clusters /\ m.cursor = n.cursor /\ m.notes = n.notes
NotesFollow(m, n) == Kept(n, m) \/ n.notes = NoNotes \/ n.clusters = Nothing

-----------------------------------------------------------------------------
(* What the pieces of an action make of a model. *)

LEMMA ConstantsAreTyped ==
  /\ NoRevision \in Revision /\ Nothing \in [Clusters -> Revision] /\ NoNotes \in [Issues -> Nat]
  /\ Missing \in Journals
<1>1. NoRevision \in Revision
  BY DEF NoRevision, Revision
<1>2. Nothing \in [Clusters -> Revision]
  BY <1>1 DEF Nothing
<1>3. NoNotes \in [Issues -> Nat]
  BY DEF NoNotes
<1>4. [c \in Clusters |-> 0] \in [Clusters -> Nat]
  OBVIOUS
<1>5. Missing \in Journals
  BY <1>2, <1>4 DEF Missing, Journals
<1> QED
  BY <1>1, <1>2, <1>3, <1>5

LEMMA NewRunIsTyped ==
  ASSUME NEW q \in Journals, NEW run \in {None, Bare, Read}
  PROVE  /\ NewRun(q, run) \in Journals
         /\ NewRun(q, run).proposal = 0 /\ NewRun(q, run).approved = 0
         /\ \A c \in Clusters : NewRun(q, run).live[c] = 0 /\ NewRun(q, run).critic[c].number = 0
<1>1. Missing \in Journals
  BY ConstantsAreTyped
<1>2. q.sources \in BOOLEAN
  BY DEF Journals
<1>3. NewRun(q, run) \in Journals
  BY <1>1, <1>2 DEF NewRun, Journals
<1>4. /\ NewRun(q, run).proposal = Missing.proposal /\ NewRun(q, run).approved = Missing.approved
      /\ NewRun(q, run).critic = Missing.critic /\ NewRun(q, run).live = Missing.live
  BY <1>1 DEF NewRun, Journals
<1>5. /\ Missing.proposal = 0 /\ Missing.approved = 0 /\ Missing.critic = Nothing
      /\ Missing.live = [c \in Clusters |-> 0]
  BY DEF Missing
<1>6. \A c \in Clusters : Nothing[c].number = 0
  BY DEF Nothing, NoRevision
<1> QED
  BY <1>3, <1>4, <1>5, <1>6

\* Changing one field leaves a model a model.
LEMMA ModelFields ==
  ASSUME NEW m \in Models
  PROVE  /\ \A x \in {"ai", "any"} : [m EXCEPT !.screen = x] \in Models
         /\ \A x \in BOOLEAN : [m EXCEPT !.remote = x] \in Models
         /\ \A x \in Projects : [m EXCEPT !.project = x] \in Models
         /\ [m EXCEPT !.pending = None] \in Models
         /\ \A x \in Effects : [m EXCEPT !.pending = x] \in Models
         /\ \A x \in BOOLEAN : [m EXCEPT !.busy = x] \in Models
         /\ [m EXCEPT !.edited = TRUE] \in Models
         /\ \A x \in Boundaries : [m EXCEPT !.preflight = x] \in Models
         /\ \A x \in [Clusters -> Revision] : [m EXCEPT !.clusters = x] \in Models
         /\ \A x \in Nat : [m EXCEPT !.cursor = x] \in Models
         /\ [m EXCEPT !.notes = NoNotes] \in Models
  BY ConstantsAreTyped DEF Models

LEMMA RefreshedShows ==
  ASSUME project' \in [Projects -> Journals], boundary' \in Boundaries, NEW m \in Models
  PROVE  /\ Refreshed(m) \in Models
         /\ Refreshed(m).project = m.project /\ Refreshed(m).busy = m.busy /\ Refreshed(m).pending = m.pending
         /\ NotesFollow(m, Refreshed(m))
         /\ m.project # None => ShowsJournal(project'[m.project], Refreshed(m).taxonomy, Refreshed(m).clusters)
<1>1. CASE m.project = None
  BY <1>1 DEF Refreshed, NotesFollow, Kept
<1>2. CASE m.project # None
  <2> DEFINE q == project'[m.project]
             a == [m EXCEPT !.remote = boundary' = "remote", !.screen = Checkpoint(q)]
             b == ShowTaxonomy(a, q)
             r == ShowClusters(b, q)
  <2>1. q \in Journals
    BY <1>2 DEF Models
  <2>2. Checkpoint(q) \in {"ai", "any"}
    BY DEF Checkpoint
  <2>3. /\ a \in Models /\ a.project = m.project /\ a.busy = m.busy /\ a.pending = m.pending
        /\ Kept(a, m)
    BY <2>2 DEF Models, Kept
  <2>4. Refreshed(m) = r
    BY <1>2 DEF Refreshed
  <2> HIDE DEF a, q
  <2>5. /\ b \in Models /\ b.project = a.project /\ b.busy = a.busy /\ b.pending = a.pending
        /\ Kept(b, a) /\ (q.proposal # 0 => b.taxonomy = q.proposal)
    BY <2>1, <2>3 DEF ShowTaxonomy, Models, Journals, Kept
  <2> HIDE DEF b
  <2>6. /\ r \in Models /\ r.project = b.project /\ r.busy = b.busy /\ r.pending = b.pending
        /\ r.taxonomy = b.taxonomy /\ (Kept(r, b) \/ r.notes = NoNotes)
        /\ (q.run # None => r.clusters = q.critic)
    <3>1. CASE q.run # None /\ b.clusters # q.critic
      <4> DEFINE d == [b EXCEPT !.clusters = q.critic]
      <4>1. /\ d \in Models /\ d.project = b.project /\ d.busy = b.busy /\ d.pending = b.pending
            /\ d.taxonomy = b.taxonomy /\ d.clusters = q.critic
        BY <2>1, <2>5 DEF Models, Journals
      <4>2. r = ResetReview(d)
        BY <3>1 DEF ShowClusters
      <4> HIDE DEF d
      <4> QED
        BY <4>1, <4>2, ConstantsAreTyped DEF ResetReview, Models
    <3>2. CASE ~(q.run # None /\ b.clusters # q.critic)
      <4>1. r = b
        BY <3>2 DEF ShowClusters
      <4> QED
        BY <4>1, <3>2, <2>5 DEF Kept
    <3> QED
      BY <3>1, <3>2
  <2> HIDE DEF r
  <2>7. ShowsJournal(q, r.taxonomy, r.clusters)
    BY <2>5, <2>6 DEF ShowsJournal
  <2>8. NotesFollow(m, r)
    BY <2>3, <2>5, <2>6 DEF NotesFollow, Kept
  <2> QED
    BY <2>3, <2>4, <2>5, <2>6, <2>7, <2>8 DEF q
<1> QED
  BY <1>1, <1>2

\* A refresh that fails shows nothing new.
LEMMA RefreshShows ==
  ASSUME project' \in [Projects -> Journals], boundary' \in Boundaries, fresh \in BOOLEAN,
         NEW m \in Models, Refresh(m)
  PROVE  /\ model' \in Models /\ fresh' \in BOOLEAN
         /\ model'.project = m.project /\ model'.busy = m.busy /\ model'.pending = m.pending
         /\ NotesFollow(m, model')
         /\ FreshShows(project', model', fresh')
<1>1. CASE model' = Refreshed(m) /\ fresh' = (m.project # None \/ fresh)
  BY <1>1, RefreshedShows DEF FreshShows
<1>2. CASE m.project # None /\ model' = [m EXCEPT !.remote = boundary' = "remote"] /\ fresh' = FALSE
  <2>1. /\ model' \in Models /\ model'.project = m.project /\ model'.busy = m.busy
        /\ model'.pending = m.pending /\ Kept(model', m)
    BY <1>2 DEF Models, Kept
  <2> QED
    BY <1>2, <2>1 DEF FreshShows, NotesFollow
<1> QED
  BY <1>1, <1>2 DEF Refresh

-----------------------------------------------------------------------------
(* What the services do with a journal: what they approve was there.         *)

\* An execution approves nothing.
Executed(q, x) ==
    /\ x.q \in Journals /\ x.ok \in BOOLEAN /\ x.made \in Nat
    /\ x.q.approved \in {0, q.approved}
    /\ \A c \in Clusters : x.q.live[c] \in {0, q.live[c]}

LEMMA BegunIsTyped ==
  ASSUME NEW q \in Journals, NEW r \in Begun(q)
  PROVE  /\ r \in Journals
         /\ \/ r = q
            \/ /\ r.proposal = 0 /\ r.approved = 0
               /\ \A c \in Clusters : r.live[c] = 0 /\ r.critic[c].number = 0
  BY NewRunIsTyped DEF Begun

LEMMA CriticizedIsTyped ==
  ASSUME NEW q \in Journals, NEW upto \in Clusters, NEW count \in Nat,
         NEW s \in Criticized(q, Todo(q, upto), count)
  PROVE  s \in Journals /\ s.approved = q.approved /\ s.live = q.live
<1> DEFINE todo == Todo(q, upto)
<1>1. PICK quality \in [todo -> Qualities] :
         s = [q EXCEPT !.critic = [c \in Clusters |-> IF c \in todo
                 THEN [number |-> count + Cardinality(todo \cap 1..c), issues |-> quality[c].issues, severe |-> quality[c].severe]
                 ELSE q.critic[c]]]
  BY DEF Criticized
<1> DEFINE critic == [c \in Clusters |-> IF c \in todo
                 THEN [number |-> count + Cardinality(todo \cap 1..c), issues |-> quality[c].issues, severe |-> quality[c].severe]
                 ELSE q.critic[c]]
<1>2. ASSUME NEW c \in Clusters PROVE critic[c] \in Revision
  <2>1. CASE c \in todo
    <3>1. Cardinality(todo \cap 1..c) \in Nat
      <4>1. IsFiniteSet(1..c)
        BY FS_Interval DEF Clusters
      <4> QED
        BY <4>1, FS_Subset, FS_CardinalityType
    <3>2. quality[c].issues \in SUBSET Issues /\ quality[c].severe \in BOOLEAN
      <4>1. quality[c] \in Qualities
        BY <2>1
      <4>2. CASE quality[c] = [issues |-> {}, severe |-> TRUE]
        BY <4>2
      <4>3. CASE quality[c] \in [issues : SUBSET Issues, severe : {FALSE}]
        BY <4>3
      <4> QED
        BY <4>1, <4>2, <4>3 DEF Qualities
    <3>3. count + Cardinality(todo \cap 1..c) \in Nat
      BY <3>1
    <3> HIDE DEF todo
    <3> QED
      BY <2>1, <3>2, <3>3 DEF Revision
  <2>2. CASE c \notin todo
    BY <2>2 DEF Journals
  <2> QED
    BY <2>1, <2>2
<1>3. critic \in [Clusters -> Revision]
  BY <1>2
<1>4. s = [q EXCEPT !.critic = critic]
  BY <1>1
<1> HIDE DEF critic
<1> QED
  BY <1>3, <1>4 DEF Journals

LEMMA ExecuteRunApprovesNothing ==
  ASSUME NEW r \in Journals, NEW allow, NEW count \in Nat, NEW x \in ExecuteRun(r, allow, count)
  PROVE  Executed(r, x)
<1> DEFINE mayAsk == boundary = "local" \/ (boundary = "remote" /\ allow)
<1>1. CASE x = Result(r, FALSE, count)
  <2>1. x.q = r /\ x.ok = FALSE /\ x.made = count
    BY <1>1 DEF Result
  <2> QED
    BY <2>1 DEF Executed
<1>2. CASE \E ok \in BOOLEAN : x = Result([r EXCEPT !.proposal = count + 1], ok, count + 1)
  <2>1. PICK ok \in BOOLEAN : x = Result([r EXCEPT !.proposal = count + 1], ok, count + 1)
    BY <1>2
  <2>2. /\ [r EXCEPT !.proposal = count + 1] \in Journals
        /\ [r EXCEPT !.proposal = count + 1].approved = r.approved
        /\ [r EXCEPT !.proposal = count + 1].live = r.live
    BY DEF Journals
  <2>3. /\ x.q = [r EXCEPT !.proposal = count + 1]
        /\ x.ok = ok /\ x.made = count + 1
    BY <2>1 DEF Result
  <2>4. x.ok \in BOOLEAN /\ x.made \in Nat
    BY <2>3
  <2> QED
    BY <2>2, <2>3, <2>4 DEF Executed
<1>3. CASE \E ok \in BOOLEAN : x = Result(r, ok, count)
  <2>1. PICK ok \in BOOLEAN : x = Result(r, ok, count)
    BY <1>3
  <2>2. x.q = r /\ x.ok = ok /\ x.made = count
    BY <2>1 DEF Result
  <2> QED
    BY <2>2 DEF Executed
<1>4. CASE \E upto \in Clusters : \E s \in Criticized(r, Todo(r, upto), count) :
             x = Result(s, upto = NumClusters, count + Cardinality(Todo(r, upto)))
  <2>0. PICK upto \in Clusters : \E s \in Criticized(r, Todo(r, upto), count) :
             x = Result(s, upto = NumClusters, count + Cardinality(Todo(r, upto)))
    BY <1>4
  <2>1. PICK s \in Criticized(r, Todo(r, upto), count) :
             x = Result(s, upto = NumClusters, count + Cardinality(Todo(r, upto)))
    BY <2>0
  <2>2. Cardinality(Todo(r, upto)) \in Nat
    <3>1. IsFiniteSet(1..upto) /\ Todo(r, upto) \subseteq 1..upto
      BY FS_Interval DEF Clusters, Todo
    <3> QED
      BY <3>1, FS_Subset, FS_CardinalityType
  <2>3. s \in Journals /\ s.approved = r.approved /\ s.live = r.live
    BY CriticizedIsTyped
  <2>4. /\ x.q = s /\ x.ok = (upto = NumClusters)
        /\ x.made = count + Cardinality(Todo(r, upto))
    BY <2>1 DEF Result
  <2>5. x.ok \in BOOLEAN /\ x.made \in Nat
    BY <2>2, <2>4
  <2> QED
    BY <2>3, <2>4, <2>5 DEF Executed
<1>5. CASE x \in {Result([r EXCEPT !.proposal = count + 1], ok, count + 1)
                   : ok \in {b \in BOOLEAN : mayAsk /\ r.proposal = 0}}
  BY <1>2, <1>5
<1>6. CASE x \in {Result(r, ok, count) : ok \in {b \in {TRUE} : r.proposal # 0 /\ r.approved = 0}}
  <2>1. x = Result(r, TRUE, count)
    BY <1>6
  <2> QED
    BY <1>3, <2>1
<1> DEFINE stages == {c \in Clusters : r.approved # 0 /\ (mayAsk \/ Todo(r, c) = {})}
           stage(upto) == {Result(s, upto = NumClusters, count + Cardinality(Todo(r, upto))) : s \in Criticized(r, Todo(r, upto), count)}
<1>7. CASE x \in UNION {stage(upto) : upto \in stages}
  <2>1. PICK upto \in stages : x \in stage(upto)
    BY <1>7
  <2> QED
    BY <1>4, <2>1
<1>8. ExecuteRun(r, allow, count) =
        {Result(r, FALSE, count)}
        \cup {Result([r EXCEPT !.proposal = count + 1], ok, count + 1)
              : ok \in {b \in BOOLEAN : mayAsk /\ r.proposal = 0}}
        \cup {Result(r, ok, count) : ok \in {b \in {TRUE} : r.proposal # 0 /\ r.approved = 0}}
        \cup UNION {stage(upto) : upto \in stages}
  BY DEF ExecuteRun
<1> QED
  BY <1>1, <1>5, <1>6, <1>7, <1>8

LEMMA ExecuteApprovesNothing ==
  ASSUME NEW q \in Journals, NEW allow, NEW count \in Nat, NEW x \in Execute(q, allow, count)
  PROVE  Executed(q, x)
<1>1. CASE x = Result(q, FALSE, count)
  <2>1. x.q = q /\ x.ok = FALSE /\ x.made = count
    BY <1>1 DEF Result
  <2> QED
    BY <2>1 DEF Executed
<1>2. CASE \E r \in Begun(q) : x \in ExecuteRun(r, allow, count)
  <2>1. PICK r \in Begun(q) : x \in ExecuteRun(r, allow, count)
    BY <1>2
  <2>2. r \in Journals /\ (r = q \/ (r.approved = 0 /\ \A c \in Clusters : r.live[c] = 0))
    BY BegunIsTyped
  <2>3. Executed(r, x)
    BY <2>1, <2>2, ExecuteRunApprovesNothing
  <2> QED
    BY <2>2, <2>3 DEF Executed
<1> QED
  BY <1>1, <1>2 DEF Execute

\* What an operation on the journal q may leave: a taxonomy is approved only if q
\* has a proposal, and of a cluster the revision that q has.
Approves(q, x) ==
    /\ x.q \in Journals /\ x.ok \in BOOLEAN /\ x.made \in Nat
    /\ x.q.approved \notin {0, q.approved} => q.proposal # 0
    /\ \A c \in Clusters : x.q.live[c] \notin {0, q.live[c]} =>
          /\ op.cluster = c /\ q.run # None
          /\ q.critic[c].number # 0 /\ x.q.live[c] = q.critic[c].number

\* The journal is as it was, or of a new run.
Restarted(q, r) ==
    \/ r = q
    \/ r.proposal = 0 /\ \A c \in Clusters : r.critic[c].number = 0

LEMMA SameJournal ==
  ASSUME NEW q \in Journals, NEW ok \in BOOLEAN, NEW count \in Nat, NEW x, x = Result(q, ok, count)
  PROVE  Approves(q, x) /\ Restarted(q, x.q)
<1>1. x.q = q /\ x.ok = ok /\ x.made = count
  BY DEF Result
<1> QED
  BY <1>1 DEF Approves, Restarted

LEMMA ExecutedApproves ==
  ASSUME NEW q \in Journals, NEW x, Executed(q, x)
  PROVE  Approves(q, x)
BY DEF Executed, Approves

LEMMA SelectedApproves ==
  ASSUME NEW q \in Journals, made \in Nat, NEW x \in Selected(q)
  PROVE  Approves(q, x)
<1>1. CASE x = Result(q, FALSE, made)
  BY <1>1, SameJournal
<1>2. CASE x = Result([NewRun(q, Bare) EXCEPT !.sources = TRUE], TRUE, made)
  <2> DEFINE n == NewRun(q, Bare)
  <2>1. n \in Journals /\ n.approved = 0 /\ \A c \in Clusters : n.live[c] = 0
    BY NewRunIsTyped
  <2>2. x.q = [n EXCEPT !.sources = TRUE] /\ x.ok = TRUE /\ x.made = made
    BY <1>2 DEF Result
  <2> HIDE DEF n
  <2>3. [n EXCEPT !.sources = TRUE] \in Journals /\ [n EXCEPT !.sources = TRUE].approved = n.approved
        /\ [n EXCEPT !.sources = TRUE].live = n.live
    BY <2>1 DEF Journals
  <2> QED
    BY <2>1, <2>2, <2>3 DEF Approves
<1>3. CASE x = Result(q, TRUE, made)
  BY <1>3, SameJournal
<1> QED
  BY <1>1, <1>2, <1>3 DEF Selected

LEMMA TaxonomyApproves ==
  ASSUME NEW q \in Journals, made \in Nat, op \in Effects, NEW x \in TaxonomyApproved(q)
  PROVE  Approves(q, x)
<1> DEFINE count == IF op.edited THEN made + 1 ELSE made
           taxonomy == IF op.edited THEN count ELSE q.proposal
           a == IF taxonomy = q.approved THEN q
                ELSE [q EXCEPT !.approved = taxonomy, !.critic = Nothing, !.live = [c \in Clusters |-> 0]]
<1>1. CASE x = Result(q, FALSE, made)
  BY <1>1, SameJournal
<1>2. CASE q.run # None /\ q.proposal # 0 /\ x \in Execute(a, op.allow, count)
  <2>1. count \in Nat /\ taxonomy \in Nat
    BY DEF Journals
  <2> HIDE DEF count, taxonomy
  <2>2. a \in Journals /\ \A c \in Clusters : a.live[c] \in {0, q.live[c]}
    BY <2>1, ConstantsAreTyped DEF Journals
  <2>3. Executed(a, x)
    BY <1>2, <2>1, <2>2, ExecuteApprovesNothing
  <2> QED
    BY <1>2, <2>2, <2>3 DEF Executed, Approves
<1> QED
  BY <1>1, <1>2 DEF TaxonomyApproved

LEMMA ClusterApproves ==
  ASSUME NEW q \in Journals, made \in Nat, op \in Effects, NEW x \in ClusterApproved(q)
  PROVE  Approves(q, x)
<1> DEFINE r == q.critic[op.cluster]
<1>1. CASE x = Result(q, FALSE, made)
  BY <1>1, SameJournal
<1>2. CASE q.run # None /\ r.number # 0 /\ x = Result([q EXCEPT !.live[op.cluster] = r.number], TRUE, made)
  <2>1. x.q = [q EXCEPT !.live[op.cluster] = r.number] /\ x.ok = TRUE /\ x.made = made
    BY <1>2 DEF Result
  <2>2. /\ x.q.approved = q.approved
        /\ \A c \in Clusters : x.q.live[c] = IF c = op.cluster THEN r.number ELSE q.live[c]
    BY <2>1 DEF Journals
  <2>3. op.cluster \in Clusters => r.number \in Nat
    BY DEF Journals, Revision
  <2>4. x.q \in Journals
    BY <2>1, <2>3 DEF Journals
  <2> QED
    BY <1>2, <2>1, <2>2, <2>4 DEF Approves
<1> QED
  BY <1>1, <1>2 DEF ClusterApproved

LEMMA RegeneratedApproves ==
  ASSUME NEW q \in Journals, made \in Nat, op \in Effects, NEW x \in Regenerated(q)
  PROVE  Approves(q, x)
<1> DEFINE a == [q EXCEPT !.critic[op.cluster] = NoRevision, !.live[op.cluster] = 0]
<1>1. CASE x = Result(q, FALSE, made)
  BY <1>1, SameJournal
<1>2. CASE x \in Execute(a, op.allow, made)
  <2>1. a \in Journals /\ a.approved = q.approved /\ \A c \in Clusters : a.live[c] \in {0, q.live[c]}
    BY ConstantsAreTyped DEF Journals
  <2> HIDE DEF a
  <2>2. Executed(a, x)
    BY <1>2, <2>1, ExecuteApprovesNothing
  <2> QED
    BY <2>1, <2>2 DEF Executed, Approves
<1> QED
  BY <1>1, <1>2 DEF Regenerated

LEMMA ResultsApprove ==
  ASSUME NEW q \in Journals, made \in Nat, op \in Effects, op.kind # "connect", NEW x \in Results(q)
  PROVE  /\ Approves(q, x)
         /\ op.kind = "preflight" => Restarted(q, x.q)
<1>1. CASE op.kind = "sources"
  BY <1>1, SelectedApproves DEF Results
<1>2. CASE op.kind = "preflight"
  <2>1. CASE x = Result(q, FALSE, made)
    BY <2>1, SameJournal
  <2>2. CASE \E r \in Begun(q), ok \in BOOLEAN : x = Result(r, ok, made)
    <3>1. PICK r \in Begun(q), ok \in BOOLEAN : x = Result(r, ok, made)
      BY <2>2
    <3>2. x.q = r /\ x.ok = ok /\ x.made = made
      BY <3>1 DEF Result
    <3>3. /\ r \in Journals
          /\ \/ r = q
             \/ /\ r.proposal = 0 /\ r.approved = 0
                /\ \A c \in Clusters : r.live[c] = 0 /\ r.critic[c].number = 0
      BY BegunIsTyped
    <3> QED
      BY <3>2, <3>3 DEF Approves, Restarted
  <2> DEFINE begun == {Result(r, ok, made) : r \in Begun(q), ok \in {b \in BOOLEAN : b => boundary # "none"}}
  <2>3. Results(q) = {Result(q, FALSE, made)} \cup begun
    BY <1>2 DEF Results
  <2>4. ASSUME x \in begun
        PROVE  \E r \in Begun(q), ok \in BOOLEAN : x = Result(r, ok, made)
    BY <2>4
  <2> HIDE DEF begun
  <2>5. x = Result(q, FALSE, made) \/ x \in begun
    BY <2>3
  <2> QED
    BY <2>1, <2>2, <2>4, <2>5
<1>3. CASE op.kind = "integrate"
  <2>1. x \in Execute(q, op.allow, made)
    BY <1>3 DEF Results
  <2> QED
    BY <1>3, <2>1, ExecuteApprovesNothing, ExecutedApproves
<1>4. CASE op.kind = "taxonomy"
  BY <1>4, TaxonomyApproves DEF Results
<1>5. CASE op.kind = "cluster"
  BY <1>5, ClusterApproves DEF Results
<1>6. CASE op.kind = "regenerate"
  BY <1>6, RegeneratedApproves DEF Results
<1>7. CASE op.kind = "compile"
  <2>1. PICK ok \in BOOLEAN : x = Result(q, ok, made)
    BY <1>7 DEF Results
  <2> QED
    BY <1>7, <2>1, SameJournal
<1>8. CASE op.kind = "verify"
  <2>1. PICK ok \in BOOLEAN : x = Result(q, ok, made)
    BY <1>8 DEF Results
  <2> QED
    BY <1>8, <2>1, SameJournal
<1> QED
  BY <1>1, <1>2, <1>3, <1>4, <1>5, <1>6, <1>7, <1>8 DEF Effects

-----------------------------------------------------------------------------
(* The steps of the screens.                                                 *)

\* After a step the notes are as before, about the same revision, or there are none,
\* or no revision is shown.
NotesKept ==
    model' # None => \/ model'.notes = NoNotes \/ model'.clusters = Nothing
                     \/ model # None /\ Kept(model', model)

\* Keys reach a screen only while the application is idle.
LEMMA IdleAtKeys ==
  ASSUME ReviewInv, NEW screen, At(screen)
  PROVE  model \in Models /\ ~model.busy /\ model.pending = None /\ op = None
BY DEF At, ReviewInv, TypeOK, OneAtATime

LEMMA ShownIsTyped ==
  ASSUME ReviewInv, model # None
  PROVE  /\ Current \in Clusters \cup {0} /\ Shown \in Revision
         /\ Current # 0 => Current \in Clusters /\ Shown = model.clusters[Current]
         /\ \A c \in Clusters : c # 0
<1>1. model \in Models /\ model.clusters \in [Clusters -> Revision]
  BY DEF ReviewInv, TypeOK, Models
<1>2. Current \in Clusters \cup {0}
  BY DEF Current, UnderCursor, Listed
<1>3. \A c \in Clusters : c # 0
  BY TerminalReviewAssumption DEF Clusters
<1> QED
  BY <1>1, <1>2, <1>3, ConstantsAreTyped DEF Shown

Kinds == {"connect", "sources", "preflight", "integrate", "taxonomy", "cluster", "regenerate", "compile", "verify"}

\* What is about to be started on the screen: all but what was written there.
FromScreen(e) ==
    /\ e \in Effects
    /\ e.project = model.project /\ e.proposal = model.taxonomy /\ e.fresh = fresh
    /\ e.cluster \in {0, Current} /\ e.revision = Shown.number

\* What is about to be started shows the journal.
LEMMA EffectIsShown ==
  ASSUME ReviewInv, model # None, NEW e, FromScreen(e)
  PROVE  e \in Effects /\ EffectShows(project, e)
<1>1. \A c \in Clusters : e.cluster = c => e.revision = model.clusters[c].number
  BY ShownIsTyped DEF FromScreen
<1>2. fresh /\ model.project # None => ShowsJournal(project[model.project], model.taxonomy, model.clusters)
  BY DEF ReviewInv, FreshShows
<1> QED
  BY <1>1, <1>2 DEF EffectShows, ShowsJournal, FromScreen

LEMMA EffectsAreFromScreen ==
  ASSUME ReviewInv, model # None, NEW kind \in Kinds
  PROVE  /\ FromScreen(Effect(kind))
         /\ FromScreen([Effect(kind) EXCEPT !.edited = model.edited])
         /\ FromScreen([Effect(kind) EXCEPT !.cluster = Current, !.reasons = Shown.issues])
         /\ FromScreen([Effect(kind) EXCEPT !.cluster = Current])
<1> DEFINE e == Effect(kind)
<1>1. /\ model.project \in Projects \cup {None} /\ model.taxonomy \in Nat /\ model.edited \in BOOLEAN
      /\ fresh \in BOOLEAN
  BY DEF ReviewInv, TypeOK, Models
<1>2. Shown.number \in Nat /\ Current \in Clusters \cup {0} /\ Shown.issues \in SUBSET Issues
  BY ShownIsTyped DEF Revision
<1>3. e \in Effects
  BY <1>1, <1>2 DEF Effect, Effects, Kinds
<1>4. FromScreen(e)
  <2>1. /\ e.project = model.project /\ e.proposal = model.taxonomy /\ e.fresh = fresh
        /\ e.cluster = 0 /\ e.revision = Shown.number
    BY DEF Effect
  <2> QED
    BY <1>3, <2>1 DEF FromScreen
<1> HIDE DEF e
<1>5. FromScreen([e EXCEPT !.edited = model.edited])
  BY <1>1, <1>4 DEF FromScreen, Effects
<1>6. FromScreen([e EXCEPT !.cluster = Current, !.reasons = Shown.issues])
  BY <1>2, <1>4 DEF FromScreen, Effects
<1>7. FromScreen([e EXCEPT !.cluster = Current])
  BY <1>2, <1>4 DEF FromScreen, Effects
<1> QED
  BY <1>4, <1>5, <1>6, <1>7 DEF e

\* The screen changes, but not what it shows of the journal, and nothing is asked.
LEMMA ScreenMoves ==
  ASSUME ReviewInv, model # None, ~model.busy, model.pending = None, model' \in Models,
         model'.project = model.project, model'.taxonomy = model.taxonomy,
         model'.clusters = model.clusters, model'.pending = None,
         UNCHANGED <<journal, op, fresh>>
  PROVE  ReviewInv'
<1>1. TypeOK'
  BY DEF ReviewInv, TypeOK, journal
<1>2. OneAtATime'
  BY DEF ReviewInv, OneAtATime
<1>3. FreshShows(project', model', fresh') /\ EffectShows(project', op')
  BY DEF ReviewInv, FreshShows, journal
<1>4. EffectShows(project', model'.pending)
  BY DEF EffectShows
<1> QED
  BY <1>1, <1>2, <1>3, <1>4 DEF ReviewInv

\* The application ends.
LEMMA EndKeeps ==
  ASSUME ReviewInv, op = None, model' = None, UNCHANGED <<journal, op, fresh>>
  PROVE  ReviewInv' /\ NotesKept
<1>1. TypeOK'
  BY DEF ReviewInv, TypeOK, journal
<1>2. OneAtATime' /\ FreshShows(project', model', fresh') /\ EffectShows(project', op')
  BY DEF OneAtATime, FreshShows, EffectShows
<1> QED
  BY <1>1, <1>2 DEF ReviewInv, NotesKept

LEMMA StartKeepsReview ==
  ASSUME ReviewInv, NEW e \in Effects, EffectShows(project, e),
         model # None, op = None, UNCHANGED <<journal, fresh>>, op' = e,
         model' \in Models, model'.busy = TRUE, model'.pending = None,
         model'.project = model.project, model'.taxonomy = model.taxonomy, Kept(model', model)
  PROVE  ReviewInv' /\ NotesKept
<1>1. TypeOK'
  BY DEF ReviewInv, TypeOK, journal
<1>2. OneAtATime'
  BY TerminalReviewAssumption DEF OneAtATime
<1>3. FreshShows(project', model', fresh') /\ EffectShows(project', op')
  BY DEF ReviewInv, FreshShows, journal, Kept
<1>4. EffectShows(project', model'.pending)
  BY DEF EffectShows
<1> QED
  BY <1>1, <1>2, <1>3, <1>4 DEF ReviewInv, NotesKept

LEMMA SubmitKeeps ==
  ASSUME ReviewInv, NEW screen, At(screen), NEW e \in Effects, EffectShows(project, e), SubmitEffect(e)
  PROVE  ReviewInv' /\ NotesKept
<1>1. model \in Models /\ model # None /\ ~model.busy /\ model.pending = None /\ op = None
  BY IdleAtKeys DEF At
<1>2. CASE model' = None /\ UNCHANGED op
  BY <1>1, <1>2, EndKeeps DEF SubmitEffect
<1>3. CASE op' = e /\ model' = [model EXCEPT !.busy = TRUE]
  <2>1. /\ model' \in Models /\ model'.busy = TRUE /\ model'.pending = None
        /\ model'.project = model.project /\ model'.taxonomy = model.taxonomy /\ Kept(model', model)
    BY <1>1, <1>3 DEF Models, Kept
  <2> QED
    BY <1>1, <1>3, <2>1, StartKeepsReview DEF SubmitEffect
<1> QED
  BY <1>2, <1>3 DEF SubmitEffect

LEMMA AskKeeps ==
  ASSUME ReviewInv, NEW screen, At(screen), NEW e \in Effects, EffectShows(project, e), NEW remote, Ask(e, remote)
  PROVE  ReviewInv' /\ NotesKept
<1>1. model \in Models /\ model # None /\ ~model.busy /\ model.pending = None /\ op = None
  BY IdleAtKeys DEF At
<1>2. CASE SubmitEffect(e)
  BY <1>2, SubmitKeeps
<1>3. CASE model' = [model EXCEPT !.pending = e] /\ UNCHANGED <<journal, op, fresh>>
  <2>1. /\ model' \in Models /\ model'.busy = model.busy /\ model'.pending = e
        /\ model'.project = model.project /\ model'.taxonomy = model.taxonomy /\ Kept(model', model)
    BY <1>1, <1>3 DEF Models, Kept
  <2>2. TypeOK'
    BY <1>3, <2>1 DEF ReviewInv, TypeOK, journal
  <2>3. OneAtATime'
    BY <1>1, <1>3, <2>1 DEF OneAtATime
  <2>4. FreshShows(project', model', fresh') /\ EffectShows(project', op') /\ EffectShows(project', model'.pending)
    BY <1>1, <1>3, <2>1 DEF ReviewInv, FreshShows, journal, Kept
  <2> QED
    BY <1>1, <2>1, <2>2, <2>3, <2>4 DEF ReviewInv, NotesKept
<1> QED
  BY <1>2, <1>3 DEF Ask

LEMMA PlainEffects ==
  ASSUME ReviewInv, model # None, NEW kind \in Kinds
  PROVE  Effect(kind) \in Effects /\ EffectShows(project, Effect(kind))
BY EffectIsShown, EffectsAreFromScreen

LEMMA KeysKeep ==
  ASSUME ReviewInv, \/ Connect \/ SaveSources \/ EnterPreflight \/ ApproveTaxonomy
                    \/ RequestRegeneration \/ ApproveCluster \/ Compile \/ Verify
  PROVE  ReviewInv' /\ NotesKept
<1> USE DEF Kinds
<1>0. ASSUME NEW screen, At(screen) PROVE model # None
  BY <1>0 DEF At
<1>1. CASE Connect
  BY <1>0, <1>1, PlainEffects, SubmitKeeps DEF Connect
<1>2. CASE SaveSources
  BY <1>0, <1>2, PlainEffects, SubmitKeeps DEF SaveSources
<1>3. CASE EnterPreflight
  BY <1>0, <1>3, PlainEffects, SubmitKeeps, AskKeeps DEF EnterPreflight
<1>4. CASE ApproveTaxonomy
  <2>1. model # None /\ model.edited \in BOOLEAN
    BY <1>0, <1>4 DEF ApproveTaxonomy, ReviewInv, TypeOK, Models
  <2>2. /\ [Effect("taxonomy") EXCEPT !.edited = model.edited] \in Effects
        /\ EffectShows(project, [Effect("taxonomy") EXCEPT !.edited = model.edited])
    BY <2>1, EffectIsShown, EffectsAreFromScreen
  <2> QED
    BY <1>4, <2>2, AskKeeps DEF ApproveTaxonomy
<1>5. CASE RequestRegeneration
  <2>1. /\ [Effect("regenerate") EXCEPT !.cluster = Current] \in Effects
        /\ EffectShows(project, [Effect("regenerate") EXCEPT !.cluster = Current])
    <3>1. model # None
      BY <1>0, <1>5 DEF RequestRegeneration
    <3> QED
      BY <3>1, EffectIsShown, EffectsAreFromScreen
  <2> QED
    BY <1>5, <2>1, AskKeeps DEF RequestRegeneration
<1>6. CASE ApproveCluster
  <2>1. model # None /\ Shown.issues \in SUBSET Issues
    BY <1>0, <1>6, ShownIsTyped DEF ApproveCluster, Revision
  <2>2. /\ [Effect("cluster") EXCEPT !.cluster = Current, !.reasons = Shown.issues] \in Effects
        /\ EffectShows(project, [Effect("cluster") EXCEPT !.cluster = Current, !.reasons = Shown.issues])
    BY <2>1, EffectIsShown, EffectsAreFromScreen
  <2> QED
    BY <1>6, <2>2, SubmitKeeps DEF ApproveCluster
<1>7. CASE Compile
  BY <1>0, <1>7, PlainEffects, SubmitKeeps DEF Compile
<1>8. CASE Verify
  BY <1>0, <1>8, PlainEffects, SubmitKeeps DEF Verify
<1> QED
  BY <1>1, <1>2, <1>3, <1>4, <1>5, <1>6, <1>7, <1>8

LEMMA AnswerConsentKeeps ==
  ASSUME ReviewInv, AnswerConsent
  PROVE  ReviewInv' /\ NotesKept
<1> DEFINE closed == [model EXCEPT !.pending = None]
           e == [model.pending EXCEPT !.allow = TRUE]
<1>1. /\ model \in Models /\ model # None /\ ~model.busy /\ op = None
      /\ model.pending \in Effects /\ EffectShows(project, model.pending)
      /\ UNCHANGED <<journal, fresh>>
  BY DEF AnswerConsent, ReviewInv, TypeOK, OneAtATime, Models
<1>2. /\ closed \in Models /\ closed.busy = model.busy /\ closed.pending = None
      /\ closed.project = model.project /\ closed.taxonomy = model.taxonomy /\ Kept(closed, model)
  BY <1>1 DEF Models, Kept
<1>3. CASE model' = closed /\ UNCHANGED op
  <2>1. TypeOK'
    BY <1>1, <1>2, <1>3 DEF ReviewInv, TypeOK, journal
  <2>2. OneAtATime'
    BY <1>1, <1>2, <1>3 DEF OneAtATime
  <2>3. FreshShows(project', model', fresh') /\ EffectShows(project', op')
    BY <1>1, <1>2, <1>3 DEF ReviewInv, FreshShows, journal, Kept
  <2>4. EffectShows(project', model'.pending)
    BY <1>2, <1>3 DEF EffectShows
  <2> QED
    BY <1>1, <1>2, <1>3, <2>1, <2>2, <2>3, <2>4 DEF ReviewInv, NotesKept
<1>4. CASE model' = None /\ UNCHANGED op
  BY <1>1, <1>4, EndKeeps
<1>5. CASE model' = [closed EXCEPT !.busy = TRUE] /\ op' = e
  <2>1. /\ model' \in Models /\ model'.busy = TRUE /\ model'.pending = None
        /\ model'.project = model.project /\ model'.taxonomy = model.taxonomy /\ Kept(model', model)
    <3> HIDE DEF closed
    <3> QED
      BY <1>2, <1>5 DEF Models, Kept
  <2>2. /\ e \in Effects /\ e.fresh = model.pending.fresh /\ e.project = model.pending.project
        /\ e.proposal = model.pending.proposal /\ e.cluster = model.pending.cluster
        /\ e.revision = model.pending.revision
    BY <1>1 DEF Effects
  <2>3. EffectShows(project, e)
    <3> HIDE DEF e
    <3>1. model.pending # None
      BY <1>1, TerminalReviewAssumption
    <3> QED
      BY <1>1, <2>2, <3>1 DEF EffectShows
  <2> HIDE DEF e, closed
  <2> QED
    BY <1>1, <1>5, <2>1, <2>2, <2>3, StartKeepsReview
<1> QED
  BY <1>3, <1>4, <1>5 DEF AnswerConsent

LEMMA MovesKeep ==
  ASSUME ReviewInv, Navigate \/ EditTaxonomy \/ MoveCursor
  PROVE  ReviewInv' /\ NotesKept
<1>1. /\ model \in Models /\ model # None /\ ~model.busy /\ model.pending = None
      /\ UNCHANGED <<journal, op, fresh>>
  BY IdleAtKeys DEF Navigate, EditTaxonomy, MoveCursor, At
<1>2. CASE Navigate
  <2>1. /\ model' \in Models /\ model'.project = model.project /\ model'.taxonomy = model.taxonomy
        /\ model'.clusters = model.clusters /\ model'.pending = None /\ Kept(model', model)
    BY <1>1, <1>2 DEF Navigate, Models, Kept
  <2> QED
    BY <1>1, <2>1, ScreenMoves DEF NotesKept
<1>3. CASE EditTaxonomy
  <2>1. /\ model' \in Models /\ model'.project = model.project /\ model'.taxonomy = model.taxonomy
        /\ model'.clusters = model.clusters /\ model'.pending = None /\ Kept(model', model)
    BY <1>1, <1>3 DEF EditTaxonomy, Models, Kept
  <2> QED
    BY <1>1, <2>1, ScreenMoves DEF NotesKept
<1>4. CASE MoveCursor
  <2>1. PICK to \in Nat : model' = ResetReview([model EXCEPT !.cursor = to])
    <3>1. IsFiniteSet(Listed)
      <4>1. IsFiniteSet(Clusters) /\ Listed \subseteq Clusters
        BY TerminalReviewAssumption, FS_Interval DEF Clusters, Listed
      <4> QED
        BY <4>1, FS_Subset
    <3>2. Cardinality(Listed) \in Nat
      BY <3>1, FS_CardinalityType
    <3>3. (IF Listed = {} THEN 1 ELSE Cardinality(Listed)) \in Nat
      BY <3>2
    <3> QED
      BY <1>4, <3>3 DEF MoveCursor
  <2> DEFINE m == [model EXCEPT !.cursor = to]
  <2>2. /\ m \in Models /\ m.project = model.project /\ m.taxonomy = model.taxonomy
        /\ m.clusters = model.clusters /\ m.pending = None
    BY <1>1 DEF Models
  <2> HIDE DEF m
  <2>3. /\ model' \in Models /\ model'.project = model.project /\ model'.taxonomy = model.taxonomy
        /\ model'.clusters = model.clusters /\ model'.pending = None /\ model'.notes = NoNotes
    BY <2>1, <2>2, ConstantsAreTyped DEF ResetReview, Models, m
  <2> QED
    BY <1>1, <2>3, ScreenMoves DEF NotesKept
<1> QED
  BY <1>2, <1>3, <1>4

\* A note is made about the revision that is shown.
LEMMA AnnotateKeeps ==
  ASSUME ReviewInv, Annotate
  PROVE  /\ ReviewInv'
         /\ NotesAreAboutShown => NotesAreAboutShown'
<1>1. /\ model \in Models /\ model # None /\ ~model.busy /\ model.pending = None
      /\ UNCHANGED <<journal, op, fresh>>
  BY IdleAtKeys DEF Annotate, At
<1>2. PICK i \in Shown.issues : model' = [model EXCEPT !.notes[i] = IF @ # 0 THEN 0 ELSE Shown.number]
  BY DEF Annotate
<1>3. Shown \in Revision
  BY <1>1, ShownIsTyped
<1>4. i \in Issues /\ Shown.number \in Nat
  BY <1>3 DEF Revision
<1> DEFINE notes == [model.notes EXCEPT ![i] = IF @ # 0 THEN 0 ELSE Shown.number]
<1>5. notes \in [Issues -> Nat]
  BY <1>1, <1>4 DEF Models
<1>6. model' = [model EXCEPT !.notes = notes]
  BY <1>2
<1>7. \A j \in Issues : notes[j] \in {0, model.notes[j], Shown.number}
  BY <1>1, <1>4 DEF Models
<1> HIDE DEF notes
<1>8. /\ model' \in Models /\ model'.project = model.project /\ model'.taxonomy = model.taxonomy
      /\ model'.clusters = model.clusters /\ model'.pending = None /\ model'.notes = notes
      /\ model'.cursor = model.cursor
  BY <1>1, <1>5, <1>6 DEF Models
<1>9. ReviewInv'
  BY <1>1, <1>8, ScreenMoves
<1>10. Shown' = Shown
  BY <1>8 DEF Shown, Current, UnderCursor, Listed
<1>11. Shown.issues \subseteq Issues
  BY <1>3 DEF Revision
<1>12. ASSUME NotesAreAboutShown PROVE NotesAreAboutShown'
  <2>1. \A j \in Shown.issues : model.notes[j] \in {0, Shown.number}
    BY <1>1, <1>12 DEF NotesAreAboutShown
  <2> QED
    BY <1>7, <1>8, <1>10, <1>11, <2>1 DEF NotesAreAboutShown
<1> QED
  BY <1>9, <1>12

-----------------------------------------------------------------------------
(* The steps that refresh the screens, and the ends of operations.           *)

\* The notes of m are those of the screen, or about nothing.
NotesOf(m) == m.notes = NoNotes \/ m.clusters = Nothing \/ (model # None /\ Kept(m, model))

\* No operation runs any more, and the screen was refreshed from m, or not.
LEMMA RefreshKeeps ==
  ASSUME ReviewInv, NEW m \in Models, Refresh(m), m.pending = None, m.busy = FALSE,
         project' \in [Projects -> Journals], boundary' \in Boundaries, made' \in Nat, op' = None,
         NotesOf(m)
  PROVE  ReviewInv' /\ NotesKept
<1>1. /\ model' \in Models /\ fresh' \in BOOLEAN
      /\ model'.project = m.project /\ model'.busy = FALSE /\ model'.pending = None
      /\ NotesFollow(m, model') /\ FreshShows(project', model', fresh')
  BY RefreshShows DEF ReviewInv, TypeOK
<1>2. TypeOK' /\ OneAtATime'
  BY <1>1 DEF TypeOK, OneAtATime
<1>3. EffectShows(project', op') /\ EffectShows(project', model'.pending)
  BY <1>1 DEF EffectShows
<1>4. NotesKept
  BY <1>1 DEF NotesKept, NotesFollow, Kept, NotesOf
<1> QED
  BY <1>1, <1>2, <1>3, <1>4 DEF ReviewInv

\* The operation failed: what it left in the journal is not on the screen.
LEMMA FailKeeps ==
  ASSUME ReviewInv, op # None, Fail(model),
         project' \in [Projects -> Journals], boundary' \in Boundaries, made' \in Nat, op' = None
  PROVE  ReviewInv' /\ NotesKept
<1>1. model \in Models /\ model # None /\ model.pending = None /\ fresh \in BOOLEAN
  BY DEF ReviewInv, TypeOK, OneAtATime
<1> DEFINE d == Done(model)
<1>2. /\ d \in Models /\ d.project = model.project /\ d.busy = FALSE /\ d.pending = None
      /\ d.taxonomy = model.taxonomy /\ d.screen = model.screen /\ Kept(d, model)
  BY <1>1 DEF Done, Models, Kept
<1>3. PICK screen \in {model.screen, "ai"} : model' = [d EXCEPT !.screen = screen]
  BY DEF Fail
<1> HIDE DEF d
<1>4. screen \in {"ai", "any"}
  BY <1>1, <1>3 DEF Models
<1>5. /\ model' \in Models /\ model'.project = model.project /\ model'.busy = FALSE /\ model'.pending = None
      /\ model'.taxonomy = model.taxonomy /\ Kept(model', model)
  BY <1>2, <1>3, <1>4 DEF Models, Kept
<1>6. fresh' = (fresh /\ project' = project /\ boundary' = boundary)
  BY DEF Fail
<1>7. TypeOK' /\ OneAtATime'
  BY <1>5, <1>6 DEF TypeOK, OneAtATime
<1>8. FreshShows(project', model', fresh')
  BY <1>1, <1>5, <1>6 DEF ReviewInv, FreshShows, Kept
<1>9. EffectShows(project', op') /\ EffectShows(project', model'.pending)
  BY <1>5 DEF EffectShows
<1> QED
  BY <1>1, <1>5, <1>7, <1>8, <1>9 DEF ReviewInv, NotesKept

\* What an end that is followed by a refresh refreshes.
LEMMA EndedModels ==
  ASSUME ReviewInv, op # None
  PROVE  /\ Done(model) \in Models /\ Done(model).pending = None /\ Done(model).busy = FALSE
         /\ Kept(Done(model), model) /\ model # None /\ Done(model).project = model.project
         /\ Done(model).taxonomy = model.taxonomy
         /\ LET m == ClearWork(Done(model))
            IN  m \in Models /\ m.pending = None /\ m.busy = FALSE /\ m.clusters = Nothing
<1>1. model \in Models /\ model # None /\ model.pending = None
  BY DEF ReviewInv, TypeOK, OneAtATime
<1> DEFINE d == Done(model)
<1>2. /\ d \in Models /\ d.busy = FALSE /\ d.pending = None /\ Kept(d, model)
      /\ d.project = model.project /\ d.taxonomy = model.taxonomy
  BY <1>1 DEF Done, Models, Kept
<1> HIDE DEF d
<1> DEFINE m == ClearWork(d)
<1>3. m \in Models /\ m.pending = None /\ m.busy = FALSE /\ m.clusters = Nothing
  BY <1>2, ConstantsAreTyped DEF ClearWork, Models
<1> HIDE DEF m
<1> QED
  BY <1>1, <1>2, <1>3 DEF d, m

LEMMA FinishConnectKeeps ==
  ASSUME ReviewInv, FinishConnect
  PROVE  ReviewInv' /\ NotesKept
<1>1. op \in Effects /\ op # None /\ op' = None /\ made' = made /\ made \in Nat
      /\ project \in [Projects -> Journals] /\ boundary \in Boundaries
  BY DEF FinishConnect, ReviewInv, TypeOK
<1>2. PICK saved \in {boundary, "local", "remote"}, ok \in BOOLEAN :
        /\ boundary' = saved
        /\ IF ok
           THEN /\ \E q \in IF op.project = None THEN {None} ELSE Routed(project[op.project]) :
                    project' = IF q = None THEN project ELSE [project EXCEPT ![op.project] = q]
                /\ \E screen \in {"ai"} \cup (IF op.project = None THEN {"any"} ELSE {}) :
                    Refresh([ClearWork(Done(model)) EXCEPT !.screen = screen])
           ELSE UNCHANGED project /\ Fail(model)
  BY DEF FinishConnect
<1>3. boundary' \in Boundaries
  BY <1>1, <1>2 DEF Boundaries
<1>4. CASE ~ok
  BY <1>1, <1>2, <1>3, <1>4, FailKeeps
<1>5. CASE ok
  <2>1. PICK q \in IF op.project = None THEN {None} ELSE Routed(project[op.project]) :
               project' = IF q = None THEN project ELSE [project EXCEPT ![op.project] = q]
    BY <1>2, <1>5
  <2>2. project' \in [Projects -> Journals]
    <3>1. CASE op.project = None
      BY <1>1, <2>1, <3>1
    <3>2. CASE op.project # None
      <4>1. op.project \in Projects /\ project[op.project] \in Journals
        BY <1>1, <3>2 DEF Effects
      <4>2. q \in Journals
        BY <2>1, <3>2, <4>1, NewRunIsTyped DEF Routed
      <4> QED
        BY <1>1, <2>1, <4>1, <4>2
    <3> QED
      BY <3>1, <3>2
  <2> DEFINE c == ClearWork(Done(model))
  <2>3. PICK screen \in {"ai", "any"} : Refresh([c EXCEPT !.screen = screen])
    BY <1>2, <1>5
  <2>4. c \in Models /\ c.pending = None /\ c.busy = FALSE /\ c.clusters = Nothing
    BY <1>1, EndedModels
  <2> HIDE DEF c
  <2> DEFINE m == [c EXCEPT !.screen = screen]
  <2>5. m \in Models /\ m.pending = None /\ m.busy = FALSE /\ m.clusters = Nothing
    BY <2>4 DEF Models
  <2>6. Refresh(m)
    BY <2>3
  <2> HIDE DEF m
  <2> QED
    BY <1>1, <1>3, <2>2, <2>5, <2>6, RefreshKeeps DEF NotesOf
<1> QED
  BY <1>4, <1>5

LEMMA FinishCreateKeeps ==
  ASSUME ReviewInv, FinishCreate
  PROVE  ReviewInv' /\ NotesKept
<1>1. op \in Effects /\ op # None /\ op' = None /\ made' = made /\ made \in Nat
      /\ project \in [Projects -> Journals] /\ boundary' = boundary /\ boundary \in Boundaries
  BY DEF FinishCreate, ReviewInv, TypeOK
<1>2. CASE UNCHANGED project /\ Fail(model)
  BY <1>1, <1>2, FailKeeps
<1>3. CASE \E p \in Projects, ok \in BOOLEAN :
             /\ project' = [project EXCEPT ![p] = [Missing EXCEPT !.exists = TRUE, !.sources = ok, !.run = IF ok THEN Bare ELSE None]]
             /\ IF ok THEN Refresh([ClearWork(Done(model)) EXCEPT !.project = p]) ELSE Fail(model)
  <2>1. PICK p \in Projects, ok \in BOOLEAN :
             /\ project' = [project EXCEPT ![p] = [Missing EXCEPT !.exists = TRUE, !.sources = ok, !.run = IF ok THEN Bare ELSE None]]
             /\ IF ok THEN Refresh([ClearWork(Done(model)) EXCEPT !.project = p]) ELSE Fail(model)
    BY <1>3
  <2> DEFINE q == [Missing EXCEPT !.exists = TRUE, !.sources = ok, !.run = IF ok THEN Bare ELSE None]
  <2>2. q \in Journals
    BY ConstantsAreTyped DEF Journals
  <2>3. project' = [project EXCEPT ![p] = q]
    BY <2>1
  <2> HIDE DEF q
  <2>4. project' \in [Projects -> Journals]
    BY <1>1, <2>2, <2>3
  <2>5. CASE ~ok
    BY <1>1, <2>1, <2>4, <2>5, FailKeeps
  <2>6. CASE ok
    <3> DEFINE c == ClearWork(Done(model))
    <3>1. c \in Models /\ c.pending = None /\ c.busy = FALSE /\ c.clusters = Nothing
      BY <1>1, EndedModels
    <3>2. Refresh([c EXCEPT !.project = p])
      BY <2>1, <2>6
    <3> HIDE DEF c
    <3> DEFINE m == [c EXCEPT !.project = p]
    <3>3. m \in Models /\ m.pending = None /\ m.busy = FALSE /\ m.clusters = Nothing
      BY <3>1 DEF Models
    <3>4. Refresh(m)
      BY <3>2
    <3> HIDE DEF m
    <3> QED
      BY <1>1, <2>4, <3>3, <3>4, RefreshKeeps DEF NotesOf
  <2> QED
    BY <2>5, <2>6
<1> QED
  BY <1>2, <1>3 DEF FinishCreate

\* A run that begins anew takes nothing off the screen that the curator could approve.
LEMMA RestartStillShows ==
  ASSUME NEW q, NEW r, Restarted(q, r), NEW taxonomy, NEW clusters, ShowsJournal(q, taxonomy, clusters)
  PROVE  ShowsJournal(r, taxonomy, clusters)
BY DEF Restarted, ShowsJournal

LEMMA FinishKeeps ==
  ASSUME ReviewInv, Finish
  PROVE  ReviewInv' /\ NotesKept
<1>1. /\ op \in Effects /\ op # None /\ op' = None /\ made \in Nat /\ fresh \in BOOLEAN
      /\ project \in [Projects -> Journals] /\ boundary \in Boundaries
      /\ op.project \in Projects /\ op.kind # "connect"
  BY DEF Finish, ReviewInv, TypeOK, Effects
<1>2. PICK x \in Results(project[op.project]) :
        /\ project' = [project EXCEPT ![op.project] = x.q]
        /\ made' = x.made
        /\ UNCHANGED boundary
        /\ CASE ~x.ok -> Fail(model)
             [] x.ok /\ op.kind = "preflight" -> model' = [Done(model) EXCEPT !.preflight = boundary] /\ UNCHANGED fresh
             [] x.ok /\ op.kind = "sources"   -> Refresh(ClearWork(Done(model)))
             [] OTHER -> Refresh(Done(model))
  BY DEF Finish
<1>3. project[op.project] \in Journals
  BY <1>1
<1>4. /\ Approves(project[op.project], x)
      /\ op.kind = "preflight" => Restarted(project[op.project], x.q)
  BY <1>1, <1>2, <1>3, ResultsApprove
<1>5. x.q \in Journals /\ x.ok \in BOOLEAN /\ x.made \in Nat
  BY <1>4 DEF Approves
<1>6. project' \in [Projects -> Journals] /\ boundary' \in Boundaries /\ made' \in Nat
  BY <1>1, <1>2, <1>5
<1>7. CASE ~x.ok
  <2>1. Fail(model)
    BY <1>2, <1>7
  <2> QED
    BY <1>1, <1>6, <2>1, FailKeeps
<1>8. CASE x.ok /\ op.kind = "preflight"
  <2> DEFINE d == Done(model)
  <2>1. model' = [d EXCEPT !.preflight = boundary] /\ fresh' = fresh
    BY <1>2, <1>8
  <2>2. /\ d \in Models /\ d.pending = None /\ d.busy = FALSE /\ Kept(d, model) /\ model # None
        /\ d.project = model.project /\ d.taxonomy = model.taxonomy
    BY <1>1, EndedModels
  <2> HIDE DEF d
  <2>3. /\ model' \in Models /\ model'.pending = None /\ model'.busy = FALSE /\ Kept(model', model)
        /\ model'.project = model.project /\ model'.taxonomy = model.taxonomy
    BY <1>1, <2>1, <2>2 DEF Models, Kept
  <2>4. TypeOK' /\ OneAtATime'
    BY <1>1, <1>6, <2>1, <2>3 DEF TypeOK, OneAtATime
  <2>5. FreshShows(project', model', fresh')
    <3> SUFFICES ASSUME fresh, model.project # None
                 PROVE  ShowsJournal(project'[model.project], model.taxonomy, model.clusters)
      BY <2>1, <2>3 DEF FreshShows, Kept
    <3>1. ShowsJournal(project[model.project], model.taxonomy, model.clusters)
      BY <2>2 DEF ReviewInv, FreshShows
    <3>2. CASE model.project = op.project
      <4>1. project'[model.project] = x.q
        BY <1>1, <1>2, <3>2
      <4> QED
        BY <1>4, <1>8, <3>1, <3>2, <4>1, RestartStillShows
    <3>3. CASE model.project # op.project
      <4>1. model.project \in Projects
        <5>1. model \in Models
          BY <2>2 DEF ReviewInv, TypeOK
        <5> QED
          BY <5>1 DEF Models
      <4>2. project'[model.project] = project[model.project]
        BY <1>1, <1>2, <3>3, <4>1
      <4> QED
        BY <3>1, <4>2
    <3> QED
      BY <3>2, <3>3
  <2>6. EffectShows(project', op') /\ EffectShows(project', model'.pending)
    BY <1>1, <2>3 DEF EffectShows
  <2> QED
    BY <2>2, <2>3, <2>4, <2>5, <2>6 DEF ReviewInv, NotesKept
<1>9. CASE x.ok /\ op.kind = "sources"
  <2> DEFINE m == ClearWork(Done(model))
  <2>1. Refresh(m)
    BY <1>2, <1>9
  <2>2. m \in Models /\ m.pending = None /\ m.busy = FALSE /\ m.clusters = Nothing
    BY <1>1, EndedModels
  <2> HIDE DEF m
  <2> QED
    BY <1>1, <1>6, <2>1, <2>2, RefreshKeeps DEF NotesOf
<1>10. CASE x.ok /\ op.kind \notin {"preflight", "sources"}
  <2> DEFINE m == Done(model)
  <2>1. Refresh(m)
    BY <1>2, <1>10
  <2>2. m \in Models /\ m.pending = None /\ m.busy = FALSE /\ Kept(m, model) /\ model # None
    BY <1>1, EndedModels
  <2> HIDE DEF m
  <2> QED
    BY <1>1, <1>6, <2>1, <2>2, RefreshKeeps DEF NotesOf
<1> QED
  BY <1>5, <1>7, <1>8, <1>9, <1>10

LEMMA FreshIsModel ==
  ASSUME ReviewInv
  PROVE  /\ Fresh \in Models /\ Fresh.pending = None /\ Fresh.busy = FALSE /\ Fresh.notes = NoNotes
         /\ Fresh.project = None /\ Fresh.projects = {p \in Projects : project[p].exists}
<1>1. /\ Fresh.pending = None /\ Fresh.busy = FALSE /\ Fresh.notes = NoNotes
      /\ Fresh.project = None /\ Fresh.projects = {p \in Projects : project[p].exists}
  BY DEF Fresh
<1>2. Fresh \in Models
  BY ConstantsAreTyped DEF Fresh, Models
<1> QED
  BY <1>1, <1>2

LEMMA StartKeeps ==
  ASSUME ReviewInv, Start
  PROVE  ReviewInv' /\ NotesKept
<1>1. /\ model = None /\ op = None /\ op' = None
      /\ project' = project /\ boundary' = boundary /\ made' = made
      /\ project \in [Projects -> Journals] /\ boundary \in Boundaries /\ made \in Nat
  BY DEF Start, ReviewInv, TypeOK, OneAtATime, journal
<1> DEFINE first == Fresh.projects
<1>2. CASE Cardinality(first) = 1
  <2> DEFINE p == CHOOSE q \in first : TRUE
  <2>1. first # {}
    BY <1>2, FS_EmptySet
  <2>2. p \in Projects
    BY <2>1, FreshIsModel
  <2>3. Refresh([Fresh EXCEPT !.project = p])
    BY <1>2 DEF Start
  <2> HIDE DEF p, first
  <2> DEFINE m == [Fresh EXCEPT !.project = p]
  <2>4. m \in Models /\ m.pending = None /\ m.busy = FALSE /\ m.notes = NoNotes
    BY <2>2, FreshIsModel DEF Models
  <2>5. Refresh(m)
    BY <2>3
  <2> HIDE DEF m
  <2> QED
    BY <1>1, <2>4, <2>5, RefreshKeeps DEF NotesOf
<1>3. CASE Cardinality(first) # 1
  <2>1. PICK screen \in {"ai", "any"} : model' = [Fresh EXCEPT !.screen = screen] /\ fresh' = fresh
    BY <1>3 DEF Start
  <2>2. /\ model' \in Models /\ model'.pending = None /\ model'.busy = FALSE /\ model'.notes = NoNotes
        /\ model'.project = None
    BY <2>1, FreshIsModel DEF Models
  <2>3. TypeOK' /\ OneAtATime'
    BY <1>1, <2>1, <2>2 DEF ReviewInv, TypeOK, OneAtATime
  <2>4. FreshShows(project', model', fresh') /\ EffectShows(project', op') /\ EffectShows(project', model'.pending)
    BY <1>1, <2>2 DEF FreshShows, EffectShows
  <2> QED
    BY <2>2, <2>3, <2>4 DEF ReviewInv, NotesKept
<1> QED
  BY <1>2, <1>3

LEMMA ChooseProjectKeeps ==
  ASSUME ReviewInv, ChooseProject
  PROVE  ReviewInv' /\ NotesKept
<1>1. /\ model \in Models /\ model # None /\ ~model.busy /\ model.pending = None /\ op = None
      /\ UNCHANGED <<journal, op>>
  BY IdleAtKeys DEF ChooseProject, At
<1>2. /\ project' \in [Projects -> Journals] /\ boundary' \in Boundaries /\ made' \in Nat /\ op' = None
  BY <1>1 DEF ReviewInv, TypeOK, journal
<1>3. CASE \E p \in model.projects : Refresh([model EXCEPT !.project = p])
  <2>1. PICK p \in model.projects : Refresh([model EXCEPT !.project = p])
    BY <1>3
  <2>2. p \in Projects
    BY <1>1 DEF Models
  <2> DEFINE m == [model EXCEPT !.project = p]
  <2>3. m \in Models /\ m.pending = None /\ m.busy = FALSE /\ Kept(m, model)
    BY <1>1, <2>2 DEF Models, Kept
  <2>4. Refresh(m)
    BY <2>1
  <2> HIDE DEF m
  <2> QED
    BY <1>1, <1>2, <2>3, <2>4, RefreshKeeps DEF NotesOf
<1>4. CASE model' = [model EXCEPT !.screen = "ai"] /\ UNCHANGED fresh
  <2>1. /\ model' \in Models /\ model'.project = model.project /\ model'.taxonomy = model.taxonomy
        /\ model'.clusters = model.clusters /\ model'.pending = None /\ Kept(model', model)
    BY <1>1, <1>4 DEF Models, Kept
  <2> QED
    BY <1>1, <1>4, <2>1, ScreenMoves DEF NotesKept
<1> QED
  BY <1>3, <1>4 DEF ChooseProject

LEMMA QuitKeeps ==
  ASSUME ReviewInv, Quit
  PROVE  ReviewInv' /\ NotesKept
<1>1. op = None
  BY DEF Quit, ReviewInv, OneAtATime
<1> QED
  BY <1>1, EndKeeps DEF Quit

\* Every step keeps the invariant, and the notes, unless it writes one.
LEMMA NextKeeps ==
  ASSUME ReviewInv, Next
  PROVE  ReviewInv' /\ (NotesKept \/ Annotate)
<1>1. CASE Connect \/ SaveSources \/ EnterPreflight \/ ApproveTaxonomy
           \/ RequestRegeneration \/ ApproveCluster \/ Compile \/ Verify
  BY <1>1, KeysKeep
<1>2. CASE Navigate \/ EditTaxonomy \/ MoveCursor
  BY <1>2, MovesKeep
<1>3. CASE Annotate
  BY <1>3, AnnotateKeeps
<1> QED
  BY <1>1, <1>2, <1>3, StartKeeps, QuitKeeps, ChooseProjectKeeps, AnswerConsentKeeps,
     FinishConnectKeeps, FinishCreateKeeps, FinishKeeps DEF Next, Review

LEMMA InitIsReview == Init => ReviewInv
<1> SUFFICES ASSUME Init PROVE ReviewInv
  OBVIOUS
<1>1. PICK existing \in SUBSET Projects :
        project = [p \in Projects |-> IF p \in existing THEN [Missing EXCEPT !.exists = TRUE, !.sources = TRUE, !.run = Bare]
                                                        ELSE Missing]
  BY DEF Init
<1>2. /\ Missing \in Journals
      /\ [Missing EXCEPT !.exists = TRUE, !.sources = TRUE, !.run = Bare] \in Journals
  BY ConstantsAreTyped DEF Journals
<1>3. project \in [Projects -> Journals]
  BY <1>1, <1>2
<1>4. boundary \in Boundaries /\ made = 0 /\ model = None /\ op = None /\ fresh = TRUE
  BY DEF Init, Boundaries
<1> QED
  BY <1>3, <1>4 DEF ReviewInv, TypeOK, OneAtATime, FreshShows, EffectShows

LEMMA StutterIsReview ==
  ASSUME ReviewInv, UNCHANGED vars
  PROVE  ReviewInv'
BY DEF vars, journal, ReviewInv, TypeOK, OneAtATime

LEMMA ReviewInductive == Spec => []ReviewInv
BY InitIsReview, NextKeeps, StutterIsReview, PTL DEF Spec

-----------------------------------------------------------------------------
LEMMA NotesKeptAreAbout ==
  ASSUME ReviewInv', NotesAreAboutShown, NotesKept
  PROVE  NotesAreAboutShown'
<1> SUFFICES ASSUME model' # None, NEW i \in Shown'.issues
             PROVE  model'.notes[i] \in {0, Shown'.number}
  BY DEF NotesAreAboutShown
<1>1. model' \in Models
  BY DEF ReviewInv, TypeOK
<1>2. CASE model'.notes = NoNotes
  <2>1. Current' \in Clusters \cup {0}
    BY DEF Current, UnderCursor, Listed
  <2>2. Shown' \in Revision
    BY <1>1, <2>1, ConstantsAreTyped DEF Shown, Models
  <2>3. i \in Issues
    BY <2>2 DEF Revision
  <2> QED
    BY <1>2, <2>3 DEF NoNotes
<1>3. CASE model'.clusters = Nothing
  <2>1. Listed' = {}
    BY <1>3 DEF Listed, Nothing, NoRevision
  <2>2. Shown' = NoRevision
    BY <2>1 DEF Shown, Current, UnderCursor
  <2> QED
    BY <2>2 DEF NoRevision
<1>4. CASE model # None /\ Kept(model', model)
  <2>1. Shown' = Shown
    BY <1>4 DEF Kept, Shown, Current, UnderCursor, Listed
  <2> QED
    BY <1>4, <2>1 DEF Kept, NotesAreAboutShown
<1> QED
  BY <1>2, <1>3, <1>4 DEF NotesKept

\* What was acknowledged and explained counts only for the revision it was about:
\* whatever changes the revision on the screen, the cursor, a refresh, another
\* project or other sources, takes the notes away (reset_cluster_review).
THEOREM NotesBelongToTheScreen == Spec => []NotesAreAboutShown
<1>1. Init => NotesAreAboutShown
  BY DEF Init, NotesAreAboutShown
<1>2. ReviewInv /\ NotesAreAboutShown /\ [Next]_vars => NotesAreAboutShown'
  <2> SUFFICES ASSUME ReviewInv, NotesAreAboutShown, [Next]_vars PROVE NotesAreAboutShown'
    OBVIOUS
  <2>1. CASE UNCHANGED vars
    <3>1. NotesKept
      BY <2>1 DEF vars, NotesKept, Kept
    <3> QED
      BY <2>1, <3>1, StutterIsReview, NotesKeptAreAbout
  <2>2. CASE Next
    BY <2>2, NextKeeps, NotesKeptAreAbout, AnnotateKeeps
  <2> QED
    BY <2>1, <2>2
<1> QED
  BY <1>1, <1>2, ReviewInductive, PTL DEF Spec

\* One step approves what was shown.
ApprovesShown ==
    \A p \in Projects : project[p].exists /\ op # None /\ op.fresh =>
        LET old == project[p] new == project'[p] IN
        /\ new.approved \notin {0, old.approved} => op.proposal = old.proposal
        /\ \A c \in Clusters : new.live[c] \notin {0, old.live[c]} => op.revision = new.live[c]

LEMMA OtherStepsApproveNothing ==
  ASSUME UNCHANGED project
  PROVE  ApprovesShown
BY DEF ApprovesShown

LEMMA FinishApprovesShown ==
  ASSUME ReviewInv, Finish
  PROVE  ApprovesShown
<1>1. /\ op \in Effects /\ op # None /\ made \in Nat
      /\ project \in [Projects -> Journals] /\ op.project \in Projects /\ op.kind # "connect"
      /\ op.project # None
  BY DEF Finish, ReviewInv, TypeOK, Effects
<1>2. PICK x \in Results(project[op.project]) : project' = [project EXCEPT ![op.project] = x.q]
  BY DEF Finish
<1> DEFINE q == project[op.project]
<1>3. q \in Journals
  BY <1>1
<1>4. Approves(q, x)
  BY <1>1, <1>2, <1>3, ResultsApprove
<1>5. op.fresh => /\ q.proposal # 0 => op.proposal = q.proposal
                  /\ \A c \in Clusters : op.cluster = c /\ q.run # None /\ q.critic[c].number # 0
                                          => op.revision = q.critic[c].number
  BY <1>1 DEF ReviewInv, EffectShows
<1> HIDE DEF q
<1> SUFFICES ASSUME NEW p \in Projects, op.fresh
             PROVE  /\ project'[p].approved \notin {0, project[p].approved} => op.proposal = project[p].proposal
                    /\ \A c \in Clusters : project'[p].live[c] \notin {0, project[p].live[c]} => op.revision = project'[p].live[c]
  BY DEF ApprovesShown
<1>6. CASE p = op.project
  <2>1. project'[p] = x.q /\ project[p] = q
    BY <1>1, <1>2, <1>6 DEF q
  <2> QED
    BY <1>4, <1>5, <2>1 DEF Approves
<1>7. CASE p # op.project
  BY <1>1, <1>2, <1>7
<1> QED
  BY <1>6, <1>7

LEMMA ConnectApprovesNothing ==
  ASSUME ReviewInv, FinishConnect
  PROVE  ApprovesShown
<1>1. /\ op \in Effects /\ project \in [Projects -> Journals]
  BY DEF FinishConnect, ReviewInv, TypeOK
<1>2. CASE UNCHANGED project
  BY <1>2, OtherStepsApproveNothing
<1>3. CASE \E q \in Routed(project[op.project]) : op.project # None /\ project' = [project EXCEPT ![op.project] = q]
  <2>1. PICK q \in Routed(project[op.project]) : op.project # None /\ project' = [project EXCEPT ![op.project] = q]
    BY <1>3
  <2>2. op.project \in Projects /\ project[op.project] \in Journals
    BY <1>1, <2>1 DEF Effects
  <2>3. q = project[op.project] \/ (q.approved = 0 /\ \A c \in Clusters : q.live[c] = 0)
    BY <2>1, <2>2, NewRunIsTyped DEF Routed
  <2>4. \A p \in Projects : project'[p] = IF p = op.project THEN q ELSE project[p]
    BY <1>1, <2>1
  <2> QED
    BY <2>3, <2>4 DEF ApprovesShown
<1> QED
  BY <1>2, <1>3 DEF FinishConnect

LEMMA CreateApprovesNothing ==
  ASSUME ReviewInv, FinishCreate
  PROVE  ApprovesShown
<1>1. project \in [Projects -> Journals]
  BY DEF ReviewInv, TypeOK
<1>2. CASE UNCHANGED project
  BY <1>2, OtherStepsApproveNothing
<1>3. CASE \E p \in Projects : \E q : ~project[p].exists /\ project' = [project EXCEPT ![p] = q]
  BY <1>1, <1>3 DEF ApprovesShown
<1> QED
  BY <1>2, <1>3 DEF FinishCreate

\* An operation approves what the curator had on the screen, or something that was
\* made of it, if the screen was refreshed since anything failed (approve_taxonomy,
\* approve_cluster).
THEOREM OnlyShownIsApproved == Spec => ApprovedWasShown
<1>1. ReviewInv /\ [Next]_vars => [ApprovesShown]_vars
  <2> SUFFICES ASSUME ReviewInv, Next PROVE ApprovesShown
    OBVIOUS
  <2>1. CASE Finish \/ FinishConnect \/ FinishCreate
    BY <2>1, FinishApprovesShown, ConnectApprovesNothing, CreateApprovesNothing
  <2>2. CASE ~(Finish \/ FinishConnect \/ FinishCreate)
    <3>1. UNCHANGED journal
      BY <2>2 DEF Next, Review, Start, Quit, Navigate, ChooseProject, Connect, SaveSources, EnterPreflight,
         Compile, Verify, EditTaxonomy, ApproveTaxonomy, MoveCursor, Annotate, RequestRegeneration,
         ApproveCluster, AnswerConsent, SubmitEffect, Ask
    <3> QED
      BY <3>1, OtherStepsApproveNothing DEF journal
  <2> QED
    BY <2>1, <2>2
<1> QED
  BY <1>1, ReviewInductive, PTL DEF Spec, ApprovedWasShown, ApprovesShown
=============================================================================
