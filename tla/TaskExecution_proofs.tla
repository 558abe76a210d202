------------------------- MODULE TaskExecution_proofs -------------------------
(***************************************************************************)
(* What executing the tasks of a run promises, for any profiles, routes,   *)
(* sources and clusters, any number of executions and whatever is edited   *)
(* or dies meanwhile.  The key of a task does not change while it is being *)
(* worked on, and a task that is worked on is not complete; from these two *)
(* follow what a complete task stands for and what a reader may report.    *)
(***************************************************************************)
EXTENDS TaskExecution, SequenceTheorems, TLAPS

Running == {"register", "local", "client", "ask", "seal"}
Statuses == {"queued", "running", "complete", "failed"}
Execution ==
    [pc : Running, run : Nat, at : Positions, output : Nat, allowed : BOOLEAN,
     profiles : [Names -> Profile \cup {None}], client : Profile \cup {None}, edited : SUBSET Names]
Ids == [run : Nat, at : Positions, profile : Profile \cup {None}, input : Seq(Sources \cup Nat)]
Events == [status : Statuses, output : Seq(Nat)]
Exchanges == [task : Ids, asked : Profile, raced : BOOLEAN]

Shape ==
    /\ profiles \in [Names -> Profile \cup {None}] /\ source \in Sources
    /\ runs \in Seq(Sources) /\ taxonomy \in Seq(Nat) /\ Len(taxonomy) = Len(runs)
    /\ revision \in [Clusters -> Nat]
    /\ tasks \in [DOMAIN tasks -> Events] /\ DOMAIN tasks \subseteq Ids
    /\ exchanges \in Seq(Exchanges)
    /\ executor \in {Idle} \cup Execution
    /\ ~Is("idle") => executor.run \in 1..Len(runs)

\* The task under way is in the journal and not complete.
Tasked == {"local", "client", "ask", "seal"}
UnderWay ==
    /\ executor.pc \in Tasked =>
           Key(executor.at) \in DOMAIN tasks /\ Status(Key(executor.at)) # "complete"
    /\ Is("local") => executor.at.stage = "candidates"
    /\ executor.pc \in Tasked \ {"local"} => executor.at.stage # "candidates"

\* A critic is asked about the complete proposal of its cluster.
Proposal(p, cluster, output) == p.at = Position("synthesis", cluster) /\ tasks[p].output = <<output>>
Proposed ==
    ~Is("idle") /\ executor.at.stage = "critic" =>
        \E p \in Completed(executor.run) : Proposal(p, executor.at.cluster, executor.output)

\* An answer is recorded before it is sealed.
Answered ==
    Is("seal") => exchanges # <<>> /\ exchanges[Len(exchanges)].task = Key(executor.at)

\* What may differ from the snapshot of the profiles was edited during the execution.
Snapshot ==
    /\ ~Is("idle") => \A n \in Names : n \in executor.edited \/ profiles[n] = executor.profiles[n]
    /\ Is("ask") => /\ executor.client \in Profile
                    /\ \/ executor.client = KeyProfile(executor.at)
                       \/ Route[executor.at.stage] \in executor.edited
    /\ \A e \in DOMAIN exchanges : exchanges[e].asked = exchanges[e].task.profile \/ exchanges[e].raced

\* Only a critic's output has a second part.
Outputs ==
    \A id \in DOMAIN tasks :
        /\ Status(id) = "complete" <=> tasks[id].output # <<>>
        /\ Status(id) = "complete" /\ id.at.stage # "critic" => tasks[id].output = <<tasks[id].output[1]>>

\* integration_status has read a task that is still there, and what it saw complete
\* still is.
Reading ==
    /\ reader.pc \in {"resting", "tasks", "event", "reported"}
    /\ reader.pc # "resting" => reader.task \in DOMAIN tasks
    /\ reader.pc \in {"tasks", "event"} =>
           reader \in [pc : {"tasks", "event"}, run : Nat, task : Ids, before : BOOLEAN]
    /\ reader.pc \in {"tasks", "event"} /\ reader.before => Status(reader.task) = "complete"
    /\ reader.pc = "tasks" => reader.task.run = reader.run

ExecutionInv ==
    /\ Shape /\ UnderWay /\ Proposed /\ Answered /\ Snapshot /\ Outputs
    /\ DisclosureIsAuthorized /\ WorkIsRecorded
ReportInv == Reading /\ ReportIsCurrent

-----------------------------------------------------------------------------
(* The execution and its key. *)

\* The executor is idle or has an execution.
LEMMA ExecutorShape ==
  ASSUME Shape
  PROVE  /\ Is("idle") <=> executor = Idle
         /\ ~Is("idle") => executor \in Execution
BY DEF Shape, Is, Idle, Execution, Running

\* The key of a position is that of its run, its position and, if a provider is
\* asked, of the profile that the execution has read.
LEMMA KeyShape ==
  ASSUME Shape, ~Is("idle"), NEW at \in Positions
  PROVE  /\ Key(at) \in Ids
         /\ Key(at).run = executor.run /\ Key(at).at = at /\ Key(at).profile = KeyProfile(at)
<1>1. executor \in Execution /\ executor.run \in 1..Len(runs)
  BY ExecutorShape DEF Shape
<1>2. KeyProfile(at) \in Profile \cup {None}
  <2>1. at.stage # "candidates" => Route[at.stage] \in Names
    BY TaskExecutionAssumption DEF Positions, Roles
  <2> QED
    BY <1>1, <2>1 DEF KeyProfile, Execution
<1>3. KeyInput(at) \in Seq(Sources \cup Nat)
  <2>1. runs[executor.run] \in Sources /\ taxonomy[executor.run] \in Nat /\ executor.output \in Nat
    BY <1>1 DEF Shape, Execution
  <2>2. CASE at.stage = "embedding"
    BY <2>1, <2>2 DEF KeyInput, EmbeddingInput
  <2>3. CASE at.stage = "candidates"
    BY <2>1, <2>3 DEF KeyInput, CandidatesInput
  <2>4. CASE at.stage = "organizer"
    BY <2>1, <2>4 DEF KeyInput, OrganizerInput
  <2>5. CASE at.stage = "synthesis"
    <3>1. revision[at.cluster] \in Nat
      BY <2>5 DEF Shape, Positions
    <3> QED
      BY <2>1, <2>5, <3>1 DEF KeyInput, SynthesisInput
  <2>6. CASE at.stage = "critic"
    BY <2>1, <2>6 DEF KeyInput, CriticInput
  <2> QED
    BY <2>2, <2>3, <2>4, <2>5, <2>6 DEF Positions
<1>4. executor.run \in Nat
  BY <1>1 DEF Execution
<1> QED
  BY <1>2, <1>3, <1>4 DEF Key, Ids

\* The key does not change while the execution stays where it is, whatever is
\* edited.
LEMMA KeyStays ==
  ASSUME UNCHANGED <<runs, taxonomy, revision>>, executor'.run = executor.run,
         executor'.at = executor.at, executor'.output = executor.output, executor'.profiles = executor.profiles
  PROVE  Key(executor.at)' = Key(executor.at) /\ KeyProfile(executor.at)' = KeyProfile(executor.at)
BY DEF Key, KeyProfile, KeyInput, EmbeddingInput, CandidatesInput, OrganizerInput, SynthesisInput,
   CriticInput

\* Where the execution goes: to an end or to the registration of a next position,
\* the critic's with the proposal that was just completed.
LEMMA AfterShape ==
  ASSUME Shape, ~Is("idle"), NEW output \in Nat, NEW next, next = After(executor.at, output), next # Idle
  PROVE  /\ next \in Execution /\ next.pc = "register"
         /\ next.run = executor.run /\ next.profiles = executor.profiles /\ next.edited = executor.edited
         /\ next.at.stage = "critic" =>
                /\ executor.at.stage = "synthesis" /\ next.at.cluster = executor.at.cluster
                /\ next.output = output
<1>1. executor \in Execution /\ executor.at \in Positions
  BY ExecutorShape DEF Execution
<1> DEFINE at == executor.at
           Step(p, o) == [executor EXCEPT !.pc = "register", !.at = p, !.output = o]
<1>2. ASSUME NEW p \in Positions, NEW o \in Nat
      PROVE  /\ Step(p, o) \in Execution /\ Step(p, o).pc = "register" /\ Step(p, o).at = p
             /\ Step(p, o).output = o /\ Step(p, o).run = executor.run
             /\ Step(p, o).profiles = executor.profiles /\ Step(p, o).edited = executor.edited
  BY <1>1 DEF Execution, Running
<1>3. /\ Position("candidates", 0) \in Positions /\ Position("organizer", 0) \in Positions
      /\ \A c \in Clusters : Position("synthesis", c) \in Positions /\ Position("critic", c) \in Positions
      /\ \A s, c : Position(s, c).stage = s /\ Position(s, c).cluster = c
      /\ 1 \in Clusters
  BY TaskExecutionAssumption DEF Positions, Position, Clusters
<1> HIDE DEF Step
<1>4. CASE at.stage = "embedding"
  <2>1. next = Step(Position("candidates", 0), output)
    BY <1>4 DEF After, Step
  <2> QED
    BY <1>2, <1>3, <2>1
<1>5. CASE at.stage = "candidates"
  <2>1. next = Step(Position("organizer", 0), output)
    BY <1>5 DEF After, Step
  <2> QED
    BY <1>2, <1>3, <2>1
<1>6. CASE at.stage = "organizer"
  <2>1. next = Step(Position("synthesis", 1), 0)
    BY <1>6 DEF After, Step
  <2> QED
    BY <1>2, <1>3, <2>1
<1>7. CASE at.stage = "synthesis"
  <2>1. at.cluster \in Clusters
    BY <1>1, <1>7 DEF Positions
  <2>2. next = Step(Position("critic", at.cluster), output)
    BY <1>7 DEF After, Step
  <2> QED
    BY <1>2, <1>3, <1>7, <2>1, <2>2
<1>8. CASE at.stage = "critic"
  <2>1. at.cluster + 1 \in Clusters /\ next = Step(Position("synthesis", at.cluster + 1), 0)
    BY <1>8 DEF After, Step
  <2> QED
    BY <1>2, <1>3, <2>1
<1> QED
  BY <1>1, <1>4, <1>5, <1>6, <1>7, <1>8 DEF Positions

-----------------------------------------------------------------------------
(* The journal. *)

\* What a step may do to the events of the tasks: nothing, a new definition with its
\* first event, or a new event of a task that is not complete.
Registered(id) ==
    /\ id \in Ids \ DOMAIN tasks
    /\ tasks' = [t \in DOMAIN tasks \cup {id} |->
                    IF t = id THEN [status |-> "queued", output |-> <<>>] ELSE tasks[t]]
Reported(id, status, output) ==
    /\ id \in DOMAIN tasks /\ Status(id) # "complete"
    /\ status \in Statuses /\ output \in Seq(Nat) /\ (status = "complete" <=> output # <<>>)
    /\ Append_(id, status, output)

\* No step takes a task away, or touches a complete one (append_task_status).
LEMMA TasksStay ==
  ASSUME Shape, NEW id, NEW status, NEW output,
         UNCHANGED tasks \/ Registered(id) \/ Reported(id, status, output)
  PROVE  /\ tasks' \in [DOMAIN tasks' -> Events] /\ DOMAIN tasks' \subseteq Ids
         /\ \A t \in DOMAIN tasks :
                /\ t \in DOMAIN tasks'
                /\ Status(t) = "complete" => tasks'[t] = tasks[t]
                /\ t # id => tasks'[t] = tasks[t]
         /\ \A t \in DOMAIN tasks' : t # id => t \in DOMAIN tasks
<1> DEFINE e == [status |-> "queued", output |-> <<>>]
<1>1. e \in Events /\ tasks \in [DOMAIN tasks -> Events] /\ DOMAIN tasks \subseteq Ids
  BY DEF Shape, Events, Statuses
<1>2. CASE UNCHANGED tasks
  BY <1>1, <1>2
<1>3. CASE Registered(id)
  BY <1>1, <1>3 DEF Registered, Status
<1>4. CASE Reported(id, status, output)
  <2>1. [status |-> status, output |-> output] \in Events
    BY <1>4 DEF Reported, Events
  <2> QED
    BY <1>1, <1>4, <2>1 DEF Reported, Append_, Status
<1> QED
  BY <1>2, <1>3, <1>4

\* An event keeps the shape of what tasks answer.
LEMMA OutputsStay ==
  ASSUME Shape, Outputs, NEW id, NEW status, NEW output,
         UNCHANGED tasks \/ Registered(id) \/ Reported(id, status, output),
         status = "complete" /\ id.at.stage # "critic" => output = <<output[1]>>
  PROVE  Outputs'
<1>1. CASE UNCHANGED tasks
  BY <1>1 DEF Outputs, Status
<1>2. CASE Registered(id)
  BY <1>2 DEF Registered, Outputs, Status
<1>3. CASE Reported(id, status, output)
  <2>1. /\ DOMAIN tasks' = DOMAIN tasks /\ tasks'[id] = [status |-> status, output |-> output]
        /\ \A t \in DOMAIN tasks : t # id => tasks'[t] = tasks[t]
    BY <1>3 DEF Reported, Append_, Shape
  <2> QED
    BY <1>3, <2>1 DEF Reported, Outputs, Status
<1> QED
  BY <1>1, <1>2, <1>3

\* What a complete provider task stands for.
Worked(id) ==
    /\ tasks[id].output[1] \in DOMAIN exchanges /\ exchanges[tasks[id].output[1]].task = id
    /\ id.at.stage = "critic" =>
           \E p \in Completed(id.run) : Proposal(p, id.at.cluster, tasks[id].output[2])

\* Recordings and complete tasks are never lost, so what was recorded stays so.
LEMMA WorkStays ==
  ASSUME Shape, WorkIsRecorded, NEW id, NEW status, NEW output,
         UNCHANGED tasks \/ Registered(id) \/ Reported(id, status, output),
         \A e \in DOMAIN exchanges : e \in DOMAIN exchanges' /\ exchanges'[e] = exchanges[e],
         Reported(id, status, output) /\ status = "complete" /\ id.at.stage # "candidates" => Worked(id)'
  PROVE  WorkIsRecorded'
<1>1. /\ \A t \in DOMAIN tasks : t \in DOMAIN tasks' /\ (Status(t) = "complete" => tasks'[t] = tasks[t])
      /\ \A t \in DOMAIN tasks' : t # id => t \in DOMAIN tasks /\ tasks'[t] = tasks[t]
  BY TasksStay
<1> SUFFICES ASSUME NEW t \in DOMAIN tasks', tasks'[t].status = "complete", t.at.stage # "candidates"
             PROVE  Worked(t)'
  BY DEF WorkIsRecorded, Worked, Proposal, Status
<1>2. ASSUME t \in DOMAIN tasks, Status(t) = "complete" PROVE Worked(t)'
  <2>1. Worked(t)
    BY <1>2 DEF WorkIsRecorded, Worked, Proposal
  <2>2. tasks'[t] = tasks[t]
    BY <1>1, <1>2
  <2>3. ASSUME NEW p \in Completed(t.run), Proposal(p, t.at.cluster, tasks[t].output[2])
        PROVE  /\ p \in {i \in DOMAIN tasks' : i.run = t.run /\ tasks'[i].status = "complete"}
               /\ p.at = Position("synthesis", t.at.cluster) /\ tasks'[p].output = <<tasks'[t].output[2]>>
    <3>1. p \in DOMAIN tasks /\ Status(p) = "complete"
      BY DEF Completed
    <3>2. p \in DOMAIN tasks' /\ tasks'[p] = tasks[p]
      BY <1>1, <3>1
    <3> QED
      BY <2>2, <2>3, <3>1, <3>2 DEF Completed, Proposal, Status
  <2> QED
    BY <1>1, <1>2, <2>1, <2>2, <2>3 DEF Worked, Completed, Proposal, Status
<1>3. CASE t # id
  BY <1>1, <1>2, <1>3 DEF Status
<1>4. CASE t = id
  <2>1. CASE UNCHANGED tasks
    BY <1>2, <2>1 DEF Status
  <2>2. CASE Registered(id)
    BY <1>4, <2>2 DEF Registered
  <2>3. CASE Reported(id, status, output)
    <3>1. tasks'[id] = [status |-> status, output |-> output]
      BY <2>3 DEF Reported, Append_, Shape
    <3> QED
      BY <1>4, <2>3, <3>1
  <2> QED
    BY <2>1, <2>2, <2>3
<1> QED
  BY <1>3, <1>4

-----------------------------------------------------------------------------
(* Every step keeps the invariant. *)

\* An execution that ends has nothing under way.
LEMMA EndKeeps ==
  ASSUME executor' = Idle
  PROVE  /\ UnderWay' /\ Proposed' /\ Answered' /\ DisclosureIsAuthorized'
         /\ UNCHANGED exchanges /\ Snapshot => Snapshot'
<1>1. executor'.pc = "idle"
  BY DEF Idle
<1> QED
  BY <1>1 DEF UnderWay, Tasked, Proposed, Answered, DisclosureIsAuthorized, Snapshot, Is

\* An execution that goes to its next position has only to know the proposal that
\* a critic is asked about.
LEMMA NextKeeps ==
  ASSUME Shape, Snapshot, ~Is("idle"), NEW output \in Nat, executor' = After(executor.at, output),
         UNCHANGED <<profiles, exchanges, runs>>,
         executor.at.stage = "synthesis" =>
             \E p \in DOMAIN tasks' :
                 /\ p.run = executor.run /\ tasks'[p].status = "complete"
                 /\ p.at = Position("synthesis", executor.at.cluster) /\ tasks'[p].output = <<output>>
  PROVE  /\ executor' \in {Idle} \cup Execution /\ (~Is("idle") => executor.run \in 1..Len(runs))'
         /\ UnderWay' /\ Proposed' /\ Answered' /\ DisclosureIsAuthorized' /\ Snapshot'
<1>1. CASE executor' = Idle
  BY <1>1, EndKeeps DEF Is, Idle
<1>2. CASE executor' # Idle
  <2>1. /\ executor' \in Execution /\ executor'.pc = "register"
        /\ executor'.run = executor.run /\ executor'.profiles = executor.profiles
        /\ executor'.edited = executor.edited
        /\ executor'.at.stage = "critic" =>
               /\ executor.at.stage = "synthesis" /\ executor'.at.cluster = executor.at.cluster
               /\ executor'.output = output
    BY <1>2, AfterShape
  <2>2. UnderWay' /\ Answered' /\ DisclosureIsAuthorized'
    BY <2>1 DEF UnderWay, Tasked, Answered, DisclosureIsAuthorized, Is
  <2>3. Proposed'
    BY <2>1 DEF Proposed, Proposal, Completed, Status
  <2>4. Snapshot'
    BY <2>1 DEF Snapshot, Is
  <2> QED
    BY <2>1, <2>2, <2>3, <2>4 DEF Shape
<1> QED
  BY <1>1, <1>2

\* A proposal that is known stays so.
LEMMA ProposalStays ==
  ASSUME Shape, Proposed, ~Is("idle"), executor.at.stage = "critic", NEW id, NEW status, NEW output,
         UNCHANGED tasks \/ Registered(id) \/ Reported(id, status, output)
  PROVE  \E p \in DOMAIN tasks' :
             /\ p.run = executor.run /\ tasks'[p].status = "complete"
             /\ p.at = Position("synthesis", executor.at.cluster) /\ tasks'[p].output = <<executor.output>>
<1>1. PICK p \in Completed(executor.run) : Proposal(p, executor.at.cluster, executor.output)
  BY DEF Proposed
<1>2. p \in DOMAIN tasks /\ p.run = executor.run /\ Status(p) = "complete"
  BY <1>1 DEF Completed
<1>3. p \in DOMAIN tasks' /\ tasks'[p] = tasks[p]
  BY <1>2, TasksStay
<1> QED
  BY <1>1, <1>2, <1>3 DEF Proposal, Status

\* A new execution has a snapshot of the profiles as they are.
LEMMA BeginKeeps ==
  ASSUME ExecutionInv, Begin
  PROVE  ExecutionInv'
<1> USE DEF ExecutionInv
<1>1. PICK allowed \in BOOLEAN :
        LET resumed == runs # <<>> /\ runs[Len(runs)] = source IN
        /\ runs' = IF resumed THEN runs ELSE Append(runs, source)
        /\ taxonomy' = IF resumed THEN taxonomy ELSE Append(taxonomy, 0)
        /\ revision' = IF resumed THEN revision ELSE [c \in Clusters |-> 1]
        /\ executor' = IF \A r \in Roles : profiles[Route[r]] # None
                       THEN [pc |-> "register", run |-> Len(runs'), at |-> Global, output |-> 0,
                             allowed |-> allowed, profiles |-> profiles, client |-> None, edited |-> {}]
                       ELSE Idle
  BY DEF Begin
<1>2. UNCHANGED <<profiles, source, tasks, exchanges, reader, edits>>
  BY DEF Begin
<1>3. /\ runs' \in Seq(Sources) /\ taxonomy' \in Seq(Nat) /\ Len(taxonomy') = Len(runs')
      /\ Len(runs') \in 1..Len(runs') /\ revision' \in [Clusters -> Nat]
  <2>1. runs \in Seq(Sources) /\ taxonomy \in Seq(Nat) /\ Len(taxonomy) = Len(runs) /\ source \in Sources
        /\ revision \in [Clusters -> Nat] /\ [c \in Clusters |-> 1] \in [Clusters -> Nat]
    BY DEF Shape
  <2>2. CASE runs # <<>> /\ runs[Len(runs)] = source
    BY <1>1, <2>1, <2>2
  <2>3. CASE ~(runs # <<>> /\ runs[Len(runs)] = source)
    <3>1. runs' = Append(runs, source) /\ taxonomy' = Append(taxonomy, 0)
          /\ revision' = [c \in Clusters |-> 1]
      BY <1>1, <2>3
    <3>2. /\ Append(runs, source) \in Seq(Sources) /\ Len(Append(runs, source)) = Len(runs) + 1
          /\ Append(taxonomy, 0) \in Seq(Nat) /\ Len(Append(taxonomy, 0)) = Len(taxonomy) + 1
          /\ Len(runs) \in Nat
      BY <2>1, AppendProperties
    <3> QED
      BY <2>1, <3>1, <3>2
  <2> QED
    BY <2>2, <2>3
<1>4. Global \in Positions /\ Global.stage = "embedding"
  BY DEF Global, Position, Positions
<1>5. CASE executor' = Idle
  <2>1. Shape'
    BY <1>2, <1>3, <1>5 DEF Shape, Is, Idle
  <2> QED
    BY <1>2, <1>5, <2>1, EndKeeps DEF Outputs, WorkIsRecorded, Status, Completed
<1>6. CASE executor' = [pc |-> "register", run |-> Len(runs'), at |-> Global, output |-> 0,
                        allowed |-> allowed, profiles |-> profiles, client |-> None, edited |-> {}]
  <2>1. executor' \in Execution /\ executor'.run \in 1..Len(runs')
    BY <1>3, <1>4, <1>6 DEF Execution, Running, Shape
  <2>2. Shape'
    BY <1>2, <1>3, <2>1 DEF Shape
  <2>3. UnderWay' /\ Proposed' /\ Answered' /\ DisclosureIsAuthorized'
    BY <1>4, <1>6 DEF UnderWay, Tasked, Proposed, Answered, DisclosureIsAuthorized, Is
  <2>4. Snapshot'
    BY <1>2, <1>6 DEF Snapshot, Is
  <2> QED
    BY <1>2, <2>2, <2>3, <2>4 DEF Outputs, WorkIsRecorded, Status, Completed
<1> QED
  BY <1>1, <1>5, <1>6

\* A registered task is under way or, if it is complete, used as it is.
LEMMA RegisterKeeps ==
  ASSUME ExecutionInv, Register
  PROVE  ExecutionInv'
<1> USE DEF ExecutionInv
<1> DEFINE id == Key(executor.at)
<1>1. /\ executor \in Execution /\ executor.pc = "register" /\ ~Is("idle") /\ executor.at \in Positions
      /\ UNCHANGED <<profiles, source, runs, exchanges, taxonomy, revision>>
  BY ExecutorShape DEF Register, Is, Execution
<1>2. id \in Ids /\ id.run = executor.run /\ id.at = executor.at
  BY <1>1, KeyShape
<1>3. CASE id \in DOMAIN tasks /\ Status(id) = "complete"
  <2> DEFINE o == tasks[id].output[1]
  <2>1. UNCHANGED tasks /\ executor' = After(executor.at, o)
    BY <1>3 DEF Register
  <2>2. tasks[id].output \in Seq(Nat) /\ tasks[id].output # <<>> /\ o \in Nat
    BY <1>3 DEF Shape, Outputs, Events
  <2>3. executor.at.stage = "synthesis" =>
             \E p \in DOMAIN tasks' :
                 /\ p.run = executor.run /\ tasks'[p].status = "complete"
                 /\ p.at = Position("synthesis", executor.at.cluster) /\ tasks'[p].output = <<o>>
    <3> SUFFICES ASSUME executor.at.stage = "synthesis"
                 PROVE  /\ id.at = Position("synthesis", executor.at.cluster) /\ tasks[id].output = <<o>>
      BY <1>2, <1>3, <2>1 DEF Status
    <3>1. executor.at = [stage |-> "synthesis", cluster |-> executor.at.cluster]
      BY <1>1 DEF Positions
    <3> QED
      BY <1>2, <1>3, <3>1 DEF Outputs, Position
  <2> HIDE DEF o, id
  <2>4. /\ executor' \in {Idle} \cup Execution /\ (~Is("idle") => executor.run \in 1..Len(runs))'
        /\ UnderWay' /\ Proposed' /\ Answered' /\ DisclosureIsAuthorized' /\ Snapshot'
    BY <1>1, <2>1, <2>2, <2>3, NextKeeps
  <2>5. Shape' /\ Outputs' /\ WorkIsRecorded'
    BY <1>1, <2>1, <2>4 DEF Shape, Outputs, WorkIsRecorded, Status, Completed
  <2> QED
    BY <2>4, <2>5
<1>4. CASE ~(id \in DOMAIN tasks /\ Status(id) = "complete")
  <2> DEFINE pc == IF executor.at.stage = "candidates" THEN "local" ELSE "client"
  <2>1. /\ (UNCHANGED tasks /\ id \in DOMAIN tasks) \/ Registered(id)
        /\ executor' = [executor EXCEPT !.pc = pc]
    BY <1>2, <1>4 DEF Register, Registered
  <2>2. /\ executor' \in Execution /\ executor'.pc = pc /\ executor'.run = executor.run
        /\ executor'.at = executor.at /\ executor'.output = executor.output
        /\ executor'.profiles = executor.profiles /\ executor'.edited = executor.edited
    BY <1>1, <2>1 DEF Execution, Running
  <2>3. Key(executor.at)' = id
    BY <1>1, <2>2, KeyStays
  <2> HIDE DEF id
  <2>4. id \in DOMAIN tasks' /\ tasks'[id].status # "complete"
    BY <1>4, <2>1 DEF Registered, Status
  <2>5. /\ tasks' \in [DOMAIN tasks' -> Events] /\ DOMAIN tasks' \subseteq Ids
    BY <2>1, TasksStay
  <2>6. Shape'
    BY <1>1, <2>2, <2>5 DEF Shape
  <2>7. UnderWay' /\ Answered' /\ DisclosureIsAuthorized'
    BY <2>2, <2>3, <2>4 DEF UnderWay, Tasked, Answered, DisclosureIsAuthorized, Is, Status
  <2>8. Proposed'
    BY <1>1, <2>1, <2>2, ProposalStays DEF Proposed, Proposal, Completed, Status
  <2>9. Snapshot'
    BY <1>1, <2>2 DEF Snapshot, Is
  <2>10. Outputs'
    BY <2>1, OutputsStay
  <2>11. WorkIsRecorded'
    BY <1>1, <2>1, WorkStays DEF Reported, Registered
  <2> QED
    BY <2>6, <2>7, <2>8, <2>9, <2>10, <2>11
<1> QED
  BY <1>3, <1>4

\* An execution that stops, with or without a last event of its task, keeps what
\* was recorded.
LEMMA ReportAndEnd ==
  ASSUME ExecutionInv, NEW id, NEW status \in {"running", "failed"}, Reported(id, status, <<>>), executor' = Idle,
         UNCHANGED <<profiles, source, runs, exchanges, taxonomy, revision>>
  PROVE  ExecutionInv'
<1> USE DEF ExecutionInv
<1>1. Shape'
  BY TasksStay DEF Shape, Is, Idle
<1>2. Outputs'
  BY OutputsStay
<1>3. WorkIsRecorded'
  BY WorkStays
<1> QED
  BY <1>1, <1>2, <1>3, EndKeeps

\* The same, without a last event.
LEMMA JustEnd ==
  ASSUME ExecutionInv, executor' = Idle,
         UNCHANGED <<profiles, source, runs, tasks, exchanges, taxonomy, revision>>
  PROVE  ExecutionInv'
<1> USE DEF ExecutionInv
<1>1. Shape'
  BY DEF Shape, Is, Idle
<1>2. Outputs' /\ WorkIsRecorded'
  BY DEF Outputs, WorkIsRecorded, Status, Completed
<1> QED
  BY <1>1, <1>2, EndKeeps

\* Candidates are computed here, or not.
LEMMA ComputeKeeps ==
  ASSUME ExecutionInv, Compute
  PROVE  ExecutionInv'
<1> USE DEF ExecutionInv
<1> DEFINE id == Key(executor.at)
<1>1. /\ executor \in Execution /\ executor.pc = "local" /\ ~Is("idle") /\ executor.at \in Positions
      /\ UNCHANGED <<profiles, source, runs, exchanges, taxonomy, revision>>
      /\ executor.at.stage = "candidates" /\ id \in DOMAIN tasks /\ Status(id) # "complete"
  BY ExecutorShape DEF Compute, Is, Execution, UnderWay, Tasked
<1>2. id \in Ids /\ id.run = executor.run /\ id.at = executor.at
  BY <1>1, KeyShape
<1>3. executor.output \in Nat /\ <<executor.output>> \in Seq(Nat) /\ <<executor.output>> # <<>>
      /\ <<executor.output>>[1] = executor.output
  BY <1>1 DEF Execution
<1>4. CASE Append_(id, "complete", <<executor.output>>) /\ executor' = After(executor.at, executor.output)
  <2> HIDE DEF id
  <2>1. Reported(id, "complete", <<executor.output>>)
    BY <1>1, <1>3, <1>4 DEF Reported, Statuses
  <2>2. /\ executor' \in {Idle} \cup Execution /\ (~Is("idle") => executor.run \in 1..Len(runs))'
        /\ UnderWay' /\ Proposed' /\ Answered' /\ DisclosureIsAuthorized' /\ Snapshot'
    BY <1>1, <1>3, <1>4, NextKeeps
  <2>3. Shape'
    BY <1>1, <2>1, <2>2, TasksStay DEF Shape
  <2>4. Outputs'
    BY <1>3, <2>1, OutputsStay
  <2>5. WorkIsRecorded'
    BY <1>1, <1>2, <2>1, WorkStays
  <2> QED
    BY <2>2, <2>3, <2>4, <2>5
<1>5. CASE Append_(id, "running", <<>>) /\ Stop
  <2> HIDE DEF id
  <2>1. Reported(id, "running", <<>>) /\ executor' = Idle
    BY <1>1, <1>5 DEF Reported, Statuses, Stop
  <2> QED
    BY <1>1, <2>1, ReportAndEnd
<1> QED
  BY <1>4, <1>5 DEF Compute

\* A remote provider is opened only for what it may get, as its profile is now.
LEMMA OpenKeeps ==
  ASSUME ExecutionInv, Open
  PROVE  ExecutionInv'
<1> USE DEF ExecutionInv
<1> DEFINE id == Key(executor.at)
           name == Route[executor.at.stage]
<1>1. /\ executor \in Execution /\ executor.pc = "client" /\ ~Is("idle") /\ executor.at \in Positions
      /\ UNCHANGED <<profiles, source, runs, exchanges, taxonomy, revision>>
      /\ executor.at.stage # "candidates" /\ id \in DOMAIN tasks /\ Status(id) # "complete"
  BY ExecutorShape DEF Open, OpenFor, Is, Execution, UnderWay, Tasked
<1>2. id \in Ids /\ id.run = executor.run /\ id.at = executor.at
  BY <1>1, KeyShape
<1>3. CASE /\ profiles[name] # None /\ MayDisclose(profiles[name], executor.at)
           /\ Append_(id, "running", <<>>)
           /\ executor' = [executor EXCEPT !.pc = "ask", !.client = profiles[name]]
  <2>1. name \in Names /\ profiles[name] \in Profile
    BY <1>1, <1>3, TaskExecutionAssumption DEF Shape, Positions, Roles
  <2>2. /\ executor' \in Execution /\ executor'.pc = "ask" /\ executor'.run = executor.run
        /\ executor'.at = executor.at /\ executor'.output = executor.output
        /\ executor'.profiles = executor.profiles /\ executor'.edited = executor.edited
        /\ executor'.client = profiles[name] /\ executor'.allowed = executor.allowed
    BY <1>1, <1>3, <2>1 DEF Execution, Running
  <2>3. Key(executor.at)' = id
    BY <1>1, <2>2, KeyStays
  <2>4. Reported(id, "running", <<>>)
    BY <1>1, <1>3 DEF Reported, Statuses
  <2>5. DisclosureIsAuthorized'
    BY <1>1, <1>3, <2>2 DEF DisclosureIsAuthorized, MayDisclose, AuthorizeDisclosure, Disclosed, Is
  <2>6. Snapshot'
    <3>1. executor'.client = KeyProfile(executor.at)' \/ name \in executor'.edited
      BY <1>1, <2>1, <2>2 DEF Snapshot, KeyProfile
    <3> QED
      BY <1>1, <2>1, <2>2, <3>1 DEF Snapshot, Is
  <2> HIDE DEF id, name
  <2>7. id \in DOMAIN tasks' /\ tasks'[id].status = "running"
    BY <2>4 DEF Reported, Append_, Shape
  <2>8. Shape'
    BY <1>1, <2>2, <2>4, TasksStay DEF Shape
  <2>9. UnderWay' /\ Answered'
    BY <1>1, <2>2, <2>3, <2>7 DEF UnderWay, Tasked, Answered, Is, Status
  <2>10. Proposed'
    BY <1>1, <2>2, <2>4, ProposalStays DEF Proposed, Proposal, Completed, Status
  <2>11. Outputs'
    BY <2>4, OutputsStay
  <2>12. WorkIsRecorded'
    BY <1>1, <2>4, WorkStays
  <2> QED
    BY <2>5, <2>6, <2>8, <2>9, <2>10, <2>11, <2>12
<1>4. CASE Stop /\ UNCHANGED tasks
  BY <1>1, <1>4, JustEnd DEF Stop
<1> QED
  BY <1>3, <1>4 DEF Open, OpenFor

\* An answer that is recorded names the task and the profile that was asked.
LEMMA AskKeeps ==
  ASSUME ExecutionInv, Ask
  PROVE  ExecutionInv'
<1> USE DEF ExecutionInv
<1> DEFINE id == Key(executor.at)
           raced == Route[executor.at.stage] \in executor.edited
           exchange == [task |-> id, asked |-> executor.client, raced |-> raced]
<1>1. /\ executor \in Execution /\ executor.pc = "ask" /\ ~Is("idle") /\ executor.at \in Positions
      /\ UNCHANGED <<profiles, source, runs, taxonomy, revision>>
      /\ executor.at.stage # "candidates" /\ id \in DOMAIN tasks /\ Status(id) # "complete"
  BY ExecutorShape DEF Ask, Is, Execution, UnderWay, Tasked
<1>2. id \in Ids /\ id.run = executor.run /\ id.at = executor.at /\ id.profile = KeyProfile(executor.at)
  BY <1>1, KeyShape
<1>3. CASE /\ exchanges' = Append(exchanges, exchange)
           /\ executor' = [executor EXCEPT !.pc = "seal"] /\ UNCHANGED tasks
  <2>1. executor.client \in Profile /\ (executor.client = KeyProfile(executor.at) \/ raced)
    BY <1>1 DEF Snapshot, Is
  <2>2. exchange \in Exchanges
    BY <1>2, <2>1 DEF Exchanges
  <2>3. /\ executor' \in Execution /\ executor'.pc = "seal" /\ executor'.run = executor.run
        /\ executor'.at = executor.at /\ executor'.output = executor.output
        /\ executor'.profiles = executor.profiles /\ executor'.edited = executor.edited
    BY <1>1, <1>3 DEF Execution, Running
  <2>4. Key(executor.at)' = id
    BY <1>1, <2>3, KeyStays
  <2>5. exchange.task = id /\ exchange.asked = executor.client /\ exchange.raced = raced
    OBVIOUS
  <2> HIDE DEF id, exchange, raced
  <2>6. /\ exchanges' \in Seq(Exchanges) /\ Len(exchanges') = Len(exchanges) + 1 /\ Len(exchanges) \in Nat
        /\ exchanges'[Len(exchanges')] = exchange /\ exchanges' # <<>>
        /\ \A e \in 1..Len(exchanges) : exchanges'[e] = exchanges[e]
    <3>1. exchanges \in Seq(Exchanges) /\ exchanges' = Append(exchanges, exchange)
      BY <1>3 DEF Shape
    <3>2. /\ Append(exchanges, exchange) \in Seq(Exchanges)
          /\ Len(Append(exchanges, exchange)) = Len(exchanges) + 1
          /\ \A e \in 1..Len(exchanges) : Append(exchanges, exchange)[e] = exchanges[e]
          /\ Append(exchanges, exchange)[Len(exchanges) + 1] = exchange
          /\ Len(exchanges) \in Nat
      BY <2>2, <3>1, AppendProperties
    <3>3. exchanges' # <<>>
      BY <3>1, <3>2
    <3> QED
      BY <3>1, <3>2, <3>3
  <2>7. DOMAIN exchanges = 1..Len(exchanges) /\ DOMAIN exchanges' = 1..Len(exchanges')
    BY <2>6 DEF Shape
  <2>8. Shape'
    BY <1>1, <1>3, <2>3, <2>6 DEF Shape
  <2>9. UnderWay' /\ DisclosureIsAuthorized'
    BY <1>1, <1>3, <2>3, <2>4 DEF UnderWay, Tasked, DisclosureIsAuthorized, Is, Status
  <2>10. Answered'
    BY <2>3, <2>4, <2>5, <2>6 DEF Answered, Is
  <2>11. Proposed'
    BY <1>1, <1>3, <2>3, ProposalStays DEF Proposed, Proposal, Completed, Status
  <2>12. Snapshot'
    <3>1. ASSUME NEW e \in DOMAIN exchanges'
          PROVE  exchanges'[e].asked = exchanges'[e].task.profile \/ exchanges'[e].raced
      <4>1. CASE e \in DOMAIN exchanges
        BY <2>6, <2>7, <4>1 DEF Snapshot
      <4>2. CASE e = Len(exchanges')
        BY <1>2, <2>1, <2>5, <2>6, <4>2
      <4> QED
        BY <2>6, <2>7, <4>1, <4>2
    <3> QED
      BY <1>1, <2>3, <3>1 DEF Snapshot, Is
  <2>13. Outputs'
    BY <1>3 DEF Outputs, Status
  <2>14. WorkIsRecorded'
    <3>1. \A e \in DOMAIN exchanges : e \in DOMAIN exchanges' /\ exchanges'[e] = exchanges[e]
      BY <2>6, <2>7
    <3>2. ~Reported(id, "queued", <<>>) \/ "queued" # "complete"
      OBVIOUS
    <3> QED
      BY <1>3, <3>1, <3>2, WorkStays
  <2> QED
    BY <2>8, <2>9, <2>10, <2>11, <2>12, <2>13, <2>14
<1>4. CASE Stop /\ UNCHANGED <<tasks, exchanges>>
  BY <1>1, <1>4, JustEnd DEF Stop
<1>5. CASE Stop /\ Append_(id, "failed", <<>>) /\ UNCHANGED exchanges
  <2> HIDE DEF id
  <2>1. Reported(id, "failed", <<>>) /\ executor' = Idle
    BY <1>1, <1>5 DEF Reported, Statuses, Stop
  <2> QED
    BY <1>1, <1>5, <2>1, ReportAndEnd
<1> QED
  BY <1>3, <1>4, <1>5 DEF Ask

\* What is sealed rests on the recording just made, a critic also on the proposal.
LEMMA SealKeeps ==
  ASSUME ExecutionInv, Seal
  PROVE  ExecutionInv'
<1> USE DEF ExecutionInv
<1> DEFINE id == Key(executor.at)
           recording == Len(exchanges)
           output == IF executor.at.stage = "critic" THEN <<recording, executor.output>> ELSE <<recording>>
<1>1. /\ executor \in Execution /\ executor.pc = "seal" /\ ~Is("idle") /\ executor.at \in Positions
      /\ UNCHANGED <<profiles, source, runs, exchanges, taxonomy, revision>>
      /\ executor.at.stage # "candidates" /\ id \in DOMAIN tasks /\ Status(id) # "complete"
  BY ExecutorShape DEF Seal, Is, Execution, UnderWay, Tasked
<1>2. id \in Ids /\ id.run = executor.run /\ id.at = executor.at
  BY <1>1, KeyShape
<1>3. CASE Append_(id, "complete", output) /\ executor' = After(executor.at, recording)
  <2>1. /\ recording \in DOMAIN exchanges /\ exchanges[recording].task = id /\ recording \in Nat
    BY <1>1 DEF Answered, Is, Shape
  <2>2. executor.output \in Nat
    BY <1>1 DEF Execution
  <2>3. /\ output \in Seq(Nat) /\ output # <<>> /\ output[1] = recording
        /\ executor.at.stage = "critic" => output[2] = executor.output
        /\ executor.at.stage # "critic" => output = <<recording>>
    BY <2>1, <2>2
  <2> HIDE DEF id, output, recording
  <2>4. Reported(id, "complete", output)
    BY <1>1, <1>3, <2>3 DEF Reported, Statuses
  <2>5. DOMAIN tasks' = DOMAIN tasks /\ tasks'[id] = [status |-> "complete", output |-> output]
    BY <2>4 DEF Reported, Append_, Shape
  <2>6. executor.at.stage = "synthesis" =>
             \E p \in DOMAIN tasks' :
                 /\ p.run = executor.run /\ tasks'[p].status = "complete"
                 /\ p.at = Position("synthesis", executor.at.cluster) /\ tasks'[p].output = <<recording>>
    <3> SUFFICES ASSUME executor.at.stage = "synthesis"
                 PROVE  executor.at = Position("synthesis", executor.at.cluster)
      BY <1>1, <1>2, <2>3, <2>5
    <3> QED
      BY <1>1 DEF Positions, Position
  <2>7. /\ executor' \in {Idle} \cup Execution /\ (~Is("idle") => executor.run \in 1..Len(runs))'
        /\ UnderWay' /\ Proposed' /\ Answered' /\ DisclosureIsAuthorized' /\ Snapshot'
    BY <1>1, <1>3, <2>1, <2>6, NextKeeps
  <2>8. Shape'
    BY <1>1, <2>4, <2>7, TasksStay DEF Shape
  <2>9. Outputs'
    BY <1>2, <2>3, <2>4, OutputsStay
  <2>10. \A i : i = id => Worked(i)'
    <3>1. executor.at.stage = "critic" =>
              \E p \in DOMAIN tasks' :
                 /\ p.run = executor.run /\ tasks'[p].status = "complete"
                 /\ p.at = Position("synthesis", executor.at.cluster) /\ tasks'[p].output = <<executor.output>>
      BY <1>1, <2>4, ProposalStays
    <3>2. tasks'[id].output[1] \in DOMAIN exchanges' /\ exchanges'[tasks'[id].output[1]].task = id
      BY <1>1, <2>1, <2>3, <2>5
    <3>3. id.at.stage = "critic" =>
              \E p \in DOMAIN tasks' :
                 /\ p.run = id.run /\ tasks'[p].status = "complete"
                 /\ p.at = Position("synthesis", id.at.cluster) /\ tasks'[p].output = <<tasks'[id].output[2]>>
      BY <1>2, <2>3, <2>5, <3>1
    <3> QED
      BY <3>2, <3>3 DEF Worked, Completed, Proposal, Status
  <2>11. WorkIsRecorded'
    <3>1. PICK i : i = id
      OBVIOUS
    <3>2. Reported(i, "complete", output) /\ Worked(i)'
      BY <2>4, <2>10, <3>1
    <3> QED
      BY <1>1, <3>2, WorkStays
  <2> QED
    BY <2>7, <2>8, <2>9, <2>11
<1>4. CASE Stop /\ UNCHANGED tasks
  BY <1>1, <1>4, JustEnd DEF Stop
<1> QED
  BY <1>3, <1>4 DEF Seal

\* Whatever is edited while an execution is under way counts as edited.
LEMMA EditProfileKeeps ==
  ASSUME ExecutionInv, EditProfile
  PROVE  ExecutionInv'
<1> USE DEF ExecutionInv
<1>1. PICK n \in Names, p \in Profile \cup {None} :
         /\ profiles' = [profiles EXCEPT ![n] = p]
         /\ executor' = IF Is("idle") THEN executor ELSE [executor EXCEPT !.edited = @ \cup {n}]
  BY DEF EditProfile
<1>2. UNCHANGED <<source, runs, tasks, exchanges, taxonomy, revision>>
  BY DEF EditProfile, journal
<1>3. profiles' \in [Names -> Profile \cup {None}] /\ \A m \in Names : m # n => profiles'[m] = profiles[m]
  BY <1>1 DEF Shape
<1>4. Outputs' /\ WorkIsRecorded'
  BY <1>2 DEF Outputs, WorkIsRecorded, Status, Completed
<1>5. CASE Is("idle")
  <2>1. executor' = Idle
    BY <1>1, <1>5, ExecutorShape
  <2>2. Shape'
    BY <1>2, <1>3, <2>1 DEF Shape, Is, Idle
  <2> QED
    BY <1>2, <1>4, <2>1, <2>2, EndKeeps
<1>6. CASE ~Is("idle")
  <2>1. /\ executor' \in Execution /\ executor'.pc = executor.pc /\ executor'.run = executor.run
        /\ executor'.at = executor.at /\ executor'.output = executor.output
        /\ executor'.profiles = executor.profiles /\ executor'.edited = executor.edited \cup {n}
        /\ executor'.client = executor.client /\ executor'.allowed = executor.allowed
    BY <1>1, <1>6, ExecutorShape DEF Execution
  <2>2. Shape'
    BY <1>2, <1>3, <1>6, <2>1 DEF Shape, Is
  <2>4. Key(executor.at)' = Key(executor.at) /\ KeyProfile(executor.at)' = KeyProfile(executor.at)
    BY <1>2, <2>1, KeyStays
  <2>5. UnderWay' /\ Answered'
    BY <1>2, <2>1, <2>4 DEF UnderWay, Tasked, Answered, Is, Status
  <2>6. Proposed' /\ DisclosureIsAuthorized'
    BY <1>2, <2>1 DEF Proposed, Proposal, Completed, Status, DisclosureIsAuthorized, Disclosed, Is
  <2>7. Snapshot'
    BY <1>2, <1>3, <2>1, <2>4 DEF Snapshot, Is
  <2> QED
    BY <1>4, <2>2, <2>5, <2>6, <2>7
<1> QED
  BY <1>5, <1>6

\* The curator works between executions, on complete tasks.
LEMMA CuratorKeeps ==
  ASSUME ExecutionInv, ApproveTaxonomy \/ Regenerate
  PROVE  ExecutionInv'
<1> USE DEF ExecutionInv
<1>1. executor = Idle /\ UNCHANGED <<profiles, source, runs, tasks, exchanges, executor>>
  BY ExecutorShape DEF ApproveTaxonomy, Regenerate
<1>2. taxonomy' \in Seq(Nat) /\ Len(taxonomy') = Len(taxonomy) /\ revision' \in [Clusters -> Nat]
  <2>1. CASE ApproveTaxonomy
    <3>1. PICK id \in Completed(Len(runs)) : taxonomy' = [taxonomy EXCEPT ![Len(runs)] = tasks[id].output[1]]
      BY <2>1 DEF ApproveTaxonomy
    <3>2. id \in DOMAIN tasks /\ tasks[id].output # <<>> /\ tasks[id].output \in Seq(Nat)
      BY DEF Completed, Outputs, Shape, Events
    <3>3. tasks[id].output[1] \in Nat /\ taxonomy \in Seq(Nat) /\ Len(runs) \in 1..Len(taxonomy)
      BY <2>1, <3>2 DEF ApproveTaxonomy, Shape
    <3>4. UNCHANGED revision
      BY <2>1 DEF ApproveTaxonomy
    <3> QED
      BY <3>1, <3>3, <3>4, ExceptSeq DEF Shape
  <2>2. CASE Regenerate
    <3>1. PICK id \in Completed(Len(runs)) :
             id.at.stage = "critic" /\ revision' = [revision EXCEPT ![id.at.cluster] = @ + 1]
      BY <2>2 DEF Regenerate
    <3>4. id.at.cluster \in Clusters
      BY <3>1 DEF Completed, Shape, Ids, Positions
    <3>2. revision \in [Clusters -> Nat] /\ UNCHANGED taxonomy
      BY <2>2 DEF Regenerate, Shape
    <3>3. revision' \in [Clusters -> Nat]
      BY <3>1, <3>2, <3>4
    <3> QED
      BY <3>2, <3>3 DEF Shape
  <2> QED
    BY <2>1, <2>2
<1>3. Shape'
  BY <1>1, <1>2 DEF Shape, Is, Idle
<1>4. Outputs' /\ WorkIsRecorded'
  BY <1>1 DEF Outputs, WorkIsRecorded, Status, Completed
<1> QED
  BY <1>1, <1>3, <1>4, EndKeeps

\* The journal and the execution are as they were.
LEMMA RestKeeps ==
  ASSUME ExecutionInv, UNCHANGED <<profiles, runs, tasks, exchanges, taxonomy, revision, executor>>, source' \in Sources
  PROVE  ExecutionInv'
<1> USE DEF ExecutionInv
<1>1. Key(executor.at)' = Key(executor.at) /\ KeyProfile(executor.at)' = KeyProfile(executor.at)
  BY KeyStays
<1>2. Shape'
  BY DEF Shape, Is
<1>3. UnderWay' /\ Answered'
  BY <1>1 DEF UnderWay, Tasked, Answered, Is, Status
<1>4. Proposed' /\ DisclosureIsAuthorized'
  BY DEF Proposed, Proposal, Completed, Status, DisclosureIsAuthorized, Disclosed, Is
<1>5. Snapshot'
  BY <1>1 DEF Snapshot, Is
<1>6. Outputs' /\ WorkIsRecorded'
  BY DEF Outputs, WorkIsRecorded, Status, Completed
<1> QED
  BY <1>2, <1>3, <1>4, <1>5, <1>6

-----------------------------------------------------------------------------
(* What holds at any time. *)

\* Every step, of the execution or of anybody else, keeps the invariant.
LEMMA ExecutionInductive == Spec => []ExecutionInv
<1>1. Init => ExecutionInv
  <2> SUFFICES ASSUME Init PROVE ExecutionInv
    OBVIOUS
  <2>1. executor.pc = "idle" /\ executor = Idle /\ runs = <<>> /\ tasks = <<>> /\ exchanges = <<>>
        /\ taxonomy = <<>> /\ DOMAIN tasks = {} /\ DOMAIN exchanges = {}
    BY DEF Init, Idle
  <2>2. Shape
    BY <2>1, TaskExecutionAssumption DEF Init, Shape, Is
  <2> QED
    BY <2>1, <2>2 DEF ExecutionInv, UnderWay, Tasked, Proposed, Answered, Snapshot, Outputs,
       DisclosureIsAuthorized, WorkIsRecorded, Is
<1>2. ExecutionInv /\ [Next]_vars => ExecutionInv'
  <2> SUFFICES ASSUME ExecutionInv, [Next]_vars PROVE ExecutionInv'
    OBVIOUS
  <2>1. CASE Execute
    <3>1. CASE GiveUp
      BY <3>1, JustEnd DEF GiveUp, Stop, journal
    <3> QED
      BY <2>1, <3>1, BeginKeeps, RegisterKeeps, ComputeKeeps, OpenKeeps, AskKeeps, SealKeeps DEF Execute
  <2>2. CASE EditSources
    BY <2>2, RestKeeps DEF EditSources, journal
  <2>3. CASE Report
    BY <2>3, RestKeeps DEF Report, ReadRun, ReadTasks, ReadEvent, ReturnReport, journal, ExecutionInv, Shape
  <2>4. CASE UNCHANGED vars
    BY <2>4, RestKeeps DEF vars, journal, ExecutionInv, Shape
  <2> QED
    BY <2>1, <2>2, <2>3, <2>4, EditProfileKeeps, CuratorKeeps DEF Next
<1> QED
  BY <1>1, <1>2, PTL DEF Spec

\* A remote provider gets text only in an execution that was allowed to send it and
\* never text with a finding, whatever the profile pointed to when the execution
\* began (client, SensitiveScan::authorize).
THEOREM OnlyAuthorizedDisclosure == Spec => []DisclosureIsAuthorized
BY ExecutionInductive, PTL DEF ExecutionInv

\* Every answer a complete task gives was recorded as the answer to this very task,
\* and a critic's is about a proposal of the same run and cluster
\* (record_exchange before append_task_status).
THEOREM CompleteWorkIsRecorded == Spec => []WorkIsRecorded
BY ExecutionInductive, PTL DEF ExecutionInv

\* The cache never serves the work of another profile: the key of a complete task
\* names the profile that answered, unless this profile was edited during the very
\* execution that asked (provider_task_key, client).
THEOREM KeysNameProviders == Spec => []KeyNamesProvider
<1>1. ExecutionInv => KeyNamesProvider
  <2> SUFFICES ASSUME ExecutionInv, NEW id \in DOMAIN tasks, Status(id) = "complete", id.at.stage # "candidates"
               PROVE  \/ exchanges[tasks[id].output[1]].asked = id.profile
                      \/ exchanges[tasks[id].output[1]].raced
    BY DEF KeyNamesProvider
  <2>1. tasks[id].output[1] \in DOMAIN exchanges /\ exchanges[tasks[id].output[1]].task = id
    BY DEF ExecutionInv, WorkIsRecorded
  <2> QED
    BY <2>1 DEF ExecutionInv, Snapshot
<1> QED
  BY <1>1, ExecutionInductive, PTL

\* A step that reports of a task reports of the one under way.
LEMMA StepReports ==
  ASSUME ExecutionInv, [Next]_vars
  PROVE  /\ \E id, status, output : UNCHANGED tasks \/ Registered(id) \/ Reported(id, status, output)
         /\ exchanges' # exchanges => Status(exchanges'[Len(exchanges')].task) # "complete"
<1> USE DEF ExecutionInv
<1> DEFINE id == Key(executor.at)
<1>1. CASE Register
  <2>1. id \in Ids
    BY <1>1, ExecutorShape, KeyShape DEF Register, Is, Execution
  <2> QED
    BY <1>1, <2>1 DEF Register, Registered
<1>2. CASE Compute
  <2>1. id \in DOMAIN tasks /\ Status(id) # "complete" /\ executor \in Execution
    BY <1>2, ExecutorShape DEF Compute, Is, UnderWay, Tasked
  <2>2. <<executor.output>> \in Seq(Nat) /\ <<executor.output>> # <<>>
    BY <2>1 DEF Execution
  <2>3. Reported(id, "complete", <<executor.output>>) \/ Reported(id, "running", <<>>)
    BY <1>2, <2>1, <2>2 DEF Compute, Reported, Statuses
  <2> QED
    BY <1>2, <2>3 DEF Compute
<1>3. CASE Open
  <2>1. id \in DOMAIN tasks /\ Status(id) # "complete"
    BY <1>3 DEF Open, OpenFor, Is, UnderWay, Tasked
  <2>2. UNCHANGED tasks \/ Append_(id, "running", <<>>)
    BY <1>3 DEF Open, OpenFor
  <2>3. UNCHANGED tasks \/ Reported(id, "running", <<>>)
    BY <2>1, <2>2 DEF Reported, Statuses
  <2> QED
    BY <1>3, <2>3 DEF Open, OpenFor
<1>4. CASE Ask
  <2>1. id \in DOMAIN tasks /\ Status(id) # "complete"
    BY <1>4 DEF Ask, Is, UnderWay, Tasked
  <2>2. UNCHANGED tasks \/ Append_(id, "failed", <<>>)
    BY <1>4 DEF Ask
  <2>3. ASSUME exchanges' # exchanges
        PROVE  exchanges'[Len(exchanges')].task = id
    <3> DEFINE raced == Route[executor.at.stage] \in executor.edited
               exchange == [task |-> id, asked |-> executor.client, raced |-> raced]
    <3>1. exchanges' = Append(exchanges, exchange)
      BY <1>4, <2>3 DEF Ask
    <3>2. exchange.task = id
      OBVIOUS
    <3>3. exchanges \in Seq(Exchanges) /\ Len(exchanges) \in Nat
      BY DEF Shape
    <3> HIDE DEF exchange
    <3>4. exchanges'[Len(exchanges')] = exchange
      BY <3>1, <3>3
    <3> QED
      BY <3>2, <3>4
  <2>4. UNCHANGED tasks \/ Reported(id, "failed", <<>>)
    BY <2>1, <2>2 DEF Reported, Statuses
  <2> QED
    BY <2>1, <2>3, <2>4
<1>5. CASE Seal
  <2> DEFINE output == IF executor.at.stage = "critic" THEN <<Len(exchanges), executor.output>>
                       ELSE <<Len(exchanges)>>
  <2>1. id \in DOMAIN tasks /\ Status(id) # "complete" /\ executor \in Execution
    BY <1>5, ExecutorShape DEF Seal, Is, UnderWay, Tasked
  <2>2. output \in Seq(Nat) /\ output # <<>>
    BY <2>1 DEF Execution, Shape
  <2>3. UNCHANGED tasks \/ Append_(id, "complete", output)
    BY <1>5 DEF Seal
  <2> QED
    BY <1>5, <2>1, <2>2, <2>3 DEF Seal, Reported, Statuses
<1>6. CASE \/ Begin \/ GiveUp \/ EditProfile \/ EditSources \/ ApproveTaxonomy \/ Regenerate \/ Report
           \/ UNCHANGED vars
  BY <1>6 DEF Begin, GiveUp, EditProfile, EditSources, ApproveTaxonomy, Regenerate, Report, ReadRun,
     ReadTasks, ReadEvent, ReturnReport, journal, vars
<1> QED
  BY <1>1, <1>2, <1>3, <1>4, <1>5, <1>6 DEF Next, Execute

\* No step takes back or asks again what is complete (register_task,
\* append_task_status).
THEOREM CompleteStays == Spec => CompleteIsFinal
<1>1. ExecutionInv /\ [Next]_vars =>
        [/\ \A id \in DOMAIN tasks : Status(id) = "complete" => tasks'[id] = tasks[id]
         /\ exchanges' # exchanges => Status(exchanges'[Len(exchanges')].task) # "complete"]_vars
  BY StepReports, TasksStay DEF ExecutionInv
<1> QED
  BY <1>1, ExecutionInductive, PTL DEF Spec, CompleteIsFinal

\* What integration_status puts together from many reads, without the lock, never
\* forgets a complete task and never counts one that is not complete.
THEOREM ReportsAreCurrent == Spec => []ReportIsCurrent
<1> USE DEF ReportInv, Reading, ReportIsCurrent
<1>1. Init => ReportInv
  <2> SUFFICES ASSUME Init PROVE ReportInv
    OBVIOUS
  <2>1. reader.pc = "resting"
    BY DEF Init
  <2> QED
    BY <2>1
<1>2. ReportInv /\ ExecutionInv /\ [Next]_vars => ReportInv'
  <2> SUFFICES ASSUME ReportInv, ExecutionInv, [Next]_vars PROVE ReportInv'
    OBVIOUS
  <2>1. \A t \in DOMAIN tasks : t \in DOMAIN tasks' /\ (Status(t) = "complete" => tasks'[t] = tasks[t])
    BY StepReports, TasksStay DEF ExecutionInv
  <2>2. CASE UNCHANGED reader
    BY <2>1, <2>2 DEF Status
  <2>3. CASE ReadRun
    <3>1. PICK id \in DOMAIN tasks :
             /\ id.run = Len(runs)
             /\ reader' = [pc |-> "tasks", run |-> Len(runs), task |-> id, before |-> Status(id) = "complete"]
      BY <2>3 DEF ReadRun
    <3>2. UNCHANGED tasks /\ id \in Ids /\ Len(runs) \in Nat
      BY <2>3 DEF ReadRun, journal, ExecutionInv, Shape
    <3> QED
      BY <3>1, <3>2 DEF Status
  <2>4. CASE ReadTasks
    <3>1. reader.pc = "tasks" /\ reader' = [reader EXCEPT !.pc = "event"] /\ UNCHANGED tasks
          /\ reader \in [pc : {"tasks", "event"}, run : Nat, task : Ids, before : BOOLEAN]
      BY <2>4 DEF ReadTasks, journal
    <3>2. /\ reader' \in [pc : {"tasks", "event"}, run : Nat, task : Ids, before : BOOLEAN]
          /\ reader'.pc = "event" /\ reader'.task = reader.task /\ reader'.before = reader.before
      BY <3>1
    <3> QED
      BY <3>1, <3>2 DEF Status
  <2>5. CASE ReadEvent
    <3>1. reader.pc = "event" /\ UNCHANGED tasks
          /\ reader' = [pc |-> "reported", task |-> reader.task, before |-> reader.before,
                        complete |-> Status(reader.task) = "complete"]
      BY <2>5 DEF ReadEvent, journal
    <3> QED
      BY <3>1 DEF Status
  <2>6. CASE ReturnReport
    BY <2>6 DEF ReturnReport
  <2>7. \/ UNCHANGED reader \/ ReadRun \/ ReadTasks \/ ReadEvent \/ ReturnReport
    BY DEF Next, Execute, Begin, Register, Compute, Open, OpenFor, Ask, Seal, GiveUp, EditProfile,
       EditSources, ApproveTaxonomy, Regenerate, Report, vars
  <2> QED
    BY <2>2, <2>3, <2>4, <2>5, <2>6, <2>7
<1> QED
  BY <1>1, <1>2, ExecutionInductive, PTL DEF Spec
=============================================================================
