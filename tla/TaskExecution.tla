---------------------------- MODULE TaskExecution ----------------------------
(***************************************************************************)
(* One execution after the other works through the tasks of the newest run *)
(* of a project: embedding, semantic candidates, organizer and, once a     *)
(* taxonomy is approved, synthesis and critic of each cluster.  A task is  *)
(* looked up by a key, and asked of a provider only if it is not complete. *)
(*                                                                         *)
(* The executor holds the project lock; the profiles it uses are in a file *)
(* that anybody may replace at any time, it may die between any two steps, *)
(* and integration_status reads the journal without the lock.              *)
(***************************************************************************)
EXTENDS Naturals, Sequences, FiniteSets

CONSTANTS
    Names, Models,    \* profile names; models a profile may have
    InitialProfiles,  \* the profile file at first
    Route,            \* profile name of each role
    Sources,          \* contents the sources may have
    InitialSource,    \* their content at first
    NumClusters,      \* clusters of a taxonomy, in its order
    Sensitive,        \* for each content, the clusters with a finding
    None,
    MaxRuns, MaxExchanges, MaxRevision, MaxEdits   \* bounds of the instance

VARIABLES
    profiles,         \* the profile file
    source,           \* what is on disk
    runs,             \* content of each run of the journal
    tasks,            \* newest event of each task definition
    exchanges,        \* recordings, with the profile that answered
    taxonomy,         \* approved taxonomy of each run: an organizer's recording
    revision,         \* newest requested revision of each cluster of the newest run
    executor,         \* the execution under way
    reader,           \* integration_status
    edits             \* changes of the file and the sources so far

journal == <<runs, tasks, exchanges, taxonomy, revision>>
vars == <<profiles, source, journal, executor, reader, edits>>

Roles == {"embedding", "organizer", "synthesis", "critic"}
Profile == [model : Models, remote : BOOLEAN]
Clusters == 1..NumClusters

ASSUME TaskExecutionAssumption ==
    /\ Route \in [Roles -> Names]
    /\ InitialProfiles \in [Names -> Profile \cup {None}] /\ InitialSource \in Sources
    /\ Sensitive \in [Sources -> SUBSET Clusters]
    /\ NumClusters \in Nat \ {0}
    /\ MaxRuns \in Nat /\ MaxExchanges \in Nat /\ MaxRevision \in Nat /\ MaxEdits \in Nat

Idle == [pc |-> "idle"]

Init ==
    /\ profiles = InitialProfiles
    /\ source = InitialSource
    /\ runs = <<>> /\ tasks = <<>> /\ exchanges = <<>>
    /\ taxonomy = <<>>
    /\ revision = [c \in Clusters |-> 1]
    /\ executor = Idle /\ reader = [pc |-> "resting"]
    /\ edits = 0

-----------------------------------------------------------------------------
(* Task keys.  A position is a stage and, below the taxonomy, a cluster.     *)

Position(stage, cluster) == [stage |-> stage, cluster |-> cluster]
Global == Position("embedding", 0)

\* What the key of each stage is computed from, besides the profile: the corpus;
\* the embeddings; the candidates; the taxonomy with the requested revision; the
\* proposal.
EmbeddingInput == <<runs[executor.run]>>
CandidatesInput == <<executor.output>>
OrganizerInput == <<executor.output>>
SynthesisInput(cluster) == <<taxonomy[executor.run], revision[cluster]>>
CriticInput == <<executor.output>>

KeyInput(at) ==
    CASE at.stage = "embedding"  -> EmbeddingInput
      [] at.stage = "candidates" -> CandidatesInput
      [] at.stage = "organizer"  -> OrganizerInput
      [] at.stage = "synthesis"  -> SynthesisInput(at.cluster)
      [] at.stage = "critic"     -> CriticInput

\* Variant: the key names the profile of the global roles.
KeyDefaultProfile(at) == IF at.stage = "candidates" THEN None ELSE executor.profiles[Route["organizer"]]

\* provider_task_key: name and contents of the profile as they were read when the
\* execution began; semantic candidates are computed locally.
KeyProfile(at) == IF at.stage = "candidates" THEN None ELSE executor.profiles[Route[at.stage]]

Key(at) == [run |-> executor.run, at |-> at, profile |-> KeyProfile(at), input |-> KeyInput(at)]

Status(id) == tasks[id].status
Completed(run) == {id \in DOMAIN tasks : id.run = run /\ Status(id) = "complete"}

\* append_task_status
Append_(id, status, output) == tasks' = [tasks EXCEPT ![id] = [status |-> status, output |-> output]]

-----------------------------------------------------------------------------
(* The stages in their order. *)

Is(pc) == executor.pc = pc
Stop == executor' = Idle

\* Where the execution goes with the output of a stage; below the organizer only
\* with an approved taxonomy.
After(at, output) ==
    CASE at.stage = "embedding"  -> [executor EXCEPT !.pc = "register", !.at = Position("candidates", 0), !.output = output]
      [] at.stage = "candidates" -> [executor EXCEPT !.pc = "register", !.at = Position("organizer", 0), !.output = output]
      [] at.stage = "organizer"  -> IF taxonomy[executor.run] # 0
                                    THEN [executor EXCEPT !.pc = "register", !.at = Position("synthesis", 1), !.output = 0]
                                    ELSE Idle
      [] at.stage = "synthesis"  -> [executor EXCEPT !.pc = "register", !.at = Position("critic", at.cluster), !.output = output]
      [] at.stage = "critic"     -> IF at.cluster + 1 \in Clusters
                                    THEN [executor EXCEPT !.pc = "register", !.at = Position("synthesis", at.cluster + 1), !.output = 0]
                                    ELSE Idle

\* execute: lock, corpus, run and profiles.  A run is resumed if it is the newest
\* and of this content.  Every role must have its profile.
Begin ==
    /\ Is("idle")
    /\ \E allowed \in BOOLEAN :
        LET resumed == runs # <<>> /\ runs[Len(runs)] = source IN
        /\ ~resumed => Len(runs) < MaxRuns
        /\ runs' = IF resumed THEN runs ELSE Append(runs, source)
        /\ taxonomy' = IF resumed THEN taxonomy ELSE Append(taxonomy, 0)
        /\ revision' = IF resumed THEN revision ELSE [c \in Clusters |-> 1]
        /\ executor' = IF \A r \in Roles : profiles[Route[r]] # None
                       THEN [pc |-> "register", run |-> Len(runs'), at |-> Global, output |-> 0,
                             allowed |-> allowed, profiles |-> profiles, client |-> None, edited |-> {}]
                       ELSE Idle
    /\ UNCHANGED <<profiles, source, tasks, exchanges, reader, edits>>

\* Variant: a complete task is asked again.
RegisterAnew ==
    /\ Is("register")
    /\ LET id == Key(executor.at) IN
        /\ tasks' = IF id \in DOMAIN tasks THEN tasks
                    ELSE [t \in DOMAIN tasks \cup {id} |-> IF t = id THEN [status |-> "queued", output |-> <<>>] ELSE tasks[t]]
        /\ executor' = [executor EXCEPT !.pc = IF executor.at.stage = "candidates" THEN "local" ELSE "client"]
    /\ UNCHANGED <<profiles, source, runs, exchanges, taxonomy, revision, reader, edits>>

\* register_task: the definition and its first event are one transaction.  What is
\* complete is used as it is; its request is the same, since the key fixes it.
Register ==
    /\ Is("register")
    /\ LET id == Key(executor.at) IN
        IF id \in DOMAIN tasks
        THEN /\ executor' = IF Status(id) = "complete"
                            THEN After(executor.at, tasks[id].output[1])
                            ELSE [executor EXCEPT !.pc = IF executor.at.stage = "candidates" THEN "local" ELSE "client"]
             /\ UNCHANGED tasks
        ELSE /\ tasks' = [t \in DOMAIN tasks \cup {id} |-> IF t = id THEN [status |-> "queued", output |-> <<>>] ELSE tasks[t]]
             /\ executor' = [executor EXCEPT !.pc = IF executor.at.stage = "candidates" THEN "local" ELSE "client"]
    /\ UNCHANGED <<profiles, source, runs, exchanges, taxonomy, revision, reader, edits>>

\* run_candidate_task: a function of the embeddings, computed here.
Compute ==
    /\ Is("local")
    /\ \/ /\ Append_(Key(executor.at), "complete", <<executor.output>>)
          /\ executor' = After(executor.at, executor.output)
       \/ Append_(Key(executor.at), "running", <<>>) /\ Stop
    /\ UNCHANGED <<profiles, source, runs, exchanges, taxonomy, revision, reader, edits>>

\* The clusters whose text a request carries: all of them above the taxonomy.
Disclosed(at) == IF at.cluster = 0 THEN Clusters ELSE {at.cluster}

\* authorize_disclosure: consent, and no finding in what is sent.
AuthorizeDisclosure(profile, findings) == profile.remote => executor.allowed /\ findings = {}

\* SensitiveScan::authorize, with the capabilities of a profile.
MayDisclose(profile, at) == AuthorizeDisclosure(profile, Sensitive[runs[executor.run]] \cap Disclosed(at))

\* client() reads the profile again; it may be gone, or its secret, or the request
\* may not go there.  Only then the task runs.
OpenFor(judged) ==
    /\ Is("client")
    /\ \/ LET client == profiles[Route[executor.at.stage]] IN
            /\ client # None
            /\ MayDisclose(IF judged = None THEN client ELSE judged, executor.at)
            /\ Append_(Key(executor.at), "running", <<>>)
            /\ executor' = [executor EXCEPT !.pc = "ask", !.client = client]
       \/ Stop /\ UNCHANGED tasks
    /\ UNCHANGED <<profiles, source, runs, exchanges, taxonomy, revision, reader, edits>>

\* Variant: the profile that was read when the execution began is judged.
OpenBySnapshot == Is("client") /\ OpenFor(KeyProfile(executor.at))

Open == OpenFor(None)

\* Variant: the answer is used without having been recorded.
AskOnly ==
    /\ Is("ask")
    /\ Len(exchanges) < MaxExchanges
    /\ executor' = [executor EXCEPT !.pc = "seal"]
    /\ UNCHANGED <<profiles, source, journal, reader, edits>>

\* The provider answers, and record_exchange follows; or the call fails, and so
\* does the task.
Ask ==
    /\ Is("ask")
    /\ \/ /\ Len(exchanges) < MaxExchanges
          /\ exchanges' = Append(exchanges, [task |-> Key(executor.at), asked |-> executor.client,
                                             raced |-> Route[executor.at.stage] \in executor.edited])
          /\ executor' = [executor EXCEPT !.pc = "seal"]
          /\ UNCHANGED tasks
       \/ Stop /\ (UNCHANGED tasks \/ Append_(Key(executor.at), "failed", <<>>)) /\ UNCHANGED exchanges
    /\ UNCHANGED <<profiles, source, runs, taxonomy, revision, reader, edits>>

\* The draft is parsed and sealed with its recording.  A critic's output carries
\* the proposal it is about.  What does not seal leaves the task running.
Seal ==
    /\ Is("seal")
    /\ \/ LET recording == Len(exchanges) IN
            /\ Append_(Key(executor.at), "complete",
                       IF executor.at.stage = "critic" THEN <<recording, executor.output>> ELSE <<recording>>)
            /\ executor' = After(executor.at, recording)
       \/ Stop /\ UNCHANGED tasks
    /\ UNCHANGED <<profiles, source, runs, exchanges, taxonomy, revision, reader, edits>>

\* A cancellation, an error of the file system or a crash.
GiveUp ==
    /\ ~Is("idle")
    /\ Stop
    /\ UNCHANGED <<profiles, source, journal, reader, edits>>

Execute ==
    \/ Begin \/ Register \/ Compute \/ Open \/ Ask \/ Seal \/ GiveUp

-----------------------------------------------------------------------------
(* Everybody else. *)

\* Profiles are edited without the lock (Profiles), sources change on disk.
EditProfile ==
    /\ edits < MaxEdits
    /\ \E n \in Names, p \in Profile \cup {None} :
        /\ p # profiles[n]
        /\ profiles' = [profiles EXCEPT ![n] = p]
        /\ executor' = IF Is("idle") THEN executor ELSE [executor EXCEPT !.edited = @ \cup {n}]
    /\ edits' = edits + 1
    /\ UNCHANGED <<source, journal, reader>>

EditSources ==
    /\ edits < MaxEdits
    /\ \E s \in Sources \ {source} : source' = s
    /\ edits' = edits + 1
    /\ UNCHANGED <<profiles, journal, executor, reader>>

\* The curator approves a taxonomy of the newest run, or asks for another revision
\* of a cluster that has a critic, under the lock.
ApproveTaxonomy ==
    /\ Is("idle") /\ runs # <<>>
    /\ \E id \in Completed(Len(runs)) :
        /\ id.at.stage = "organizer"
        /\ taxonomy' = [taxonomy EXCEPT ![Len(runs)] = tasks[id].output[1]]
    /\ UNCHANGED <<profiles, source, runs, tasks, exchanges, revision, executor, reader, edits>>

Regenerate ==
    /\ Is("idle") /\ runs # <<>>
    /\ \E id \in Completed(Len(runs)) :
        /\ id.at.stage = "critic"
        /\ revision[id.at.cluster] < MaxRevision
        /\ revision' = [revision EXCEPT ![id.at.cluster] = @ + 1]
    /\ UNCHANGED <<profiles, source, runs, tasks, exchanges, taxonomy, executor, reader, edits>>

-----------------------------------------------------------------------------
(* integration_status: the newest run, then the tasks it has, then each task's *)
(* newest event, every one a query of its own.  One task stands for each.      *)

ReadRun ==
    /\ reader.pc = "resting" /\ runs # <<>>
    /\ \E id \in DOMAIN tasks :
        /\ id.run = Len(runs)
        /\ reader' = [pc |-> "tasks", run |-> Len(runs), task |-> id, before |-> Status(id) = "complete"]
    /\ UNCHANGED <<profiles, source, journal, executor, edits>>

\* Variant: the tasks of the run that is the newest by then.
ReadTasksOfNewest ==
    /\ reader.pc = "tasks"
    /\ reader' = IF reader.task.run = Len(runs)
                 THEN [reader EXCEPT !.pc = "event"]
                 ELSE [pc |-> "reported", task |-> reader.task, before |-> reader.before, complete |-> FALSE]
    /\ UNCHANGED <<profiles, source, journal, executor, edits>>

ReadTasks ==
    /\ reader.pc = "tasks"
    /\ reader' = IF reader.task.run = reader.run
                 THEN [reader EXCEPT !.pc = "event"]
                 ELSE [pc |-> "reported", task |-> reader.task, before |-> reader.before, complete |-> FALSE]
    /\ UNCHANGED <<profiles, source, journal, executor, edits>>

ReadEvent ==
    /\ reader.pc = "event"
    /\ reader' = [pc |-> "reported", task |-> reader.task, before |-> reader.before,
                  complete |-> Status(reader.task) = "complete"]
    /\ UNCHANGED <<profiles, source, journal, executor, edits>>

ReturnReport ==
    /\ reader.pc = "reported"
    /\ reader' = [pc |-> "resting"]
    /\ UNCHANGED <<profiles, source, journal, executor, edits>>

Report == ReadRun \/ ReadTasks \/ ReadEvent \/ ReturnReport

Next == Execute \/ EditProfile \/ EditSources \/ ApproveTaxonomy \/ Regenerate \/ Report

Spec == Init /\ [][Next]_vars

-----------------------------------------------------------------------------
Positions == [stage : {"embedding", "candidates", "organizer"}, cluster : {0}]
             \cup [stage : {"synthesis", "critic"}, cluster : Clusters]

\* Every cell keeps its type, and each definition has an event from the moment it
\* is there, so that a task's state can always be read (register_task).
TypeOK ==
    /\ profiles \in [Names -> Profile \cup {None}] /\ source \in Sources
    /\ runs \in Seq(Sources) /\ Len(runs) <= MaxRuns
    /\ \A id \in DOMAIN tasks :
        /\ id.run \in DOMAIN runs /\ id.at \in Positions /\ id.profile \in Profile \cup {None}
        /\ Status(id) \in {"queued", "running", "complete", "failed"}
        /\ Status(id) = "complete" <=> tasks[id].output # <<>>
    /\ \A e \in DOMAIN exchanges : exchanges[e].task \in DOMAIN tasks /\ exchanges[e].asked \in Profile
    /\ Len(exchanges) <= MaxExchanges
    /\ taxonomy \in Seq(Nat) /\ Len(taxonomy) = Len(runs)
    /\ revision \in [Clusters -> 1..MaxRevision]
    /\ edits \in 0..MaxEdits

\* Whenever a request goes out, and wherever the profile points to by then: a
\* remote provider gets text only in an execution that was allowed to send it, and
\* never text of a document with a finding (authorize).
DisclosureIsAuthorized ==
    Is("ask") /\ executor.client.remote =>
        executor.allowed /\ Sensitive[runs[executor.run]] \cap Disclosed(executor.at) = {}

\* Whatever a complete provider task answers was recorded in its run as the answer
\* to this task, and a critic is about a proposal recorded in the same run: the
\* recordings of a run are all that a plan of it refers to (recording_hashes).
WorkIsRecorded ==
    \A id \in DOMAIN tasks : Status(id) = "complete" /\ id.at.stage # "candidates" =>
        LET output == tasks[id].output IN
        /\ output[1] \in DOMAIN exchanges /\ exchanges[output[1]].task = id
        /\ id.at.stage = "critic" =>
            \E p \in Completed(id.run) : p.at = Position("synthesis", id.at.cluster) /\ tasks[p].output = <<output[2]>>

\* A complete task stays as it is and is never asked again, through crashes, edits
\* and any number of executions (register_task, append_task_status).
CompleteIsFinal ==
    [][/\ \A id \in DOMAIN tasks : Status(id) = "complete" => tasks'[id] = tasks[id]
       /\ exchanges' # exchanges => Status(exchanges'[Len(exchanges')].task) # "complete"]_vars

\* What integration_status reports, put together from many reads, counts every task
\* that was complete when it began and none that is not complete when it ends, all
\* of one run.
ReportIsCurrent ==
    reader.pc = "reported" =>
        /\ reader.before => reader.complete
        /\ reader.complete => Status(reader.task) = "complete"

\* A complete task was answered by the provider and the model that its key names,
\* unless that very profile was edited during the execution that asked: the cache
\* never serves the work of another profile, whatever is edited between executions
\* (provider_task_key, client).
KeyNamesProvider ==
    \A id \in DOMAIN tasks : Status(id) = "complete" /\ id.at.stage # "candidates" =>
        LET exchange == exchanges[tasks[id].output[1]] IN exchange.asked = id.profile \/ exchange.raced
=============================================================================
