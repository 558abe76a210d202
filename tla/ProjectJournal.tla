---------------------------- MODULE ProjectJournal ----------------------------
(***************************************************************************)
(* The durable state of one project and the processes that share it: the   *)
(* manifest, the append-only run journal, the writer lock file and the     *)
(* published outputs, under the operations of ProjectStore and             *)
(* IntegrationService.  A step is one durable write (a SQLite commit, the  *)
(* manifest rename, the lock file, the output rename) together with what   *)
(* the process computes before it; a process can fail or die in between.   *)
(*                                                                         *)
(* The journal is the sequence of runs.  A row keeps, of every table, what *)
(* the queries can read back: the newest approval, feedback and plan per   *)
(* key, the completed critics in completion order, the verified outputs.   *)
(***************************************************************************)
EXTENDS Naturals, Sequences

CONSTANTS
    Clients,       \* processes: command line, terminal UI, language bindings
    SourceSets,    \* source selections (a selection has one corpus)
    Languages, Routes,
    Models,        \* what the provider profile file may name as its model
    Taxonomies, Clusters,
    ClustersOf,    \* [Taxonomies -> SUBSET Clusters]
    Verdicts,      \* what critics may find, of "sound", "major", "unsealable"
    Notes,         \* the rationale a curator gives
    Dests,         \* output directories
    None,
    MaxRuns, MaxRevision, MaxExchanges     \* bounds of the instance

VARIABLES
    manifest,      \* manifest.json
    runs,          \* state.sqlite3: one row per run, the newest last
    lockFile,      \* project.lock: "absent", its owner, or "orphan" if no process owns it
    model,         \* the profile file, which no project lock protects
    published,     \* output directories on disk
    pc,            \* where each process is in its operation
    handle,        \* the manifest each process read when it opened the store
    arg,           \* what the operation in progress works on
    staleWriter    \* history: some writer got the lock with an outdated handle

durable == <<manifest, runs, model, published>>
vars == <<manifest, runs, lockFile, model, published, pc, handle, arg, staleWriter>>

-----------------------------------------------------------------------------
Manifests == [sources : SourceSets, language : Languages, routes : Routes]
Critics == [cluster : Clusters, taxonomy : Taxonomies, revision : 1..MaxRevision,
            model : Models, verdict : Verdicts]
TaxonomyApprovals == [taxonomy : Taxonomies, note : Notes]
ClusterRevisions == [critic : Critics, note : Notes]
\* target_hash is the critic's, or the feedback's once regeneration is asked for
ClusterApprovals == [target : {"critic", "feedback"}, value : ClusterRevisions]
Plans == UNION {[taxonomy : {t}, clusters : [ClustersOf[t.taxonomy] -> ClusterRevisions],
                 recordings : 0..MaxExchanges] : t \in TaxonomyApprovals}
Rows == [origin : {"execution", "placeholder"}, sources : SourceSets, routes : Routes,
         worked : BOOLEAN,                       \* has a task definition
         organized : SUBSET Models,              \* complete organizer tasks
         taxonomy : TaxonomyApprovals \cup {None},
         critics : Seq(Critics),                 \* complete critic tasks
         feedback : [Clusters -> 0..MaxRevision],
         approvals : [Clusters -> ClusterApprovals \cup {None}],
         recordings : 0..MaxExchanges,           \* provider exchanges
         plan : Plans \cup {None},
         verified : SUBSET [plan : Plans, dest : Dests],
         basis : SUBSET Manifests]               \* history: who worked on it knew these manifests

ASSUME JournalAssumption ==
    /\ ClustersOf \in [Taxonomies -> (SUBSET Clusters) \ {{}}]
    /\ {MaxRuns, MaxRevision, MaxExchanges} \subseteq Nat
    /\ MaxRuns > 0 /\ MaxRevision > 0
    /\ Verdicts \subseteq {"sound", "major", "unsealable"}
    /\ Clients \cap {"absent", "orphan"} = {}
    /\ "taxonomy" \notin Clusters
    /\ None \notin TaxonomyApprovals \cup ClusterApprovals \cup Plans

\* A run just inserted.  A placeholder's configuration hash covers other bytes
\* than an execution's, so no execution ever resumes it.
NewRun(origin, m) ==
    [origin |-> origin, sources |-> m.sources, routes |-> m.routes, worked |-> FALSE,
     organized |-> {}, taxonomy |-> None, critics |-> <<>>,
     feedback |-> [k \in Clusters |-> 0], approvals |-> [k \in Clusters |-> None],
     recordings |-> 0, plan |-> None, verified |-> {}, basis |-> {}]

Latest == Len(runs)
Row == runs[Latest]

\* Variant: only a plan counts as work.
HasWorkIfPlanned(row) == row.plan # None

\* Tasks, approvals or a plan hang on the run.
HasWork(row) ==
    \/ row.worked
    \/ row.taxonomy # None
    \/ \E k \in Clusters : row.approvals[k] # None
    \/ row.plan # None

RegenerationPending(row, critic) == row.feedback[critic.cluster] > critic.revision

ApprovedBy(row, k, revision) ==
    row.approvals[k] = [target |-> "critic", value |-> revision]

\* Variant: the regeneration requests are not looked at.
CurrentDespiteFeedback(row, plan) ==
    /\ row.taxonomy = plan.taxonomy
    /\ \A k \in DOMAIN plan.clusters : ApprovedBy(row, k, plan.clusters[k])

\* Variant: the taxonomy's approval is not looked at.
CurrentForAnyTaxonomy(row, plan) ==
    \A k \in DOMAIN plan.clusters :
        /\ ApprovedBy(row, k, plan.clusters[k])
        /\ ~RegenerationPending(row, plan.clusters[k].critic)

IntegrationPlanIsCurrent(row, plan) ==
    /\ row.taxonomy = plan.taxonomy
    /\ \A k \in DOMAIN plan.clusters :
          /\ ApprovedBy(row, k, plan.clusters[k])
          /\ ~RegenerationPending(row, plan.clusters[k].critic)

\* The newest plan of the newest run, or nothing: never an older plan.
LatestApprovedPlan ==
    IF Row.plan # None /\ IntegrationPlanIsCurrent(Row, Row.plan) THEN Row.plan ELSE None

\* Variant: a requested regeneration does not keep the plan from being sealed.
SealableDespiteFeedback(row) ==
    /\ row.taxonomy # None
    /\ \A k \in ClustersOf[row.taxonomy.taxonomy] :
          /\ row.approvals[k] # None
          /\ row.approvals[k].target = "critic"
          /\ row.approvals[k].value.critic.taxonomy = row.taxonomy.taxonomy

\* The checks of seal_latest_integration_plan that end in Ok(None).
Sealable(row) ==
    /\ row.taxonomy # None
    /\ \A k \in ClustersOf[row.taxonomy.taxonomy] :
          /\ row.approvals[k] # None
          /\ row.approvals[k].target = "critic"
          /\ row.approvals[k].value.critic.taxonomy = row.taxonomy.taxonomy
          /\ ~RegenerationPending(row, row.approvals[k].value.critic)

SealedPlan(row) ==
    [taxonomy |-> row.taxonomy,
     clusters |-> [k \in ClustersOf[row.taxonomy.taxonomy] |-> row.approvals[k].value],
     recordings |-> row.recordings]

\* ApprovedIntegrationPlan::seal validates evidence and dispositions, which
\* approval did not.
ValidPlan(plan) ==
    \A k \in DOMAIN plan.clusters : plan.clusters[k].critic.verdict # "unsealable"

\* Complete critics of the cluster that the approved taxonomy and the newest
\* feedback still allow.
CompletedCritics(row, k) ==
    {i \in DOMAIN row.critics :
        /\ row.taxonomy # None
        /\ row.critics[i].cluster = k
        /\ row.critics[i].taxonomy = row.taxonomy.taxonomy
        /\ ~RegenerationPending(row, row.critics[i])}

\* The one a reviewer is shown (if any): the highest revision, of equals the
\* last completed.
CompletedCluster(row, k) ==
    {row.critics[i] : i \in {h \in CompletedCritics(row, k) :
        \A j \in CompletedCritics(row, k) :
            \/ row.critics[j].revision < row.critics[h].revision
            \/ row.critics[j].revision = row.critics[h].revision /\ j <= h}}

-----------------------------------------------------------------------------
(* The state a project is in after creation and its first source selection. *)
Init ==
    /\ manifest \in Manifests
    /\ runs = <<NewRun("placeholder", manifest)>>
    /\ lockFile = "absent"
    /\ model \in Models
    /\ published = [d \in Dests |-> None]
    /\ pc = [c \in Clients |-> "idle"]
    /\ handle = [c \in Clients |-> None]
    /\ arg = [c \in Clients |-> None]
    /\ staleWriter = FALSE

\* Stages of an operation that holds its ProjectLock; "leave" only drops it.
Configuring == {"configure", "replace", "save", "export"}
Serving == {"begin", "preflight", "organize", "clusters", "seal", "taxonomy", "regenerate",
            "revoke", "approve", "sealing", "compile", "publish", "verify", "record", "leave"}
Locked == Configuring \cup Serving

Goto(c, to) == pc' = [pc EXCEPT ![c] = to]
Work(c, a) == arg' = [arg EXCEPT ![c] = a]
Hold(c, m) == handle' = [handle EXCEPT ![c] = m]

\* Variant: the store forgets its manifest with the operation.
ReturnStoreEmpty(c, m) ==
    /\ pc[c] \in Configuring
    /\ lockFile' = "absent"
    /\ Goto(c, "handle") /\ Work(c, None) /\ Hold(c, None)

\* Variant: nothing removes the file of a service call.
ReturnServiceLocked(c) ==
    /\ pc[c] \in Serving
    /\ UNCHANGED lockFile
    /\ Goto(c, "idle") /\ Work(c, None) /\ Hold(c, None)

\* The operation is over and its ProjectLock is dropped.  A store its caller
\* keeps outlives the operation, with the manifest it then knows.
ReturnStore(c, m) ==
    /\ pc[c] \in Configuring
    /\ lockFile' = "absent"
    /\ Goto(c, "handle") /\ Work(c, None) /\ Hold(c, m)

ReturnService(c) ==
    /\ pc[c] \in Serving
    /\ lockFile' = "absent"
    /\ Goto(c, "idle") /\ Work(c, None) /\ Hold(c, None)

UpdateRow(row) == runs' = [runs EXCEPT ![Latest] = row]

-----------------------------------------------------------------------------
(* Opening the store and taking the writer lock. *)

\* ProjectStore::open reads the manifest; the lock comes later.  A service opens
\* a store for each call; "handle" is a store its caller keeps.
Open(c) ==
    /\ pc[c] = "idle"
    /\ Hold(c, manifest)
    /\ \E to \in {"handle", "service"} : Goto(c, to)
    /\ UNCHANGED <<durable, lockFile, arg, staleWriter>>

\* A read-only call ends, an operation is refused before any write, or the
\* lock file is there (AppError::Locked).
Unlocked == {"handle", "service", "checking", "checked"}

Close(c) ==
    /\ pc[c] \in Unlocked
    /\ Hold(c, None)
    /\ Goto(c, "idle")
    /\ UNCHANGED <<durable, lockFile, arg, staleWriter>>

\* Variant: the file is opened whether or not it exists.
AcquireAnyway(c, to, a) ==
    /\ lockFile' = c
    /\ Goto(c, to)
    /\ Work(c, a)
    /\ staleWriter' = (staleWriter \/ handle[c] # manifest)
    /\ UNCHANGED <<durable, handle>>

\* create_new on project.lock: refused while the file exists, whoever left it.
AcquireWriterLock(c, to, a) ==
    /\ lockFile = "absent"
    /\ lockFile' = c
    /\ Goto(c, to)
    /\ Work(c, a)
    /\ staleWriter' = (staleWriter \/ handle[c] # manifest)
    /\ UNCHANGED <<durable, handle>>

\* The file is created but writing or syncing it fails: the error leaves no
\* ProjectLock behind to remove the file.
AcquireLeavesFile(c) ==
    /\ pc[c] \in {"handle", "service", "checked"}
    /\ lockFile = "absent"
    /\ lockFile' = "orphan"
    /\ Goto(c, IF pc[c] = "handle" THEN "handle" ELSE "idle")
    /\ Hold(c, IF pc[c] = "handle" THEN handle[c] ELSE None)
    /\ UNCHANGED <<durable, arg, staleWriter>>

\* The callers of a kept store: another source set, another language or route,
\* or the compilation of a plan they were once given.
LockForChange(c) ==
    /\ pc[c] = "handle"
    /\ \/ \E s \in SourceSets \ {handle[c].sources} :
             AcquireWriterLock(c, "replace", [handle[c] EXCEPT !.sources = s])
       \/ \E l \in Languages \ {handle[c].language} :
             AcquireWriterLock(c, "configure", [handle[c] EXCEPT !.language = l])
       \/ \E r \in Routes \ {handle[c].routes} :
             AcquireWriterLock(c, "configure", [handle[c] EXCEPT !.routes = r])
       \/ \E d \in Dests, i \in DOMAIN runs : runs[i].plan # None /\
             AcquireWriterLock(c, "export", [plan |-> runs[i].plan, dest |-> d])

\* The calls of the service that write.
LockForService(c) ==
    /\ pc[c] = "service"
    /\ \/ \E to \in {"begin", "taxonomy"} : AcquireWriterLock(c, to, None)
       \/ \E to \in {"regenerate", "approve"}, k \in Clusters : AcquireWriterLock(c, to, k)
       \/ \E to \in {"compile", "verify"}, d \in Dests : AcquireWriterLock(c, to, d)

\* checkpoint() reads without the lock, one query after the other, and seals
\* only if it saw no offered plan and then an approval of every cluster.
CheckpointSeesNoPlan(c) ==
    /\ pc[c] = "service"
    /\ LatestApprovedPlan = None
    /\ Goto(c, "checking")
    /\ UNCHANGED <<durable, lockFile, handle, arg, staleWriter>>

CheckpointSeesApprovals(c) ==
    /\ pc[c] = "checking"
    /\ Row.worked /\ Row.organized # {} /\ Row.taxonomy # None
    /\ \A k \in ClustersOf[Row.taxonomy.taxonomy] :
          /\ Row.approvals[k] # None
          /\ Row.approvals[k].target = "critic"
          /\ Row.approvals[k].value.critic.taxonomy = Row.taxonomy.taxonomy
    /\ Goto(c, "checked")
    /\ UNCHANGED <<durable, lockFile, handle, arg, staleWriter>>

LockForCheckpoint(c) == pc[c] = "checked" /\ AcquireWriterLock(c, "sealing", None)

-----------------------------------------------------------------------------
(* How an operation ends: done, in error, or with its process. *)

Leave(c) ==
    /\ pc[c] = "leave"
    /\ ReturnService(c)
    /\ UNCHANGED <<durable, staleWriter>>

\* Any early return: a failed check or read, a write that did not happen, a
\* cancellation, a refused disclosure, a provider error.  What was written
\* before stays.
Fail(c) ==
    /\ pc[c] \in Locked \ {"leave"}
    /\ ReturnStore(c, handle[c]) \/ ReturnService(c)
    /\ UNCHANGED <<durable, staleWriter>>

\* The process dies; nothing removes its lock file.
Crash(c) ==
    /\ pc[c] # "idle"
    /\ lockFile' = IF lockFile = c THEN "orphan" ELSE lockFile
    /\ Goto(c, "idle") /\ Work(c, None) /\ Hold(c, None)
    /\ UNCHANGED <<durable, staleWriter>>

\* An operator deletes the lock file of a process that is gone.
RemoveOrphanLock ==
    /\ lockFile = "orphan"
    /\ lockFile' = "absent"
    /\ UNCHANGED <<durable, pc, handle, arg, staleWriter>>

\* The profile file is saved without any project's lock.
EditProfile ==
    /\ \E m \in Models \ {model} : model' = m
    /\ UNCHANGED <<manifest, runs, published, lockFile, pc, handle, arg, staleWriter>>

-----------------------------------------------------------------------------
(* Changing the manifest: the journal forgets the old authority first. *)

\* A configuration change needs no placeholder if nothing hangs on the run.
CommitInvalidation(c) ==
    /\ pc[c] = "configure"
    /\ IF HasWork(Row)
       THEN /\ Latest < MaxRuns
            /\ runs' = Append(runs, NewRun("placeholder", [arg[c] EXCEPT !.sources = Row.sources]))
       ELSE UNCHANGED runs
    /\ Goto(c, "save")
    /\ UNCHANGED <<manifest, lockFile, model, published, handle, arg, staleWriter>>

CommitReplacement(c) ==
    /\ pc[c] = "replace"
    /\ Latest < MaxRuns
    /\ runs' = Append(runs, NewRun("placeholder", arg[c]))
    /\ Goto(c, "save")
    /\ UNCHANGED <<manifest, lockFile, model, published, handle, arg, staleWriter>>

\* The rename of manifest.json; an error after it leaves the store with the
\* manifest it had.
SaveManifest(c) ==
    /\ pc[c] = "save"
    /\ manifest' = arg[c]
    /\ \E m \in {arg[c], handle[c]} : ReturnStore(c, m)
    /\ UNCHANGED <<runs, model, published, staleWriter>>

-----------------------------------------------------------------------------
(* execute() and preflight(): one run, resumed while its hashes are equal. *)

BeginOrResumeRun(c) ==
    /\ pc[c] = "begin"
    /\ IF Row.origin = "execution" /\ Row.sources = handle[c].sources
                                   /\ Row.routes = handle[c].routes
       THEN UNCHANGED runs
       ELSE Latest < MaxRuns /\ runs' = Append(runs, NewRun("execution", handle[c]))
    /\ Goto(c, "preflight")
    /\ UNCHANGED <<manifest, lockFile, model, published, handle, arg, staleWriter>>

\* The profiles are read once, after the preflight task.
RecordPreflight(c) ==
    /\ pc[c] = "preflight"
    /\ UpdateRow([Row EXCEPT !.worked = TRUE, !.basis = @ \cup {handle[c]}])
    /\ Work(c, [model |-> model, done |-> {}, matched |-> TRUE])
    /\ Goto(c, "organize")
    /\ UNCHANGED <<manifest, lockFile, model, published, handle, staleWriter>>

\* A complete task is reused; otherwise one exchange is recorded for it.
RunOrganizerTask(c) ==
    /\ pc[c] = "organize"
    /\ IF arg[c].model \in Row.organized
       THEN UNCHANGED runs
       ELSE /\ Row.recordings < MaxExchanges
            /\ UpdateRow([Row EXCEPT !.organized = @ \cup {arg[c].model}, !.recordings = @ + 1])
    /\ Goto(c, IF Row.taxonomy = None THEN "leave" ELSE "clusters")
    /\ UNCHANGED <<manifest, lockFile, model, published, handle, arg, staleWriter>>

\* Synthesis and critic of one cluster, reused or requested from the provider;
\* then its approval is compared with that critic.
NextRevision(k) == IF Row.feedback[k] = 0 THEN 1 ELSE Row.feedback[k]

CriticTask(c, k) == {i \in DOMAIN Row.critics :
    [Row.critics[i] EXCEPT !.verdict = "sound"] =
        [cluster |-> k, taxonomy |-> Row.taxonomy.taxonomy, revision |-> NextRevision(k),
         model |-> arg[c].model, verdict |-> "sound"]}

\* Variant: the approval of the last cluster decides.
LastClusterDecides(c, k, critic) ==
    LET matched == /\ Row.approvals[k] # None
                   /\ Row.approvals[k].target = "critic"
                   /\ Row.approvals[k].value.critic = critic
        done == arg[c].done \cup {k}
    IN  /\ Work(c, [arg[c] EXCEPT !.done = done, !.matched = matched])
        /\ Goto(c, IF done # ClustersOf[Row.taxonomy.taxonomy] THEN "clusters"
                   ELSE IF matched THEN "seal" ELSE "leave")

ClusterDone(c, k, critic) ==
    LET matched == /\ arg[c].matched
                   /\ Row.approvals[k] # None
                   /\ Row.approvals[k].target = "critic"
                   /\ Row.approvals[k].value.critic = critic
        done == arg[c].done \cup {k}
    IN  /\ Work(c, [arg[c] EXCEPT !.done = done, !.matched = matched])
        /\ Goto(c, IF done # ClustersOf[Row.taxonomy.taxonomy] THEN "clusters"
                   ELSE IF matched THEN "seal" ELSE "leave")

RunClusterTasks(c) ==
    /\ pc[c] = "clusters"
    /\ \E k \in ClustersOf[Row.taxonomy.taxonomy] \ arg[c].done :
          \/ \E i \in CriticTask(c, k) :
                ClusterDone(c, k, Row.critics[i]) /\ UNCHANGED runs
          \/ \E v \in Verdicts :
                LET critic == [cluster |-> k, taxonomy |-> Row.taxonomy.taxonomy,
                               revision |-> NextRevision(k), model |-> arg[c].model,
                               verdict |-> v]
                IN  /\ CriticTask(c, k) = {}
                    /\ Row.recordings < MaxExchanges
                    /\ UpdateRow([Row EXCEPT !.critics = Append(@, critic), !.recordings = @ + 1])
                    /\ ClusterDone(c, k, critic)
    /\ UNCHANGED <<manifest, lockFile, model, published, handle, staleWriter>>

\* An exchange is recorded and its task is not completed: the response does not
\* parse or seal, or the task's last write fails.
DropResponse(c) ==
    /\ \/ pc[c] = "organize" /\ arg[c].model \notin Row.organized
       \/ pc[c] = "clusters" /\ \E k \in ClustersOf[Row.taxonomy.taxonomy] \ arg[c].done :
             CriticTask(c, k) = {}
    /\ Row.recordings < MaxExchanges
    /\ UpdateRow([Row EXCEPT !.recordings = @ + 1])
    /\ Goto(c, "leave")
    /\ UNCHANGED <<manifest, lockFile, model, published, handle, arg, staleWriter>>

SealLatestPlan == UpdateRow([Row EXCEPT !.plan = SealedPlan(Row)])

\* Anything else is an error of execute(): see Fail.
Seal(c) ==
    /\ pc[c] = "seal"
    /\ Sealable(Row) /\ ValidPlan(SealedPlan(Row))
    /\ SealLatestPlan
    /\ Goto(c, "leave")
    /\ UNCHANGED <<manifest, lockFile, model, published, handle, arg, staleWriter>>

-----------------------------------------------------------------------------
(* Review. *)

\* The proposal or the curator's own edit of it.
ApproveTaxonomy(c) ==
    /\ pc[c] = "taxonomy"
    /\ Row.organized # {}
    /\ \E a \in TaxonomyApprovals : UpdateRow([Row EXCEPT !.taxonomy = a])
    /\ Goto(c, "leave")
    /\ UNCHANGED <<manifest, lockFile, model, published, handle, arg, staleWriter>>

AppendRegeneration(c) ==
    LET k == arg[c] IN
    /\ pc[c] = "regenerate"
    /\ \E critic \in CompletedCluster(Row, k) :
          /\ critic.revision < MaxRevision
          /\ UpdateRow([Row EXCEPT !.feedback[k] = critic.revision + 1])
    /\ Goto(c, "revoke")
    /\ UNCHANGED <<manifest, lockFile, model, published, handle, arg, staleWriter>>

\* The old approval is appended again, under the feedback's hash.
RevokeApproval(c) ==
    LET k == arg[c] IN
    /\ pc[c] = "revoke"
    /\ IF Row.approvals[k] = None
       THEN UNCHANGED runs
       ELSE UpdateRow([Row EXCEPT !.approvals[k].target = "feedback"])
    /\ Goto(c, "leave")
    /\ UNCHANGED <<manifest, lockFile, model, published, handle, arg, staleWriter>>

ApproveCluster(c) ==
    LET k == arg[c] IN
    /\ pc[c] = "approve"
    /\ \E critic \in CompletedCluster(Row, k), n \in Notes :
          /\ critic.verdict # "major"
          /\ UpdateRow([Row EXCEPT !.approvals[k] =
                 [target |-> "critic", value |-> [critic |-> critic, note |-> n]]])
    /\ Goto(c, "sealing")
    /\ UNCHANGED <<manifest, lockFile, model, published, handle, arg, staleWriter>>

\* Approving the last cluster, or a checkpoint, seals; an invalid plan is an
\* error after the approval was stored: see Fail.
SealIfComplete(c) ==
    /\ pc[c] = "sealing"
    /\ IF Sealable(Row)
       THEN ValidPlan(SealedPlan(Row)) /\ SealLatestPlan
       ELSE UNCHANGED runs
    /\ Goto(c, "leave")
    /\ UNCHANGED <<manifest, lockFile, model, published, handle, arg, staleWriter>>

-----------------------------------------------------------------------------
(* Compilation and verification. *)

SelectPlan(c) ==
    /\ pc[c] = "compile"
    /\ LatestApprovedPlan # None
    /\ Work(c, [plan |-> LatestApprovedPlan, dest |-> arg[c]])
    /\ Goto(c, "publish")
    /\ UNCHANGED <<durable, lockFile, handle, staleWriter>>

\* Variant: the rename replaces what is there.
PublishOver(d, plan) == published' = [published EXCEPT ![d] = plan]

\* The output appears under its name in one rename that replaces nothing.
PublishTo(d, plan) ==
    /\ published[d] = None
    /\ published' = [published EXCEPT ![d] = plan]

Publish(c) ==
    /\ pc[c] = "publish"
    /\ PublishTo(arg[c].dest, arg[c].plan)
    /\ Goto(c, "record")
    /\ UNCHANGED <<manifest, runs, lockFile, model, handle, arg, staleWriter>>

\* ProjectStore::compile takes its caller's plan and records nothing.
Export(c) ==
    /\ pc[c] = "export"
    /\ PublishTo(arg[c].dest, arg[c].plan)
    /\ ReturnStore(c, handle[c])
    /\ UNCHANGED <<manifest, runs, model, staleWriter>>

VerifyArtifact(c) ==
    /\ pc[c] = "verify"
    /\ published[arg[c]] # None
    /\ Work(c, [plan |-> published[arg[c]], dest |-> arg[c]])
    /\ Goto(c, "record")
    /\ UNCHANGED <<durable, lockFile, handle, staleWriter>>

RecordVerifiedOutput(c) ==
    /\ pc[c] = "record"
    /\ LatestApprovedPlan = arg[c].plan
    /\ UpdateRow([Row EXCEPT !.verified = @ \cup {arg[c]}])
    /\ Goto(c, "leave")
    /\ UNCHANGED <<manifest, lockFile, model, published, handle, arg, staleWriter>>

-----------------------------------------------------------------------------
Step(c) ==
    \/ Open(c) \/ Close(c) \/ AcquireLeavesFile(c)
    \/ LockForChange(c) \/ LockForService(c)
    \/ CheckpointSeesNoPlan(c) \/ CheckpointSeesApprovals(c) \/ LockForCheckpoint(c)
    \/ Leave(c) \/ Fail(c) \/ Crash(c)
    \/ CommitInvalidation(c) \/ CommitReplacement(c) \/ SaveManifest(c)
    \/ BeginOrResumeRun(c) \/ RecordPreflight(c) \/ RunOrganizerTask(c)
    \/ RunClusterTasks(c) \/ DropResponse(c) \/ Seal(c)
    \/ ApproveTaxonomy(c) \/ AppendRegeneration(c) \/ RevokeApproval(c)
    \/ ApproveCluster(c) \/ SealIfComplete(c)
    \/ SelectPlan(c) \/ Publish(c) \/ Export(c)
    \/ VerifyArtifact(c) \/ RecordVerifiedOutput(c)

Next ==
    \/ \E c \in Clients : Step(c)
    \/ RemoveOrphanLock
    \/ EditProfile

Spec == Init /\ [][Next]_vars

\* An operation that holds the lock runs to its end or its error, and somebody
\* sees to the lock of a dead process.
FairSpec ==
    /\ Spec
    /\ \A c \in Clients : WF_vars(pc[c] \in Locked /\ Step(c))
    /\ WF_vars(RemoveOrphanLock)

-----------------------------------------------------------------------------
(* What holds of the journal. *)

\* What an operation works on at each stage.
ArgumentOK(stage, a) ==
    /\ stage \in {"replace", "configure", "save"} => a \in Manifests
    /\ stage \in {"organize", "clusters", "seal"} =>
           a \in [model : Models, done : SUBSET Clusters, matched : BOOLEAN]
    /\ stage \in {"regenerate", "revoke", "approve"} => a \in Clusters
    /\ stage \in {"compile", "verify"} => a \in Dests
    /\ stage \in {"export", "publish", "record"} => a \in [plan : Plans, dest : Dests]

\* Every stage finds what it works on: the row's tables, the manifest its store
\* was opened with, the argument its operation was given.
TypeOK ==
    /\ manifest \in Manifests
    /\ runs \in Seq(Rows) /\ Latest \in 1..MaxRuns
    /\ lockFile \in Clients \cup {"absent", "orphan"}
    /\ model \in Models
    /\ published \in [Dests -> Plans \cup {None}]
    /\ pc \in [Clients -> Locked \cup Unlocked \cup {"idle"}]
    /\ handle \in [Clients -> Manifests \cup {None}]
    /\ DOMAIN arg = Clients
    /\ \A c \in Clients :
          /\ pc[c] # "idle" => handle[c] \in Manifests
          /\ ArgumentOK(pc[c], arg[c])
    /\ staleWriter \in BOOLEAN

\* project.lock names the one process that is between taking and dropping its
\* ProjectLock, whatever failed, crashed or was removed before.
SingleWriter ==
    \A c \in Clients : pc[c] \in Locked <=> lockFile = c

\* The offered plan was worked out under the manifest the project has: a change
\* of sources, language or routes ends the old authority even if the process
\* dies between the journal and the manifest.  A writer whose store was opened
\* before another's change is excluded here (see CurrentManifestAuthority).
ManifestAuthority ==
    ~staleWriter /\ LatestApprovedPlan # None => Row.basis \subseteq {manifest}

\* The same of every writer, as the comment in invalidate_downstream has it: a
\* manifest edit stops plan queries from returning the old authority.
CurrentManifestAuthority ==
    LatestApprovedPlan # None => Row.basis \subseteq {manifest}

\* execute() never ends in "complete approvals did not seal": the approvals it
\* compared with the critics it saw are those the sealing reads.
SealNeverRefused ==
    \A c \in Clients : pc[c] = "seal" => Sealable(Row)

\* A verified output is on disk under its name, compiled from the plan it was
\* verified for, in whatever run that was.
VerifiedOutputIsPublished ==
    \A i \in DOMAIN runs : \A v \in runs[i].verified : published[v.dest] = v.plan

\* The offered plan rests on the newest critic of each cluster.
PlanUsesLatestCritic ==
    LatestApprovedPlan # None =>
        \A k \in DOMAIN LatestApprovedPlan.clusters :
            LatestApprovedPlan.clusters[k].critic \in CompletedCluster(Row, k)

\* Whoever holds the lock gives it back, and a lock nobody holds is cleared.
LockIsReleased == lockFile # "absent" ~> lockFile = "absent"

-----------------------------------------------------------------------------
(* The journal implements PlanAuthority. *)

LiveDecisions ==
    {<<"taxonomy", a>> : a \in {Row.taxonomy} \ {None}} \cup
    {<<k, Row.approvals[k].value>> : k \in {j \in Clusters :
        /\ Row.approvals[j] # None
        /\ Row.approvals[j].target = "critic"
        /\ ~RegenerationPending(Row, Row.approvals[j].value.critic)}}

Rests(plan) ==
    IF plan = None THEN {}
    ELSE {<<"taxonomy", plan.taxonomy>>} \cup {<<k, plan.clusters[k]>> : k \in DOMAIN plan.clusters}

Authority == INSTANCE PlanAuthority WITH
    Subjects <- Clusters \cup {"taxonomy"},
    Contents <- TaxonomyApprovals \cup ClusterRevisions,
    live <- LiveDecisions,
    sealed <- Rests(Row.plan)

\* Decisions are superseded, withdrawn and invalidated as PlanAuthority says,
\* and a plan is sealed over live decisions only.
AuthoritySpec == Authority!Spec

\* The plan query answers as the authority does.
OfferIsAuthority == Rests(LatestApprovedPlan) = Authority!Offered
=============================================================================
