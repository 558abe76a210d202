------------------------ MODULE ProjectJournal_proofs ------------------------
(* Theorems about ProjectJournal, for any clients, values and bounds. *)
EXTENDS ProjectJournal, SequenceTheorems, TLAPS

USE DEF Latest, Row

-----------------------------------------------------------------------------
(* The lock. *)

\* What SingleWriter needs of the types.
Stages == Locked \cup Unlocked \cup {"idle"}
LockOK == pc \in [Clients -> Stages] /\ SingleWriter

\* Where an operation is when it has just taken the lock.
Entries == {"replace", "configure", "export", "begin", "taxonomy", "regenerate", "approve",
            "compile", "verify", "sealing"}

LEMMA LockMoves ==
  ASSUME NEW c \in Clients, LockForChange(c) \/ LockForService(c) \/ LockForCheckpoint(c)
  PROVE  /\ \E to \in Entries : pc' = [pc EXCEPT ![c] = to]
         /\ lockFile = "absent" /\ lockFile' = c /\ pc[c] \in Unlocked
         /\ UNCHANGED <<manifest, runs, model, published, handle>>
         /\ staleWriter' = (staleWriter \/ handle[c] # manifest)
<1> DEFINE Taken(to) == /\ pc' = [pc EXCEPT ![c] = to]
                        /\ lockFile = "absent" /\ lockFile' = c
                        /\ UNCHANGED <<manifest, runs, model, published, handle>>
                        /\ staleWriter' = (staleWriter \/ handle[c] # manifest)
<1>1. \A to, a : AcquireWriterLock(c, to, a) => Taken(to)
  BY DEF AcquireWriterLock, Goto, durable
<1> HIDE DEF Taken
<1>2. LockForChange(c) => pc[c] \in Unlocked /\ \E to \in Entries : Taken(to)
  BY <1>1 DEF LockForChange, Entries, Unlocked
<1>3. LockForService(c) => pc[c] \in Unlocked /\ \E to \in Entries : Taken(to)
  BY <1>1 DEF LockForService, Entries, Unlocked
<1>4. LockForCheckpoint(c) => pc[c] \in Unlocked /\ \E to \in Entries : Taken(to)
  BY <1>1 DEF LockForCheckpoint, Entries, Unlocked
<1>5. \A to : Taken(to) =>
        /\ pc' = [pc EXCEPT ![c] = to]
        /\ lockFile = "absent" /\ lockFile' = c
        /\ UNCHANGED <<manifest, runs, model, published, handle>>
        /\ staleWriter' = (staleWriter \/ handle[c] # manifest)
  BY DEF Taken
<1> QED
  BY <1>2, <1>3, <1>4, <1>5

LEMMA LockStep == (Init => LockOK) /\ (LockOK /\ [Next]_vars => LockOK')
<1> USE JournalAssumption DEF LockOK, SingleWriter, Stages, Locked, Configuring, Serving, Unlocked
<1>1. Init => LockOK
  BY DEF Init
<1>2. LockOK /\ [Next]_vars => LockOK'
  <2> SUFFICES ASSUME LockOK, [Next]_vars PROVE LockOK'
    OBVIOUS
  <2>1. ASSUME NEW c \in Clients, Step(c) PROVE LockOK'
    <3> USE <2>1 DEF Goto
    <3>1. CASE Open(c)
      BY <3>1 DEF Open
    <3>2. CASE Close(c)
      BY <3>2 DEF Close
    <3>3. CASE AcquireLeavesFile(c)
      BY <3>3 DEF AcquireLeavesFile
    <3>4. CASE LockForChange(c) \/ LockForService(c) \/ LockForCheckpoint(c)
      BY <3>4, LockMoves DEF Entries
    <3>5. CASE CheckpointSeesNoPlan(c) \/ CheckpointSeesApprovals(c)
      BY <3>5 DEF CheckpointSeesNoPlan, CheckpointSeesApprovals
    <3>6. CASE Leave(c)
      BY <3>6 DEF Leave, ReturnService
    <3>7. CASE Fail(c)
      BY <3>7 DEF Fail, ReturnStore, ReturnService
    <3>8. CASE Crash(c)
      BY <3>8 DEF Crash
    <3>9. CASE SaveManifest(c) \/ Export(c)
      BY <3>9 DEF SaveManifest, Export, ReturnStore
    <3>10. CASE CommitInvalidation(c) \/ CommitReplacement(c)
      BY <3>10 DEF CommitInvalidation, CommitReplacement
    <3>11. CASE BeginOrResumeRun(c) \/ RecordPreflight(c) \/ RunOrganizerTask(c) \/ DropResponse(c) \/ Seal(c)
      BY <3>11 DEF BeginOrResumeRun, RecordPreflight, RunOrganizerTask, DropResponse, Seal
    <3>12. CASE RunClusterTasks(c)
      <4>1. pc[c] = "clusters" /\ UNCHANGED lockFile
        BY <3>12 DEF RunClusterTasks
      <4>2. PICK to \in {"clusters", "seal", "leave"} : pc' = [pc EXCEPT ![c] = to]
        BY <3>12 DEF RunClusterTasks, ClusterDone
      <4> QED
        BY <4>1, <4>2
    <3>13. CASE ApproveTaxonomy(c) \/ AppendRegeneration(c) \/ RevokeApproval(c)
                \/ ApproveCluster(c) \/ SealIfComplete(c)
      BY <3>13 DEF ApproveTaxonomy, AppendRegeneration, RevokeApproval, ApproveCluster, SealIfComplete
    <3>14. CASE SelectPlan(c) \/ Publish(c) \/ VerifyArtifact(c) \/ RecordVerifiedOutput(c)
      BY <3>14 DEF SelectPlan, Publish, VerifyArtifact, RecordVerifiedOutput
    <3> QED
      BY <3>1, <3>2, <3>3, <3>4, <3>5, <3>6, <3>7, <3>8, <3>9, <3>10, <3>11, <3>12, <3>13, <3>14
         DEF Step
  <2>2. CASE RemoveOrphanLock
    BY <2>2 DEF RemoveOrphanLock
  <2>3. CASE EditProfile
    BY <2>3 DEF EditProfile
  <2>4. CASE UNCHANGED vars
    BY <2>4 DEF vars
  <2> QED
    BY <2>1, <2>2, <2>3, <2>4 DEF Next
<1> QED
  BY <1>1, <1>2

LEMMA LockAlwaysOK == Spec => []LockOK
<1>1. Init => LockOK
  BY LockStep
<1>2. LockOK /\ [Next]_vars => LockOK'
  BY LockStep
<1> QED
  BY <1>1, <1>2, PTL DEF Spec

\* project.lock names exactly the process between taking and dropping its lock,
\* through every failure, crash and removal of an orphaned file.
THEOREM LockIsExclusive == Spec => []SingleWriter
<1>1. LockOK => SingleWriter
  BY DEF LockOK
<1> QED
  BY <1>1, LockAlwaysOK, PTL

-----------------------------------------------------------------------------
(* Types. *)

LEMMA RowInRows == TypeOK => Row \in Rows
  BY DEF TypeOK

\* A plan sealed from a well-typed row is a plan.
LEMMA SealedPlanInPlans ==
  ASSUME NEW row \in Rows, Sealable(row)
  PROVE  SealedPlan(row) \in Plans
<1> DEFINE t == row.taxonomy
           K == ClustersOf[t.taxonomy]
<1>1. t \in TaxonomyApprovals
  BY DEF Sealable, Rows
<1>2. K \subseteq Clusters
  BY <1>1, JournalAssumption DEF TaxonomyApprovals
<1>3. [k \in K |-> row.approvals[k].value] \in [K -> ClusterRevisions]
  <2>1. \A k \in K : row.approvals[k] \in ClusterApprovals
    BY <1>2 DEF Sealable, Rows
  <2> QED
    BY <2>1 DEF ClusterApprovals
<1>4. row.recordings \in 0..MaxExchanges
  BY DEF Rows
<1> HIDE DEF K, t
<1>5. [taxonomy |-> t, clusters |-> [k \in K |-> row.approvals[k].value],
       recordings |-> row.recordings]
      \in [taxonomy : {t}, clusters : [K -> ClusterRevisions], recordings : 0..MaxExchanges]
  BY <1>3, <1>4
<1> QED
  BY <1>1, <1>5 DEF SealedPlan, Plans, t, K

LEMMA OfferedInPlans == TypeOK /\ LatestApprovedPlan # None => LatestApprovedPlan \in Plans
  BY RowInRows DEF LatestApprovedPlan, Rows

\* Rewriting the newest row, or adding one, leaves a journal of rows.
LEMMA UpdateKeepsRows ==
  ASSUME TypeOK, NEW row \in Rows, UpdateRow(row)
  PROVE  /\ runs' \in Seq(Rows) /\ Len(runs') = Len(runs) /\ Len(runs') \in 1..MaxRuns
         /\ \A i \in 1..Len(runs) : runs'[i] = IF i = Len(runs) THEN row ELSE runs[i]
  BY ExceptSeq DEF TypeOK, UpdateRow

LEMMA AppendKeepsRows ==
  ASSUME TypeOK, NEW row \in Rows, runs' = Append(runs, row), Len(runs) < MaxRuns
  PROVE  /\ runs' \in Seq(Rows) /\ Len(runs') \in 1..MaxRuns
         /\ Len(runs') = Len(runs) + 1 /\ runs'[Len(runs')] = row
  BY JournalAssumption DEF TypeOK

LEMMA NewRunInRows ==
  ASSUME NEW m \in Manifests, NEW origin \in {"execution", "placeholder"}
  PROVE  NewRun(origin, m) \in Rows
  BY JournalAssumption DEF NewRun, Rows, Manifests

LEMMA CompletedInCritics ==
  ASSUME NEW row \in Rows, NEW k \in Clusters, NEW critic \in CompletedCluster(row, k)
  PROVE  critic \in Critics /\ critic.cluster = k
  BY DEF CompletedCluster, CompletedCritics, Rows

\* What an action may do to the process that takes it.
LEMMA ProcessKept ==
  ASSUME TypeOK, NEW c \in Clients, NEW to \in Locked \cup Unlocked \cup {"idle"},
         NEW h \in Manifests \cup {None}, NEW a,
         to # "idle" => h \in Manifests, ArgumentOK(to, a),
         pc' = [pc EXCEPT ![c] = to], handle' = [handle EXCEPT ![c] = h],
         arg' = [arg EXCEPT ![c] = a]
  PROVE  /\ pc' \in [Clients -> Locked \cup Unlocked \cup {"idle"}]
         /\ handle' \in [Clients -> Manifests \cup {None}]
         /\ DOMAIN arg' = Clients
         /\ \A d \in Clients : /\ pc'[d] # "idle" => handle'[d] \in Manifests
                               /\ ArgumentOK(pc'[d], arg'[d])
  BY DEF TypeOK

\* The same of an action that changes where the process is and nothing else.
LEMMA GotoKept ==
  ASSUME TypeOK, NEW c \in Clients, NEW to \in Locked \cup Unlocked,
         pc[c] # "idle", ArgumentOK(to, arg[c]), Goto(c, to), UNCHANGED <<handle, arg>>
  PROVE  /\ pc' \in [Clients -> Locked \cup Unlocked \cup {"idle"}]
         /\ handle' \in [Clients -> Manifests \cup {None}]
         /\ DOMAIN arg' = Clients
         /\ \A d \in Clients : /\ pc'[d] # "idle" => handle'[d] \in Manifests
                               /\ ArgumentOK(pc'[d], arg'[d])
  BY DEF TypeOK, Goto

\* The same of one that opens or closes a store.
LEMMA HoldKept ==
  ASSUME TypeOK, NEW c \in Clients, NEW to \in Unlocked \cup {"idle"},
         NEW h \in Manifests \cup {None}, to # "idle" => h \in Manifests,
         Goto(c, to), Hold(c, h), UNCHANGED arg
  PROVE  /\ pc' \in [Clients -> Locked \cup Unlocked \cup {"idle"}]
         /\ handle' \in [Clients -> Manifests \cup {None}]
         /\ DOMAIN arg' = Clients
         /\ \A d \in Clients : /\ pc'[d] # "idle" => handle'[d] \in Manifests
                               /\ ArgumentOK(pc'[d], arg'[d])
<1>1. ArgumentOK(to, arg[c])
  BY DEF ArgumentOK, Unlocked
<1> QED
  BY <1>1 DEF TypeOK, Goto, Hold

\* Taking the lock with an argument of the right kind.
LEMMA AcquireKept ==
  ASSUME TypeOK, NEW c \in Clients, NEW to \in Locked, NEW a, pc[c] # "idle",
         ArgumentOK(to, a), AcquireWriterLock(c, to, a)
  PROVE  TypeOK'
<1>1. handle[c] \in Manifests
  BY DEF TypeOK
<1>2. /\ pc' = [pc EXCEPT ![c] = to] /\ handle' = [handle EXCEPT ![c] = handle[c]]
      /\ arg' = [arg EXCEPT ![c] = a]
  BY DEF AcquireWriterLock, Goto, Work, TypeOK
<1>3. /\ pc' \in [Clients -> Locked \cup Unlocked \cup {"idle"}]
      /\ handle' \in [Clients -> Manifests \cup {None}]
      /\ DOMAIN arg' = Clients
      /\ \A d \in Clients : /\ pc'[d] # "idle" => handle'[d] \in Manifests
                            /\ ArgumentOK(pc'[d], arg'[d])
  BY <1>1, <1>2, ProcessKept
<1> QED
  BY <1>3 DEF AcquireWriterLock, TypeOK, durable

\* The process is back where it holds no lock.
LEMMA ReturnKept ==
  ASSUME TypeOK, NEW c \in Clients, NEW m \in Manifests, ReturnStore(c, m) \/ ReturnService(c)
  PROVE  /\ lockFile' \in Clients \cup {"absent", "orphan"}
         /\ pc' \in [Clients -> Locked \cup Unlocked \cup {"idle"}]
         /\ handle' \in [Clients -> Manifests \cup {None}]
         /\ DOMAIN arg' = Clients
         /\ \A d \in Clients : /\ pc'[d] # "idle" => handle'[d] \in Manifests
                               /\ ArgumentOK(pc'[d], arg'[d])
<1>1. \A to : to \in {"idle", "handle"} => ArgumentOK(to, None)
  BY DEF ArgumentOK
<1>2. CASE ReturnStore(c, m)
  BY <1>1, <1>2, ProcessKept DEF ReturnStore, Goto, Work, Hold, Unlocked
<1>3. CASE ReturnService(c)
  BY <1>1, <1>3, ProcessKept DEF ReturnService, Goto, Work, Hold
<1> QED
  BY <1>2, <1>3

\* Where every operation on the newest row leaves it a row.
LEMMA RowsUpdated ==
  ASSUME NEW row \in Rows
  PROVE  /\ \A m \in Manifests :
               [row EXCEPT !.worked = TRUE, !.basis = row.basis \cup {m}] \in Rows
         /\ row.recordings < MaxExchanges => [row EXCEPT !.recordings = row.recordings + 1] \in Rows
         /\ row.recordings < MaxExchanges => \A m \in Models :
               [row EXCEPT !.organized = row.organized \cup {m}, !.recordings = row.recordings + 1] \in Rows
         /\ row.recordings < MaxExchanges => \A critic \in Critics :
               [row EXCEPT !.critics = Append(row.critics, critic), !.recordings = row.recordings + 1] \in Rows
         /\ \A plan \in Plans : [row EXCEPT !.plan = plan] \in Rows
         /\ \A a \in TaxonomyApprovals : [row EXCEPT !.taxonomy = a] \in Rows
         /\ \A k \in Clusters, r \in 0..MaxRevision : [row EXCEPT !.feedback[k] = r] \in Rows
         /\ \A k \in Clusters, a \in ClusterApprovals : [row EXCEPT !.approvals[k] = a] \in Rows
         /\ \A k \in Clusters : row.approvals[k] # None =>
               [row EXCEPT !.approvals[k].target = "feedback"] \in Rows
         /\ \A v \in [plan : Plans, dest : Dests] :
               [row EXCEPT !.verified = row.verified \cup {v}] \in Rows
<1> USE DEF Rows
<1>1. \A m \in Manifests : [row EXCEPT !.worked = TRUE, !.basis = row.basis \cup {m}] \in Rows
  OBVIOUS
<1>2. row.recordings < MaxExchanges =>
      /\ row.recordings + 1 \in 0..MaxExchanges
      /\ [row EXCEPT !.recordings = row.recordings + 1] \in Rows
  <2>1. MaxExchanges \in Nat /\ row.recordings \in 0..MaxExchanges
    BY JournalAssumption
  <2>2. row.recordings < MaxExchanges => row.recordings + 1 \in 0..MaxExchanges
    BY <2>1
  <2> QED
    BY <2>2
<1>3. row.recordings < MaxExchanges => \A m \in Models :
      [row EXCEPT !.organized = row.organized \cup {m}, !.recordings = row.recordings + 1] \in Rows
  BY <1>2
<1>4. row.recordings < MaxExchanges => \A critic \in Critics :
      [row EXCEPT !.critics = Append(row.critics, critic), !.recordings = row.recordings + 1] \in Rows
  <2>1. \A critic \in Critics : Append(row.critics, critic) \in Seq(Critics)
    BY AppendProperties
  <2> QED
    BY <1>2, <2>1
<1>5. ASSUME NEW plan \in Plans PROVE [row EXCEPT !.plan = plan] \in Rows
  <2>1. plan \in Plans \cup {None}
    OBVIOUS
  <2> HIDE DEF Plans
  <2> QED
    BY <2>1, SMTT(30)
<1>6. \A a \in TaxonomyApprovals : [row EXCEPT !.taxonomy = a] \in Rows
  OBVIOUS
<1>7. ASSUME NEW k \in Clusters, NEW r \in 0..MaxRevision
      PROVE  [row EXCEPT !.feedback[k] = r] \in Rows
  <2>1. [row.feedback EXCEPT ![k] = r] \in [Clusters -> 0..MaxRevision]
    OBVIOUS
  <2> QED
    BY <2>1
<1>8. \A k \in Clusters, a \in ClusterApprovals : [row EXCEPT !.approvals[k] = a] \in Rows
  OBVIOUS
<1>9. ASSUME NEW k \in Clusters, row.approvals[k] # None
      PROVE  [row EXCEPT !.approvals[k].target = "feedback"] \in Rows
  <2>1. [row.approvals[k] EXCEPT !.target = "feedback"] \in ClusterApprovals
    BY <1>9 DEF ClusterApprovals
  <2> QED
    BY <2>1
<1>10. \A v \in [plan : Plans, dest : Dests] : [row EXCEPT !.verified = row.verified \cup {v}] \in Rows
  OBVIOUS
<1> QED
  BY <1>1, <1>2, <1>3, <1>4, <1>5, <1>6, <1>7, <1>8, <1>9, <1>10

\* A process inside execute()'s cluster stage found an approved taxonomy, and
\* nobody takes it away while that process holds the lock.
ClustersHaveTaxonomy ==
    \A c \in Clients : pc[c] = "clusters" => Row.taxonomy # None

LEMMA CriticOfTask ==
  ASSUME TypeOK, ClustersHaveTaxonomy, NEW c \in Clients, pc[c] = "clusters",
         NEW k \in ClustersOf[Row.taxonomy.taxonomy], NEW v \in Verdicts
  PROVE  /\ k \in Clusters
         /\ [cluster |-> k, taxonomy |-> Row.taxonomy.taxonomy, revision |-> NextRevision(k),
             model |-> arg[c].model, verdict |-> v] \in Critics
<1>1. Row \in Rows /\ Row.taxonomy \in TaxonomyApprovals
  BY RowInRows DEF ClustersHaveTaxonomy, Rows
<1>2. Row.taxonomy.taxonomy \in Taxonomies /\ k \in Clusters
  BY <1>1, JournalAssumption DEF TaxonomyApprovals
<1>3. arg[c].model \in Models
  BY DEF TypeOK, ArgumentOK
<1>4. NextRevision(k) \in 1..MaxRevision
  <2>1. Row.feedback[k] \in 0..MaxRevision
    BY <1>1, <1>2 DEF Rows
  <2>2. MaxRevision \in Nat /\ MaxRevision > 0
    BY JournalAssumption
  <2> QED
    BY <2>1, <2>2 DEF NextRevision
<1> QED
  BY <1>2, <1>3, <1>4 DEF Critics

LEMMA ClusterDoneKept ==
  ASSUME TypeOK, NEW c \in Clients, pc[c] = "clusters", NEW k \in Clusters, NEW critic,
         ClusterDone(c, k, critic), UNCHANGED handle
  PROVE  /\ pc' \in [Clients -> Locked \cup Unlocked \cup {"idle"}]
         /\ handle' \in [Clients -> Manifests \cup {None}]
         /\ DOMAIN arg' = Clients
         /\ \A d \in Clients : /\ pc'[d] # "idle" => handle'[d] \in Manifests
                               /\ ArgumentOK(pc'[d], arg'[d])
<1>1. handle[c] \in Manifests /\ handle' = [handle EXCEPT ![c] = handle[c]]
  BY DEF TypeOK
<1>2. PICK to \in {"clusters", "seal", "leave"} : pc' = [pc EXCEPT ![c] = to]
  BY DEF ClusterDone, Goto
<1>3. PICK matched \in BOOLEAN :
        arg' = [arg EXCEPT ![c] = [arg[c] EXCEPT !.done = arg[c].done \cup {k}, !.matched = matched]]
  <2>1. arg[c].matched \in BOOLEAN
    BY DEF TypeOK, ArgumentOK
  <2> QED
    BY <2>1 DEF ClusterDone, Work
<1>4. ArgumentOK(to, arg'[c])
  <2>1. arg[c] \in [model : Models, done : SUBSET Clusters, matched : BOOLEAN]
    BY DEF TypeOK, ArgumentOK
  <2>2. arg'[c] = [arg[c] EXCEPT !.done = arg[c].done \cup {k}, !.matched = matched]
    BY <1>3 DEF TypeOK
  <2>3. arg'[c] \in [model : Models, done : SUBSET Clusters, matched : BOOLEAN]
    BY <2>1, <2>2
  <2> QED
    BY <2>3 DEF ArgumentOK
<1>5. to \in Locked
  BY DEF Locked, Serving
<1>6. arg' = [arg EXCEPT ![c] = arg'[c]]
  BY <1>3 DEF TypeOK
<1> QED
  BY <1>1, <1>2, <1>4, <1>5, <1>6, ProcessKept

\* Every step of a process keeps the types.
LEMMA StepKeepsTypes ==
  ASSUME TypeOK, ClustersHaveTaxonomy, NEW c \in Clients, Step(c)
  PROVE  TypeOK'
<1> USE DEF Locked, Configuring, Serving, Unlocked, durable
<1> DEFINE JournalOK == runs \in Seq(Rows) /\ Len(runs) \in 1..MaxRuns
           ProcessesOK ==
             /\ pc \in [Clients -> Locked \cup Unlocked \cup {"idle"}]
             /\ handle \in [Clients -> Manifests \cup {None}]
             /\ DOMAIN arg = Clients
             /\ \A d \in Clients : /\ pc[d] # "idle" => handle[d] \in Manifests
                                   /\ ArgumentOK(pc[d], arg[d])
           RestOK ==
             /\ manifest \in Manifests
             /\ lockFile \in Clients \cup {"absent", "orphan"}
             /\ model \in Models
             /\ published \in [Dests -> Plans \cup {None}]
             /\ staleWriter \in BOOLEAN
<1>a. TypeOK <=> JournalOK /\ ProcessesOK /\ RestOK
  BY DEF TypeOK
<1>b. TypeOK' <=> JournalOK' /\ ProcessesOK' /\ RestOK'
  BY DEF TypeOK
<1>c. Row \in Rows /\ Len(runs) \in 1..MaxRuns
  BY RowInRows, <1>a
<1>d. ASSUME UNCHANGED runs PROVE JournalOK'
  BY <1>d, <1>a
<1>e. ASSUME NEW row \in Rows, UpdateRow(row) PROVE JournalOK'
  BY <1>e, UpdateKeepsRows
<1>f. ASSUME NEW row \in Rows, runs' = Append(runs, row), Len(runs) < MaxRuns PROVE JournalOK'
  BY <1>f, AppendKeepsRows
<1>g. ASSUME NEW to \in Locked \cup Unlocked, pc[c] # "idle", ArgumentOK(to, arg[c]),
             Goto(c, to), UNCHANGED <<handle, arg>>
      PROVE  ProcessesOK'
  BY <1>g, GotoKept
<1>h. ASSUME NEW to \in Locked \cup Unlocked, pc[c] # "idle", NEW a, ArgumentOK(to, a),
             Goto(c, to), Work(c, a), UNCHANGED handle
      PROVE  ProcessesOK'
  <2>1. handle[c] \in Manifests /\ handle' = [handle EXCEPT ![c] = handle[c]]
    BY <1>a, <1>h
  <2> QED
    BY <1>h, <2>1, ProcessKept DEF Goto, Work
<1>i. ArgumentOK("leave", arg[c]) /\ ArgumentOK("sealing", arg[c]) /\ ArgumentOK("idle", None)
      /\ ArgumentOK("begin", arg[c]) /\ ArgumentOK("preflight", arg[c])
      /\ ArgumentOK("handle", arg[c]) /\ ArgumentOK("service", arg[c])
      /\ ArgumentOK("checking", arg[c]) /\ ArgumentOK("checked", arg[c])
      /\ ArgumentOK("idle", arg[c])
  BY DEF ArgumentOK
<1>j. pc[c] # "idle" => handle[c] \in Manifests
  BY <1>a
<1>k. ArgumentOK(pc[c], arg[c])
  BY <1>a
<1> HIDE DEF JournalOK, ProcessesOK
<1>1. CASE Open(c)
  <2>1. PICK to \in {"handle", "service"} : Goto(c, to)
    BY <1>1 DEF Open
  <2>3. ProcessesOK'
    BY <1>1, <1>a, <2>1, HoldKept DEF Open, ProcessesOK
  <2> QED
    BY <1>1, <1>a, <1>b, <1>d, <2>3 DEF Open
<1>2. CASE Close(c)
  <2>2. ProcessesOK'
    BY <1>2, HoldKept DEF Close, ProcessesOK
  <2> QED
    BY <1>2, <1>a, <1>b, <1>d, <2>2 DEF Close
<1>3. CASE AcquireLeavesFile(c)
  <2>2. ProcessesOK'
    BY <1>3, <1>j, HoldKept DEF AcquireLeavesFile, ProcessesOK
  <2> QED
    BY <1>3, <1>a, <1>b, <1>d, <2>2 DEF AcquireLeavesFile
<1>4. CASE LockForChange(c)
  <2>1. pc[c] = "handle" /\ handle[c] \in Manifests
    BY <1>4, <1>j DEF LockForChange
  <2>2. ASSUME NEW s \in SourceSets, AcquireWriterLock(c, "replace", [handle[c] EXCEPT !.sources = s])
        PROVE  TypeOK'
    <3>1. [handle[c] EXCEPT !.sources = s] \in Manifests
      BY <2>1 DEF Manifests
    <3> QED
      BY <2>1, <2>2, <3>1, AcquireKept DEF ArgumentOK
  <2>3. ASSUME NEW l \in Languages, AcquireWriterLock(c, "configure", [handle[c] EXCEPT !.language = l])
        PROVE  TypeOK'
    <3>1. [handle[c] EXCEPT !.language = l] \in Manifests
      BY <2>1 DEF Manifests
    <3> QED
      BY <2>1, <2>3, <3>1, AcquireKept DEF ArgumentOK
  <2>4. ASSUME NEW r \in Routes, AcquireWriterLock(c, "configure", [handle[c] EXCEPT !.routes = r])
        PROVE  TypeOK'
    <3>1. [handle[c] EXCEPT !.routes = r] \in Manifests
      BY <2>1 DEF Manifests
    <3> QED
      BY <2>1, <2>4, <3>1, AcquireKept DEF ArgumentOK
  <2>5. ASSUME NEW d \in Dests, NEW i \in DOMAIN runs, runs[i].plan # None,
               AcquireWriterLock(c, "export", [plan |-> runs[i].plan, dest |-> d])
        PROVE  TypeOK'
    <3>1. runs[i] \in Rows
      BY <1>a DEF JournalOK
    <3>2. [plan |-> runs[i].plan, dest |-> d] \in [plan : Plans, dest : Dests]
      BY <3>1, <2>5 DEF Rows
    <3> QED
      BY <2>1, <2>5, <3>2, AcquireKept DEF ArgumentOK
  <2> QED
    BY <1>4, <2>2, <2>3, <2>4, <2>5 DEF LockForChange
<1>5. CASE LockForService(c)
  <2>1. pc[c] = "service"
    BY <1>5 DEF LockForService
  <2>2. ASSUME NEW to \in {"begin", "taxonomy"}, AcquireWriterLock(c, to, None) PROVE TypeOK'
    BY <2>1, <2>2, AcquireKept DEF ArgumentOK
  <2>3. ASSUME NEW to \in {"regenerate", "approve"}, NEW k \in Clusters, AcquireWriterLock(c, to, k)
        PROVE  TypeOK'
    BY <2>1, <2>3, AcquireKept DEF ArgumentOK
  <2>4. ASSUME NEW to \in {"compile", "verify"}, NEW d \in Dests, AcquireWriterLock(c, to, d)
        PROVE  TypeOK'
    BY <2>1, <2>4, AcquireKept DEF ArgumentOK
  <2> QED
    BY <1>5, <2>2, <2>3, <2>4 DEF LockForService
<1>6. CASE LockForCheckpoint(c)
  BY <1>6, AcquireKept DEF LockForCheckpoint, ArgumentOK
<1>7. CASE CheckpointSeesNoPlan(c)
  BY <1>7, <1>a, <1>b, <1>d, <1>g, <1>i DEF CheckpointSeesNoPlan
<1>8. CASE CheckpointSeesApprovals(c)
  BY <1>8, <1>a, <1>b, <1>d, <1>g, <1>i DEF CheckpointSeesApprovals
<1>9. CASE Leave(c)
  BY <1>9, <1>a, <1>b, <1>d, <1>j, ReturnKept DEF Leave, ProcessesOK
<1>10. CASE Fail(c)
  BY <1>10, <1>a, <1>b, <1>d, <1>j, ReturnKept DEF Fail, ProcessesOK
<1>11. CASE Crash(c)
  <2>1. ProcessesOK'
    BY <1>11, <1>i, ProcessKept DEF Crash, Hold, Goto, Work, ProcessesOK
  <2> QED
    BY <1>11, <1>a, <1>b, <1>d, <2>1 DEF Crash
<1>12. CASE CommitInvalidation(c)
  <2>1. arg[c] \in Manifests
    BY <1>12, <1>k DEF CommitInvalidation, ArgumentOK
  <2>2. ArgumentOK("save", arg[c])
    BY <2>1 DEF ArgumentOK
  <2>3. NewRun("placeholder", [arg[c] EXCEPT !.sources = Row.sources]) \in Rows
    <3>1. [arg[c] EXCEPT !.sources = Row.sources] \in Manifests
      BY <2>1, <1>c DEF Manifests, Rows
    <3> QED
      BY <3>1, NewRunInRows
  <2>4. JournalOK'
    BY <1>12, <1>d, <1>f, <2>3 DEF CommitInvalidation
  <2> QED
    BY <1>12, <1>a, <1>b, <1>g, <2>2, <2>4 DEF CommitInvalidation
<1>13. CASE CommitReplacement(c)
  <2>1. arg[c] \in Manifests
    BY <1>13, <1>k DEF CommitReplacement, ArgumentOK
  <2>2. ArgumentOK("save", arg[c])
    BY <2>1 DEF ArgumentOK
  <2>3. JournalOK'
    BY <1>13, <1>f, <2>1, NewRunInRows DEF CommitReplacement
  <2> QED
    BY <1>13, <1>a, <1>b, <1>g, <2>2, <2>3 DEF CommitReplacement
<1>14. CASE SaveManifest(c)
  <2>1. arg[c] \in Manifests /\ handle[c] \in Manifests
    BY <1>14, <1>j, <1>k DEF SaveManifest, ArgumentOK
  <2>2. PICK m \in Manifests : ReturnStore(c, m)
    BY <1>14, <2>1 DEF SaveManifest
  <2> QED
    BY <1>14, <1>a, <1>b, <1>d, <2>1, <2>2, ReturnKept DEF SaveManifest, ProcessesOK
<1>15. CASE BeginOrResumeRun(c)
  <2>1. handle[c] \in Manifests
    BY <1>15, <1>j DEF BeginOrResumeRun
  <2>2. JournalOK'
    BY <1>15, <1>d, <1>f, <2>1, NewRunInRows DEF BeginOrResumeRun
  <2> QED
    BY <1>15, <1>a, <1>b, <1>g, <1>i, <2>2 DEF BeginOrResumeRun
<1>16. CASE RecordPreflight(c)
  <2>1. handle[c] \in Manifests
    BY <1>16, <1>j DEF RecordPreflight
  <2>2. [Row EXCEPT !.worked = TRUE, !.basis = Row.basis \cup {handle[c]}] \in Rows
    BY <1>c, <2>1, RowsUpdated
  <2>3. JournalOK'
    BY <1>16, <1>e, <2>2 DEF RecordPreflight
  <2>4. ArgumentOK("organize", [model |-> model, done |-> {}, matched |-> TRUE])
    BY <1>a DEF ArgumentOK
  <2> QED
    BY <1>16, <1>a, <1>b, <1>h, <2>3, <2>4 DEF RecordPreflight
<1>17. CASE RunOrganizerTask(c)
  <2>1. arg[c].model \in Models /\ ArgumentOK("clusters", arg[c])
    BY <1>17, <1>k DEF RunOrganizerTask, ArgumentOK
  <2>2. JournalOK'
    <3>1. CASE UNCHANGED runs
      BY <3>1, <1>d
    <3>2. CASE /\ Row.recordings < MaxExchanges
               /\ UpdateRow([Row EXCEPT !.organized = Row.organized \cup {arg[c].model},
                                        !.recordings = Row.recordings + 1])
      BY <3>2, <1>c, <1>e, <2>1, RowsUpdated
    <3> QED
      BY <1>17, <3>1, <3>2 DEF RunOrganizerTask
  <2> QED
    BY <1>17, <1>a, <1>b, <1>g, <1>i, <2>1, <2>2 DEF RunOrganizerTask
<1>18. CASE RunClusterTasks(c)
  <2>1. PICK k \in ClustersOf[Row.taxonomy.taxonomy] :
          \/ \E i \in CriticTask(c, k) : ClusterDone(c, k, Row.critics[i]) /\ UNCHANGED runs
          \/ \E v \in Verdicts :
                LET critic == [cluster |-> k, taxonomy |-> Row.taxonomy.taxonomy,
                               revision |-> NextRevision(k), model |-> arg[c].model,
                               verdict |-> v]
                IN  /\ Row.recordings < MaxExchanges
                    /\ UpdateRow([Row EXCEPT !.critics = Append(Row.critics, critic),
                                             !.recordings = Row.recordings + 1])
                    /\ ClusterDone(c, k, critic)
    BY <1>18 DEF RunClusterTasks
  <2>2. pc[c] = "clusters" /\ UNCHANGED <<manifest, lockFile, model, published, handle, staleWriter>>
    BY <1>18 DEF RunClusterTasks
  <2>3. \A v \in Verdicts : k \in Clusters /\
          [cluster |-> k, taxonomy |-> Row.taxonomy.taxonomy, revision |-> NextRevision(k),
           model |-> arg[c].model, verdict |-> v] \in Critics
    BY <2>2, CriticOfTask
  <2>4. CASE \E i \in CriticTask(c, k) : ClusterDone(c, k, Row.critics[i]) /\ UNCHANGED runs
    <3>1. k \in Clusters
      <4>1. Row.taxonomy \in TaxonomyApprovals
        BY <1>c, <2>2 DEF ClustersHaveTaxonomy, Rows
      <4> QED
        BY <4>1, JournalAssumption DEF TaxonomyApprovals
    <3>2. ProcessesOK'
      BY <2>2, <2>4, <3>1, ClusterDoneKept DEF ProcessesOK
    <3> QED
      BY <1>a, <1>b, <1>d, <2>2, <2>4, <3>2
  <2>5. ASSUME NEW v \in Verdicts, NEW critic \in Critics, k \in Clusters,
               Row.recordings < MaxExchanges,
               UpdateRow([Row EXCEPT !.critics = Append(Row.critics, critic),
                                     !.recordings = Row.recordings + 1]),
               ClusterDone(c, k, critic)
        PROVE  TypeOK'
    <3>1. ProcessesOK'
      BY <2>2, <2>5, ClusterDoneKept DEF ProcessesOK
    <3>2. JournalOK'
      BY <2>5, <1>c, <1>e, RowsUpdated
    <3> QED
      BY <1>a, <1>b, <2>2, <3>1, <3>2
  <2> QED
    BY <2>1, <2>3, <2>4, <2>5
<1>19. CASE DropResponse(c)
  <2>1. [Row EXCEPT !.recordings = Row.recordings + 1] \in Rows
    BY <1>19, <1>c, RowsUpdated DEF DropResponse
  <2>2. JournalOK'
    BY <1>19, <1>e, <2>1 DEF DropResponse
  <2> QED
    BY <1>19, <1>a, <1>b, <1>g, <1>i, <2>2 DEF DropResponse
<1>20. CASE Seal(c)
  <2>1. SealedPlan(Row) \in Plans
    BY <1>20, <1>c, SealedPlanInPlans DEF Seal
  <2>2. JournalOK'
    BY <1>20, <1>c, <1>e, <2>1, RowsUpdated DEF Seal, SealLatestPlan
  <2> QED
    BY <1>20, <1>a, <1>b, <1>g, <1>i, <2>2 DEF Seal
<1>21. CASE ApproveTaxonomy(c)
  <2>1. JournalOK'
    BY <1>21, <1>c, <1>e, RowsUpdated DEF ApproveTaxonomy
  <2> QED
    BY <1>21, <1>a, <1>b, <1>g, <1>i, <2>1 DEF ApproveTaxonomy
<1>22. CASE AppendRegeneration(c)
  <2>1. arg[c] \in Clusters /\ ArgumentOK("revoke", arg[c])
    BY <1>22, <1>k DEF AppendRegeneration, ArgumentOK
  <2>2. PICK critic \in CompletedCluster(Row, arg[c]) :
          /\ critic.revision < MaxRevision
          /\ UpdateRow([Row EXCEPT !.feedback[arg[c]] = critic.revision + 1])
    BY <1>22 DEF AppendRegeneration
  <2>3. critic.revision + 1 \in 0..MaxRevision
    <3>1. critic.revision \in 1..MaxRevision
      BY <1>c, <2>1, CompletedInCritics DEF Critics
    <3>2. MaxRevision \in Nat
      BY JournalAssumption
    <3> QED
      BY <2>2, <3>1, <3>2
  <2>4. JournalOK'
    BY <1>c, <1>e, <2>1, <2>2, <2>3, RowsUpdated
  <2> QED
    BY <1>22, <1>a, <1>b, <1>g, <2>1, <2>4 DEF AppendRegeneration
<1>23. CASE RevokeApproval(c)
  <2>1. arg[c] \in Clusters
    BY <1>23, <1>k DEF RevokeApproval, ArgumentOK
  <2>2. JournalOK'
    BY <1>23, <1>c, <1>d, <1>e, <2>1, RowsUpdated DEF RevokeApproval
  <2> QED
    BY <1>23, <1>a, <1>b, <1>g, <1>i, <2>2 DEF RevokeApproval
<1>24. CASE ApproveCluster(c)
  <2>1. arg[c] \in Clusters
    BY <1>24, <1>k DEF ApproveCluster, ArgumentOK
  <2>2. PICK critic \in CompletedCluster(Row, arg[c]), n \in Notes :
          UpdateRow([Row EXCEPT !.approvals[arg[c]] =
              [target |-> "critic", value |-> [critic |-> critic, note |-> n]]])
    BY <1>24 DEF ApproveCluster
  <2>3. [target |-> "critic", value |-> [critic |-> critic, note |-> n]] \in ClusterApprovals
    BY <1>c, <2>1, CompletedInCritics DEF ClusterApprovals, ClusterRevisions
  <2>4. JournalOK'
    BY <1>c, <1>e, <2>1, <2>2, <2>3, RowsUpdated
  <2> QED
    BY <1>24, <1>a, <1>b, <1>g, <1>i, <2>4 DEF ApproveCluster
<1>25. CASE SealIfComplete(c)
  <2>1. Sealable(Row) => SealedPlan(Row) \in Plans
    BY <1>c, SealedPlanInPlans
  <2>2. JournalOK'
    BY <1>25, <1>c, <1>d, <1>e, <2>1, RowsUpdated DEF SealIfComplete, SealLatestPlan
  <2> QED
    BY <1>25, <1>a, <1>b, <1>g, <1>i, <2>2 DEF SealIfComplete
<1>26. CASE SelectPlan(c)
  <2>1. arg[c] \in Dests /\ LatestApprovedPlan \in Plans
    BY <1>26, <1>k, OfferedInPlans DEF SelectPlan, ArgumentOK
  <2>2. ArgumentOK("publish", [plan |-> LatestApprovedPlan, dest |-> arg[c]])
    BY <2>1 DEF ArgumentOK
  <2> QED
    BY <1>26, <1>a, <1>b, <1>d, <1>h, <2>2 DEF SelectPlan
<1>27. CASE Publish(c)
  <2>1. arg[c] \in [plan : Plans, dest : Dests] /\ ArgumentOK("record", arg[c])
    BY <1>27, <1>k DEF Publish, ArgumentOK
  <2>2. published' \in [Dests -> Plans \cup {None}]
    BY <1>27, <1>a, <2>1 DEF Publish, PublishTo
  <2> QED
    BY <1>27, <1>a, <1>b, <1>d, <1>g, <2>1, <2>2 DEF Publish
<1>28. CASE Export(c)
  <2>1. arg[c] \in [plan : Plans, dest : Dests] /\ handle[c] \in Manifests
    BY <1>28, <1>j, <1>k DEF Export, ArgumentOK
  <2>2. published' \in [Dests -> Plans \cup {None}]
    BY <1>28, <1>a, <2>1 DEF Export, PublishTo
  <2> QED
    BY <1>28, <1>a, <1>b, <1>d, <2>1, <2>2, ReturnKept DEF Export, ProcessesOK
<1>29. CASE VerifyArtifact(c)
  <2>1. arg[c] \in Dests
    BY <1>29, <1>k DEF VerifyArtifact, ArgumentOK
  <2>2. ArgumentOK("record", [plan |-> published[arg[c]], dest |-> arg[c]])
    BY <1>29, <1>a, <2>1 DEF VerifyArtifact, ArgumentOK
  <2> QED
    BY <1>29, <1>a, <1>b, <1>d, <1>h, <2>2 DEF VerifyArtifact
<1>30. CASE RecordVerifiedOutput(c)
  <2>1. arg[c] \in [plan : Plans, dest : Dests]
    BY <1>30, <1>k DEF RecordVerifiedOutput, ArgumentOK
  <2>2. JournalOK'
    BY <1>30, <1>c, <1>e, <2>1, RowsUpdated DEF RecordVerifiedOutput
  <2> QED
    BY <1>30, <1>a, <1>b, <1>g, <1>i, <2>2 DEF RecordVerifiedOutput
<1> QED
  BY <1>1, <1>2, <1>3, <1>4, <1>5, <1>6, <1>7, <1>8, <1>9, <1>10, <1>11, <1>12, <1>13, <1>14,
     <1>15, <1>16, <1>17, <1>18, <1>19, <1>20, <1>21, <1>22, <1>23, <1>24, <1>25, <1>26, <1>27,
     <1>28, <1>29, <1>30 DEF Step

\* Only the process that holds the lock writes what the project keeps.
LEMMA OnlyTheWriterWrites ==
  ASSUME TypeOK, LockOK, NEW c \in Clients, NEW d \in Clients, Step(d), c # d, pc[c] \in Locked
  PROVE  UNCHANGED <<manifest, runs, published, pc[c], handle[c], arg[c]>>
<1> USE DEF Locked, Configuring, Serving, Unlocked
<1>1. pc[d] \notin Locked /\ lockFile = c /\ lockFile # "absent"
  BY JournalAssumption DEF LockOK, SingleWriter
<1>2. ~(LockForChange(d) \/ LockForService(d) \/ LockForCheckpoint(d))
  BY <1>1 DEF LockForChange, LockForService, LockForCheckpoint, AcquireWriterLock
<1>3. Open(d) \/ Close(d) \/ AcquireLeavesFile(d) \/ CheckpointSeesNoPlan(d)
      \/ CheckpointSeesApprovals(d) \/ Crash(d)
  BY <1>1, <1>2 DEF Step, Leave, Fail, CommitInvalidation, CommitReplacement, SaveManifest,
     BeginOrResumeRun, RecordPreflight, RunOrganizerTask, RunClusterTasks, DropResponse, Seal,
     ApproveTaxonomy, AppendRegeneration, RevokeApproval, ApproveCluster, SealIfComplete,
     SelectPlan, Publish, Export, VerifyArtifact, RecordVerifiedOutput
<1>4. c \in DOMAIN pc /\ c \in DOMAIN handle /\ c \in DOMAIN arg
  BY DEF TypeOK
<1> QED
  BY <1>3, <1>4 DEF Open, Close, AcquireLeavesFile, CheckpointSeesNoPlan, CheckpointSeesApprovals,
     Crash, Goto, Hold, Work, durable

LEMMA RowAfterUpdate ==
  ASSUME TypeOK, NEW row, UpdateRow(row)
  PROVE  Row' = row
<1>1. runs \in Seq(Rows) /\ Len(runs) \in 1..MaxRuns
  BY DEF TypeOK
<1>2. runs' = [runs EXCEPT ![Len(runs)] = row]
  BY DEF UpdateRow
<1>3. Len(runs') = Len(runs)
  BY <1>1, <1>2
<1>4. Len(runs) \in DOMAIN runs
  BY <1>1
<1> QED
  BY <1>2, <1>3, <1>4

\* A step moves its own process only, and each stage is reached one way.
LEMMA StepMoves ==
  ASSUME NEW c \in Clients, Step(c)
  PROVE  \E to : /\ pc' = [pc EXCEPT ![c] = to]
                 /\ to = "organize" => RecordPreflight(c)
                 /\ to = "clusters" => RunOrganizerTask(c) \/ RunClusterTasks(c)
                 /\ to = "seal" => RunClusterTasks(c)
                 /\ to = "save" => CommitInvalidation(c) \/ CommitReplacement(c)
                 /\ to = "publish" => SelectPlan(c)
                 /\ to = "record" => Publish(c) \/ VerifyArtifact(c)
<1> USE DEF Goto
<1>1. CASE Open(c) \/ Close(c) \/ AcquireLeavesFile(c) \/ CheckpointSeesNoPlan(c)
           \/ CheckpointSeesApprovals(c) \/ Crash(c)
  BY <1>1 DEF Open, Close, AcquireLeavesFile, CheckpointSeesNoPlan, CheckpointSeesApprovals, Crash
<1>2. CASE LockForChange(c) \/ LockForService(c) \/ LockForCheckpoint(c)
  BY <1>2, LockMoves DEF Entries
<1>3. CASE Leave(c) \/ Fail(c) \/ SaveManifest(c) \/ Export(c)
  BY <1>3 DEF Leave, Fail, SaveManifest, Export, ReturnStore, ReturnService
<1>4. CASE CommitInvalidation(c) \/ CommitReplacement(c) \/ BeginOrResumeRun(c)
           \/ RecordPreflight(c) \/ DropResponse(c) \/ Seal(c)
  <2>1. CASE RecordPreflight(c)
    <3>1. \E to \in {"organize"} : pc' = [pc EXCEPT ![c] = to]
      BY <2>1 DEF RecordPreflight
    <3> QED
      BY <2>1, <3>1
  <2>2. CASE CommitInvalidation(c) \/ CommitReplacement(c)
    BY <2>2 DEF CommitInvalidation, CommitReplacement
  <2>3. CASE BeginOrResumeRun(c) \/ DropResponse(c) \/ Seal(c)
    <3>1. \E to \in {"preflight", "leave"} : pc' = [pc EXCEPT ![c] = to]
      BY <2>3 DEF BeginOrResumeRun, DropResponse, Seal
    <3> QED
      BY <3>1
  <2> QED
    BY <1>4, <2>1, <2>2, <2>3
<1>5. CASE RunOrganizerTask(c)
  <2>1. \E to \in {"clusters", "leave"} : pc' = [pc EXCEPT ![c] = to]
    BY <1>5 DEF RunOrganizerTask
  <2> QED
    BY <1>5, <2>1
<1>6. CASE RunClusterTasks(c)
  <2>1. \E to \in {"clusters", "seal", "leave"} : pc' = [pc EXCEPT ![c] = to]
    BY <1>6 DEF RunClusterTasks, ClusterDone
  <2> QED
    BY <1>6, <2>1
<1>7. CASE ApproveTaxonomy(c) \/ AppendRegeneration(c) \/ RevokeApproval(c) \/ ApproveCluster(c)
           \/ SealIfComplete(c) \/ RecordVerifiedOutput(c)
  BY <1>7 DEF ApproveTaxonomy, AppendRegeneration, RevokeApproval, ApproveCluster,
     SealIfComplete, RecordVerifiedOutput
<1>8. CASE SelectPlan(c) \/ Publish(c) \/ VerifyArtifact(c)
  BY <1>8 DEF SelectPlan, Publish, VerifyArtifact
<1> QED
  BY <1>1, <1>2, <1>3, <1>4, <1>5, <1>6, <1>7, <1>8 DEF Step

\* What a step does to the newest row, as far as the invariants below look.
LEMMA RowMoves ==
  ASSUME TypeOK, NEW c \in Clients, Step(c)
  PROVE  \/ UNCHANGED runs
         \/ /\ CommitInvalidation(c) \/ CommitReplacement(c) \/ BeginOrResumeRun(c)
            /\ Len(runs') = Len(runs) + 1
            /\ \A i \in 1..Len(runs) : runs'[i] = runs[i]
            /\ Row'.basis = {} /\ Row'.worked = FALSE /\ Row'.verified = {}
         \/ /\ Len(runs') = Len(runs)
            /\ \A i \in 1..Len(runs) : i # Len(runs) => runs'[i] = runs[i]
            /\ \/ Row'.basis = Row.basis /\ Row'.worked = Row.worked
               \/ RecordPreflight(c) /\ Row'.worked = TRUE /\ Row'.basis = Row.basis \cup {handle[c]}
            /\ Row'.taxonomy = Row.taxonomy \/ ApproveTaxonomy(c)
            /\ \/ Row'.verified = Row.verified
               \/ RecordVerifiedOutput(c) /\ Row'.verified = Row.verified \cup {arg[c]}
<1> DEFINE Updated(row) ==
             /\ \/ row.basis = Row.basis /\ row.worked = Row.worked
                \/ RecordPreflight(c) /\ row.worked = TRUE /\ row.basis = Row.basis \cup {handle[c]}
             /\ row.taxonomy = Row.taxonomy \/ ApproveTaxonomy(c)
             /\ \/ row.verified = Row.verified
                \/ RecordVerifiedOutput(c) /\ row.verified = Row.verified \cup {arg[c]}
           Rewritten ==
             /\ Len(runs') = Len(runs)
             /\ \A i \in 1..Len(runs) : i # Len(runs) => runs'[i] = runs[i]
             /\ Updated(Row')
<1>a. runs \in Seq(Rows) /\ Len(runs) \in 1..MaxRuns /\ Row \in Rows
  BY RowInRows DEF TypeOK
<1>b. ASSUME NEW row, UpdateRow(row), Updated(row) PROVE Rewritten
  <2>1. Row' = row
    BY <1>b, RowAfterUpdate
  <2>2. runs' = [runs EXCEPT ![Len(runs)] = row]
    BY <1>b DEF UpdateRow
  <2>3. Len(runs') = Len(runs) /\ \A i \in 1..Len(runs) : i # Len(runs) => runs'[i] = runs[i]
    BY <1>a, <2>2
  <2>4. Updated(Row')
    BY <1>b, <2>1
  <2> QED
    BY <2>3, <2>4
<1>c. ASSUME NEW m, NEW origin, runs' = Append(runs, NewRun(origin, m))
      PROVE  /\ Len(runs') = Len(runs) + 1
             /\ \A i \in 1..Len(runs) : runs'[i] = runs[i]
             /\ Row'.basis = {} /\ Row'.worked = FALSE /\ Row'.verified = {}
  <2>1. /\ Len(runs') = Len(runs) + 1
        /\ \A i \in 1..Len(runs) : runs'[i] = runs[i]
        /\ runs'[Len(runs) + 1] = NewRun(origin, m)
    BY <1>a, <1>c
  <2>2. Row' = NewRun(origin, m)
    BY <2>1
  <2> QED
    BY <2>1, <2>2 DEF NewRun
<1>d. {"basis", "worked", "taxonomy", "verified"} \subseteq DOMAIN Row
  BY <1>a DEF Rows
<1>1. CASE Open(c) \/ Close(c) \/ AcquireLeavesFile(c) \/ CheckpointSeesNoPlan(c)
           \/ CheckpointSeesApprovals(c) \/ Crash(c) \/ Leave(c) \/ Fail(c) \/ SaveManifest(c)
           \/ Export(c) \/ SelectPlan(c) \/ Publish(c) \/ VerifyArtifact(c)
  BY <1>1 DEF Open, Close, AcquireLeavesFile, CheckpointSeesNoPlan, CheckpointSeesApprovals,
     Crash, Leave, Fail, SaveManifest, Export, SelectPlan, Publish, VerifyArtifact, durable
<1>2. CASE LockForChange(c) \/ LockForService(c) \/ LockForCheckpoint(c)
  BY <1>2, LockMoves
<1>3. CASE CommitInvalidation(c) \/ CommitReplacement(c) \/ BeginOrResumeRun(c)
  BY <1>3, <1>c DEF CommitInvalidation, CommitReplacement, BeginOrResumeRun
<1>4. CASE RecordPreflight(c)
  <2> DEFINE row == [Row EXCEPT !.worked = TRUE, !.basis = Row.basis \cup {handle[c]}]
  <2>1. Updated(row)
    BY <1>4, <1>d
  <2>2. UpdateRow(row)
    BY <1>4 DEF RecordPreflight
  <2> QED
    BY <1>b, <2>1, <2>2
<1>5. CASE RunOrganizerTask(c) \/ DropResponse(c)
  <2> DEFINE row1 == [Row EXCEPT !.organized = Row.organized \cup {arg[c].model},
                                 !.recordings = Row.recordings + 1]
             row2 == [Row EXCEPT !.recordings = Row.recordings + 1]
  <2>1. Updated(row1) /\ Updated(row2)
    BY <1>d
  <2>2. UNCHANGED runs \/ UpdateRow(row1) \/ UpdateRow(row2)
    BY <1>5 DEF RunOrganizerTask, DropResponse
  <2> QED
    BY <1>b, <2>1, <2>2
<1>6. CASE RunClusterTasks(c)
  <2> DEFINE row(critics) == [Row EXCEPT !.critics = critics, !.recordings = Row.recordings + 1]
  <2>1. \A critics : Updated(row(critics))
    BY <1>d
  <2>2. UNCHANGED runs \/ \E critics : UpdateRow(row(critics))
    BY <1>6 DEF RunClusterTasks
  <2> QED
    BY <1>b, <2>1, <2>2
<1>7. CASE Seal(c) \/ SealIfComplete(c)
  <2> DEFINE row == [Row EXCEPT !.plan = SealedPlan(Row)]
  <2>1. Updated(row)
    BY <1>d
  <2>2. UNCHANGED runs \/ UpdateRow(row)
    BY <1>7 DEF Seal, SealIfComplete, SealLatestPlan
  <2> QED
    BY <1>b, <2>1, <2>2
<1>8. CASE ApproveTaxonomy(c)
  <2> DEFINE row(a) == [Row EXCEPT !.taxonomy = a]
  <2>1. \A a : Updated(row(a))
    BY <1>8, <1>d
  <2>2. \E a : UpdateRow(row(a))
    BY <1>8 DEF ApproveTaxonomy
  <2> QED
    BY <1>b, <2>1, <2>2
<1>9. CASE AppendRegeneration(c) \/ RevokeApproval(c) \/ ApproveCluster(c)
  <2> DEFINE row1(feedback) == [Row EXCEPT !.feedback = feedback]
             row2(approvals) == [Row EXCEPT !.approvals = approvals]
  <2>1. \A x : Updated(row1(x)) /\ Updated(row2(x))
    BY <1>d
  <2>2. UNCHANGED runs \/ \E x : UpdateRow(row1(x)) \/ UpdateRow(row2(x))
    BY <1>9 DEF AppendRegeneration, RevokeApproval, ApproveCluster
  <2> QED
    BY <1>b, <2>1, <2>2
<1>10. CASE RecordVerifiedOutput(c)
  <2> DEFINE row == [Row EXCEPT !.verified = Row.verified \cup {arg[c]}]
  <2>1. Updated(row)
    BY <1>10, <1>d
  <2>2. UpdateRow(row)
    BY <1>10 DEF RecordVerifiedOutput
  <2> QED
    BY <1>b, <2>1, <2>2
<1> QED
  BY <1>1, <1>2, <1>3, <1>4, <1>5, <1>6, <1>7, <1>8, <1>9, <1>10 DEF Step

\* The cluster stage is entered with an approved taxonomy, and only the lock's
\* holder could replace it.
LEMMA StepKeepsTaxonomy ==
  ASSUME TypeOK, LockOK, ClustersHaveTaxonomy, NEW d \in Clients, Step(d)
  PROVE  ClustersHaveTaxonomy'
<1> SUFFICES ASSUME NEW c \in Clients, pc'[c] = "clusters" PROVE Row'.taxonomy # None
  BY DEF ClustersHaveTaxonomy
<1>1. PICK to : /\ pc' = [pc EXCEPT ![d] = to]
                /\ to = "clusters" => RunOrganizerTask(d) \/ RunClusterTasks(d)
  BY StepMoves
<1>2. c \in DOMAIN pc /\ d \in DOMAIN pc
  BY DEF TypeOK
<1>3. CASE c # d
  <2>1. pc[c] = "clusters"
    BY <1>1, <1>2, <1>3
  <2>2. UNCHANGED runs
    BY <1>3, <2>1, OnlyTheWriterWrites DEF Locked, Serving
  <2> QED
    BY <2>1, <2>2 DEF ClustersHaveTaxonomy
<1>4. CASE c = d
  <2>1. RunOrganizerTask(d) \/ RunClusterTasks(d)
    BY <1>1, <1>2, <1>4
  <2>2. Row.taxonomy # None
    <3>1. CASE RunOrganizerTask(d)
      BY <1>2, <1>4, <3>1 DEF RunOrganizerTask, Goto
    <3>2. CASE RunClusterTasks(d)
      BY <3>2 DEF RunClusterTasks, ClustersHaveTaxonomy
    <3> QED
      BY <2>1, <3>1, <3>2
  <2>3. pc[d] \in {"organize", "clusters"}
    BY <2>1 DEF RunOrganizerTask, RunClusterTasks
  <2>4. ~(CommitInvalidation(d) \/ CommitReplacement(d) \/ BeginOrResumeRun(d) \/ ApproveTaxonomy(d))
    BY <2>3 DEF CommitInvalidation, CommitReplacement, BeginOrResumeRun, ApproveTaxonomy
  <2> QED
    BY <2>2, <2>4, RowMoves
<1> QED
  BY <1>3, <1>4

\* Every reachable state is well typed: each stage of each operation, reached
\* over any interleaving, failure or crash, finds the manifest, the row and the
\* argument it works on.
THEOREM TypesAreKept == Spec => []TypeOK
<1> DEFINE Inv == TypeOK /\ ClustersHaveTaxonomy
<1>1. Init => Inv
  <2> SUFFICES ASSUME Init PROVE Inv
    OBVIOUS
  <2>1. NewRun("placeholder", manifest) \in Rows
    BY NewRunInRows DEF Init
  <2>2. runs \in Seq(Rows) /\ Latest \in 1..MaxRuns
    BY <2>1, JournalAssumption DEF Init
  <2>3. \A c \in Clients : ArgumentOK(pc[c], arg[c])
    BY DEF Init, ArgumentOK
  <2> QED
    BY <2>2, <2>3 DEF Init, TypeOK, ClustersHaveTaxonomy
<1>2. Inv /\ LockOK /\ [Next]_vars => Inv'
  <2> SUFFICES ASSUME Inv, LockOK, [Next]_vars PROVE Inv'
    OBVIOUS
  <2>1. ASSUME NEW c \in Clients, Step(c) PROVE Inv'
    BY <2>1, StepKeepsTypes, StepKeepsTaxonomy
  <2>2. CASE RemoveOrphanLock
    BY <2>2 DEF RemoveOrphanLock, durable, TypeOK, ClustersHaveTaxonomy
  <2>3. CASE EditProfile
    BY <2>3 DEF EditProfile, TypeOK, ClustersHaveTaxonomy
  <2>4. CASE UNCHANGED vars
    BY <2>4 DEF vars, TypeOK, ClustersHaveTaxonomy
  <2> QED
    BY <2>1, <2>2, <2>3, <2>4 DEF Next
<1>3. Inv => TypeOK
  OBVIOUS
<1> QED
  BY <1>1, <1>2, <1>3, LockAlwaysOK, PTL DEF Spec

-----------------------------------------------------------------------------
(* Verified outputs. *)

\* What VerifiedOutputIsPublished needs: no record speaks of an empty place,
\* and an operation about to record something has seen it published.
RecordsArePublished ==
    \A i \in DOMAIN runs : \A v \in runs[i].verified :
        published[v.dest] = v.plan /\ v.plan # None
RecordersSawIt ==
    \A c \in Clients :
        /\ pc[c] = "record" => published[arg[c].dest] = arg[c].plan /\ arg[c].plan # None
        /\ pc[c] = "publish" => arg[c].plan # None

\* A name once taken keeps its content.
LEMMA PublishedStays ==
  ASSUME TypeOK, NEW c \in Clients, Step(c), NEW d \in Dests, published[d] # None
  PROVE  published'[d] = published[d]
<1>1. CASE Publish(c) \/ Export(c)
  BY <1>1 DEF Publish, Export, PublishTo, TypeOK
<1>2. CASE LockForChange(c) \/ LockForService(c) \/ LockForCheckpoint(c)
  BY <1>2, LockMoves
<1>3. CASE Open(c) \/ Close(c) \/ AcquireLeavesFile(c) \/ CheckpointSeesNoPlan(c)
           \/ CheckpointSeesApprovals(c) \/ Crash(c) \/ Leave(c) \/ Fail(c) \/ SaveManifest(c)
           \/ SelectPlan(c) \/ VerifyArtifact(c) \/ CommitInvalidation(c) \/ CommitReplacement(c)
  BY <1>3 DEF Open, Close, AcquireLeavesFile, CheckpointSeesNoPlan, CheckpointSeesApprovals,
     Crash, Leave, Fail, SaveManifest, SelectPlan, VerifyArtifact, CommitInvalidation,
     CommitReplacement, durable
<1>4. CASE BeginOrResumeRun(c) \/ RecordPreflight(c) \/ RunOrganizerTask(c) \/ RunClusterTasks(c)
           \/ DropResponse(c) \/ Seal(c)
  BY <1>4 DEF BeginOrResumeRun, RecordPreflight, RunOrganizerTask, RunClusterTasks, DropResponse, Seal
<1>5. CASE ApproveTaxonomy(c) \/ AppendRegeneration(c) \/ RevokeApproval(c) \/ ApproveCluster(c)
           \/ SealIfComplete(c) \/ RecordVerifiedOutput(c)
  BY <1>5 DEF ApproveTaxonomy, AppendRegeneration, RevokeApproval, ApproveCluster, SealIfComplete,
     RecordVerifiedOutput
<1> QED
  BY <1>1, <1>2, <1>3, <1>4, <1>5 DEF Step

LEMMA StepKeepsRecords ==
  ASSUME TypeOK, TypeOK', LockOK, RecordsArePublished, RecordersSawIt, NEW c \in Clients, Step(c)
  PROVE  RecordsArePublished' /\ RecordersSawIt'
<1>a. /\ runs \in Seq(Rows) /\ Len(runs) \in 1..MaxRuns
      /\ runs' \in Seq(Rows) /\ Len(runs') \in 1..MaxRuns
  BY DEF TypeOK
<1>b. \A i \in DOMAIN runs : \A v \in runs[i].verified : v.dest \in Dests
  <2> SUFFICES ASSUME NEW i \in DOMAIN runs, NEW v \in runs[i].verified PROVE v.dest \in Dests
    OBVIOUS
  <2>1. runs[i] \in Rows
    BY <1>a
  <2>2. runs[i].verified \in SUBSET [plan : Plans, dest : Dests]
    BY <2>1 DEF Rows
  <2>3. v \in [plan : Plans, dest : Dests]
    BY <2>2
  <2> QED
    BY <2>3
<1>c. ASSUME NEW v, v.dest \in Dests, published[v.dest] = v.plan, v.plan # None
      PROVE  published'[v.dest] = v.plan
  BY <1>c, PublishedStays
<1>1. RecordsArePublished'
  <2> SUFFICES ASSUME NEW i \in DOMAIN runs', NEW v \in runs'[i].verified
               PROVE  published'[v.dest] = v.plan /\ v.plan # None
    BY DEF RecordsArePublished
  <2>1. CASE \E j \in DOMAIN runs : v \in runs[j].verified
    BY <2>1, <1>b, <1>c DEF RecordsArePublished
  <2>2. CASE RecordVerifiedOutput(c) /\ v = arg[c]
    <3>1. arg[c].dest \in Dests
      BY <2>2 DEF RecordVerifiedOutput, TypeOK, ArgumentOK
    <3>2. published[v.dest] = v.plan /\ v.plan # None
      BY <2>2 DEF RecordVerifiedOutput, RecordersSawIt
    <3> QED
      BY <2>2, <3>1, <3>2, <1>c
  <2>3. \/ \E j \in DOMAIN runs : v \in runs[j].verified
        \/ RecordVerifiedOutput(c) /\ v = arg[c]
    <3>1. CASE UNCHANGED runs
      BY <3>1
    <3>2. CASE /\ Len(runs') = Len(runs) + 1
               /\ \A j \in 1..Len(runs) : runs'[j] = runs[j]
               /\ Row'.verified = {}
      <4>1. i \in 1..Len(runs)
        BY <1>a, <3>2
      <4> QED
        BY <1>a, <3>2, <4>1
    <3>3. CASE /\ Len(runs') = Len(runs)
               /\ \A j \in 1..Len(runs) : j # Len(runs) => runs'[j] = runs[j]
               /\ \/ Row'.verified = Row.verified
                  \/ RecordVerifiedOutput(c) /\ Row'.verified = Row.verified \cup {arg[c]}
      <4>1. CASE i # Len(runs)
        BY <1>a, <3>3, <4>1
      <4>2. CASE i = Len(runs)
        BY <1>a, <3>3, <4>2
      <4> QED
        BY <4>1, <4>2
    <3> QED
      BY <3>1, <3>2, <3>3, RowMoves
  <2> QED
    BY <2>1, <2>2, <2>3
<1>2. RecordersSawIt'
  <2> SUFFICES ASSUME NEW e \in Clients
               PROVE  /\ pc'[e] = "record" =>
                           published'[arg'[e].dest] = arg'[e].plan /\ arg'[e].plan # None
                      /\ pc'[e] = "publish" => arg'[e].plan # None
    BY DEF RecordersSawIt
  <2>1. PICK to : /\ pc' = [pc EXCEPT ![c] = to]
                  /\ to = "publish" => SelectPlan(c)
                  /\ to = "record" => Publish(c) \/ VerifyArtifact(c)
    BY StepMoves
  <2>2. e \in DOMAIN pc /\ c \in DOMAIN pc /\ c \in DOMAIN arg
    BY DEF TypeOK
  <2>3. CASE e # c
    <3>1. pc'[e] = pc[e]
      BY <2>1, <2>2, <2>3
    <3>2. pc[e] \in {"record", "publish"} => UNCHANGED <<published, arg[e]>>
      BY <2>3, OnlyTheWriterWrites DEF Locked, Serving
    <3> QED
      BY <3>1, <3>2 DEF RecordersSawIt
  <2>4. CASE e = c
    <3>1. CASE SelectPlan(c)
      BY <2>2, <2>4, <3>1 DEF SelectPlan, Work, Goto
    <3>2. CASE VerifyArtifact(c)
      BY <2>2, <2>4, <3>2 DEF VerifyArtifact, Work, Goto, durable
    <3>3. CASE Publish(c)
      <4>1. arg[c].dest \in Dests /\ arg[c].plan # None /\ UNCHANGED arg
        BY <3>3 DEF Publish, TypeOK, ArgumentOK, RecordersSawIt
      <4>2. published'[arg[c].dest] = arg[c].plan
        BY <3>3, <4>1 DEF Publish, PublishTo, TypeOK
      <4> QED
        BY <2>4, <4>1, <4>2
    <3>4. CASE to \notin {"record", "publish"}
      BY <2>1, <2>2, <2>4, <3>4
    <3> QED
      BY <2>1, <3>1, <3>2, <3>3, <3>4
  <2> QED
    BY <2>3, <2>4
<1> QED
  BY <1>1, <1>2

\* A verified output is on disk under its name, compiled from the plan it was
\* verified for: compile and verify record what they saw published, and nothing
\* ever takes a published name over.
THEOREM VerifiedOutputsArePublished == Spec => []VerifiedOutputIsPublished
<1> DEFINE Inv == RecordsArePublished /\ RecordersSawIt
<1>1. Init => Inv
  BY DEF Init, NewRun, RecordsArePublished, RecordersSawIt
<1>2. Inv /\ LockOK /\ TypeOK /\ TypeOK' /\ [Next]_vars => Inv'
  <2> SUFFICES ASSUME Inv, LockOK, TypeOK, TypeOK', [Next]_vars PROVE Inv'
    OBVIOUS
  <2>1. ASSUME NEW c \in Clients, Step(c) PROVE Inv'
    BY <2>1, StepKeepsRecords
  <2>2. CASE RemoveOrphanLock
    BY <2>2 DEF RemoveOrphanLock, durable, RecordsArePublished, RecordersSawIt
  <2>3. CASE EditProfile
    BY <2>3 DEF EditProfile, RecordsArePublished, RecordersSawIt
  <2>4. CASE UNCHANGED vars
    BY <2>4 DEF vars, RecordsArePublished, RecordersSawIt
  <2> QED
    BY <2>1, <2>2, <2>3, <2>4 DEF Next
<1>3. Inv => VerifiedOutputIsPublished
  BY DEF RecordsArePublished, VerifiedOutputIsPublished
<1> QED
  BY <1>1, <1>2, <1>3, LockAlwaysOK, TypesAreKept, PTL DEF Spec

-----------------------------------------------------------------------------
(* The offered plan and the manifest. *)

\* While no writer came with an outdated store: the newest run was worked on
\* under the current manifest only, whoever holds the lock knows that manifest,
\* and a process about to replace it has emptied the row of work.
RowKnowsManifest ==
    /\ Row.basis # {} => Row.worked
    /\ ~staleWriter =>
          /\ Row.basis \subseteq {manifest}
          /\ \A c \in Clients : pc[c] \in Locked => handle[c] = manifest
          /\ \A c \in Clients : pc[c] = "save" => Row.basis = {}

\* Between taking the lock and dropping it, a process keeps its manifest and
\* the project's, and outside it writes nothing.
LEMMA LockedSteps ==
  ASSUME TypeOK, LockOK, NEW c \in Clients, Step(c)
  PROVE  /\ pc[c] \notin Locked => UNCHANGED <<manifest, runs>>
         /\ pc[c] \notin Locked /\ pc'[c] \in Locked =>
               staleWriter' = (staleWriter \/ handle[c] # manifest)
         /\ pc[c] \in Locked => UNCHANGED staleWriter
         /\ pc[c] \in Locked /\ pc'[c] \in Locked => UNCHANGED <<manifest, handle[c]>>
         /\ manifest' # manifest => SaveManifest(c)
         /\ staleWriter => staleWriter'
<1> USE DEF Locked, Configuring, Serving, Unlocked
<1>1. c \in DOMAIN pc
  BY DEF TypeOK
<1>2. CASE LockForChange(c) \/ LockForService(c) \/ LockForCheckpoint(c)
  <2>1. pc[c] \in Unlocked
    BY <1>2, LockMoves
  <2>2. /\ UNCHANGED <<manifest, runs, handle>>
        /\ staleWriter' = (staleWriter \/ handle[c] # manifest)
    BY <1>2, LockMoves
  <2>3. staleWriter \in BOOLEAN
    BY DEF TypeOK
  <2> QED
    BY <2>1, <2>2, <2>3
<1>3. CASE Open(c) \/ Close(c) \/ AcquireLeavesFile(c) \/ CheckpointSeesNoPlan(c)
           \/ CheckpointSeesApprovals(c)
  BY <1>1, <1>3 DEF Open, Close, AcquireLeavesFile, CheckpointSeesNoPlan, CheckpointSeesApprovals,
     Goto, durable
<1>4. CASE Crash(c) \/ Leave(c) \/ Fail(c) \/ SaveManifest(c) \/ Export(c)
  BY <1>1, <1>4 DEF Crash, Leave, Fail, SaveManifest, Export, ReturnStore, ReturnService, Goto, durable
<1>5. CASE CommitInvalidation(c) \/ CommitReplacement(c) \/ BeginOrResumeRun(c) \/ RecordPreflight(c)
           \/ RunOrganizerTask(c) \/ RunClusterTasks(c) \/ DropResponse(c) \/ Seal(c)
  <2>1. pc[c] \in Locked
    BY <1>5 DEF CommitInvalidation, CommitReplacement, BeginOrResumeRun, RecordPreflight,
       RunOrganizerTask, RunClusterTasks, DropResponse, Seal
  <2>2. CASE CommitInvalidation(c) \/ CommitReplacement(c) \/ BeginOrResumeRun(c) \/ RecordPreflight(c)
    BY <2>1, <2>2 DEF CommitInvalidation, CommitReplacement, BeginOrResumeRun, RecordPreflight
  <2>3. CASE RunOrganizerTask(c) \/ DropResponse(c) \/ Seal(c)
    BY <2>1, <2>3 DEF RunOrganizerTask, DropResponse, Seal
  <2>4. CASE RunClusterTasks(c)
    BY <2>1, <2>4 DEF RunClusterTasks
  <2> QED
    BY <1>5, <2>2, <2>3, <2>4
<1>6. CASE ApproveTaxonomy(c) \/ AppendRegeneration(c) \/ RevokeApproval(c) \/ ApproveCluster(c)
           \/ SealIfComplete(c) \/ RecordVerifiedOutput(c)
  BY <1>6 DEF ApproveTaxonomy, AppendRegeneration, RevokeApproval, ApproveCluster, SealIfComplete,
     RecordVerifiedOutput
<1>7. CASE SelectPlan(c) \/ Publish(c) \/ VerifyArtifact(c)
  BY <1>7 DEF SelectPlan, Publish, VerifyArtifact, durable
<1> QED
  BY <1>2, <1>3, <1>4, <1>5, <1>6, <1>7 DEF Step

\* There is one way from outside the lock to inside.
LEMMA LockSteps ==
  ASSUME TypeOK, NEW c \in Clients, Step(c), pc[c] \notin Locked, pc'[c] \in Locked
  PROVE  LockForChange(c) \/ LockForService(c) \/ LockForCheckpoint(c)
<1> USE DEF Locked, Configuring, Serving, Unlocked
<1>1. c \in DOMAIN pc
  BY DEF TypeOK
<1>2. ~(Open(c) \/ Close(c) \/ AcquireLeavesFile(c) \/ CheckpointSeesNoPlan(c)
        \/ CheckpointSeesApprovals(c) \/ Crash(c))
  BY <1>1 DEF Open, Close, AcquireLeavesFile, CheckpointSeesNoPlan, CheckpointSeesApprovals, Crash, Goto
<1> QED
  BY <1>2 DEF Step, Leave, Fail, CommitInvalidation, CommitReplacement, SaveManifest,
     BeginOrResumeRun, RecordPreflight, RunOrganizerTask, RunClusterTasks, DropResponse, Seal,
     ApproveTaxonomy, AppendRegeneration, RevokeApproval, ApproveCluster, SealIfComplete,
     SelectPlan, Publish, Export, VerifyArtifact, RecordVerifiedOutput

LEMMA StepKeepsBasis ==
  ASSUME TypeOK, LockOK, LockOK', RowKnowsManifest, NEW c \in Clients, Step(c)
  PROVE  RowKnowsManifest'
<1>a. c \in DOMAIN pc /\ pc \in [Clients -> Stages] /\ pc' \in [Clients -> Stages]
      /\ staleWriter \in BOOLEAN
  BY DEF TypeOK, LockOK
<1>b. \A d, e \in Clients : pc[d] \in Locked /\ pc[e] \in Locked => d = e
  BY DEF LockOK, SingleWriter
<1>1. Row'.basis # {} => Row'.worked
  BY RowMoves DEF RowKnowsManifest
<1> SUFFICES ASSUME ~staleWriter'
             PROVE  /\ Row'.basis \subseteq {manifest'}
                    /\ \A d \in Clients : pc'[d] \in Locked => handle'[d] = manifest'
                    /\ \A d \in Clients : pc'[d] = "save" => Row'.basis = {}
  BY <1>1 DEF RowKnowsManifest
<1>2. ~staleWriter
  BY LockedSteps
<1>3. Row'.basis \subseteq {manifest'}
  <2>1. CASE SaveManifest(c)
    <3>1. pc[c] = "save" /\ UNCHANGED runs
      BY <2>1 DEF SaveManifest
    <3> QED
      BY <1>2, <3>1 DEF RowKnowsManifest
  <2>2. CASE RecordPreflight(c)
    <3>1. handle[c] = manifest /\ UNCHANGED manifest
      BY <1>2, <2>2 DEF RecordPreflight, RowKnowsManifest, Locked, Serving
    <3>2. Row'.basis \subseteq Row.basis \cup {handle[c]}
      BY RowMoves
    <3> QED
      BY <1>2, <3>1, <3>2 DEF RowKnowsManifest
  <2>3. CASE ~SaveManifest(c) /\ ~RecordPreflight(c)
    <3>1. UNCHANGED manifest
      BY <2>3, LockedSteps
    <3>2. Row'.basis = {} \/ Row'.basis = Row.basis
      BY <2>3, RowMoves
    <3> QED
      BY <1>2, <3>1, <3>2 DEF RowKnowsManifest
  <2> QED
    BY <2>1, <2>2, <2>3
<1>4. ASSUME NEW d \in Clients, pc'[d] \in Locked PROVE handle'[d] = manifest'
  <2>1. CASE d # c
    <3>1. pc[d] \in Locked
      BY <1>a, <1>4, <2>1, StepMoves
    <3> QED
      BY <1>2, <2>1, <3>1, OnlyTheWriterWrites DEF RowKnowsManifest
  <2>2. CASE d = c /\ pc[c] \in Locked
    BY <1>2, <1>4, <2>2, LockedSteps DEF RowKnowsManifest
  <2>3. CASE d = c /\ pc[c] \notin Locked
    <3>1. LockForChange(c) \/ LockForService(c) \/ LockForCheckpoint(c)
      BY <1>a, <1>4, <2>3, LockSteps
    <3> QED
      BY <1>a, <1>2, <2>3, <3>1, LockMoves
  <2> QED
    BY <2>1, <2>2, <2>3
<1>5. ASSUME NEW d \in Clients, pc'[d] = "save" PROVE Row'.basis = {}
  <2>1. CASE d # c
    <3>1. pc[d] = "save"
      BY <1>a, <1>5, <2>1, StepMoves
    <3>2. UNCHANGED runs
      BY <2>1, <3>1, OnlyTheWriterWrites DEF Locked, Configuring
    <3> QED
      BY <1>2, <3>1, <3>2 DEF RowKnowsManifest
  <2>2. CASE d = c
    <3>1. CommitInvalidation(c) \/ CommitReplacement(c)
      BY <1>a, <1>5, <2>2, StepMoves
    <3>2. CASE UNCHANGED runs
      <4>1. ~HasWork(Row) \/ Len(runs') = Len(runs) + 1
        <5>1. runs \in Seq(Rows)
          BY DEF TypeOK
        <5> QED
          BY <3>1, <5>1 DEF CommitInvalidation, CommitReplacement
      <4>2. ~Row.worked
        <5>1. Len(runs) \in Nat
          BY DEF TypeOK
        <5> QED
          BY <3>2, <4>1, <5>1 DEF HasWork
      <4> QED
        BY <3>2, <4>2 DEF RowKnowsManifest
    <3>3. CASE runs' # runs
      <4>1. pc[c] \in {"configure", "replace"}
        BY <3>1 DEF CommitInvalidation, CommitReplacement
      <4>2. Len(runs') = Len(runs) + 1
        <5>1. runs \in Seq(Rows)
          BY DEF TypeOK
        <5> QED
          BY <3>1, <3>3, <5>1 DEF CommitInvalidation, CommitReplacement
      <4>3. Len(runs) \in Nat
        BY DEF TypeOK
      <4>4. Len(runs') # Len(runs)
        BY <4>2, <4>3
      <4>5. Row'.basis = {}
        BY <3>3, <4>4, RowMoves
      <4> QED
        BY <4>5
    <3> QED
      BY <3>2, <3>3
  <2> QED
    BY <2>1, <2>2
<1> QED
  BY <1>3, <1>4, <1>5

\* The plan a project offers was worked out under the manifest the project has:
\* a change of sources, language or routes ends the old authority before the
\* manifest is replaced, even if the process dies in between.
THEOREM OfferedPlanKnowsManifest == Spec => []ManifestAuthority
<1>1. Init => RowKnowsManifest
  BY DEF Init, NewRun, RowKnowsManifest, Locked, Configuring, Serving
<1>2. RowKnowsManifest /\ LockOK /\ LockOK' /\ TypeOK /\ [Next]_vars => RowKnowsManifest'
  <2> SUFFICES ASSUME RowKnowsManifest, LockOK, LockOK', TypeOK, [Next]_vars
               PROVE  RowKnowsManifest'
    OBVIOUS
  <2>1. ASSUME NEW c \in Clients, Step(c) PROVE RowKnowsManifest'
    BY <2>1, StepKeepsBasis
  <2>2. CASE RemoveOrphanLock
    BY <2>2 DEF RemoveOrphanLock, durable, RowKnowsManifest
  <2>3. CASE EditProfile
    BY <2>3 DEF EditProfile, RowKnowsManifest
  <2>4. CASE UNCHANGED vars
    BY <2>4 DEF vars, RowKnowsManifest
  <2> QED
    BY <2>1, <2>2, <2>3, <2>4 DEF Next
<1>3. RowKnowsManifest => ManifestAuthority
  BY DEF RowKnowsManifest, ManifestAuthority
<1> QED
  BY <1>1, <1>2, <1>3, LockAlwaysOK, TypesAreKept, PTL DEF Spec

-----------------------------------------------------------------------------
(* Decisions: what a step does to the approvals, the feedback, the critics and *)
(* the plan of the newest row.                                                 *)

\* Where a step leaves the tables of the newest row that decide on a plan.
Decided(taxonomy, feedback, approvals, critics, plan) ==
    /\ Row'.taxonomy = taxonomy /\ Row'.feedback = feedback /\ Row'.approvals = approvals
    /\ Row'.critics = critics /\ Row'.plan = plan

NothingDecided == Decided(Row.taxonomy, Row.feedback, Row.approvals, Row.critics, Row.plan)

NewlyDecided ==
    Decided(None, [k \in Clusters |-> 0], [k \in Clusters |-> None], <<>>, None)

TaskCritic(c, k, v) == [cluster |-> k, taxonomy |-> Row.taxonomy.taxonomy,
    revision |-> NextRevision(k), model |-> arg[c].model, verdict |-> v]

\* One disjunct for each thing that can happen to the decisions.
Decides(c) ==
    \/ NothingDecided
    \/ (CommitInvalidation(c) \/ CommitReplacement(c) \/ BeginOrResumeRun(c)) /\ NewlyDecided
    \/ /\ Seal(c) \/ SealIfComplete(c)
       /\ Sealable(Row)
       /\ Decided(Row.taxonomy, Row.feedback, Row.approvals, Row.critics, SealedPlan(Row))
    \/ /\ ApproveTaxonomy(c)
       /\ \E a \in TaxonomyApprovals :
             Decided(a, Row.feedback, Row.approvals, Row.critics, Row.plan)
    \/ /\ AppendRegeneration(c)
       /\ \E critic \in CompletedCluster(Row, arg[c]) :
             Decided(Row.taxonomy, [Row.feedback EXCEPT ![arg[c]] = critic.revision + 1],
                     Row.approvals, Row.critics, Row.plan)
    \/ /\ RevokeApproval(c)
       /\ Row.approvals[arg[c]] # None
       /\ Decided(Row.taxonomy, Row.feedback,
                  [Row.approvals EXCEPT ![arg[c]].target = "feedback"], Row.critics, Row.plan)
    \/ /\ ApproveCluster(c)
       /\ \E critic \in CompletedCluster(Row, arg[c]), n \in Notes :
             Decided(Row.taxonomy, Row.feedback,
                     [Row.approvals EXCEPT ![arg[c]] =
                         [target |-> "critic", value |-> [critic |-> critic, note |-> n]]],
                     Row.critics, Row.plan)
    \/ /\ RunClusterTasks(c)
       /\ \E k \in ClustersOf[Row.taxonomy.taxonomy] \ arg[c].done, v \in Verdicts :
             /\ CriticTask(c, k) = {}
             /\ Decided(Row.taxonomy, Row.feedback, Row.approvals,
                        Append(Row.critics, TaskCritic(c, k, v)), Row.plan)

LEMMA StepDecides ==
  ASSUME TypeOK, NEW c \in Clients, Step(c)
  PROVE  Decides(c)
<1>a. runs \in Seq(Rows) /\ Len(runs) \in 1..MaxRuns /\ Row \in Rows
  BY RowInRows DEF TypeOK
<1>b. {"worked", "basis", "organized", "recordings", "verified", "taxonomy", "feedback",
       "approvals", "critics", "plan"} \subseteq DOMAIN Row
  BY <1>a DEF Rows
<1>c. \A row : UpdateRow(row) => Row' = row
  BY RowAfterUpdate
<1>d. UNCHANGED runs => NothingDecided
  BY DEF NothingDecided, Decided
<1>e. ASSUME NEW m, NEW origin, runs' = Append(runs, NewRun(origin, m)) PROVE NewlyDecided
  <2>1. Row' = NewRun(origin, m)
    BY <1>a, <1>e
  <2> QED
    BY <2>1 DEF NewRun, NewlyDecided, Decided
<1>1. CASE Open(c) \/ Close(c) \/ AcquireLeavesFile(c) \/ CheckpointSeesNoPlan(c)
           \/ CheckpointSeesApprovals(c) \/ Crash(c) \/ Leave(c) \/ Fail(c) \/ SaveManifest(c)
           \/ Export(c) \/ SelectPlan(c) \/ Publish(c) \/ VerifyArtifact(c)
  <2>1. UNCHANGED runs
    BY <1>1 DEF Open, Close, AcquireLeavesFile, CheckpointSeesNoPlan, CheckpointSeesApprovals,
       Crash, Leave, Fail, SaveManifest, Export, SelectPlan, Publish, VerifyArtifact, durable
  <2> QED
    BY <1>d, <2>1 DEF Decides
<1>2. CASE LockForChange(c) \/ LockForService(c) \/ LockForCheckpoint(c)
  BY <1>2, <1>d, LockMoves DEF Decides
<1>3. CASE CommitInvalidation(c) \/ CommitReplacement(c) \/ BeginOrResumeRun(c)
  <2>1. UNCHANGED runs \/ NewlyDecided
    BY <1>3, <1>e DEF CommitInvalidation, CommitReplacement, BeginOrResumeRun
  <2> QED
    BY <1>3, <1>d, <2>1 DEF Decides
<1>4. CASE RecordPreflight(c)
  <2> DEFINE row == [Row EXCEPT !.worked = TRUE, !.basis = Row.basis \cup {handle[c]}]
  <2>1. Row' = row
    BY <1>4, <1>c DEF RecordPreflight
  <2>2. NothingDecided
    BY <1>b, <2>1 DEF NothingDecided, Decided
  <2> QED
    BY <2>2 DEF Decides
<1>5. CASE RunOrganizerTask(c) \/ DropResponse(c)
  <2> DEFINE row1 == [Row EXCEPT !.organized = Row.organized \cup {arg[c].model},
                                 !.recordings = Row.recordings + 1]
             row2 == [Row EXCEPT !.recordings = Row.recordings + 1]
  <2>1. UNCHANGED runs \/ Row' = row1 \/ Row' = row2
    BY <1>5, <1>c DEF RunOrganizerTask, DropResponse
  <2>2. NothingDecided
    BY <1>b, <1>d, <2>1 DEF NothingDecided, Decided
  <2> QED
    BY <2>2 DEF Decides
<1>6. CASE RunClusterTasks(c)
  <2> DEFINE row(critics) == [Row EXCEPT !.critics = critics, !.recordings = Row.recordings + 1]
  <2>1. CASE UNCHANGED runs
    BY <1>d, <2>1 DEF Decides
  <2>2. CASE runs' # runs
    <3>1. PICK k \in ClustersOf[Row.taxonomy.taxonomy] \ arg[c].done, v \in Verdicts :
            CriticTask(c, k) = {} /\ UpdateRow(row(Append(Row.critics, TaskCritic(c, k, v))))
      BY <1>6, <2>2 DEF RunClusterTasks, TaskCritic
    <3>2. Row' = row(Append(Row.critics, TaskCritic(c, k, v)))
      BY <1>c, <3>1
    <3>3. Decided(Row.taxonomy, Row.feedback, Row.approvals,
                  Append(Row.critics, TaskCritic(c, k, v)), Row.plan)
      BY <1>b, <3>2 DEF Decided
    <3> QED
      BY <1>6, <3>1, <3>3 DEF Decides
  <2> QED
    BY <2>1, <2>2
<1>7. CASE Seal(c) \/ SealIfComplete(c)
  <2> DEFINE row == [Row EXCEPT !.plan = SealedPlan(Row)]
  <2>1. UNCHANGED runs \/ (Sealable(Row) /\ Row' = row)
    <3>1. UNCHANGED runs \/ (Sealable(Row) /\ UpdateRow(row))
      <4>1. CASE Seal(c)
        BY <4>1 DEF Seal, SealLatestPlan
      <4>2. CASE SealIfComplete(c)
        <5>1. CASE Sealable(Row)
          BY <4>2, <5>1 DEF SealIfComplete, SealLatestPlan
        <5>2. CASE ~Sealable(Row)
          BY <4>2, <5>2 DEF SealIfComplete
        <5> QED
          BY <5>1, <5>2
      <4> QED
        BY <1>7, <4>1, <4>2
    <3> QED
      BY <1>c, <3>1
  <2>2. CASE UNCHANGED runs
    BY <1>d, <2>2 DEF Decides
  <2>3. CASE Sealable(Row) /\ Row' = row
    <3>1. Decided(Row.taxonomy, Row.feedback, Row.approvals, Row.critics, SealedPlan(Row))
      BY <1>b, <2>3 DEF Decided
    <3> QED
      BY <1>7, <2>3, <3>1 DEF Decides
  <2> QED
    BY <2>1, <2>2, <2>3
<1>8. CASE ApproveTaxonomy(c)
  <2>1. PICK a \in TaxonomyApprovals : Row' = [Row EXCEPT !.taxonomy = a]
    BY <1>8, <1>c DEF ApproveTaxonomy
  <2>2. Decided(a, Row.feedback, Row.approvals, Row.critics, Row.plan)
    BY <1>b, <2>1 DEF Decided
  <2> QED
    BY <1>8, <2>2 DEF Decides
<1>9. CASE AppendRegeneration(c)
  <2> DEFINE f(critic) == [Row.feedback EXCEPT ![arg[c]] = critic.revision + 1]
  <2>1. PICK critic \in CompletedCluster(Row, arg[c]) : Row' = [Row EXCEPT !.feedback = f(critic)]
    BY <1>9, <1>c DEF AppendRegeneration
  <2>2. Decided(Row.taxonomy, f(critic), Row.approvals, Row.critics, Row.plan)
    BY <1>b, <2>1 DEF Decided
  <2> QED
    BY <1>9, <2>2 DEF Decides
<1>10. CASE RevokeApproval(c)
  <2> DEFINE f == [Row.approvals EXCEPT ![arg[c]].target = "feedback"]
  <2>1. UNCHANGED runs \/ (Row.approvals[arg[c]] # None /\ Row' = [Row EXCEPT !.approvals = f])
    <3>1. \/ UNCHANGED runs
          \/ /\ Row.approvals[arg[c]] # None
             /\ UpdateRow([Row EXCEPT !.approvals[arg[c]].target = "feedback"])
      <4>1. CASE Row.approvals[arg[c]] = None
        BY <1>10, <4>1 DEF RevokeApproval
      <4>2. CASE Row.approvals[arg[c]] # None
        BY <1>10, <4>2 DEF RevokeApproval
      <4> QED
        BY <4>1, <4>2
    <3>2. [Row EXCEPT !.approvals[arg[c]].target = "feedback"] = [Row EXCEPT !.approvals = f]
      OBVIOUS
    <3> HIDE DEF f
    <3> QED
      BY <1>c, <3>1, <3>2
  <2>2. CASE UNCHANGED runs
    BY <1>d, <2>2 DEF Decides
  <2>3. CASE Row.approvals[arg[c]] # None /\ Row' = [Row EXCEPT !.approvals = f]
    <3>1. Decided(Row.taxonomy, Row.feedback, f, Row.critics, Row.plan)
      BY <1>b, <2>3 DEF Decided
    <3> QED
      BY <1>10, <2>3, <3>1 DEF Decides
  <2> QED
    BY <2>1, <2>2, <2>3
<1>11. CASE ApproveCluster(c)
  <2> DEFINE f(critic, n) == [Row.approvals EXCEPT ![arg[c]] =
                                [target |-> "critic", value |-> [critic |-> critic, note |-> n]]]
  <2>1. PICK critic \in CompletedCluster(Row, arg[c]), n \in Notes :
           Row' = [Row EXCEPT !.approvals = f(critic, n)]
    BY <1>11, <1>c DEF ApproveCluster
  <2>2. Decided(Row.taxonomy, Row.feedback, f(critic, n), Row.critics, Row.plan)
    BY <1>b, <2>1 DEF Decided
  <2> QED
    BY <1>11, <2>2 DEF Decides
<1>12. CASE RecordVerifiedOutput(c)
  <2>1. Row' = [Row EXCEPT !.verified = Row.verified \cup {arg[c]}]
    BY <1>12, <1>c DEF RecordVerifiedOutput
  <2>2. NothingDecided
    BY <1>b, <2>1 DEF NothingDecided, Decided
  <2> QED
    BY <2>2 DEF Decides
<1> QED
  BY <1>1, <1>2, <1>3, <1>4, <1>5, <1>6, <1>7, <1>8, <1>9, <1>10, <1>11, <1>12 DEF Step

-----------------------------------------------------------------------------
(* Sealing at the end of execute(). *)

\* The cluster's approval is one that a plan can be sealed over.
Settled(row, k) ==
    /\ row.approvals[k] # None
    /\ row.approvals[k].target = "critic"
    /\ row.approvals[k].value.critic.taxonomy = row.taxonomy.taxonomy
    /\ ~RegenerationPending(row, row.approvals[k].value.critic)

\* While every comparison of the loop over the clusters succeeded, the clusters
\* it is through with are settled, and sealing starts after the last of them.
SealingIsDue ==
    \A c \in Clients :
        /\ pc[c] = "organize" => arg[c].done = {}
        /\ pc[c] \in {"clusters", "seal"} =>
              /\ Row.taxonomy # None
              /\ arg[c].matched => \A k \in arg[c].done : Settled(Row, k)
        /\ pc[c] = "seal" =>
              arg[c].matched /\ arg[c].done = ClustersOf[Row.taxonomy.taxonomy]

\* The critic a cluster is compared with, whether it was reused or requested.
LEMMA ComparedCritic ==
  ASSUME TypeOK, NEW c \in Clients, pc[c] = "clusters", Row.taxonomy # None, RunClusterTasks(c)
  PROVE  \E k \in ClustersOf[Row.taxonomy.taxonomy] : \E critic :
            /\ critic.cluster = k /\ critic.taxonomy = Row.taxonomy.taxonomy
            /\ critic.revision = NextRevision(k)
            /\ ClusterDone(c, k, critic)
<1>1. CASE \E k \in ClustersOf[Row.taxonomy.taxonomy] \ arg[c].done, i \in DOMAIN Row.critics :
             i \in CriticTask(c, k) /\ ClusterDone(c, k, Row.critics[i])
  <2>1. PICK k \in ClustersOf[Row.taxonomy.taxonomy] \ arg[c].done, i \in DOMAIN Row.critics :
             i \in CriticTask(c, k) /\ ClusterDone(c, k, Row.critics[i])
    BY <1>1
  <2>2. Row.critics[i] \in Critics
    BY RowInRows DEF Rows
  <2>3. [Row.critics[i] EXCEPT !.verdict = "sound"] =
          [cluster |-> k, taxonomy |-> Row.taxonomy.taxonomy, revision |-> NextRevision(k),
           model |-> arg[c].model, verdict |-> "sound"]
    BY <2>1 DEF CriticTask
  <2>4. /\ Row.critics[i].cluster = k /\ Row.critics[i].taxonomy = Row.taxonomy.taxonomy
        /\ Row.critics[i].revision = NextRevision(k)
    BY <2>2, <2>3 DEF Critics
  <2> QED
    BY <2>1, <2>4
<1>2. CASE \E k \in ClustersOf[Row.taxonomy.taxonomy] \ arg[c].done, v \in Verdicts :
             ClusterDone(c, k, TaskCritic(c, k, v))
  BY <1>2 DEF TaskCritic
<1>3. \/ \E k \in ClustersOf[Row.taxonomy.taxonomy] \ arg[c].done, i \in DOMAIN Row.critics :
             i \in CriticTask(c, k) /\ ClusterDone(c, k, Row.critics[i])
      \/ \E k \in ClustersOf[Row.taxonomy.taxonomy] \ arg[c].done, v \in Verdicts :
             ClusterDone(c, k, TaskCritic(c, k, v))
  BY Zenon DEF RunClusterTasks, CriticTask, TaskCritic
<1> QED
  BY <1>1, <1>2, <1>3

\* A critic of the revision that is due is not waiting for a regeneration.
LEMMA DueIsNotPending ==
  ASSUME TypeOK, NEW k \in Clusters, NEW critic, critic.cluster = k,
         critic.revision = NextRevision(k)
  PROVE  ~RegenerationPending(Row, critic)
<1>1. Row.feedback[k] \in 0..MaxRevision /\ MaxRevision \in Nat
  BY RowInRows, JournalAssumption DEF Rows
<1> QED
  BY <1>1 DEF RegenerationPending, NextRevision

LEMMA LoopKeepsSealing ==
  ASSUME TypeOK, SealingIsDue, NEW c \in Clients, RunClusterTasks(c)
  PROVE  /\ Row'.taxonomy # None
         /\ arg'[c].matched => \A k \in arg'[c].done : Settled(Row', k)
         /\ pc'[c] = "seal" =>
               arg'[c].matched /\ arg'[c].done = ClustersOf[Row'.taxonomy.taxonomy]
<1>1. pc[c] = "clusters" /\ Row.taxonomy # None
  BY DEF RunClusterTasks, SealingIsDue
<1>2. Row'.taxonomy = Row.taxonomy /\ Row'.feedback = Row.feedback /\ Row'.approvals = Row.approvals
  <2>1. ~( \/ CommitInvalidation(c) \/ CommitReplacement(c) \/ BeginOrResumeRun(c)
           \/ Seal(c) \/ SealIfComplete(c) \/ ApproveTaxonomy(c) \/ AppendRegeneration(c)
           \/ RevokeApproval(c) \/ ApproveCluster(c))
    BY <1>1 DEF CommitInvalidation, CommitReplacement, BeginOrResumeRun, Seal, SealIfComplete,
       ApproveTaxonomy, AppendRegeneration, RevokeApproval, ApproveCluster
  <2>2. Decides(c)
    BY StepDecides DEF Step
  <2> QED
    BY <2>1, <2>2 DEF Decides, NothingDecided, Decided
<1>3. PICK k \in ClustersOf[Row.taxonomy.taxonomy] : \E critic :
            /\ critic.cluster = k /\ critic.taxonomy = Row.taxonomy.taxonomy
            /\ critic.revision = NextRevision(k)
            /\ ClusterDone(c, k, critic)
  BY <1>1, ComparedCritic
<1>. PICK critic :
            /\ critic.cluster = k /\ critic.taxonomy = Row.taxonomy.taxonomy
            /\ critic.revision = NextRevision(k)
            /\ ClusterDone(c, k, critic)
  BY <1>3
<1>4. k \in Clusters
  <2>1. Row.taxonomy.taxonomy \in Taxonomies
    BY <1>1, RowInRows DEF Rows, TaxonomyApprovals
  <2> QED
    BY <2>1, JournalAssumption
<1>5. arg[c] \in [model : Models, done : SUBSET Clusters, matched : BOOLEAN] /\ c \in DOMAIN arg
      /\ c \in DOMAIN pc
  BY <1>1 DEF TypeOK, ArgumentOK
<1> DEFINE fits == /\ arg[c].matched
                   /\ Row.approvals[k] # None
                   /\ Row.approvals[k].target = "critic"
                   /\ Row.approvals[k].value.critic = critic
<1>6. arg'[c].done = arg[c].done \cup {k} /\ arg'[c].matched = fits
  BY <1>3, <1>5 DEF ClusterDone, Work
<1>7. pc'[c] = "seal" => arg[c].done \cup {k} = ClustersOf[Row.taxonomy.taxonomy] /\ fits
  BY <1>3, <1>5 DEF ClusterDone, Goto
<1>8. fits => Settled(Row, k)
  BY <1>3, <1>4, DueIsNotPending DEF Settled
<1>9. \A j : Settled(Row, j) => Settled(Row', j)
  BY <1>2 DEF Settled, RegenerationPending
<1>10. fits => \A j \in arg[c].done : Settled(Row, j)
  BY <1>1 DEF SealingIsDue
<1> HIDE DEF fits
<1> QED
  BY <1>1, <1>2, <1>6, <1>7, <1>8, <1>9, <1>10

LEMMA StepKeepsSealing ==
  ASSUME TypeOK, LockOK, SealingIsDue, NEW d \in Clients, Step(d)
  PROVE  SealingIsDue'
<1> SUFFICES ASSUME NEW c \in Clients
             PROVE  /\ pc'[c] = "organize" => arg'[c].done = {}
                    /\ pc'[c] \in {"clusters", "seal"} =>
                          /\ Row'.taxonomy # None
                          /\ arg'[c].matched => \A k \in arg'[c].done : Settled(Row', k)
                    /\ pc'[c] = "seal" =>
                          arg'[c].matched /\ arg'[c].done = ClustersOf[Row'.taxonomy.taxonomy]
  BY DEF SealingIsDue
<1>1. PICK to : /\ pc' = [pc EXCEPT ![d] = to]
                /\ to = "organize" => RecordPreflight(d)
                /\ to = "clusters" => RunOrganizerTask(d) \/ RunClusterTasks(d)
                /\ to = "seal" => RunClusterTasks(d)
  BY StepMoves
<1>2. c \in DOMAIN pc /\ d \in DOMAIN pc /\ c \in DOMAIN arg
  BY DEF TypeOK
<1>3. CASE c # d
  <2>1. pc'[c] = pc[c]
    BY <1>1, <1>2, <1>3
  <2>2. pc[c] \in {"organize", "clusters", "seal"} => UNCHANGED <<runs, arg[c]>>
    BY <1>3, OnlyTheWriterWrites DEF Locked, Serving
  <2> QED
    BY <2>1, <2>2 DEF SealingIsDue
<1>4. CASE c = d
  <2>1. CASE RecordPreflight(c)
    <3>1. pc'[c] = "organize"
      BY <1>2, <2>1 DEF RecordPreflight, Goto
    <3>2. arg'[c].done = {}
      BY <1>2, <2>1 DEF RecordPreflight, Work
    <3> QED
      BY <3>1, <3>2
  <2>2. CASE RunOrganizerTask(c)
    <3>1. pc[c] = "organize" /\ pc'[c] # "organize" /\ pc'[c] # "seal" /\ UNCHANGED arg
          /\ (pc'[c] = "clusters" => Row.taxonomy # None)
      BY <1>2, <2>2 DEF RunOrganizerTask, Goto
    <3>2. arg'[c].done = {}
      BY <3>1 DEF SealingIsDue
    <3>3. Row'.taxonomy = Row.taxonomy
      <4>1. ~(CommitInvalidation(c) \/ CommitReplacement(c) \/ BeginOrResumeRun(c) \/ ApproveTaxonomy(c))
        BY <3>1 DEF CommitInvalidation, CommitReplacement, BeginOrResumeRun, ApproveTaxonomy
      <4> QED
        BY <1>4, <4>1, RowMoves
    <3> QED
      BY <3>1, <3>2, <3>3
  <2>3. CASE RunClusterTasks(c)
    <3>1. pc'[c] # "organize"
      BY <1>2, <2>3 DEF RunClusterTasks, ClusterDone, Goto
    <3> QED
      BY <2>3, <3>1, LoopKeepsSealing
  <2>4. CASE pc'[c] \notin {"organize", "clusters", "seal"}
    BY <2>4
  <2> QED
    BY <1>1, <1>2, <1>4, <2>1, <2>2, <2>3, <2>4
<1> QED
  BY <1>3, <1>4

\* execute() never ends in "complete approvals did not seal": the approvals it
\* compared with the critics it saw, one cluster after the other, are those the
\* sealing reads from the journal afterwards (seal_latest_integration_plan).
THEOREM SealingIsNeverRefused == Spec => []SealNeverRefused
<1>1. Init => SealingIsDue
  BY DEF Init, SealingIsDue
<1>2. SealingIsDue /\ LockOK /\ TypeOK /\ [Next]_vars => SealingIsDue'
  <2> SUFFICES ASSUME SealingIsDue, LockOK, TypeOK, [Next]_vars PROVE SealingIsDue'
    OBVIOUS
  <2>1. ASSUME NEW c \in Clients, Step(c) PROVE SealingIsDue'
    BY <2>1, StepKeepsSealing
  <2>2. CASE RemoveOrphanLock
    BY <2>2 DEF RemoveOrphanLock, durable, SealingIsDue
  <2>3. CASE EditProfile
    BY <2>3 DEF EditProfile, SealingIsDue
  <2>4. CASE UNCHANGED vars
    BY <2>4 DEF vars, SealingIsDue
  <2> QED
    BY <2>1, <2>2, <2>3, <2>4 DEF Next
<1>3. SealingIsDue => SealNeverRefused
  BY DEF SealingIsDue, SealNeverRefused, Settled, Sealable
<1> QED
  BY <1>1, <1>2, <1>3, LockAlwaysOK, TypesAreKept, PTL DEF Spec

-----------------------------------------------------------------------------
(* The tables of a row among themselves. *)

DueRevision(row, k) == IF row.feedback[k] = 0 THEN 1 ELSE row.feedback[k]

\* The two critics answer the same task (synthesis revision, model).
SameTask(x, y) ==
    x.cluster = y.cluster /\ x.taxonomy = y.taxonomy /\ x.revision = y.revision /\ x.model = y.model

\* No critic is ahead of the regenerations asked for, and each task has one.
CriticsInOrder(row) ==
    /\ \A i \in DOMAIN row.critics :
          row.critics[i].revision <= DueRevision(row, row.critics[i].cluster)
    /\ \A i, j \in DOMAIN row.critics : SameTask(row.critics[i], row.critics[j]) => i = j

\* A cluster's approval, in force or not, is of a critic of this cluster and run.
ApprovalsOfCritics(row) ==
    \A k \in Clusters : row.approvals[k] # None =>
        \E i \in DOMAIN row.critics :
            row.critics[i] = row.approvals[k].value.critic /\ row.critics[i].cluster = k

PlanOfItsTaxonomy(row) ==
    row.plan # None =>
        \A k \in DOMAIN row.plan.clusters :
            row.plan.clusters[k].critic.taxonomy = row.plan.taxonomy.taxonomy

DecisionsInOrder == CriticsInOrder(Row) /\ ApprovalsOfCritics(Row) /\ PlanOfItsTaxonomy(Row)

\* What a reviewer is shown is the newest revision there can be.
LEMMA CompletedIsDue ==
  ASSUME TypeOK, CriticsInOrder(Row), NEW k \in Clusters, NEW critic \in CompletedCluster(Row, k)
  PROVE  /\ critic \in Critics /\ critic.cluster = k /\ critic.revision = NextRevision(k)
         /\ \E i \in DOMAIN Row.critics : Row.critics[i] = critic
         /\ critic.taxonomy = Row.taxonomy.taxonomy /\ ~RegenerationPending(Row, critic)
         /\ Row.taxonomy # None
<1>1. PICK i \in CompletedCritics(Row, k) : critic = Row.critics[i]
  BY DEF CompletedCluster
<1>2. critic \in Critics /\ critic.cluster = k /\ i \in DOMAIN Row.critics
  BY <1>1, RowInRows DEF CompletedCritics, Rows
<1>3. critic.revision \in 1..MaxRevision /\ MaxRevision \in Nat /\ Row.feedback[k] \in 0..MaxRevision
  BY <1>2, RowInRows, JournalAssumption DEF Rows, Critics
<1>4. /\ critic.taxonomy = Row.taxonomy.taxonomy /\ ~RegenerationPending(Row, critic)
      /\ Row.taxonomy # None
  BY <1>1 DEF CompletedCritics
<1>5. critic.revision <= DueRevision(Row, k) /\ ~(Row.feedback[k] > critic.revision)
  BY <1>1, <1>2, <1>4 DEF CriticsInOrder, RegenerationPending
<1>6. critic.revision = NextRevision(k)
  BY <1>3, <1>5 DEF DueRevision, NextRevision
<1> QED
  BY <1>1, <1>2, <1>4, <1>6

LEMMA StepKeepsDecisions ==
  ASSUME TypeOK, TypeOK', DecisionsInOrder, NEW c \in Clients, Step(c)
  PROVE  DecisionsInOrder'
<1>a. Row \in Rows /\ Row' \in Rows
  BY RowInRows DEF TypeOK
<1>b. /\ Row.critics \in Seq(Critics) /\ Row.approvals \in [Clusters -> ClusterApprovals \cup {None}]
      /\ Row.feedback \in [Clusters -> 0..MaxRevision] /\ MaxRevision \in Nat
  BY <1>a, JournalAssumption DEF Rows
<1>c. DecisionsInOrder' <=>
        CriticsInOrder(Row') /\ ApprovalsOfCritics(Row') /\ PlanOfItsTaxonomy(Row')
  BY DEF DecisionsInOrder
<1>d. Row'.critics = Row.critics /\ Row'.feedback = Row.feedback => CriticsInOrder(Row')
  BY DEF DecisionsInOrder, CriticsInOrder, DueRevision
<1>e. Row'.critics = Row.critics /\ Row'.approvals = Row.approvals => ApprovalsOfCritics(Row')
  BY DEF DecisionsInOrder, ApprovalsOfCritics
<1>f. Row'.plan = Row.plan => PlanOfItsTaxonomy(Row')
  BY DEF DecisionsInOrder, PlanOfItsTaxonomy
<1>1. CASE NothingDecided
  BY <1>1, <1>c, <1>d, <1>e, <1>f DEF NothingDecided, Decided
<1>2. CASE NewlyDecided
  BY <1>2, <1>c DEF NewlyDecided, Decided, CriticsInOrder, ApprovalsOfCritics, PlanOfItsTaxonomy
<1>3. CASE /\ Sealable(Row)
           /\ Decided(Row.taxonomy, Row.feedback, Row.approvals, Row.critics, SealedPlan(Row))
  <2>1. PlanOfItsTaxonomy(Row')
    BY <1>3 DEF Decided, SealedPlan, Sealable, PlanOfItsTaxonomy
  <2> QED
    BY <1>3, <1>c, <1>d, <1>e, <2>1 DEF Decided
<1>4. CASE \E a : Decided(a, Row.feedback, Row.approvals, Row.critics, Row.plan)
  BY <1>4, <1>c, <1>d, <1>e, <1>f DEF Decided
<1>5. CASE AppendRegeneration(c) /\ \E critic \in CompletedCluster(Row, arg[c]) :
             Decided(Row.taxonomy, [Row.feedback EXCEPT ![arg[c]] = critic.revision + 1],
                     Row.approvals, Row.critics, Row.plan)
  <2>1. arg[c] \in Clusters
    BY <1>5 DEF AppendRegeneration, TypeOK, ArgumentOK
  <2>2. PICK critic \in CompletedCluster(Row, arg[c]) :
             Decided(Row.taxonomy, [Row.feedback EXCEPT ![arg[c]] = critic.revision + 1],
                     Row.approvals, Row.critics, Row.plan)
    BY <1>5
  <2>3. critic.revision \in 1..MaxRevision /\ critic.revision = DueRevision(Row, arg[c])
    BY <2>1, CompletedIsDue DEF DecisionsInOrder, Critics, DueRevision, NextRevision
  <2>4. \A k \in Clusters : /\ DueRevision(Row, k) \in Nat /\ DueRevision(Row', k) \in Nat
                            /\ DueRevision(Row, k) <= DueRevision(Row', k)
    BY <1>b, <2>1, <2>2, <2>3 DEF Decided, DueRevision
  <2>5. ASSUME NEW i \in DOMAIN Row.critics
        PROVE  Row.critics[i].revision <= DueRevision(Row', Row.critics[i].cluster)
    <3>1. Row.critics[i].revision \in Nat /\ Row.critics[i].cluster \in Clusters
      <4>1. Row.critics[i] \in Critics
        BY <1>b
      <4> QED
        BY <4>1 DEF Critics
    <3>2. Row.critics[i].revision <= DueRevision(Row, Row.critics[i].cluster)
      BY DEF DecisionsInOrder, CriticsInOrder
    <3> QED
      BY <2>4, <3>1, <3>2
  <2>6. Row'.critics = Row.critics
    BY <2>2 DEF Decided
  <2>7. CriticsInOrder(Row')
    BY <2>5, <2>6 DEF DecisionsInOrder, CriticsInOrder
  <2> QED
    BY <1>c, <1>e, <1>f, <2>2, <2>7 DEF Decided
<1>6. CASE /\ Row.approvals[arg[c]] # None
           /\ RevokeApproval(c)
           /\ Decided(Row.taxonomy, Row.feedback,
                  [Row.approvals EXCEPT ![arg[c]].target = "feedback"], Row.critics, Row.plan)
  <2>1. arg[c] \in Clusters
    BY <1>6 DEF RevokeApproval, TypeOK, ArgumentOK
  <2>2. Row.approvals[arg[c]] \in [target : {"critic", "feedback"}, value : ClusterRevisions]
    BY <1>6, <1>b, <2>1 DEF ClusterApprovals
  <2>3. Row'.approvals = [Row.approvals EXCEPT ![arg[c]] = [@ EXCEPT !.target = "feedback"]]
    BY <1>6 DEF Decided
  <2>4. \A k \in Clusters : Row'.approvals[k] # None =>
           Row.approvals[k] # None /\ Row'.approvals[k].value = Row.approvals[k].value
    BY <1>6, <1>b, <2>2, <2>3
  <2>5. ApprovalsOfCritics(Row')
    BY <1>6, <2>4 DEF Decided, DecisionsInOrder, ApprovalsOfCritics
  <2> QED
    BY <1>6, <1>c, <1>d, <1>f, <2>5 DEF Decided
<1>7. CASE /\ ApproveCluster(c)
           /\ \E critic \in CompletedCluster(Row, arg[c]), n \in Notes :
                 Decided(Row.taxonomy, Row.feedback,
                         [Row.approvals EXCEPT ![arg[c]] =
                             [target |-> "critic", value |-> [critic |-> critic, note |-> n]]],
                         Row.critics, Row.plan)
  <2>1. arg[c] \in Clusters
    BY <1>7 DEF ApproveCluster, TypeOK, ArgumentOK
  <2>2. PICK critic \in CompletedCluster(Row, arg[c]), n \in Notes :
                 Decided(Row.taxonomy, Row.feedback,
                         [Row.approvals EXCEPT ![arg[c]] =
                             [target |-> "critic", value |-> [critic |-> critic, note |-> n]]],
                         Row.critics, Row.plan)
    BY <1>7
  <2>3. critic.cluster = arg[c] /\ \E i \in DOMAIN Row.critics : Row.critics[i] = critic
    BY <2>1, CompletedIsDue DEF DecisionsInOrder
  <2>4. ApprovalsOfCritics(Row')
    <3>1. Row'.critics = Row.critics
      BY <2>2 DEF Decided
    <3>2. Row'.approvals[arg[c]].value.critic = critic
      BY <1>b, <2>1, <2>2 DEF Decided
    <3>3. \A k \in Clusters \ {arg[c]} : Row'.approvals[k] = Row.approvals[k]
      BY <1>b, <2>2 DEF Decided
    <3>4. ASSUME NEW k \in Clusters, Row'.approvals[k] # None
          PROVE  \E i \in DOMAIN Row'.critics :
                    Row'.critics[i] = Row'.approvals[k].value.critic /\ Row'.critics[i].cluster = k
      <4>1. CASE k = arg[c]
        BY <2>3, <3>1, <3>2, <4>1
      <4>2. CASE k # arg[c]
        BY <3>1, <3>3, <3>4, <4>2 DEF DecisionsInOrder, ApprovalsOfCritics
      <4> QED
        BY <4>1, <4>2
    <3> QED
      BY <3>4 DEF ApprovalsOfCritics
  <2> QED
    BY <1>c, <1>d, <1>f, <2>2, <2>4 DEF Decided
<1>8. CASE /\ RunClusterTasks(c)
           /\ \E k \in ClustersOf[Row.taxonomy.taxonomy] \ arg[c].done, v \in Verdicts :
                 /\ CriticTask(c, k) = {}
                 /\ Decided(Row.taxonomy, Row.feedback, Row.approvals,
                            Append(Row.critics, TaskCritic(c, k, v)), Row.plan)
  <2>1. PICK k \in ClustersOf[Row.taxonomy.taxonomy] \ arg[c].done, v \in Verdicts :
                 /\ CriticTask(c, k) = {}
                 /\ Decided(Row.taxonomy, Row.feedback, Row.approvals,
                            Append(Row.critics, TaskCritic(c, k, v)), Row.plan)
    BY <1>8
  <2> DEFINE new == TaskCritic(c, k, v)
             n == Len(Row.critics)
  <2>2. Row'.critics \in Seq(Critics) /\ Row'.critics = Append(Row.critics, new)
    BY <1>a, <2>1 DEF Rows, Decided
  <2>3. /\ n \in Nat /\ DOMAIN Row.critics = 1..n /\ DOMAIN Row'.critics = 1..(n + 1)
        /\ Row'.critics[n + 1] = new /\ \A i \in 1..n : Row'.critics[i] = Row.critics[i]
    <3>1. Append(Row.critics, new) \in Seq(Critics) /\ Row.critics \in Seq(Critics)
      BY <1>b, <2>2
    <3> HIDE DEF new
    <3> QED
      BY <2>2, <3>1, LenProperties
  <2>4. /\ new.cluster = k /\ new.taxonomy = Row.taxonomy.taxonomy
        /\ new.revision = NextRevision(k) /\ new.model = arg[c].model
    BY DEF TaskCritic
  <2>5. new.revision <= DueRevision(Row', new.cluster)
    <3>1. new \in Critics
      BY <2>2, <2>3
    <3>2. new.revision \in Nat
      BY <3>1 DEF Critics
    <3>3. new.revision = DueRevision(Row', new.cluster)
      BY <2>1, <2>4 DEF Decided, DueRevision, NextRevision
    <3> QED
      BY <3>2, <3>3
  <2>6. ASSUME NEW i \in 1..n PROVE ~SameTask(Row.critics[i], new)
    <3>1. Row.critics[i] \in [cluster : Clusters, taxonomy : Taxonomies, revision : 1..MaxRevision,
                              model : Models, verdict : Verdicts]
      <4>1. Row.critics[i] \in Critics
        BY <1>b, <2>3
      <4> QED
        BY <4>1 DEF Critics
    <3>2. [Row.critics[i] EXCEPT !.verdict = "sound"] #
            [cluster |-> k, taxonomy |-> Row.taxonomy.taxonomy, revision |-> NextRevision(k),
             model |-> arg[c].model, verdict |-> "sound"]
      BY <2>1, <2>3 DEF CriticTask
    <3>3. ASSUME /\ Row.critics[i].cluster = k /\ Row.critics[i].taxonomy = Row.taxonomy.taxonomy
                 /\ Row.critics[i].revision = NextRevision(k) /\ Row.critics[i].model = arg[c].model
          PROVE  FALSE
      BY <3>1, <3>2, <3>3
    <3> HIDE DEF new
    <3> QED
      BY <2>4, <3>3 DEF SameTask
  <2> HIDE DEF new, n
  <2>7. \A i \in DOMAIN Row'.critics :
           Row'.critics[i].revision <= DueRevision(Row', Row'.critics[i].cluster)
    <3>1. \A x : DueRevision(Row', x) = DueRevision(Row, x)
      BY <2>1 DEF Decided, DueRevision
    <3>2. \A i \in 1..n : Row.critics[i].revision <= DueRevision(Row, Row.critics[i].cluster)
      BY <2>3 DEF DecisionsInOrder, CriticsInOrder
    <3> QED
      BY <2>3, <2>5, <3>1, <3>2
  <2>8. \A i, j \in DOMAIN Row'.critics : SameTask(Row'.critics[i], Row'.critics[j]) => i = j
    <3>1. \A i, j \in 1..n : SameTask(Row.critics[i], Row.critics[j]) => i = j
      BY <2>3 DEF DecisionsInOrder, CriticsInOrder
    <3>2. \A x, y : SameTask(x, y) <=> SameTask(y, x)
      BY DEF SameTask
    <3> QED
      BY <2>3, <2>6, <3>1, <3>2
  <2>9. ApprovalsOfCritics(Row')
    <3>1. Row'.approvals = Row.approvals
      BY <2>1 DEF Decided
    <3> QED
      BY <2>3, <3>1 DEF DecisionsInOrder, ApprovalsOfCritics
  <2>10. CriticsInOrder(Row')
    BY <2>7, <2>8 DEF CriticsInOrder
  <2> QED
    BY <1>c, <1>f, <2>1, <2>9, <2>10 DEF Decided
<1> QED
  BY <1>1, <1>2, <1>3, <1>4, <1>5, <1>6, <1>7, <1>8, StepDecides DEF Decides

LEMMA DecisionsStayInOrder == Spec => []DecisionsInOrder
<1>1. Init => DecisionsInOrder
  BY DEF Init, NewRun, DecisionsInOrder, CriticsInOrder, ApprovalsOfCritics, PlanOfItsTaxonomy
<1>2. DecisionsInOrder /\ TypeOK /\ TypeOK' /\ [Next]_vars => DecisionsInOrder'
  <2> SUFFICES ASSUME DecisionsInOrder, TypeOK, TypeOK', [Next]_vars PROVE DecisionsInOrder'
    OBVIOUS
  <2>1. ASSUME NEW c \in Clients, Step(c) PROVE DecisionsInOrder'
    BY <2>1, StepKeepsDecisions
  <2>2. CASE RemoveOrphanLock \/ EditProfile \/ UNCHANGED vars
    <3>1. UNCHANGED runs
      BY <2>2 DEF RemoveOrphanLock, EditProfile, vars, durable
    <3> QED
      BY <3>1 DEF DecisionsInOrder
  <2> QED
    BY <2>1, <2>2 DEF Next
<1> QED
  BY <1>1, <1>2, TypesAreKept, PTL DEF Spec

-----------------------------------------------------------------------------
(* The journal implements PlanAuthority. *)

\* The decisions a row has in force.
InForce(row, k) ==
    /\ row.approvals[k] # None
    /\ row.approvals[k].target = "critic"
    /\ ~RegenerationPending(row, row.approvals[k].value.critic)

Live(row) ==
    {<<"taxonomy", a>> : a \in {row.taxonomy} \ {None}} \cup
    {<<k, row.approvals[k].value>> : k \in {j \in Clusters : InForce(row, j)}}

LEMMA LiveIsLive == LiveDecisions = Live(Row) /\ LiveDecisions' = Live(Row')
  BY DEF LiveDecisions, Live, InForce

LEMMA LiveElements ==
  ASSUME NEW row
  PROVE  \A e : e \in Live(row) <=>
            \/ row.taxonomy # None /\ e = <<"taxonomy", row.taxonomy>>
            \/ \E k \in Clusters : InForce(row, k) /\ e = <<k, row.approvals[k].value>>
  BY DEF Live

LEMMA PlanParts ==
  ASSUME NEW plan \in Plans
  PROVE  /\ plan.taxonomy \in TaxonomyApprovals /\ plan # None /\ plan.taxonomy # None
         /\ plan.clusters \in [DOMAIN plan.clusters -> ClusterRevisions]
         /\ DOMAIN plan.clusters \subseteq Clusters
<1>1. PICK t \in TaxonomyApprovals :
        plan \in [taxonomy : {t}, clusters : [ClustersOf[t.taxonomy] -> ClusterRevisions],
                  recordings : 0..MaxExchanges]
  BY DEF Plans
<1>2. plan.taxonomy = t /\ plan.clusters \in [ClustersOf[t.taxonomy] -> ClusterRevisions]
  BY <1>1
<1>3. ClustersOf[t.taxonomy] \subseteq Clusters
  BY JournalAssumption DEF TaxonomyApprovals
<1>4. plan # None /\ t # None
  BY JournalAssumption
<1> QED
  BY <1>2, <1>3, <1>4

\* A plan is current exactly if all it rests on is in force.
LEMMA CurrentIsLive ==
  ASSUME TypeOK, Row.plan # None
  PROVE  IntegrationPlanIsCurrent(Row, Row.plan) <=> Rests(Row.plan) \subseteq Live(Row)
<1> DEFINE plan == Row.plan
           K == DOMAIN plan.clusters
<1>1. Row \in Rows /\ plan \in Plans
  BY RowInRows DEF Rows
<1>2. /\ plan.taxonomy # None /\ K \subseteq Clusters
      /\ \A k \in K : plan.clusters[k] \in ClusterRevisions
  BY <1>1, PlanParts
<1>3. <<"taxonomy", plan.taxonomy>> \in Live(Row) <=> Row.taxonomy = plan.taxonomy
  BY <1>2, LiveElements, JournalAssumption
<1>4. ASSUME NEW k \in K
      PROVE  <<k, plan.clusters[k]>> \in Live(Row) <=>
                /\ ApprovedBy(Row, k, plan.clusters[k])
                /\ ~RegenerationPending(Row, plan.clusters[k].critic)
  <2>1. k \in Clusters /\ k # "taxonomy"
    BY <1>2, JournalAssumption
  <2>2. <<k, plan.clusters[k]>> \in Live(Row) <=>
           InForce(Row, k) /\ Row.approvals[k].value = plan.clusters[k]
    BY <2>1, LiveElements
  <2>3. Row.approvals[k] \in ClusterApprovals \cup {None} /\ None \notin ClusterApprovals
    BY <1>1, <2>1, JournalAssumption DEF Rows
  <2>4. [target |-> "critic", value |-> plan.clusters[k]] \in ClusterApprovals
    BY <1>2 DEF ClusterApprovals
  <2>5. ApprovedBy(Row, k, plan.clusters[k]) <=>
           /\ Row.approvals[k] # None /\ Row.approvals[k].target = "critic"
           /\ Row.approvals[k].value = plan.clusters[k]
    BY <2>3, <2>4 DEF ApprovedBy, ClusterApprovals
  <2> QED
    BY <2>2, <2>5 DEF InForce
<1>5. Rests(plan) = {<<"taxonomy", plan.taxonomy>>} \cup {<<k, plan.clusters[k]>> : k \in K}
  BY DEF Rests
<1> QED
  BY <1>3, <1>4, <1>5 DEF IntegrationPlanIsCurrent

\* The plan query answers as the authority does: a plan is offered exactly while
\* every decision it was sealed over is in force (latest_approved_integration_plan).
THEOREM OffersAreAuthority == Spec => []OfferIsAuthority
<1>1. TypeOK => OfferIsAuthority
  <2> SUFFICES ASSUME TypeOK PROVE OfferIsAuthority
    OBVIOUS
  <2>1. CASE Row.plan = None
    BY <2>1 DEF OfferIsAuthority, Rests, LatestApprovedPlan, Authority!Offered
  <2>2. CASE Row.plan # None
    BY <2>2, CurrentIsLive, LiveIsLive
       DEF OfferIsAuthority, Rests, LatestApprovedPlan, Authority!Offered
  <2> QED
    BY <2>1, <2>2
<1> QED
  BY <1>1, TypesAreKept, PTL

\* What a change of one cluster's decision does to what is in force.
LEMMA OneClusterChanges ==
  ASSUME NEW row, NEW next, NEW k \in Clusters, next.taxonomy = row.taxonomy,
         \A j \in Clusters \ {k} : /\ InForce(next, j) <=> InForce(row, j)
                                   /\ next.approvals[j] = row.approvals[j]
  PROVE  /\ ~InForce(next, k) => Live(next) = {e \in Live(row) : e[1] # k}
         /\ InForce(next, k) =>
               Live(next) = {e \in Live(row) : e[1] # k} \cup {<<k, next.approvals[k].value>>}
<1>1. "taxonomy" # k
  BY JournalAssumption
<1>2. \A e : e \in Live(next) /\ e[1] # k <=> e \in Live(row) /\ e[1] # k
  BY <1>1, LiveElements
<1>3. \A e : e[1] = k => (e \in Live(next) <=> InForce(next, k) /\ e = <<k, next.approvals[k].value>>)
  BY <1>1, LiveElements
<1>4. <<k, next.approvals[k].value>>[1] = k
  OBVIOUS
<1> QED
  BY <1>2, <1>3, <1>4

\* A new decision on the taxonomy supersedes the old one and nothing else.
LEMMA TaxonomyChanges ==
  ASSUME NEW row, NEW next, NEW a, a # None, next.taxonomy = a,
         \A j \in Clusters : /\ InForce(next, j) <=> InForce(row, j)
                             /\ next.approvals[j] = row.approvals[j]
  PROVE  Live(next) = {e \in Live(row) : e[1] # "taxonomy"} \cup {<<"taxonomy", a>>}
<1>1. \A k \in Clusters : k # "taxonomy"
  BY JournalAssumption
<1>2. \A e : e[1] # "taxonomy" => (e \in Live(next) <=> e \in Live(row))
  BY LiveElements
<1>3. \A e : e[1] = "taxonomy" => (e \in Live(next) <=> e = <<"taxonomy", a>>)
  BY <1>1, LiveElements
<1>4. <<"taxonomy", a>>[1] = "taxonomy"
  OBVIOUS
<1> QED
  BY <1>2, <1>3, <1>4

LEMMA SealedRestsOnLive ==
  ASSUME TypeOK, Sealable(Row)
  PROVE  Rests(SealedPlan(Row)) \subseteq Live(Row) /\ Rests(SealedPlan(Row)) # {}
<1> DEFINE plan == SealedPlan(Row)
<1>1. Row \in Rows /\ plan \in Plans /\ plan # None
  BY RowInRows, SealedPlanInPlans, PlanParts
<1>2. /\ plan.taxonomy = Row.taxonomy /\ DOMAIN plan.clusters = ClustersOf[Row.taxonomy.taxonomy]
      /\ \A k \in DOMAIN plan.clusters : plan.clusters[k] = Row.approvals[k].value
  BY DEF SealedPlan
<1>3. DOMAIN plan.clusters \subseteq Clusters
  BY <1>1, PlanParts
<1>4. Rests(plan) = {<<"taxonomy", plan.taxonomy>>} \cup
                    {<<k, plan.clusters[k]>> : k \in DOMAIN plan.clusters}
  BY <1>1 DEF Rests
<1>5. \A k \in DOMAIN plan.clusters : InForce(Row, k)
  BY <1>2 DEF Sealable, InForce
<1>6. Row.taxonomy # None
  BY DEF Sealable
<1> HIDE DEF plan
<1>7. <<"taxonomy", plan.taxonomy>> \in Live(Row)
  BY <1>2, <1>6, LiveElements
<1>8. ASSUME NEW k \in DOMAIN plan.clusters PROVE <<k, plan.clusters[k]>> \in Live(Row)
  <2>1. InForce(Row, k) /\ k \in Clusters /\ plan.clusters[k] = Row.approvals[k].value
    BY <1>2, <1>3, <1>5
  <2> QED
    BY <2>1, LiveElements
<1>9. Rests(plan) \subseteq Live(Row) /\ Rests(plan) # {}
  BY <1>4, <1>7, <1>8
<1> QED
  BY <1>9 DEF plan

LEMMA StepImplements ==
  ASSUME TypeOK, TypeOK', DecisionsInOrder, NEW c \in Clients, Step(c)
  PROVE  [Authority!Next]_(Authority!vars)
<1>a. Row \in Rows /\ Row' \in Rows
  BY RowInRows DEF TypeOK
<1>b. /\ Row.approvals \in [Clusters -> ClusterApprovals \cup {None}]
      /\ Row.feedback \in [Clusters -> 0..MaxRevision] /\ MaxRevision \in Nat
      /\ Row'.approvals \in [Clusters -> ClusterApprovals \cup {None}]
  BY <1>a, JournalAssumption DEF Rows
<1>c. LiveDecisions = Live(Row) /\ LiveDecisions' = Live(Row')
  BY LiveIsLive
<1>d. \A j \in Clusters : Row.approvals[j] # None => Row.approvals[j].value.critic.cluster = j
  BY DEF DecisionsInOrder, ApprovalsOfCritics
<1>e. ASSUME Row'.taxonomy = Row.taxonomy, Row'.feedback = Row.feedback, Row'.approvals = Row.approvals
      PROVE  Live(Row') = Live(Row)
  BY <1>e DEF Live, InForce, RegenerationPending
<1>f. Row'.plan = Row.plan => UNCHANGED Rests(Row.plan)
  OBVIOUS
<1>g. ASSUME NEW k \in Clusters, Live(Row') = {e \in Live(Row) : e[1] # k}, UNCHANGED Rests(Row.plan)
      PROVE  Authority!Next
  <2>1. Authority!Withdraw(k)
    BY <1>c, <1>g DEF Authority!Withdraw
  <2> QED
    BY <2>1 DEF Authority!Next
<1>h. ASSUME NEW s \in Clusters \cup {"taxonomy"}, NEW x \in TaxonomyApprovals \cup ClusterRevisions,
             Live(Row') = {e \in Live(Row) : e[1] # s} \cup {<<s, x>>}, UNCHANGED Rests(Row.plan)
      PROVE  Authority!Next
  <2>1. Authority!Approve(s)
    BY <1>c, <1>h DEF Authority!Approve
  <2> QED
    BY <2>1 DEF Authority!Next
<1>1. CASE NothingDecided
  BY <1>1, <1>c, <1>e, <1>f DEF NothingDecided, Decided, Authority!vars
<1>2. CASE NewlyDecided
  <2>1. Live(Row') = {}
    BY <1>2, LiveElements DEF NewlyDecided, Decided, InForce
  <2>2. Rests(Row'.plan) = {}
    BY <1>2 DEF NewlyDecided, Decided, Rests
  <2>3. Authority!Invalidate
    BY <1>c, <2>1, <2>2 DEF Authority!Invalidate
  <2> QED
    BY <2>3 DEF Authority!Next
<1>3. CASE /\ Sealable(Row)
           /\ Decided(Row.taxonomy, Row.feedback, Row.approvals, Row.critics, SealedPlan(Row))
  <2> DEFINE S == Rests(SealedPlan(Row))
  <2>1. S \subseteq Live(Row) /\ S # {}
    BY <1>3, SealedRestsOnLive
  <2>2. Live(Row') = Live(Row) /\ Rests(Row'.plan) = S
    BY <1>3, <1>e DEF Decided
  <2> HIDE DEF S
  <2>3. Authority!Seal(S)
    BY <1>c, <2>1, <2>2 DEF Authority!Seal
  <2> QED
    BY <1>c, <2>1, <2>3 DEF Authority!Next
<1>4. CASE \E a \in TaxonomyApprovals :
             Decided(a, Row.feedback, Row.approvals, Row.critics, Row.plan)
  <2>1. PICK a \in TaxonomyApprovals : Decided(a, Row.feedback, Row.approvals, Row.critics, Row.plan)
    BY <1>4
  <2>2. \A j : (InForce(Row', j) <=> InForce(Row, j)) /\ Row'.approvals[j] = Row.approvals[j]
    BY <2>1 DEF Decided, InForce, RegenerationPending
  <2>3. a # None /\ Row'.taxonomy = a
    BY <2>1, JournalAssumption DEF Decided
  <2>4. Live(Row') = {e \in Live(Row) : e[1] # "taxonomy"} \cup {<<"taxonomy", a>>}
    BY <2>2, <2>3, TaxonomyChanges
  <2> QED
    BY <1>f, <1>h, <2>1, <2>4 DEF Decided
<1>5. CASE AppendRegeneration(c) /\ \E critic \in CompletedCluster(Row, arg[c]) :
             Decided(Row.taxonomy, [Row.feedback EXCEPT ![arg[c]] = critic.revision + 1],
                     Row.approvals, Row.critics, Row.plan)
  <2> DEFINE k == arg[c]
  <2>1. k \in Clusters
    BY <1>5 DEF AppendRegeneration, TypeOK, ArgumentOK
  <2>2. PICK critic \in CompletedCluster(Row, k) :
             Decided(Row.taxonomy, [Row.feedback EXCEPT ![k] = critic.revision + 1],
                     Row.approvals, Row.critics, Row.plan)
    BY <1>5
  <2>3. critic.revision \in 1..MaxRevision /\ critic.revision = DueRevision(Row, k)
    BY <2>1, CompletedIsDue DEF DecisionsInOrder, Critics, DueRevision, NextRevision
  <2>4. \A j \in Clusters \ {k} : Row'.feedback[j] = Row.feedback[j]
    BY <1>b, <2>2 DEF Decided
  <2>5. Row'.feedback[k] = critic.revision + 1
    BY <1>b, <2>1, <2>2 DEF Decided
  <2>6. Row'.approvals = Row.approvals /\ Row'.taxonomy = Row.taxonomy /\ Row'.plan = Row.plan
    BY <2>2 DEF Decided
  <2>7. ~InForce(Row', k)
    <3> SUFFICES ASSUME InForce(Row', k) PROVE FALSE
      OBVIOUS
    <3>1. Row.approvals[k] # None /\ ~RegenerationPending(Row', Row.approvals[k].value.critic)
      BY <2>6 DEF InForce
    <3>2. PICK i \in DOMAIN Row.critics :
            Row.critics[i] = Row.approvals[k].value.critic /\ Row.critics[i].cluster = k
      BY <2>1, <3>1 DEF DecisionsInOrder, ApprovalsOfCritics
    <3>3. Row.critics[i].revision <= critic.revision
      BY <2>3, <3>2 DEF DecisionsInOrder, CriticsInOrder
    <3>4. Row.critics[i].revision \in Nat
      <4>1. Row.critics \in Seq(Critics)
        BY <1>a DEF Rows
      <4>2. Row.critics[i] \in Critics
        BY <4>1
      <4> QED
        BY <4>2 DEF Critics
    <3>5. ~(critic.revision + 1 > Row.critics[i].revision)
      BY <2>5, <3>1, <3>2 DEF RegenerationPending
    <3> QED
      BY <1>b, <2>3, <3>3, <3>4, <3>5
  <2>8. \A j \in Clusters \ {k} : InForce(Row', j) <=> InForce(Row, j)
    BY <1>d, <2>4, <2>6 DEF InForce, RegenerationPending
  <2> HIDE DEF k
  <2>9. Live(Row') = {e \in Live(Row) : e[1] # k}
    BY <2>1, <2>6, <2>7, <2>8, OneClusterChanges
  <2> QED
    BY <1>f, <1>g, <2>1, <2>6, <2>9
<1>6. CASE /\ Row.approvals[arg[c]] # None
           /\ RevokeApproval(c)
           /\ Decided(Row.taxonomy, Row.feedback,
                  [Row.approvals EXCEPT ![arg[c]].target = "feedback"], Row.critics, Row.plan)
  <2> DEFINE k == arg[c]
  <2>1. k \in Clusters
    BY <1>6 DEF RevokeApproval, TypeOK, ArgumentOK
  <2>2. Row.approvals[k] \in [target : {"critic", "feedback"}, value : ClusterRevisions]
    BY <1>6, <1>b, <2>1 DEF ClusterApprovals
  <2>3. Row'.approvals = [Row.approvals EXCEPT ![k] = [@ EXCEPT !.target = "feedback"]]
    BY <1>6 DEF Decided
  <2>4. Row'.approvals[k].target = "feedback"
    BY <1>b, <2>1, <2>2, <2>3
  <2>5. \A j \in Clusters \ {k} : Row'.approvals[j] = Row.approvals[j]
    BY <1>b, <2>3
  <2>6. Row'.feedback = Row.feedback /\ Row'.taxonomy = Row.taxonomy /\ Row'.plan = Row.plan
    BY <1>6 DEF Decided
  <2>7. ~InForce(Row', k)
    BY <2>4 DEF InForce
  <2>8. \A j \in Clusters \ {k} : InForce(Row', j) <=> InForce(Row, j)
    BY <2>5, <2>6 DEF InForce, RegenerationPending
  <2> HIDE DEF k
  <2>9. Live(Row') = {e \in Live(Row) : e[1] # k}
    BY <2>1, <2>5, <2>6, <2>7, <2>8, OneClusterChanges
  <2> QED
    BY <1>f, <1>g, <2>1, <2>6, <2>9
<1>7. CASE /\ ApproveCluster(c)
           /\ \E critic \in CompletedCluster(Row, arg[c]), n \in Notes :
                 Decided(Row.taxonomy, Row.feedback,
                         [Row.approvals EXCEPT ![arg[c]] =
                             [target |-> "critic", value |-> [critic |-> critic, note |-> n]]],
                         Row.critics, Row.plan)
  <2> DEFINE k == arg[c]
  <2>1. k \in Clusters
    BY <1>7 DEF ApproveCluster, TypeOK, ArgumentOK
  <2>2. PICK critic \in CompletedCluster(Row, k), n \in Notes :
                 Decided(Row.taxonomy, Row.feedback,
                         [Row.approvals EXCEPT ![k] =
                             [target |-> "critic", value |-> [critic |-> critic, note |-> n]]],
                         Row.critics, Row.plan)
    BY <1>7
  <2>3. critic \in Critics /\ critic.cluster = k /\ ~RegenerationPending(Row, critic)
    BY <2>1, CompletedIsDue DEF DecisionsInOrder
  <2> DEFINE x == [critic |-> critic, note |-> n]
  <2>4. x \in ClusterRevisions
    BY <2>3 DEF ClusterRevisions
  <2>5. Row'.approvals[k] = [target |-> "critic", value |-> x]
    BY <1>b, <2>1, <2>2 DEF Decided
  <2>6. \A j \in Clusters \ {k} : Row'.approvals[j] = Row.approvals[j]
    BY <1>b, <2>2 DEF Decided
  <2>7. Row'.feedback = Row.feedback /\ Row'.taxonomy = Row.taxonomy /\ Row'.plan = Row.plan
    BY <2>2 DEF Decided
  <2>8. InForce(Row', k) /\ Row'.approvals[k].value = x
    <3>1. [target |-> "critic", value |-> x] \in ClusterApprovals
      BY <2>4 DEF ClusterApprovals
    <3>2. Row'.approvals[k] # None /\ Row'.approvals[k].target = "critic" /\ Row'.approvals[k].value = x
      BY <2>5, <3>1, JournalAssumption
    <3>3. ~RegenerationPending(Row', critic)
      BY <2>3, <2>7 DEF RegenerationPending
    <3> QED
      BY <3>2, <3>3 DEF InForce
  <2>9. \A j \in Clusters \ {k} : InForce(Row', j) <=> InForce(Row, j)
    BY <2>6, <2>7 DEF InForce, RegenerationPending
  <2> HIDE DEF k, x
  <2>10. Live(Row') = {e \in Live(Row) : e[1] # k} \cup {<<k, x>>}
    BY <2>1, <2>6, <2>7, <2>8, <2>9, OneClusterChanges
  <2> QED
    BY <1>f, <1>h, <2>1, <2>4, <2>7, <2>10
<1>8. CASE \E critics : Decided(Row.taxonomy, Row.feedback, Row.approvals, critics, Row.plan)
  BY <1>8, <1>c, <1>e, <1>f DEF Decided, Authority!vars
<1> QED
  BY <1>1, <1>2, <1>3, <1>4, <1>5, <1>6, <1>7, <1>8, StepDecides DEF Decides

\* The journal implements PlanAuthority: whatever the processes do, fail at or
\* crash in, decisions are superseded one by one, withdrawn by a regeneration,
\* ended all together by a change of the project, and a plan is sealed only over
\* decisions that are all in force (seal_latest_integration_plan).
THEOREM JournalImplementsAuthority == Spec => AuthoritySpec
<1>1. Init => Authority!Init
  <2> SUFFICES ASSUME Init PROVE LiveDecisions = {} /\ Rests(Row.plan) = {}
    BY DEF Authority!Init
  <2>1. /\ Row.taxonomy = None /\ Row.plan = None
        /\ \A k \in Clusters : Row.approvals[k] = None
    BY DEF Init, NewRun
  <2> QED
    BY <2>1, LiveIsLive, LiveElements DEF InForce, Rests
<1>2. DecisionsInOrder /\ TypeOK /\ TypeOK' /\ [Next]_vars => [Authority!Next]_(Authority!vars)
  <2> SUFFICES ASSUME DecisionsInOrder, TypeOK, TypeOK', [Next]_vars
               PROVE  [Authority!Next]_(Authority!vars)
    OBVIOUS
  <2>1. ASSUME NEW c \in Clients, Step(c) PROVE [Authority!Next]_(Authority!vars)
    BY <2>1, StepImplements
  <2>2. CASE RemoveOrphanLock \/ EditProfile \/ UNCHANGED vars
    <3>1. UNCHANGED runs
      BY <2>2 DEF RemoveOrphanLock, EditProfile, vars, durable
    <3>2. UNCHANGED Row
      BY <3>1
    <3> QED
      BY <3>2, LiveIsLive DEF Authority!vars
  <2> QED
    BY <2>1, <2>2 DEF Next
<1> QED
  BY <1>1, <1>2, DecisionsStayInOrder, TypesAreKept, PTL DEF Spec, AuthoritySpec, Authority!Spec

-----------------------------------------------------------------------------
(* The offered plan and the critics. *)

\* The newest completed critics of a cluster: all of the one highest revision.
NewestCritics(row, k) ==
    {row.critics[i] : i \in {h \in CompletedCritics(row, k) :
        \A j \in CompletedCritics(row, k) : row.critics[j].revision <= row.critics[h].revision}}

\* The offered plan rests on critics of the newest revision, whatever models answered.
PlanUsesNewestRevision ==
    LatestApprovedPlan # None =>
        \A k \in DOMAIN LatestApprovedPlan.clusters :
            LatestApprovedPlan.clusters[k].critic \in NewestCritics(Row, k)

LEMMA OfferedIsOfDueRevision ==
  ASSUME TypeOK, DecisionsInOrder, LatestApprovedPlan # None,
         NEW k \in DOMAIN LatestApprovedPlan.clusters
  PROVE  \E i \in CompletedCritics(Row, k) :
            /\ Row.critics[i] = LatestApprovedPlan.clusters[k].critic
            /\ i \in DOMAIN Row.critics /\ Row.critics[i] \in Critics
            /\ \A j \in CompletedCritics(Row, k) :
                  /\ j \in DOMAIN Row.critics /\ Row.critics[j] \in Critics
                  /\ Row.critics[j].cluster = Row.critics[i].cluster
                  /\ Row.critics[j].taxonomy = Row.critics[i].taxonomy
                  /\ Row.critics[j].revision = Row.critics[i].revision
<1> DEFINE plan == Row.plan
           critic == plan.clusters[k].critic
<1>1. plan # None /\ IntegrationPlanIsCurrent(Row, plan) /\ LatestApprovedPlan = plan
  BY DEF LatestApprovedPlan
<1>2. plan \in Plans /\ Row \in Rows /\ Row.critics \in Seq(Critics)
  BY <1>1, RowInRows DEF Rows
<1>3. k \in Clusters /\ k \in DOMAIN plan.clusters
  BY <1>1, <1>2, PlanParts
<1>4. /\ Row.taxonomy = plan.taxonomy /\ Row.taxonomy # None
      /\ ApprovedBy(Row, k, plan.clusters[k]) /\ ~RegenerationPending(Row, critic)
  BY <1>1, <1>2, <1>3, PlanParts DEF IntegrationPlanIsCurrent
<1>5. critic.taxonomy = Row.taxonomy.taxonomy
  BY <1>1, <1>3, <1>4 DEF DecisionsInOrder, PlanOfItsTaxonomy
<1>6. Row.approvals[k] # None /\ Row.approvals[k].value.critic = critic
  <2>1. plan.clusters[k] \in ClusterRevisions
    BY <1>2, <1>3, PlanParts
  <2>2. [target |-> "critic", value |-> plan.clusters[k]] \in ClusterApprovals
    BY <2>1 DEF ClusterApprovals
  <2> QED
    BY <1>4, <2>2, JournalAssumption DEF ApprovedBy
<1>7. PICK i \in DOMAIN Row.critics : Row.critics[i] = critic /\ Row.critics[i].cluster = k
  BY <1>3, <1>6 DEF DecisionsInOrder, ApprovalsOfCritics
<1>8. i \in CompletedCritics(Row, k) /\ Row.critics[i] \in Critics
  BY <1>2, <1>4, <1>5, <1>7 DEF CompletedCritics
<1>9. ASSUME NEW j \in CompletedCritics(Row, k)
      PROVE  /\ j \in DOMAIN Row.critics /\ Row.critics[j] \in Critics
             /\ Row.critics[j].cluster = k
             /\ Row.critics[j].taxonomy = Row.taxonomy.taxonomy
             /\ Row.critics[j].revision = Row.critics[i].revision
  <2>1. j \in DOMAIN Row.critics /\ i \in DOMAIN Row.critics
    BY <1>9 DEF CompletedCritics
  <2>2. Row.critics[i] \in Critics /\ Row.critics[j] \in Critics
    BY <1>2, <2>1
  <2>3. /\ Row.critics[j].cluster = k /\ Row.critics[j].taxonomy = Row.taxonomy.taxonomy
        /\ ~RegenerationPending(Row, Row.critics[j])
    BY <1>9 DEF CompletedCritics
  <2>4. \A h \in {i, j} :
           /\ Row.critics[h].revision \in 1..MaxRevision
           /\ Row.critics[h].revision <= DueRevision(Row, k)
           /\ ~(Row.feedback[k] > Row.critics[h].revision)
    BY <1>4, <1>7, <2>1, <2>2, <2>3 DEF DecisionsInOrder, CriticsInOrder, RegenerationPending, Critics
  <2>5. Row.feedback[k] \in 0..MaxRevision /\ MaxRevision \in Nat
    BY <1>2, <1>3, JournalAssumption DEF Rows
  <2>6. Row.critics[i].revision = Row.critics[j].revision
    BY <2>4, <2>5 DEF DueRevision
  <2> QED
    BY <2>1, <2>2, <2>3, <2>6
<1> QED
  BY <1>1, <1>5, <1>7, <1>8, <1>9

\* The offered plan rests on critics of the highest revision any completed critic
\* of the cluster has: a regeneration that was asked for or answered since the
\* approval ends the plan, whatever models the executions used
\* (integration_plan_is_current, append_task_status).
THEOREM PlansAreOfNewestRevision == Spec => []PlanUsesNewestRevision
<1>1. TypeOK /\ DecisionsInOrder => PlanUsesNewestRevision
  <2> SUFFICES ASSUME TypeOK, DecisionsInOrder, LatestApprovedPlan # None,
                      NEW k \in DOMAIN LatestApprovedPlan.clusters
               PROVE  LatestApprovedPlan.clusters[k].critic \in NewestCritics(Row, k)
    BY DEF PlanUsesNewestRevision
  <2>1. PICK i \in CompletedCritics(Row, k) :
            /\ Row.critics[i] = LatestApprovedPlan.clusters[k].critic
            /\ Row.critics[i] \in Critics
            /\ \A j \in CompletedCritics(Row, k) : Row.critics[j].revision = Row.critics[i].revision
    BY OfferedIsOfDueRevision
  <2>2. Row.critics[i].revision <= Row.critics[i].revision
    BY <2>1 DEF Critics
  <2> QED
    BY <2>1, <2>2 DEF NewestCritics
<1> QED
  BY <1>1, DecisionsStayInOrder, TypesAreKept, PTL

\* While the profile names one model, the critic the offered plan rests on is the
\* very one a reviewer of the cluster is shown (completed_cluster).  A second model
\* may answer the same revision again beside it: that does not end the plan.
THEOREM PlansUseLatestCritic ==
  ASSUME \A x, y \in Models : x = y
  PROVE  Spec => []PlanUsesLatestCritic
<1>1. TypeOK /\ DecisionsInOrder => PlanUsesLatestCritic
  <2> SUFFICES ASSUME TypeOK, DecisionsInOrder, LatestApprovedPlan # None,
                      NEW k \in DOMAIN LatestApprovedPlan.clusters
               PROVE  LatestApprovedPlan.clusters[k].critic \in CompletedCluster(Row, k)
    BY DEF PlanUsesLatestCritic
  <2>1. PICK i \in CompletedCritics(Row, k) :
            /\ Row.critics[i] = LatestApprovedPlan.clusters[k].critic
            /\ i \in DOMAIN Row.critics /\ Row.critics[i] \in Critics
            /\ \A j \in CompletedCritics(Row, k) :
                  /\ j \in DOMAIN Row.critics /\ Row.critics[j] \in Critics
                  /\ Row.critics[j].cluster = Row.critics[i].cluster
                  /\ Row.critics[j].taxonomy = Row.critics[i].taxonomy
                  /\ Row.critics[j].revision = Row.critics[i].revision
    BY OfferedIsOfDueRevision
  <2>2. \A j \in CompletedCritics(Row, k) : j = i
    BY <2>1 DEF SameTask, Critics, DecisionsInOrder, CriticsInOrder
  <2>3. i \in Nat
    <3>1. Row.critics \in Seq(Critics)
      BY RowInRows DEF Rows
    <3> QED
      BY <2>1, <3>1
  <2>4. Row.critics[i] \in CompletedCluster(Row, k)
    BY <2>2, <2>3 DEF CompletedCluster
  <2> QED
    BY <2>1, <2>4
<1> QED
  BY <1>1, DecisionsStayInOrder, TypesAreKept, PTL
=============================================================================
