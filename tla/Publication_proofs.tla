-------------------------- MODULE Publication_proofs --------------------------
(***************************************************************************)
(* What publication keeps to, for any number of compilers, destinations,   *)
(* names and files, whoever else works in the directory, whatever dies and *)
(* however often the power fails.                                          *)
(***************************************************************************)
EXTENDS Publication, TLAPS

Staged == {"write", "sync", "verify", "publish", "cleanup"}

\* A tree has one name.
OneName ==
    \A m, n \in Names : at[m] \in Compilers /\ at[m] = at[n] => m = n

\* A call that has no stage yet is nowhere, and one that published is there.
Placed ==
    \A c \in Compilers :
        /\ pc[c] \in {"start", "stage"} => \A n \in Names : at[n] # c /\ disk[n] # c
        /\ pc[c] = "settle" => at[dest[c]] = c

\* What is under a destination was published there.
OutputsArePublished ==
    \A d \in Destinations, c \in Compilers :
        at[d] = c =>
            /\ dest[c] = d /\ Whole(c) /\ kept[c]
            /\ \/ pc[c] \in {"settle", "dead"}
               \/ pc[c] = "returned" /\ result[c] \in {"done", "uncertain"}

\* Names of outputs are not given up, so the disk can only lack them.
DiskIsBehind == \A d \in Destinations : disk[d] \in {Free, at[d]}

\* What the steps before the rename established.
Ready ==
    \A c \in Compilers :
        /\ pc[c] \in {"verify", "publish"} => kept[c]
        /\ pc[c] = "publish" => Whole(c)

\* The error a call is about to return.
ErrorsAreTrue ==
    \A c \in Compilers :
        pc[c] = "cleanup" =>
            /\ result[c] \in {"exists", "failed"}
            /\ result[c] = "exists" => at[dest[c]] # Free

PlaceInv ==
    /\ TypeOK /\ GuardIsOwn /\ OneName /\ Placed /\ OutputsArePublished
    /\ DiskIsBehind /\ Ready /\ ErrorsAreTrue /\ DoneIsDurable

-----------------------------------------------------------------------------
LEMMA InitPlaces == Init => PlaceInv
<1> SUFFICES ASSUME Init PROVE PlaceInv
  OBVIOUS
<1> USE PublicationAssumption DEF Init
<1>1. TypeOK
  BY DEF TypeOK, Holders, Running, Untouched
<1> QED
  BY <1>1 DEF PlaceInv, GuardIsOwn, OneName, Placed, OutputsArePublished, DiskIsBehind,
     Ready, ErrorsAreTrue, DoneIsDurable, Names

-----------------------------------------------------------------------------
LEMMA CompilerStepTypes ==
  ASSUME TypeOK, NEW c \in Compilers, CompilerStep(c)
  PROVE  TypeOK'
<1> USE DEF TypeOK, Holders, Running, trees, calls, Goto, Return, Dispose
<1>1. CASE Refuse(c)
  BY <1>1 DEF Refuse
<1>2. CASE CreateParent(c)
  BY <1>2 DEF CreateParent
<1>3. CASE CreateStage(c)
  <2>1. PICK s \in StageNames : /\ at' = [at EXCEPT ![s] = c]
                                /\ stage' = [stage EXCEPT ![c] = s]
    BY <1>3 DEF CreateStage
  <2>2. at' \in [Names -> Holders] /\ stage' \in [Compilers -> StageNames \cup {Free}]
    BY <2>1
  <2>3. pc' \in [Compilers -> Running \cup {"returned", "dead"}]
    BY <1>3 DEF CreateStage
  <2> QED
    BY <1>3, <2>2, <2>3 DEF CreateStage
<1>4. CASE FailEarly(c)
  BY <1>4 DEF FailEarly
<1>5. CASE WriteFile(c)
  <2>1. PICK f \in Planned : tree' = [tree EXCEPT ![c][f] = Content(c, f)]
    BY <1>5 DEF WriteFile
  <2>2. Content(c, f) \in {"absent", "whole", "altered"}
    BY DEF Content
  <2>3. tree' \in [Compilers -> [Files -> {"absent", "whole", "altered"}]]
    BY <2>1, <2>2
  <2>4. pc' \in [Compilers -> Running \cup {"returned", "dead"}]
    BY <1>5 DEF WriteFile
  <2> QED
    BY <1>5, <2>3, <2>4 DEF WriteFile
<1>6. CASE SyncTree(c)
  BY <1>6 DEF SyncTree
<1>7. CASE Verify(c)
  BY <1>7 DEF Verify
<1>8. CASE Fail(c)
  BY <1>8 DEF Fail
<1>9. CASE Publish(c)
  BY <1>9 DEF Publish
<1>10. CASE FailToPublish(c)
  BY <1>10 DEF FailToPublish
<1>11. CASE Cleanup(c)
  BY <1>11 DEF Cleanup, Untouched
<1>12. CASE CleanupFails(c)
  BY <1>12 DEF CleanupFails
<1>13. CASE SyncParent(c)
  BY <1>13 DEF SyncParent
<1>14. CASE SyncParentFails(c)
  BY <1>14 DEF SyncParentFails
<1> QED
  BY <1>1, <1>2, <1>3, <1>4, <1>5, <1>6, <1>7, <1>8, <1>9, <1>10, <1>11, <1>12, <1>13, <1>14
     DEF CompilerStep

LEMMA PowerLossTypes ==
  ASSUME TypeOK, PowerLoss
  PROVE  TypeOK'
<1> USE DEF TypeOK, Holders, Running
<1>1. at' \in [Names -> Holders] /\ parent' \in {"absent", "fresh", "rooted"}
  BY DEF PowerLoss, Recovered
<1>2. tree' \in [Compilers -> [Files -> {"absent", "whole", "altered"}]]
  BY DEF PowerLoss, Untouched
<1>3. pc' \in [Compilers -> Running \cup {"returned", "dead"}]
  BY DEF PowerLoss
<1>4. /\ stage' \in [Compilers -> StageNames \cup {Free}]
      /\ result' \in [Compilers -> {"none", "done", "uncertain", "exists", "failed", "left"}]
      /\ kept' = kept /\ dest' = dest /\ disk' = at'
  BY DEF PowerLoss
<1> QED
  BY <1>1, <1>2, <1>3, <1>4

LEMMA StepTypes ==
  ASSUME TypeOK, [Next]_vars
  PROVE  TypeOK'
<1>1. CASE \E c \in Compilers : CompilerStep(c)
  BY <1>1, CompilerStepTypes
<1>2. CASE \E c \in Compilers : Crash(c)
  BY <1>2 DEF Crash, TypeOK, trees, Goto, Running
<1>3. CASE \E n \in Names : Occupy(n)
  BY <1>3 DEF Occupy, TypeOK, trees, calls, Holders
<1>4. CASE \E c \in Compilers, f \in Files : Tamper(c, f)
  BY <1>4 DEF Tamper, TypeOK, calls
<1>5. CASE PowerLoss
  BY <1>5, PowerLossTypes
<1>6. CASE UNCHANGED vars
  BY <1>6 DEF vars, trees, calls, TypeOK
<1> QED
  BY <1>1, <1>2, <1>3, <1>4, <1>5, <1>6 DEF Next

-----------------------------------------------------------------------------
(* A step of a call.  What it does to its own places, and to those of others. *)

LEMMA StageIsPlaced ==
  ASSUME PlaceInv, NEW c \in Compilers, CreateStage(c)
  PROVE  PlaceInv'
<1>0. TypeOK'
  BY StepTypes DEF PlaceInv, Next, CompilerStep
<1>1. PICK s \in StageNames : /\ at[s] = Free
                              /\ at' = [at EXCEPT ![s] = c]
                              /\ stage' = [stage EXCEPT ![c] = s]
  BY DEF CreateStage
<1> USE <1>0, <1>1, PublicationAssumption DEF CreateStage, Goto, PlaceInv, TypeOK, trees, Names
<1>2. \A n \in Names : at[n] # c
  BY DEF Placed
<1>3. \A d \in Destinations : at'[d] = at[d]
  OBVIOUS
<1>4. GuardIsOwn'
  BY DEF GuardIsOwn
<1>5. OneName'
  BY <1>2 DEF OneName
<1>6. Placed'
  BY <1>3 DEF Placed
<1>7. OutputsArePublished' /\ DiskIsBehind' /\ DoneIsDurable'
  BY <1>2, <1>3 DEF OutputsArePublished, DiskIsBehind, DoneIsDurable, Whole
<1>8. Ready' /\ ErrorsAreTrue'
  BY <1>3 DEF Ready, ErrorsAreTrue, Whole
<1> QED
  BY <1>4, <1>5, <1>6, <1>7, <1>8

\* Steps that leave the directory alone.
LEMMA StepsInPlace ==
  ASSUME PlaceInv, NEW c \in Compilers,
         \/ Refuse(c) \/ CreateParent(c) \/ FailEarly(c) \/ SyncTree(c) \/ Verify(c)
         \/ Fail(c) \/ FailToPublish(c) \/ SyncParentFails(c) \/ Crash(c)
  PROVE  PlaceInv'
<1>0. TypeOK'
  BY StepTypes DEF PlaceInv, Next, CompilerStep
<1> USE <1>0, PublicationAssumption DEF PlaceInv, TypeOK, Goto, Return, Dispose, trees
<1>1. at' = at /\ disk' = disk /\ dest' = dest /\ tree' = tree
  BY DEF Refuse, CreateParent, FailEarly, SyncTree, Verify, Fail, FailToPublish, SyncParentFails, Crash
<1>2. \A b \in Compilers \ {c} :
          pc'[b] = pc[b] /\ stage'[b] = stage[b] /\ result'[b] = result[b] /\ kept'[b] = kept[b]
  BY DEF Refuse, CreateParent, FailEarly, SyncTree, Verify, Fail, FailToPublish, SyncParentFails, Crash
<1>3. kept[c] => kept'[c]
  BY DEF Refuse, CreateParent, FailEarly, SyncTree, Verify, Fail, FailToPublish, SyncParentFails, Crash
<1>4. \A b \in Compilers : Whole(b)' <=> Whole(b)
  BY <1>1 DEF Whole
<1>5. /\ pc'[c] \in Staged => pc[c] \in Staged /\ stage'[c] = stage[c]
      /\ pc'[c] \in {"start", "stage"} => pc[c] \in {"start", "stage"}
      /\ pc'[c] # "settle"
      /\ pc'[c] = "verify" => kept'[c]
      /\ pc'[c] = "publish" => pc[c] = "verify" /\ Whole(c)
      /\ pc'[c] = "cleanup" =>
             /\ result'[c] \in {"exists", "failed"}
             /\ result'[c] = "exists" => at[dest[c]] # Free
      /\ pc'[c] = "returned" =>
             \/ result'[c] \in {"exists", "failed"} /\ pc[c] \in {"start", "stage"}
             \/ result'[c] = "uncertain" /\ pc[c] = "settle"
      /\ pc'[c] = "dead" \/ pc'[c] = "returned" \/ pc'[c] \in Staged \cup {"start", "stage"}
  <2> USE DEF Staged
  <2>1. CASE Refuse(c)
    BY <2>1 DEF Refuse
  <2>2. CASE CreateParent(c)
    BY <2>2 DEF CreateParent
  <2>3. CASE FailEarly(c)
    BY <2>3 DEF FailEarly
  <2>4. CASE SyncTree(c)
    BY <2>4 DEF SyncTree
  <2>5. CASE Verify(c)
    BY <2>5 DEF Verify
  <2>6. CASE Fail(c)
    BY <2>6 DEF Fail
  <2>7. CASE FailToPublish(c)
    BY <2>7 DEF FailToPublish
  <2>8. CASE SyncParentFails(c)
    BY <2>8 DEF SyncParentFails
  <2>9. CASE Crash(c)
    BY <2>9 DEF Crash, Running
  <2> QED
    BY <2>1, <2>2, <2>3, <2>4, <2>5, <2>6, <2>7, <2>8, <2>9
<1>6. GuardIsOwn'
  BY <1>1, <1>2, <1>5 DEF GuardIsOwn, Staged
<1>7. OneName' /\ DiskIsBehind'
  BY <1>1 DEF OneName, DiskIsBehind
<1>8. Placed'
  BY <1>1, <1>2, <1>5 DEF Placed
<1>9. ASSUME NEW d \in Destinations, at[d] = c
      PROVE  \/ pc'[c] = "dead"
             \/ pc'[c] = "returned" /\ result'[c] = "uncertain"
  <2>1. pc[c] = "settle" \/ pc[c] \in {"dead", "returned"}
    BY <1>9 DEF OutputsArePublished
  <2>2. SyncParentFails(c) \/ Crash(c)
    BY <2>1 DEF Refuse, CreateParent, FailEarly, SyncTree, Verify, Fail, FailToPublish
  <2> QED
    BY <2>2 DEF SyncParentFails, Crash
<1>10. OutputsArePublished'
  BY <1>1, <1>2, <1>3, <1>4, <1>9 DEF OutputsArePublished
<1>11. Ready' /\ ErrorsAreTrue'
  <2>1. ASSUME NEW b \in Compilers
        PROVE  /\ pc'[b] \in {"verify", "publish"} => kept'[b]
               /\ pc'[b] = "publish" => Whole(b)
    BY <1>2, <1>3, <1>5 DEF Ready
  <2>2. Ready'
    BY <2>1, <1>4 DEF Ready
  <2>3. ASSUME NEW b \in Compilers, pc'[b] = "cleanup"
        PROVE  /\ result'[b] \in {"exists", "failed"}
               /\ result'[b] = "exists" => at[dest[b]] # Free
    BY <1>2, <1>5, <2>3 DEF ErrorsAreTrue
  <2>4. ErrorsAreTrue'
    BY <1>1, <2>3 DEF ErrorsAreTrue
  <2> QED
    BY <2>2, <2>4
<1>12. DoneIsDurable'
  BY <1>1, <1>2, <1>9 DEF DoneIsDurable
<1> QED
  BY <1>6, <1>7, <1>8, <1>10, <1>11, <1>12

\* A tree changes before it is verified, in a stage.
LEMMA FilesChangeInStages ==
  ASSUME PlaceInv, NEW c \in Compilers,
         WriteFile(c) \/ \E f \in Files : Tamper(c, f)
  PROVE  PlaceInv'
<1>0. TypeOK'
  <2>1. Next
    BY DEF Next, CompilerStep
  <2> QED
    BY <2>1, StepTypes DEF PlaceInv
<1> USE <1>0 DEF PlaceInv, TypeOK, Goto, trees, calls
<1>1. at' = at /\ disk' = disk /\ dest' = dest /\ stage' = stage /\ result' = result /\ kept' = kept
  BY DEF WriteFile, Tamper
<1>2. \A b \in Compilers \ {c} : pc'[b] = pc[b] /\ tree'[b] = tree[b]
  BY DEF WriteFile, Tamper
<1>3. /\ pc[c] \in {"write", "sync", "verify"}
      /\ pc'[c] \in {"write", "sync", pc[c]}
  BY DEF WriteFile, Tamper
<1>4. \A b \in Compilers \ {c} : Whole(b)' <=> Whole(b)
  BY <1>2 DEF Whole
<1>5. \A d \in Destinations : at[d] # c
  BY <1>3 DEF OutputsArePublished
<1>6. GuardIsOwn'
  BY <1>1, <1>2, <1>3 DEF GuardIsOwn
<1>7. OneName' /\ DiskIsBehind'
  BY <1>1 DEF OneName, DiskIsBehind
<1>8. Placed'
  BY <1>1, <1>2, <1>3 DEF Placed
<1>9. OutputsArePublished'
  <2>1. ASSUME NEW d \in Destinations, NEW b \in Compilers, at[d] = b
        PROVE  /\ b # c /\ dest[b] = d /\ Whole(b) /\ kept[b]
               /\ \/ pc[b] \in {"settle", "dead"}
                  \/ pc[b] = "returned" /\ result[b] \in {"done", "uncertain"}
    BY <1>5, <2>1 DEF OutputsArePublished
  <2>2. ASSUME NEW d \in Destinations, NEW b \in Compilers, at'[d] = b
        PROVE  /\ dest'[b] = d /\ Whole(b)' /\ kept'[b]
               /\ \/ pc'[b] \in {"settle", "dead"}
                  \/ pc'[b] = "returned" /\ result'[b] \in {"done", "uncertain"}
    <3>1. at[d] = b
      BY <1>1, <2>2
    <3>2. b # c /\ Whole(b)
      BY <2>1, <3>1
    <3>3. Whole(b)' /\ pc'[b] = pc[b]
      BY <1>2, <1>4, <3>2
    <3> QED
      BY <1>1, <2>1, <3>1, <3>3
  <2> QED
    BY <2>2 DEF OutputsArePublished
<1>10. Ready' /\ ErrorsAreTrue'
  BY <1>1, <1>2, <1>3, <1>4 DEF Ready, ErrorsAreTrue
<1>11. DoneIsDurable'
  <2>1. \A b \in Compilers : pc'[b] = "returned" => pc[b] = "returned"
    BY <1>2, <1>3
  <2> QED
    BY <1>1, <2>1 DEF DoneIsDurable
<1> QED
  BY <1>6, <1>7, <1>8, <1>9, <1>10, <1>11

LEMMA RenameIsPlaced ==
  ASSUME PlaceInv, NEW c \in Compilers, Publish(c)
  PROVE  PlaceInv'
<1>0. TypeOK'
  <2>1. Next
    BY DEF Next, CompilerStep
  <2> QED
    BY <2>1, StepTypes DEF PlaceInv
<1> USE <1>0, PublicationAssumption DEF PlaceInv, TypeOK, Goto, trees, Names
<1>1. /\ at[dest[c]] = Free /\ at' = [at EXCEPT ![stage[c]] = Free, ![dest[c]] = c]
      /\ stage[c] \in StageNames /\ at[stage[c]] = c
      /\ disk' = disk /\ dest' = dest /\ tree' = tree /\ kept' = kept /\ result' = result
  BY DEF Publish, GuardIsOwn
<1>2. \A b \in Compilers \ {c} : pc'[b] = pc[b] /\ stage'[b] = stage[b]
  BY DEF Publish
<1>3. pc[c] = "publish" /\ pc'[c] = "settle" /\ Whole(c) /\ kept[c]
  BY DEF Publish, Ready
<1>4. \A n \in Names : at'[n] = IF n = stage[c] THEN Free ELSE IF n = dest[c] THEN c ELSE at[n]
  BY <1>1
<1>5. \A n \in Names : at[n] = c => n = stage[c]
  BY <1>1 DEF OneName
<1>6. \A b \in Compilers : Whole(b)' <=> Whole(b)
  BY <1>1 DEF Whole
<1>7. GuardIsOwn'
  BY <1>1, <1>2, <1>3, <1>4, <1>5 DEF GuardIsOwn
<1>8. OneName'
  <2>1. ASSUME NEW m \in Names, NEW n \in Names, at'[m] \in Compilers, at'[m] = at'[n]
        PROVE  m = n
    <3>1. m # stage[c] /\ n # stage[c]
      BY <1>4, <2>1
    <3>2. at[m] # c /\ at[n] # c
      BY <1>5, <3>1
    <3> QED
      BY <1>4, <2>1, <3>1, <3>2 DEF OneName
  <2> QED
    BY <2>1 DEF OneName
<1>9. Placed'
  BY <1>1, <1>2, <1>3, <1>4, <1>5 DEF Placed
<1>10. OutputsArePublished'
  BY <1>1, <1>2, <1>3, <1>4, <1>6 DEF OutputsArePublished
<1>11. DiskIsBehind'
  BY <1>1, <1>4 DEF DiskIsBehind
<1>12. Ready' /\ ErrorsAreTrue'
  <2>1. \A b \in Compilers : pc'[b] = "cleanup" => pc[b] = "cleanup" /\ dest[b] # stage[c]
    BY <1>1, <1>2, <1>3
  <2>2. ErrorsAreTrue'
    BY <1>1, <1>4, <2>1 DEF ErrorsAreTrue
  <2> QED
    BY <1>1, <1>2, <1>3, <1>6, <2>2 DEF Ready
<1>13. DoneIsDurable'
  BY <1>1, <1>2, <1>3, <1>4 DEF DoneIsDurable
<1> QED
  BY <1>7, <1>8, <1>9, <1>10, <1>11, <1>12, <1>13

\* The stage goes, and nothing else.
LEMMA StageIsDisposedOf ==
  ASSUME PlaceInv, NEW c \in Compilers, Cleanup(c) \/ CleanupFails(c)
  PROVE  PlaceInv'
<1>0. TypeOK'
  <2>1. Next
    BY DEF Next, CompilerStep
  <2> QED
    BY <2>1, StepTypes DEF PlaceInv
<1> USE <1>0, PublicationAssumption DEF PlaceInv, TypeOK, Goto, Return, trees, Names
<1>1. /\ pc[c] = "cleanup" /\ pc'[c] = "returned"
      /\ stage[c] \in StageNames /\ at[stage[c]] = c
      /\ disk' = disk /\ dest' = dest
      /\ at' \in {at, [at EXCEPT ![stage[c]] = Free]}
      /\ result'[c] \in {"exists", "failed", "left"}
  BY DEF Cleanup, CleanupFails, GuardIsOwn, ErrorsAreTrue
<1>2. \A b \in Compilers \ {c} : /\ pc'[b] = pc[b] /\ stage'[b] = stage[b] /\ tree'[b] = tree[b]
                               /\ kept'[b] = kept[b] /\ result'[b] = result[b]
  BY DEF Cleanup, CleanupFails
<1>3. /\ \A d \in Destinations : at'[d] = at[d]
      /\ \A n \in Names : at'[n] = at[n] \/ (n = stage[c] /\ at'[n] = Free)
  BY <1>1
<1>4. \A d \in Destinations : at[d] # c
  BY <1>1 DEF OutputsArePublished
<1>5. \A b \in Compilers \ {c} : Whole(b)' <=> Whole(b)
  BY <1>2 DEF Whole
<1>6. GuardIsOwn'
  BY <1>1, <1>2, <1>3 DEF GuardIsOwn
<1>7. OneName'
  BY <1>1, <1>3 DEF OneName
<1>8. Placed'
  BY <1>1, <1>2, <1>3 DEF Placed
<1>9. OutputsArePublished'
  BY <1>1, <1>2, <1>3, <1>4, <1>5 DEF OutputsArePublished
<1>10. DiskIsBehind'
  BY <1>1, <1>3 DEF DiskIsBehind
<1>11. Ready' /\ ErrorsAreTrue'
  <2>1. Ready'
    <3>1. ASSUME NEW b \in Compilers
          PROVE  /\ pc'[b] \in {"verify", "publish"} => kept'[b]
                 /\ pc'[b] = "publish" => Whole(b)'
      <4>1. CASE b = c
        BY <1>1, <4>1
      <4>2. CASE b # c
        BY <1>2, <1>5, <4>2 DEF Ready
      <4> QED
        BY <4>1, <4>2
    <3> QED
      BY <3>1 DEF Ready
  <2>2. ErrorsAreTrue'
    BY <1>1, <1>2, <1>3 DEF ErrorsAreTrue
  <2> QED
    BY <2>1, <2>2
<1>12. DoneIsDurable'
  BY <1>1, <1>2, <1>3, <1>4 DEF DoneIsDurable
<1> QED
  BY <1>6, <1>7, <1>8, <1>9, <1>10, <1>11, <1>12

LEMMA OutputIsSettled ==
  ASSUME PlaceInv, NEW c \in Compilers, SyncParent(c)
  PROVE  PlaceInv'
<1>0. TypeOK'
  <2>1. Next
    BY DEF Next, CompilerStep
  <2> QED
    BY <2>1, StepTypes DEF PlaceInv
<1> USE <1>0, PublicationAssumption DEF PlaceInv, TypeOK, Goto, Return, trees, Names
<1>1. /\ pc[c] = "settle" /\ pc'[c] = "returned" /\ result'[c] = "done"
      /\ disk' = at /\ at' = at /\ dest' = dest /\ tree' = tree /\ kept' = kept /\ stage' = stage
  BY DEF SyncParent
<1>2. \A b \in Compilers \ {c} : pc'[b] = pc[b] /\ result'[b] = result[b]
  BY DEF SyncParent
<1>3. \A b \in Compilers : Whole(b)' <=> Whole(b)
  BY <1>1 DEF Whole
<1>4. GuardIsOwn'
  BY <1>1, <1>2 DEF GuardIsOwn
<1>5. OneName' /\ DiskIsBehind' /\ DoneIsDurable'
  BY <1>1 DEF OneName, DiskIsBehind, DoneIsDurable
<1>6. Placed'
  BY <1>1, <1>2 DEF Placed
<1>7. OutputsArePublished'
  BY <1>1, <1>2, <1>3 DEF OutputsArePublished
<1>8. Ready'
  BY <1>1, <1>2, <1>3 DEF Ready
<1>9. ErrorsAreTrue'
  BY <1>1, <1>2 DEF ErrorsAreTrue
<1> QED
  BY <1>4, <1>5, <1>6, <1>7, <1>8, <1>9

-----------------------------------------------------------------------------
(* Steps of others. *)

LEMMA OthersTakeFreeNames ==
  ASSUME PlaceInv, NEW o \in Names, Occupy(o)
  PROVE  PlaceInv'
<1>0. TypeOK'
  <2>1. Next
    BY DEF Next
  <2> QED
    BY <2>1, StepTypes DEF PlaceInv
<1> USE <1>0, PublicationAssumption DEF PlaceInv, TypeOK, trees, calls, Names
<1>1. /\ disk' = disk /\ dest' = dest /\ tree' = tree /\ kept' = kept /\ pc' = pc
      /\ stage' = stage /\ result' = result
      /\ at[o] = Free /\ at' = [at EXCEPT ![o] = Foreign]
  BY DEF Occupy
<1>2. /\ \A n \in Names, c \in Compilers : at'[n] = c <=> at[n] = c
      /\ \A n \in Names : at[n] # Free => at'[n] = at[n]
  BY <1>1
<1>3. \A c \in Compilers : Whole(c)' <=> Whole(c)
  BY <1>1 DEF Whole
<1>4. GuardIsOwn'
  BY <1>1, <1>2 DEF GuardIsOwn
<1>5. OneName'
  BY <1>2 DEF OneName
<1>6. Placed'
  BY <1>1, <1>2 DEF Placed
<1>7. OutputsArePublished'
  BY <1>1, <1>2, <1>3 DEF OutputsArePublished
<1>8. DiskIsBehind'
  BY <1>1, <1>2 DEF DiskIsBehind
<1>9. Ready'
  BY <1>1, <1>3 DEF Ready
<1>10. ErrorsAreTrue'
  BY <1>1 DEF ErrorsAreTrue
<1>11. DoneIsDurable'
  BY <1>1, <1>2 DEF DoneIsDurable
<1> QED
  BY <1>4, <1>5, <1>6, <1>7, <1>8, <1>9, <1>10, <1>11

\* What may be found after a power loss: of each name what was there, or what was
\* on disk, or nothing; and no tree twice.
LEMMA WhatIsRecovered ==
  ASSUME PlaceInv, PowerLoss
  PROVE  /\ \A n \in Names : at'[n] \in {at[n], disk[n], Free}
         /\ \A d \in Destinations : at'[d] \in {at[d], Free}
         /\ OneName'
<1>1. CASE /\ parent = "fresh" /\ at' = [n \in Names |-> Free]
  BY <1>1, PublicationAssumption DEF OneName, Names
<1>2. ASSUME NEW newer \in SUBSET Names,
             Consistent(Recovered(newer)), at' = Recovered(newer)
      PROVE  /\ \A n \in Names : at'[n] \in {at[n], disk[n]}
             /\ OneName'
  BY <1>2 DEF Recovered, Consistent, OneName
<1>3. CASE \E newer \in SUBSET Names :
               Consistent(Recovered(newer)) /\ at' = Recovered(newer)
  <2>1. (\A n \in Names : at'[n] \in {at[n], disk[n]}) /\ OneName'
    BY <1>2, <1>3
  <2>2. \A d \in Destinations : at'[d] \in {at[d], Free}
    BY <2>1 DEF PlaceInv, DiskIsBehind, Names
  <2> QED
    BY <2>1, <2>2
<1> QED
  BY <1>1, <1>3 DEF PowerLoss

LEMMA PowerLossPlaces ==
  ASSUME PlaceInv, PowerLoss
  PROVE  PlaceInv'
<1>0. TypeOK'
  BY PowerLossTypes DEF PlaceInv
<1> USE <1>0, PublicationAssumption DEF PlaceInv, TypeOK, Names
<1>1. /\ \A n \in Names : at'[n] \in {at[n], disk[n], Free}
      /\ \A d \in Destinations : at'[d] \in {at[d], Free}
      /\ OneName'
  BY WhatIsRecovered
<1>2. /\ disk' = at' /\ dest' = dest /\ kept' = kept
      /\ \A c \in Compilers : kept[c] => tree'[c] = tree[c]
      /\ \A c \in Compilers : pc[c] = "returned" => result'[c] = result[c]
  BY DEF PowerLoss
<1>3. \A c \in Compilers :
          /\ pc'[c] \in {"start", "returned", "dead"}
          /\ pc'[c] = "start" => pc[c] = "start"
          /\ pc'[c] = "returned" <=> pc[c] = "returned"
  BY DEF PowerLoss, Running
<1>4. \A c \in Compilers : kept[c] => (Whole(c)' <=> Whole(c))
  BY <1>2 DEF Whole
<1>5. GuardIsOwn' /\ Ready' /\ ErrorsAreTrue'
  BY <1>3 DEF GuardIsOwn, Ready, ErrorsAreTrue
<1>6. Placed'
  BY <1>1, <1>2, <1>3 DEF Placed
<1>7. OutputsArePublished'
  <2>1. ASSUME NEW d \in Destinations, NEW c \in Compilers, at'[d] = c
        PROVE  /\ dest[c] = d /\ Whole(c)' /\ kept[c]
               /\ \/ pc'[c] = "dead"
                  \/ pc'[c] = "returned" /\ result'[c] \in {"done", "uncertain"}
    <3>1. at[d] = c
      BY <1>1, <2>1
    <3>2. /\ dest[c] = d /\ Whole(c) /\ kept[c]
          /\ \/ pc[c] \in {"settle", "dead"}
             \/ pc[c] = "returned" /\ result[c] \in {"done", "uncertain"}
      BY <3>1 DEF OutputsArePublished
    <3> QED
      BY <1>2, <1>3, <1>4, <3>2
  <2> QED
    BY <1>2, <2>1 DEF OutputsArePublished
<1>8. DiskIsBehind' /\ DoneIsDurable'
  BY <1>2 DEF DiskIsBehind, DoneIsDurable
<1> QED
  BY <1>1, <1>5, <1>6, <1>7, <1>8

-----------------------------------------------------------------------------
LEMMA StepPlaces ==
  ASSUME PlaceInv, [Next]_vars
  PROVE  PlaceInv'
<1>1. CASE UNCHANGED vars
  BY <1>1 DEF vars, trees, calls, PlaceInv, TypeOK, GuardIsOwn, OneName, Placed,
     OutputsArePublished, DiskIsBehind, Ready, ErrorsAreTrue, DoneIsDurable, Whole
<1>2. ASSUME NEW c \in Compilers, CompilerStep(c) \/ Crash(c)
      PROVE  PlaceInv'
  BY <1>2, StageIsPlaced, StepsInPlace, FilesChangeInStages, RenameIsPlaced,
     StageIsDisposedOf, OutputIsSettled DEF CompilerStep
<1>3. ASSUME NEW c \in Compilers, NEW f \in Files, Tamper(c, f)
      PROVE  PlaceInv'
  BY <1>3, FilesChangeInStages
<1> QED
  BY <1>1, <1>2, <1>3, OthersTakeFreeNames, PowerLossPlaces DEF Next

\* Every tree is where its call put it, and what a call is about to do or to answer
\* fits what is there (compile_with_hook as a whole).
THEOREM Placement == Spec => []PlaceInv
<1> QED
  BY InitPlaces, StepPlaces, PTL DEF Spec

\* An armed TempDir guard names the tree of its own call, however names of stages
\* are used again.
THEOREM GuardsAreOwn == Spec => []GuardIsOwn
<1>1. PlaceInv => GuardIsOwn
  BY DEF PlaceInv
<1> QED
  BY <1>1, Placement, PTL

\* What compile_with_hook puts under a destination is complete, verified and
\* synchronized, also after any power loss.
THEOREM WholeOrAbsent == Spec => []OutputsAreWhole
<1>1. PlaceInv => OutputsAreWhole
  <2> SUFFICES ASSUME PlaceInv, NEW d \in Destinations, NEW c \in Compilers, c \in {at[d], disk[d]}
               PROVE  dest[c] = d /\ Whole(c) /\ kept[c]
    BY DEF OutputsAreWhole
  <2>1. at[d] = c
    BY PublicationAssumption DEF PlaceInv, DiskIsBehind
  <2> QED
    BY <2>1 DEF PlaceInv, OutputsArePublished
<1> QED
  BY <1>1, Placement, PTL

\* Success is answered after the directory entry is on disk.
THEOREM DoneSurvives == Spec => []DoneIsDurable
<1>1. PlaceInv => DoneIsDurable
  BY DEF PlaceInv
<1> QED
  BY <1>1, Placement, PTL

-----------------------------------------------------------------------------
(* What a step may never do. *)

LEMMA StepMovesOwnTree ==
  ASSUME PlaceInv, [Next]_vars, ~PowerLoss, NEW n \in Names, at[n] # Free, at'[n] # at[n]
  PROVE  at'[n] = Free /\ at[n] \in Compilers /\ pc'[at[n]] # pc[at[n]]
<1> USE PublicationAssumption DEF PlaceInv, TypeOK, Goto, Return, Dispose, Names
<1>1. CASE \E c \in Compilers : CompilerStep(c) \/ Crash(c)
  <2>1. PICK c \in Compilers : CompilerStep(c) \/ Crash(c)
    BY <1>1
  <2>2. CASE Publish(c) \/ Cleanup(c)
    <3>1. stage[c] \in StageNames /\ at[stage[c]] = c /\ pc'[c] # pc[c]
      BY <2>2 DEF GuardIsOwn, Publish, Cleanup
    <3>2. n = stage[c] /\ at'[n] = Free
      BY <2>2, <3>1 DEF Publish, Cleanup
    <3> QED
      BY <3>1, <3>2
  <2>3. CASE CreateStage(c)
    BY <2>3 DEF CreateStage
  <2>4. CASE ~Publish(c) /\ ~Cleanup(c) /\ ~CreateStage(c)
    <3>1. at' = at
      BY <2>1, <2>4 DEF CompilerStep, Crash, Refuse, CreateParent, FailEarly, WriteFile, SyncTree,
         Verify, Fail, FailToPublish, CleanupFails, SyncParent, SyncParentFails
    <3> QED
      BY <3>1
  <2> QED
    BY <2>2, <2>3, <2>4
<1>2. CASE \E o \in Names : Occupy(o)
  BY <1>2 DEF Occupy
<1>3. CASE \E c \in Compilers, f \in Files : Tamper(c, f)
  BY <1>3 DEF Tamper
<1>4. CASE UNCHANGED vars
  BY <1>4 DEF vars
<1> QED
  BY <1>1, <1>2, <1>3, <1>4 DEF Next

\* No winner, no foreign file and no stage of another call is ever removed or
\* replaced, by the rename or by the removal of a stage.
THEOREM NothingIsReplaced == Spec => OnlyOwnTreesMove
<1>1. PlaceInv /\ [Next]_vars =>
        [ \/ \A n \in Names :
               at[n] # Free /\ at'[n] # at[n] =>
                   /\ at'[n] = Free
                   /\ at[n] \in Compilers /\ pc'[at[n]] # pc[at[n]]
          \/ PowerLoss ]_vars
  BY StepMovesOwnTree
<1> QED
  BY <1>1, Placement, PTL DEF Spec, OnlyOwnTreesMove

LEMMA ReturnSaysWhatIsLeft ==
  ASSUME PlaceInv, [Next]_vars, NEW c \in Compilers, pc[c] # "returned", pc'[c] = "returned"
  PROVE  (\E s \in StageNames : at'[s] = c) <=> result'[c] = "left"
<1> USE PublicationAssumption DEF PlaceInv, TypeOK, Goto, Return, Dispose, Names
<1>1. PICK b \in Compilers : CompilerStep(b) \/ Crash(b)
  BY DEF Next, Occupy, Tamper, PowerLoss, Running, vars, calls
<1>2. \/ Refuse(c) \/ FailEarly(c) \/ Cleanup(c) \/ CleanupFails(c)
      \/ SyncParent(c) \/ SyncParentFails(c)
  BY <1>1 DEF CompilerStep, Crash, Refuse, CreateParent, CreateStage, FailEarly, WriteFile, SyncTree,
     Verify, Fail, Publish, FailToPublish, Cleanup, CleanupFails, SyncParent, SyncParentFails
<1>3. CASE Refuse(c) \/ FailEarly(c)
  <2>1. \A n \in Names : at[n] # c
    BY <1>3 DEF Refuse, FailEarly, Placed
  <2> QED
    BY <1>3, <2>1 DEF Refuse, FailEarly
<1>4. CASE Cleanup(c)
  <2>1. /\ stage[c] \in StageNames /\ at[stage[c]] = c
        /\ at' = [at EXCEPT ![stage[c]] = Free]
        /\ result'[c] \in {"exists", "failed"}
    BY <1>4 DEF Cleanup, GuardIsOwn, ErrorsAreTrue
  <2>2. \A n \in Names : at[n] = c => n = stage[c]
    BY <2>1 DEF OneName
  <2> QED
    BY <2>1, <2>2
<1>5. CASE CleanupFails(c)
  BY <1>5 DEF CleanupFails, GuardIsOwn
<1>6. CASE SyncParent(c) \/ SyncParentFails(c)
  <2>1. at[dest[c]] = c /\ at' = at /\ result'[c] \in {"done", "uncertain"}
    BY <1>6 DEF SyncParent, SyncParentFails, Placed
  <2> QED
    BY <2>1 DEF OneName
<1> QED
  BY <1>2, <1>3, <1>4, <1>5, <1>6

\* Exactly StagingDispositionFailed tells of a stage that a call left behind.
THEOREM StagesAreAccountedFor == Spec => StageIsAccountedFor
<1>1. PlaceInv /\ [Next]_vars =>
        [ \A c \in Compilers :
            pc[c] # "returned" /\ pc'[c] = "returned" =>
                ((\E s \in StageNames : at'[s] = c) <=> result'[c] = "left") ]_vars
  BY ReturnSaysWhatIsLeft
<1> QED
  BY <1>1, Placement, PTL DEF Spec, StageIsAccountedFor

-----------------------------------------------------------------------------
(* Publication implements OutputSlots. *)

slots == [d \in Destinations |->
             IF at[d] \in Compilers /\ ~Whole(at[d]) THEN Torn ELSE at[d]]
answers == [c \in Compilers |-> IF pc[c] = "returned" THEN result[c] ELSE "none"]
isSettled == parent = "rooted"

\* Nothing torn is ever seen.
LEMMA SlotsAreNames ==
  ASSUME PlaceInv
  PROVE  slots = [d \in Destinations |-> at[d]]
<1>1. \A d \in Destinations : at[d] \in Compilers => Whole(at[d])
  BY DEF PlaceInv, OutputsArePublished
<1> QED
  BY <1>1 DEF slots

LEMMA SlotsStayNames ==
  ASSUME PlaceInv'
  PROVE  slots' = [d \in Destinations |-> at'[d]]
<1>1. \A d \in Destinations : at'[d] \in Compilers => Whole(at[d])'
  BY DEF PlaceInv, OutputsArePublished
<1> QED
  BY <1>1 DEF slots

LEMMA InitImplements == Init => Output!Init
<1> SUFFICES ASSUME Init PROVE Output!Init
  OBVIOUS
<1>1. slots = [d \in Destinations |-> Free]
  BY PublicationAssumption DEF Init, slots, Names
<1>2. answers = [c \in Compilers |-> "none"]
  BY DEF Init, answers
<1> QED
  BY <1>1, <1>2 DEF Output!Init, slots, answers

\* Steps before and beside the rename are not seen.
LEMMA HiddenStep ==
  ASSUME PlaceInv, PlaceInv',
         \A d \in Destinations : at'[d] = at[d],
         \A c \in Compilers :
             /\ pc'[c] = "returned" <=> pc[c] = "returned"
             /\ pc[c] = "returned" => result'[c] = result[c],
         parent' = "rooted" <=> parent = "rooted"
  PROVE  UNCHANGED Output!vars
<1>1. slots' = slots
  BY SlotsAreNames, SlotsStayNames
<1>2. \A c \in Compilers :
          (IF pc'[c] = "returned" THEN result'[c] ELSE "none")
              = (IF pc[c] = "returned" THEN result[c] ELSE "none")
  OBVIOUS
<1>3. answers' = answers
  BY <1>2 DEF answers
<1> QED
  BY <1>1, <1>3 DEF Output!vars, slots, answers

LEMMA RenameImplements ==
  ASSUME PlaceInv, PlaceInv', NEW c \in Compilers, Publish(c),
         NEW d \in Destinations, d = dest[c]
  PROVE  Output!Put(c, d)
<1> USE PublicationAssumption DEF PlaceInv, TypeOK, Names, Goto, Publish
<1>1. slots = [e \in Destinations |-> at[e]] /\ slots' = [e \in Destinations |-> at'[e]]
  BY SlotsAreNames, SlotsStayNames
<1>2. \A e \in Destinations : at[e] # c
  BY DEF OutputsArePublished
<1>3. stage[c] \in StageNames
  BY DEF GuardIsOwn
<1>4. slots' = [slots EXCEPT ![d] = c]
  BY <1>1, <1>3
<1>5. answers' = answers /\ answers[c] = "none"
  BY DEF answers
<1>6. isSettled' = isSettled
  BY DEF isSettled
<1> QED
  BY <1>1, <1>2, <1>4, <1>5, <1>6 DEF Output!Put, Output!Has, slots, answers, isSettled

\* A return tells the truth about the output.
LEMMA ReturnImplements ==
  ASSUME PlaceInv, PlaceInv', NEW c \in Compilers,
         \/ Refuse(c) \/ FailEarly(c) \/ Cleanup(c) \/ CleanupFails(c)
         \/ SyncParent(c) \/ SyncParentFails(c),
         NEW a, a = result'[c]
  PROVE  Output!Tell(c, a)
<1> USE PublicationAssumption DEF PlaceInv, TypeOK, Names, Goto, Return, trees
<1>1. slots = [d \in Destinations |-> at[d]] /\ slots' = [d \in Destinations |-> at'[d]]
  BY SlotsAreNames, SlotsStayNames
<1>2. \A d \in Destinations : at'[d] = at[d]
  BY DEF Refuse, FailEarly, Cleanup, CleanupFails, SyncParent, SyncParentFails, GuardIsOwn
<1>3. slots' = slots
  BY <1>1, <1>2
<1>4. /\ pc[c] # "returned" /\ pc'[c] = "returned"
      /\ \A b \in Compilers \ {c} : pc'[b] = pc[b] /\ result'[b] = result[b]
      /\ parent' = parent
  BY DEF Refuse, FailEarly, Cleanup, CleanupFails, SyncParent, SyncParentFails
<1>5. answers[c] = "none" /\ answers' = [answers EXCEPT ![c] = result'[c]]
  BY <1>4 DEF answers
<1>6. /\ result'[c] \in Output!Answers \ {"none"}
      /\ (\E d \in Destinations : at[d] = c) <=> result'[c] \in {"done", "uncertain"}
      /\ result'[c] = "exists" => \E d \in Destinations : at[d] # Free
  <2> USE DEF Output!Answers
  <2>1. CASE Refuse(c) \/ FailEarly(c)
    BY <2>1 DEF Refuse, FailEarly, Placed
  <2>2. CASE Cleanup(c) \/ CleanupFails(c)
    <3>1. \A d \in Destinations : at[d] # c
      BY <2>2 DEF Cleanup, CleanupFails, OutputsArePublished
    <3> QED
      BY <2>2, <3>1 DEF Cleanup, CleanupFails, ErrorsAreTrue
  <2>3. CASE SyncParent(c) \/ SyncParentFails(c)
    BY <2>3 DEF SyncParent, SyncParentFails, Placed
  <2> QED
    BY <2>1, <2>2, <2>3
<1> QED
  BY <1>1, <1>3, <1>4, <1>5, <1>6 DEF Output!Tell, Output!Has, slots, answers

LEMMA PowerLossImplements ==
  ASSUME PlaceInv, PlaceInv', PowerLoss
  PROVE  Output!PowerLoss
<1> USE PublicationAssumption DEF PlaceInv, TypeOK, Names
<1>1. slots = [d \in Destinations |-> at[d]] /\ slots' = [d \in Destinations |-> at'[d]]
  BY SlotsAreNames, SlotsStayNames
<1>2. \A d \in Destinations : at'[d] \in {at[d], Free}
  BY WhatIsRecovered
<1>3. answers' = answers
  BY DEF PowerLoss, answers, Running
<1>4. \/ parent # "rooted"
      \/ \A d \in Destinations : at[d] \in Compilers /\ answers[at[d]] = "done" => at'[d] = at[d]
  <2>1. CASE parent = "fresh"
    BY <2>1
  <2>2. ASSUME parent # "fresh", NEW d \in Destinations, at[d] \in Compilers, answers[at[d]] = "done"
        PROVE  at'[d] = at[d]
    <3>1. disk[d] = at[d]
      BY <2>2 DEF DoneIsDurable, answers
    <3>2. PICK newer \in SUBSET Names : at' = Recovered(newer)
      BY <2>2 DEF PowerLoss
    <3>3. at'[d] \in {at[d], disk[d]}
      BY <3>2 DEF Recovered
    <3> QED
      BY <3>1, <3>3
  <2> QED
    BY <2>1, <2>2
<1>5. parent = "rooted" => parent' = "rooted"
  BY DEF PowerLoss
<1> QED
  BY <1>1, <1>2, <1>3, <1>4, <1>5 DEF Output!PowerLoss, Output!Done, slots, answers

LEMMA StepImplements ==
  ASSUME PlaceInv, PlaceInv', [Next]_vars
  PROVE  [Output!Next]_(Output!vars)
<1>0. dest \in [Compilers -> Destinations]
  BY DEF PlaceInv, TypeOK
<1>1. ASSUME NEW c \in Compilers, Publish(c)
      PROVE  Output!Next
  <2>1. PICK d \in Destinations : d = dest[c]
    BY <1>0
  <2>2. Output!Put(c, d)
    BY <1>1, <2>1, RenameImplements
  <2> QED
    BY <2>2 DEF Output!Next
<1>2. ASSUME NEW c \in Compilers,
             \/ Refuse(c) \/ FailEarly(c) \/ Cleanup(c) \/ CleanupFails(c)
             \/ SyncParent(c) \/ SyncParentFails(c)
      PROVE  Output!Next
  <2>1. PICK a \in Output!Answers : a = result'[c]
    BY DEF PlaceInv, TypeOK, Output!Answers
  <2>2. Output!Tell(c, a)
    BY <1>2, <2>1, ReturnImplements
  <2> QED
    BY <2>2 DEF Output!Next
<1>3. ASSUME NEW c \in Compilers,
             \/ CreateParent(c) \/ CreateStage(c) \/ WriteFile(c) \/ SyncTree(c) \/ Verify(c)
             \/ Fail(c) \/ FailToPublish(c) \/ Crash(c)
      PROVE  UNCHANGED Output!vars
  <2>1. \A d \in Destinations : at'[d] = at[d]
    BY <1>3, PublicationAssumption DEF CreateParent, CreateStage, WriteFile, SyncTree, Verify, Fail,
       FailToPublish, Crash, Dispose, trees, PlaceInv, TypeOK, Names
  <2>2. \A b \in Compilers :
            /\ pc'[b] = "returned" <=> pc[b] = "returned"
            /\ pc[b] = "returned" => result'[b] = result[b]
    BY <1>3 DEF CreateParent, CreateStage, WriteFile, SyncTree, Verify, Fail, FailToPublish, Crash,
       Dispose, trees, Running, Goto, PlaceInv, TypeOK
  <2>3. parent' = "rooted" <=> parent = "rooted"
    BY <1>3 DEF CreateParent, CreateStage, WriteFile, SyncTree, Verify, Fail, FailToPublish, Crash,
       Dispose, trees
  <2> QED
    BY <2>1, <2>2, <2>3, HiddenStep
<1>4. ASSUME NEW o \in Names, Occupy(o)
      PROVE  Output!Next \/ UNCHANGED Output!vars
  <2>1. CASE o \in Destinations
    <3>1. slots = [d \in Destinations |-> at[d]] /\ slots' = [d \in Destinations |-> at'[d]]
      BY SlotsAreNames, SlotsStayNames
    <3>2. slots[o] = Free /\ slots' = [slots EXCEPT ![o] = Foreign]
      BY <1>4, <2>1, <3>1 DEF Occupy, PlaceInv, TypeOK, Names
    <3>3. answers' = answers /\ isSettled' = isSettled
      BY <1>4 DEF Occupy, answers, isSettled, calls
    <3>4. Output!Take(o)
      BY <3>2, <3>3 DEF Output!Take, slots, answers, isSettled
    <3> QED
      BY <2>1, <3>4 DEF Output!Next
  <2>2. CASE o \notin Destinations
    BY <1>4, <2>2, HiddenStep DEF Occupy, calls, PlaceInv, TypeOK, Names
  <2> QED
    BY <2>1, <2>2
<1>5. ASSUME NEW c \in Compilers, NEW f \in Files, Tamper(c, f)
      PROVE  UNCHANGED Output!vars
  BY <1>5, HiddenStep DEF Tamper, calls
<1>6. CASE PowerLoss
  BY <1>6, PowerLossImplements DEF Output!Next
<1>7. CASE UNCHANGED vars
  BY <1>7, HiddenStep DEF vars, calls
<1> QED
  BY <1>1, <1>2, <1>3, <1>4, <1>5, <1>6, <1>7 DEF Next, CompilerStep

\* What a destination shows and what calls answer is what OutputSlots promises: one
\* winner, whole or nothing, true answers, and survival of what was done.
THEOREM PublicationImplementsSlots == Spec => OutputSpec
<1>1. Init => Output!Init
  BY InitImplements
<1>2. PlaceInv /\ PlaceInv' /\ [Next]_vars => [Output!Next]_(Output!vars)
  BY StepImplements
<1> QED
  BY <1>1, <1>2, Placement, PTL DEF Spec, OutputSpec, Output!Spec
=============================================================================
