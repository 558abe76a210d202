----------------------------- MODULE Publication -----------------------------
(***************************************************************************)
(* How a compiled vault gets to its destination: a staging directory next  *)
(* to it, one file after the other, synchronization, verification, and a   *)
(* rename that replaces nothing.  Any number of compilers work in one      *)
(* directory, other programs take names in it and change files of a stage, *)
(* processes die, and the power fails.                                     *)
(*                                                                         *)
(* A compiler is also the name of the tree it makes.  `at' is the          *)
(* directory as processes see it, `disk' what of it is certainly on disk.  *)
(***************************************************************************)
EXTENDS Naturals, FiniteSets

CONSTANTS
    Compilers,
    Destinations, StageNames,   \* names in the directory
    ContentCount,               \* notes, redirect stubs, the plan and its provenance
    MaxTampered,                \* bound of the instance: changed files of a tree
    Free, Foreign               \* a name nobody has, or another program

Names == Destinations \cup StageNames
Holders == Compilers \cup {Free, Foreign}

\* Files in the order they are written; 0 stands for a file nobody planned.
Manifest == ContentCount + 1
Checksums == ContentCount + 2
Planned == 1..Checksums
Files == 0..Checksums

ASSUME PublicationAssumption ==
    /\ ContentCount \in Nat /\ MaxTampered \in Nat
    /\ Destinations \cap StageNames = {}
    /\ Free \notin Compilers /\ Foreign \notin Compilers /\ Free # Foreign
    /\ Free \notin Names

VARIABLES
    at,       \* name -> who has it
    disk,     \* name -> who had it when the directory was last synchronized
    parent,   \* the directory: "absent", "fresh" (created on the way) or "rooted"
    tree,     \* compiler -> file -> "absent" (or incomplete), "whole" or "altered"
    kept,     \* compiler -> whether the directories of its tree are synchronized
    pc,       \* compiler -> where its call is
    dest,     \* compiler -> the destination it was given
    stage,    \* compiler -> the TempDir guard (Free: disarmed or none)
    result    \* compiler -> what its call returns, once that is known

trees == <<tree, kept>>
calls == <<pc, stage, result>>
vars == <<at, disk, parent, trees, calls, dest>>

Untouched == [f \in Files |-> "absent"]
Whole(c) == tree[c] = [f \in Files |-> IF f = 0 THEN "absent" ELSE "whole"]

Running == {"start", "stage", "write", "sync", "verify", "publish", "cleanup", "settle"}

Init ==
    /\ at = [n \in Names |-> Free]
    /\ disk = at
    /\ parent \in {"absent", "rooted"}
    /\ tree = [c \in Compilers |-> Untouched]
    /\ kept = [c \in Compilers |-> FALSE]
    /\ pc = [c \in Compilers |-> "start"]
    /\ dest \in [Compilers -> Destinations]
    /\ stage = [c \in Compilers |-> Free]
    /\ result = [c \in Compilers |-> "none"]

-----------------------------------------------------------------------------
Goto(c, p) == pc' = [pc EXCEPT ![c] = p]

Return(c, r) ==
    /\ Goto(c, "returned")
    /\ result' = [result EXCEPT ![c] = r]

\* An error inside the closure: the stage is disposed of first.
Dispose(c, r) ==
    /\ Goto(c, "cleanup")
    /\ result' = [result EXCEPT ![c] = r]
    /\ UNCHANGED <<at, disk, parent, trees, stage, dest>>

\* The fast refusal.  It proves nothing for later.
Refuse(c) ==
    /\ pc[c] = "start"
    /\ at[dest[c]] # Free
    /\ Return(c, "exists")
    /\ UNCHANGED <<at, disk, parent, trees, stage, dest>>

CreateParent(c) ==
    /\ pc[c] = "start"
    /\ at[dest[c]] = Free
    /\ parent' = IF parent = "absent" THEN "fresh" ELSE parent
    /\ Goto(c, "stage")
    /\ UNCHANGED <<at, disk, trees, stage, result, dest>>

\* tempdir_in creates a name nobody has; it may be one somebody had.
CreateStage(c) ==
    /\ pc[c] = "stage"
    /\ parent # "absent"
    /\ \E s \in StageNames :
           /\ at[s] = Free
           /\ at' = [at EXCEPT ![s] = c]
           /\ stage' = [stage EXCEPT ![c] = s]
    /\ Goto(c, "write")
    /\ UNCHANGED <<disk, parent, trees, result, dest>>

\* An invalid plan, or no parent, or no stage: nothing is there to dispose of.
FailEarly(c) ==
    /\ pc[c] \in {"start", "stage"}
    /\ Return(c, "failed")
    /\ UNCHANGED <<at, disk, parent, trees, stage, dest>>

\* Manifest and checksums say what is found on disk, not what was planned.
Content(c, f) ==
    IF f >= Manifest /\ \E g \in 0..(f - 1) : tree[c][g] = "altered"
    THEN "altered" ELSE "whole"

\* create_new, write and sync of the next file.
WriteFile(c) ==
    /\ pc[c] = "write"
    /\ \E f \in Planned :
           /\ tree[c][f] = "absent"
           /\ \A g \in 1..(f - 1) : tree[c][g] # "absent"
           /\ tree' = [tree EXCEPT ![c][f] = Content(c, f)]
           /\ Goto(c, IF f = Checksums THEN "sync" ELSE "write")
    /\ UNCHANGED <<at, disk, parent, kept, stage, result, dest>>

SyncTree(c) ==
    /\ pc[c] = "sync"
    /\ kept' = [kept EXCEPT ![c] = TRUE]
    /\ Goto(c, "verify")
    /\ UNCHANGED <<at, disk, parent, tree, stage, result, dest>>

Verify(c) ==
    /\ pc[c] = "verify"
    /\ IF Whole(c)
       THEN /\ Goto(c, "publish")
            /\ UNCHANGED <<at, disk, parent, trees, stage, result, dest>>
       ELSE Dispose(c, "failed")

\* Variant: a rename that replaces.
PublishOver(c) ==
    /\ pc[c] = "publish"
    /\ at' = [at EXCEPT ![stage[c]] = Free, ![dest[c]] = c]
    /\ stage' = [stage EXCEPT ![c] = Free]
    /\ Goto(c, "settle")
    /\ UNCHANGED <<disk, parent, trees, result, dest>>

\* The rename that replaces nothing; the guard is disarmed with it.
Publish(c) ==
    /\ pc[c] = "publish"
    /\ at[dest[c]] = Free
    /\ at' = [at EXCEPT ![stage[c]] = Free, ![dest[c]] = c]
    /\ stage' = [stage EXCEPT ![c] = Free]
    /\ Goto(c, "settle")
    /\ UNCHANGED <<disk, parent, trees, result, dest>>

\* Variant: any error of the rename is taken for a name that is taken.
FailAsTaken(c) ==
    /\ pc[c] = "publish"
    /\ Dispose(c, "exists")

\* The rename fails, because the name is taken or for any other reason; which of
\* them is answered depends on who has the name when it is looked at.
FailToPublish(c) ==
    /\ pc[c] = "publish"
    /\ Dispose(c, IF at[dest[c]] # Free THEN "exists" ELSE "failed")

Fail(c) ==
    /\ pc[c] \in {"write", "sync", "verify"}
    /\ Dispose(c, "failed")

\* TempDir::close removes whatever has the name of the stage.
Cleanup(c) ==
    /\ pc[c] = "cleanup"
    /\ at' = [at EXCEPT ![stage[c]] = Free]
    /\ tree' = [tree EXCEPT ![c] = Untouched]
    /\ kept' = [kept EXCEPT ![c] = FALSE]
    /\ stage' = [stage EXCEPT ![c] = Free]
    /\ Goto(c, "returned")
    /\ UNCHANGED <<disk, parent, result, dest>>

\* Variant: the first error is returned, whatever became of the stage.
CleanupFailsSilently(c) ==
    /\ pc[c] = "cleanup"
    /\ stage' = [stage EXCEPT ![c] = Free]
    /\ Goto(c, "returned")
    /\ UNCHANGED <<at, disk, parent, trees, result, dest>>

CleanupFails(c) ==
    /\ pc[c] = "cleanup"
    /\ stage' = [stage EXCEPT ![c] = Free]
    /\ Return(c, "left")
    /\ UNCHANGED <<at, disk, parent, trees, dest>>

SyncParent(c) ==
    /\ pc[c] = "settle"
    /\ disk' = at
    /\ Return(c, "done")
    /\ UNCHANGED <<at, parent, trees, stage, dest>>

SyncParentFails(c) ==
    /\ pc[c] = "settle"
    /\ Return(c, "uncertain")
    /\ UNCHANGED <<at, disk, parent, trees, stage, dest>>

-----------------------------------------------------------------------------
(* What happens to the compilers. *)

\* The process is killed: its guard and its answer are gone, nothing is disposed of.
Crash(c) ==
    /\ pc[c] \in Running
    /\ Goto(c, "dead")
    /\ stage' = [stage EXCEPT ![c] = Free]
    /\ result' = [result EXCEPT ![c] = "none"]
    /\ UNCHANGED <<at, disk, parent, trees, dest>>

\* Another program creates something.
Occupy(n) ==
    /\ parent # "absent"
    /\ at[n] = Free
    /\ at' = [at EXCEPT ![n] = Foreign]
    /\ UNCHANGED <<disk, parent, trees, calls, dest>>

\* Another program changes a file of a stage, or adds one, before it is verified.
Tamper(c, f) ==
    /\ pc[c] \in {"write", "sync", "verify"}
    /\ tree[c][f] = IF f = 0 THEN "absent" ELSE "whole"
    /\ Cardinality({g \in Files : tree[c][g] = "altered"}) < MaxTampered
    /\ tree' = [tree EXCEPT ![c][f] = "altered"]
    /\ UNCHANGED <<at, disk, parent, kept, calls, dest>>

\* Of a name that changed since the directory was synchronized, either state may
\* be found, but never one tree under two names.
Recovered(newer) == [n \in Names |-> IF n \in newer THEN at[n] ELSE disk[n]]
Consistent(entries) ==
    \A m, n \in Names : entries[m] = entries[n] /\ entries[m] \in Compilers => m = n

\* A tree that was not synchronized may lose any of its entries; its call is over,
\* and what is left of the stage is nothing anybody relies on.
PowerLoss ==
    /\ \/ /\ \E newer \in SUBSET {n \in Names : at[n] # disk[n]} :
                 Consistent(Recovered(newer)) /\ at' = Recovered(newer)
          /\ parent' = IF parent = "absent" THEN "absent" ELSE "rooted"
       \/ /\ parent = "fresh"
          /\ at' = [n \in Names |-> Free]
          /\ parent' = "absent"
    /\ disk' = at'
    /\ tree' = [c \in Compilers |-> IF kept[c] THEN tree[c] ELSE Untouched]
    /\ pc' = [c \in Compilers |-> IF pc[c] \in Running \ {"start"} THEN "dead" ELSE pc[c]]
    /\ stage' = [c \in Compilers |-> Free]
    /\ result' = [c \in Compilers |-> IF pc[c] = "returned" THEN result[c] ELSE "none"]
    /\ UNCHANGED <<kept, dest>>

CompilerStep(c) ==
    \/ Refuse(c) \/ CreateParent(c) \/ CreateStage(c) \/ FailEarly(c)
    \/ WriteFile(c) \/ SyncTree(c) \/ Verify(c) \/ Fail(c)
    \/ Publish(c) \/ FailToPublish(c)
    \/ Cleanup(c) \/ CleanupFails(c)
    \/ SyncParent(c) \/ SyncParentFails(c)

Next ==
    \/ \E c \in Compilers : CompilerStep(c) \/ Crash(c)
    \/ \E n \in Names : Occupy(n)
    \/ \E c \in Compilers, f \in Files : Tamper(c, f)
    \/ PowerLoss

Spec == Init /\ [][Next]_vars

-----------------------------------------------------------------------------
(* What holds. *)

\* Values of the variables; a guard names a stage, and a call that has not come to
\* its stage has none.
TypeOK ==
    /\ at \in [Names -> Holders] /\ disk \in [Names -> Holders]
    /\ parent \in {"absent", "fresh", "rooted"}
    /\ tree \in [Compilers -> [Files -> {"absent", "whole", "altered"}]]
    /\ kept \in [Compilers -> BOOLEAN]
    /\ pc \in [Compilers -> Running \cup {"returned", "dead"}]
    /\ dest \in [Compilers -> Destinations]
    /\ stage \in [Compilers -> StageNames \cup {Free}]
    /\ result \in [Compilers -> {"none", "done", "uncertain", "exists", "failed", "left"}]

\* An armed guard names the tree of its own call, so that removing the stage and
\* publishing it are about that tree (compile_with_hook: the guard is disarmed with
\* the rename, although the name may be used again at once).
GuardIsOwn ==
    \A c \in Compilers :
        pc[c] \in {"write", "sync", "verify", "publish", "cleanup"} =>
            stage[c] \in StageNames /\ at[stage[c]] = c

\* Under a destination there is a whole, verified and synchronized tree of a call
\* that was given that destination, or nothing of a compiler; also on disk, where
\* the rename may come before everything else (compile_with_hook: order of writing,
\* sync_directory_tree, verify and publish_directory_noreplace).
OutputsAreWhole ==
    \A d \in Destinations, c \in Compilers :
        c \in {at[d], disk[d]} => dest[c] = d /\ Whole(c) /\ kept[c]

\* An output that was answered as done and is there is also on disk
\* (compile_with_hook: sync_directory(parent) before the answer).
DoneIsDurable ==
    \A d \in Destinations, c \in Compilers :
        at[d] = c /\ pc[c] = "returned" /\ result[c] = "done" => disk[d] = c

\* Names are given up only by the call whose tree they name: no winner, no foreign
\* file and no other stage is ever removed or replaced
\* (publish_directory_noreplace, TempDir::close).
OnlyOwnTreesMove ==
    [][ \/ \A n \in Names :
               at[n] # Free /\ at'[n] # at[n] =>
                   /\ at'[n] = Free
                   /\ at[n] \in Compilers /\ pc'[at[n]] # pc[at[n]]
        \/ PowerLoss ]_vars

\* A call that returns leaves a stage behind exactly when it says so
\* (StagingDispositionFailed).
StageIsAccountedFor ==
    [][ \A c \in Compilers :
            pc[c] # "returned" /\ pc'[c] = "returned" =>
                ((\E s \in StageNames : at'[s] = c) <=> result'[c] = "left") ]_vars

\* A tree that is not whole under a destination would be no state of OutputSlots.
Torn == "torn"
Output == INSTANCE OutputSlots WITH
    Writers <- Compilers,
    Slots <- Destinations,
    slot <- [d \in Destinations |->
                IF at[d] \in Compilers /\ ~Whole(at[d]) THEN Torn ELSE at[d]],
    answer <- [c \in Compilers |-> IF pc[c] = "returned" THEN result[c] ELSE "none"],
    settled <- parent = "rooted"

\* Publication implements OutputSlots.
OutputSpec == Output!Spec
=============================================================================
