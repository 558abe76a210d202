-------------------------- MODULE CorpusBuild_proofs --------------------------
(***************************************************************************)
(* Proofs about CorpusBuild: what a file is sealed as, and what a note is    *)
(* rewritten from, whatever editors do to the vaults while they are read;   *)
(* that the builder accepts its own plan; and where rewritten links lead.   *)
(***************************************************************************)
EXTENDS CorpusBuild, FiniteSetTheorems, SequenceTheorems, WellFoundedInduction, TLAPS

-----------------------------------------------------------------------------
(* Numbers.                                                                 *)

LEMMA LeastExists ==
  ASSUME NEW U, U \subseteq Nat, U # {}
  PROVE  \E m \in U : \A k \in U : m <= k
<1> DEFINE T == {0..n : n \in U}
<1>1. T \subseteq FiniteSubsetsOf(Nat) /\ T # {}
  <2>1. ASSUME NEW n \in U PROVE 0..n \in FiniteSubsetsOf(Nat)
    BY FS_Interval DEF FiniteSubsetsOf
  <2> QED
    BY <2>1
<1>2. PICK x \in T : \A y \in T : <<y, x>> \notin StrictSubsetOrdering(Nat)
  <2> HIDE DEF T
  <2> QED
    BY <1>1, FS_StrictSubsetOrderingWellFounded, WFMin
<1>3. PICK m \in U : x = 0..m
  OBVIOUS
<1>4. ASSUME NEW k \in U, ~(m <= k) PROVE FALSE
  <2>1. k \in Nat /\ m \in Nat /\ k < m
    BY <1>4
  <2>2. 0..k \in T /\ 0..k \subseteq 0..m /\ m \in 0..m /\ m \notin 0..k
    BY <2>1
  <2>3. 0..k \subseteq Nat /\ 0..m \subseteq Nat
    BY <2>1
  <2> QED
    BY <1>2, <1>3, <2>2, <2>3 DEF StrictSubsetOrdering
<1> QED
  BY <1>4

\* Induction over a set of numbers.
LEMMA NumbersFollow ==
  ASSUME NEW T, 0 \in T, \A n \in Nat : n \in T => n + 1 \in T
  PROVE  Nat \subseteq T
<1> SUFFICES ASSUME ~(Nat \subseteq T) PROVE FALSE
  OBVIOUS
<1>1. PICK m \in Nat \ T : \A k \in Nat \ T : m <= k
  BY LeastExists
<1>2. m # 0 /\ m - 1 \in Nat
  BY <1>1
<1>3. m - 1 \in T
  BY <1>1, <1>2
<1>4. m - 1 + 1 = m
  BY <1>1
<1> QED
  BY <1>1, <1>2, <1>3, <1>4

-----------------------------------------------------------------------------
(* The invariant for what is sealed.                                        *)

\* The disks hold files and links, and every file is on record.
DiskOK ==
    /\ DOMAIN disk = Sources
    /\ \A s \in Sources : \A p \in DOMAIN disk[s] :
           /\ IsEntry(disk[s][p])
           /\ disk[s][p].what = "file" => <<s, p, disk[s][p].data>> \in had

\* A half done save is of a file that nobody removes.
SavingOK ==
    saving # NoSave =>
        /\ saving.source \in Sources /\ IsFile(saving.source, saving.path) /\ IsData(saving.data)

\* Nothing is read between two sources, and a file is read only on a walk.
WalkOK ==
    /\ walk = NoWalk => handle = NoHandle /\ entries = {}
    /\ walk # NoWalk => Reading
    /\ todo # {} => phase # "done"
    /\ phase = "inspecting" => /\ todo \subseteq Sources
                               /\ walk # NoWalk => walk.source \in Sources

\* The file being read: what was taken from it when it was opened is still so,
\* unless its time has moved or it was written within one tick.
HandleOK ==
    (phase = "inspecting" /\ handle.step = "reading") =>
        /\ handle = [path |-> handle.path, step |-> "reading", kept |-> handle.kept, link |-> handle.link,
                     head |-> handle.head, time |-> handle.time, size |-> handle.size]
        /\ handle.kept = <<>> => IsFile(walk.source, handle.path)
        /\ IsEntry(Open) /\ <<walk.source, handle.path, Open.data>> \in had
        /\ handle.time \in Nat /\ handle.time <= Open.time
        /\ Open.time = handle.time =>
               Open.data.head = handle.head \/ <<walk.source, handle.path>> \in coarse

\* What was read of a file it held at one moment, or it was written within one tick.
Whole(s, p, data) == <<s, p, data>> \in had \/ <<s, p>> \in coarse

EntriesOK == phase = "inspecting" => \A e \in entries : Whole(walk.source, e.original, e.data)

SealedOK == \A f \in sealed : Whole(f.source, f.original, f.data)

ReadInv == DiskOK /\ SavingOK /\ WalkOK /\ HandleOK /\ EntriesOK /\ SealedOK

-----------------------------------------------------------------------------
(* Steps of the editor.                                                     *)

\* What a step of the editor does to one file.
LEMMA PutOne ==
  ASSUME DiskOK, NEW s \in Sources, NEW p, NEW file
  PROVE  /\ DOMAIN Put(s, p, file) = Sources
         /\ \A t \in Sources : t # s => Put(s, p, file)[t] = disk[t]
         /\ DOMAIN Put(s, p, file)[s] = DOMAIN disk[s] \cup {p}
         /\ Put(s, p, file)[s][p] = file
         /\ \A q \in DOMAIN disk[s] : q # p => Put(s, p, file)[s][q] = disk[s][q]
  BY DEF Put, DiskOK

LEMMA DiskStays ==
  ASSUME DiskOK, NEW s \in Sources, NEW p, NEW file, IsEntry(file),
         disk' = Put(s, p, file), had \subseteq had',
         file.what = "file" => <<s, p, file.data>> \in had'
  PROVE  DiskOK'
<1>1. DOMAIN disk' = Sources
  BY PutOne
<1>2. ASSUME NEW t \in Sources, NEW q \in DOMAIN disk'[t]
      PROVE  /\ IsEntry(disk'[t][q])
             /\ disk'[t][q].what = "file" => <<t, q, disk'[t][q].data>> \in had'
  <2>1. CASE t = s /\ q = p
    BY <2>1, PutOne
  <2>2. CASE ~(t = s /\ q = p)
    <3>1. q \in DOMAIN disk[t] /\ disk'[t][q] = disk[t][q]
      BY <1>2, <2>2, PutOne
    <3> QED
      BY <3>1 DEF DiskOK
  <2> QED
    BY <2>1, <2>2
<1> QED
  BY <1>1, <1>2 DEF DiskOK

\* The file a reader has open is what it was, whatever its name is given to.
LEMMA HandleKept ==
  ASSUME ReadInv, NEW s, NEW p, KeepOpen(s, p),
         \A t \in Sources : \A q \in DOMAIN disk[t] :
             (t # s \/ q # p) => q \in DOMAIN disk'[t] /\ disk'[t][q] = disk[t][q],
         UNCHANGED <<phase, walk>>, had \subseteq had', coarse \subseteq coarse'
  PROVE  HandleOK' /\ (handle = NoHandle => handle' = NoHandle)
<1>1. CASE phase = "inspecting" /\ handle.step = "reading"
  <2>1. walk # NoWalk /\ walk.source \in Sources
    BY <1>1 DEF ReadInv, WalkOK, NoHandle
  <2>2. CASE walk.source = s /\ handle.path = p /\ handle.kept = <<>>
    <3>1. handle' = [handle EXCEPT !.kept = <<disk[s][p]>>]
      BY <1>1, <2>2 DEF KeepOpen
    <3>2. /\ handle' = [path |-> handle.path, step |-> "reading", kept |-> <<disk[s][p]>>, link |-> handle.link,
                         head |-> handle.head, time |-> handle.time, size |-> handle.size]
          /\ Open = disk[s][p]
      BY <1>1, <2>2, <3>1 DEF ReadInv, HandleOK, Open
    <3>3. handle'.kept # <<>> /\ Open' = Open
      BY <3>2 DEF Open
    <3> QED
      BY <1>1, <3>2, <3>3 DEF ReadInv, HandleOK, NoHandle
  <2>3. CASE ~(walk.source = s /\ handle.path = p /\ handle.kept = <<>>)
    <3>1. handle' = handle
      BY <2>3 DEF KeepOpen
    <3>2. CASE handle.kept = <<>>
      <4>1. IsFile(walk.source, handle.path)
        BY <1>1, <3>2 DEF ReadInv, HandleOK
      <4>2. IsFile(walk.source, handle.path)' /\ Open' = Open
        BY <2>1, <2>3, <3>1, <3>2, <4>1 DEF IsFile, Exists, Open
      <4> QED
        BY <1>1, <3>1, <4>2 DEF ReadInv, HandleOK
    <3>3. CASE handle.kept # <<>>
      <4>1. Open' = Open
        BY <3>1, <3>3 DEF Open
      <4> QED
        BY <1>1, <3>1, <3>3, <4>1 DEF ReadInv, HandleOK
    <3> QED
      BY <3>2, <3>3
  <2> QED
    BY <2>2, <2>3
<1>2. CASE phase = "inspecting" /\ handle.step # "reading"
  BY <1>2 DEF KeepOpen, HandleOK
<1>3. CASE phase # "inspecting"
  BY <1>3 DEF HandleOK, KeepOpen, NoHandle
<1> QED
  BY <1>1, <1>2, <1>3

LEMMA WrittenEntry ==
  ASSUME NEW old, NEW data, NEW tick \in {0, 1}, IsEntry(old)
  PROVE  [old EXCEPT !.data = data, !.time = @ + tick]
             = [what |-> old.what, data |-> data, time |-> old.time + tick]
<1> DEFINE new == [old EXCEPT !.data = data, !.time = @ + tick]
<1>1. DOMAIN old = {"what", "data", "time"}
  BY DEF IsEntry
<1>2. new.what = old.what /\ new.data = data /\ new.time = old.time + tick
  BY <1>1
<1>3. new = [k \in {"what", "data", "time"} |-> new[k]]
  BY <1>1
<1> HIDE DEF new
<1>4. new = [what |-> new.what, data |-> new.data, time |-> new.time]
  BY <1>3
<1>5. new = [what |-> old.what, data |-> data, time |-> old.time + tick]
  BY <1>2, <1>4
<1> QED
  BY <1>5 DEF new

\* A write in place: who had the file open sees it, and sees its time move or not.
LEMMA WriteKeeps ==
  ASSUME ReadInv, NEW s \in Sources, NEW p, NEW data, IsFile(s, p), IsData(data),
         Write(s, p, data), UNCHANGED <<phase, walk>>
  PROVE  /\ DiskOK' /\ HandleOK' /\ had \subseteq had' /\ coarse \subseteq coarse' /\ handle' = handle
         /\ \A t \in Sources : DOMAIN disk[t] \subseteq DOMAIN disk'[t]
         /\ \A t \in Sources : \A q : IsFile(t, q) => IsFile(t, q)'
<1>1. PICK tick \in {0, 1} :
         /\ disk' = Put(s, p, [disk[s][p] EXCEPT !.data = data, !.time = @ + tick])
         /\ coarse' = IF tick = 0 THEN coarse \cup {<<s, p>>} ELSE coarse
  BY DEF Write
<1> DEFINE file == [disk[s][p] EXCEPT !.data = data, !.time = @ + tick]
<1>2. had' = had \cup {<<s, p, data>>} /\ handle' = handle /\ coarse \subseteq coarse'
  BY <1>1 DEF Write
<1>3. p \in DOMAIN disk[s] /\ IsEntry(disk[s][p]) /\ disk[s][p].what = "file"
  BY DEF IsFile, Exists, ReadInv, DiskOK
<1>4. file = [what |-> "file", data |-> data, time |-> disk[s][p].time + tick]
  BY <1>3, WrittenEntry
<1>5. IsEntry(file) /\ file.what = "file" /\ file.data = data
  BY <1>3, <1>4 DEF IsEntry
<1>6. DiskOK /\ disk' = Put(s, p, file)
  BY <1>1 DEF ReadInv
<1> HIDE DEF file
<1>7. DiskOK'
  BY <1>2, <1>5, <1>6, DiskStays
<1>8. /\ \A t \in Sources : DOMAIN disk[t] \subseteq DOMAIN disk'[t]
      /\ \A t \in Sources : \A q \in DOMAIN disk[t] :
             (t # s \/ q # p) => disk'[t][q] = disk[t][q]
      /\ disk'[s][p] = file
  BY <1>6, PutOne
<1>9. \A t \in Sources : \A q : IsFile(t, q) => IsFile(t, q)'
  BY <1>5, <1>8 DEF IsFile, Exists
<1>10. HandleOK'
  <2> SUFFICES ASSUME phase = "inspecting", handle.step = "reading"
               PROVE  HandleOK'
    BY <1>2 DEF HandleOK
  <2>1. walk # NoWalk /\ walk.source \in Sources
    BY DEF ReadInv, WalkOK, NoHandle
  <2>2. CASE walk.source = s /\ handle.path = p /\ handle.kept = <<>>
    <3>1. Open = disk[s][p] /\ Open' = file
      BY <1>2, <1>8, <2>2 DEF Open
    <3>2. Open.time \in Nat /\ handle.time \in Nat /\ handle.time <= Open.time
      BY DEF ReadInv, HandleOK, IsEntry
    <3>3. Open'.time = Open.time + tick
      BY <1>4, <3>1 DEF file
    <3>4. handle.time <= Open'.time /\ (Open'.time = handle.time => tick = 0)
      BY <3>2, <3>3
    <3>5. tick = 0 => <<walk.source, handle.path>> \in coarse'
      BY <1>1, <2>2
    <3>6. IsFile(walk.source, handle.path)'
      BY <1>2, <1>3, <1>9, <2>2 DEF IsFile, Exists
    <3>7. <<walk.source, handle.path, Open'.data>> \in had' /\ IsEntry(Open')
      BY <1>2, <1>5, <2>2, <3>1
    <3>8. handle = [path |-> handle.path, step |-> "reading", kept |-> handle.kept, link |-> handle.link,
                     head |-> handle.head, time |-> handle.time, size |-> handle.size]
      BY DEF ReadInv, HandleOK
    <3> QED
      BY <1>2, <3>2, <3>4, <3>5, <3>6, <3>7, <3>8 DEF HandleOK
  <2>3. CASE ~(walk.source = s /\ handle.path = p /\ handle.kept = <<>>)
    <3>1. handle.kept = <<>> => IsFile(walk.source, handle.path)
      BY DEF ReadInv, HandleOK
    <3>2. Open' = Open
      BY <1>2, <1>8, <2>1, <2>3, <3>1 DEF Open, IsFile, Exists
    <3>3. handle.kept = <<>> => IsFile(walk.source, handle.path)'
      BY <1>2, <1>9, <2>1, <3>1 DEF IsFile, Exists
    <3> QED
      BY <1>2, <3>2, <3>3 DEF ReadInv, HandleOK
  <2> QED
    BY <2>2, <2>3
<1> QED
  BY <1>2, <1>7, <1>8, <1>9, <1>10

LEMMA EditorKeepsReading == ReadInv /\ Editor => ReadInv'
<1> SUFFICES ASSUME ReadInv, Editor PROVE ReadInv'
  OBVIOUS
<1>1. EditorMoves
  BY DEF Editor, SaveTail, SaveHead, Replace, Link, Unlink
<1>2. UNCHANGED <<phase, todo, walk, entries, sealed>>
  BY <1>1 DEF EditorMoves, planVars
<1>3. \A e : \A s \in Sources : e \in Edits(s) => IsData(e.data)
  BY VaultsAssumption
<1>4. ASSUME DiskOK', HandleOK', SavingOK', had \subseteq had', coarse \subseteq coarse',
             handle = NoHandle => handle' = NoHandle
      PROVE  ReadInv'
  BY <1>2, <1>4 DEF ReadInv, WalkOK, Reading, EntriesOK, SealedOK, Whole
<1>5. CASE SaveTail
  <2>1. /\ saving.source \in Sources /\ IsFile(saving.source, saving.path) /\ IsData(saving.data)
        /\ Write(saving.source, saving.path, saving.data) /\ saving' = NoSave
    BY <1>5 DEF SaveTail, ReadInv, SavingOK
  <2>2. DiskOK' /\ HandleOK' /\ had \subseteq had' /\ coarse \subseteq coarse' /\ handle' = handle
    BY <1>2, <2>1, WriteKeeps
  <2> QED
    BY <1>4, <2>1, <2>2 DEF SavingOK
<1>6. ASSUME NEW s \in Sources, NEW e \in Edits(s), SaveHead(s, e) PROVE ReadInv'
  <2> DEFINE half == [disk[s][e.path].data EXCEPT !.head = e.data.head]
  <2>1. /\ IsFile(s, e.path) /\ Write(s, e.path, half)
        /\ saving' = [source |-> s, path |-> e.path, data |-> e.data]
    BY <1>6 DEF SaveHead
  <2>2. IsData(disk[s][e.path].data)
    BY <2>1 DEF ReadInv, DiskOK, IsFile, Exists, IsEntry
  <2>3. IsData(half)
    <3>1. half.head = e.data.head /\ half = [head |-> half.head, tail |-> half.tail]
      BY <2>2 DEF IsData
    <3> HIDE DEF half
    <3> QED
      BY <1>3, <3>1 DEF IsData
  <2> HIDE DEF half
  <2>4. /\ DiskOK' /\ HandleOK' /\ had \subseteq had' /\ coarse \subseteq coarse' /\ handle' = handle
        /\ \A t \in Sources : \A q : IsFile(t, q) => IsFile(t, q)'
    BY <1>2, <2>1, <2>3, WriteKeeps
  <2>5. SavingOK'
    BY <1>3, <2>1, <2>4 DEF SavingOK
  <2> QED
    BY <1>4, <2>4, <2>5
<1>7. ASSUME NEW s \in Sources, NEW p, NEW file, IsEntry(file), saving = NoSave, saving' = saving,
             disk' = Put(s, p, file), had \subseteq had', coarse' = coarse,
             file.what = "file" => <<s, p, file.data>> \in had', KeepOpen(s, p)
      PROVE  ReadInv'
  <2>1. DiskOK /\ DiskOK'
    BY <1>7, DiskStays DEF ReadInv
  <2>2. \A t \in Sources : \A q \in DOMAIN disk[t] :
            (t # s \/ q # p) => q \in DOMAIN disk'[t] /\ disk'[t][q] = disk[t][q]
    BY <1>7, <2>1, PutOne
  <2>3. HandleOK' /\ (handle = NoHandle => handle' = NoHandle)
    BY <1>2, <1>7, <2>2, HandleKept
  <2> QED
    BY <1>4, <1>7, <2>1, <2>3 DEF SavingOK
<1>8. ASSUME NEW s \in Sources, NEW e \in Edits(s), Replace(s, e) PROVE ReadInv'
  <2> DEFINE file == [what |-> "file", data |-> e.data, time |-> 0]
  <2>1. IsEntry(file)
    BY <1>3 DEF IsEntry
  <2>2. file.what = "file" => <<s, e.path, file.data>> \in had \cup {<<s, e.path, e.data>>}
    OBVIOUS
  <2>3. /\ saving = NoSave /\ saving' = saving /\ disk' = Put(s, e.path, file) /\ coarse' = coarse
        /\ had' = had \cup {<<s, e.path, e.data>>} /\ KeepOpen(s, e.path)
    BY <1>8 DEF Replace
  <2> HIDE DEF file
  <2> QED
    BY <1>7, <2>1, <2>2, <2>3
<1>9. ASSUME NEW s \in Sources, NEW e \in Edits(s), Link(s, e) PROVE ReadInv'
  <2> DEFINE file == [what |-> "link", data |-> e.data, time |-> 0]
  <2>1. IsEntry(file) /\ file.what # "file"
    BY <1>3 DEF IsEntry
  <2>2. /\ saving = NoSave /\ saving' = saving /\ disk' = Put(s, e.path, file) /\ coarse' = coarse
        /\ had' = had /\ KeepOpen(s, e.path)
    BY <1>9 DEF Link
  <2> HIDE DEF file
  <2> QED
    BY <1>7, <2>1, <2>2
<1>10. ASSUME NEW s \in Sources, NEW p, Unlink(s, p) PROVE ReadInv'
  <2>1. /\ saving = NoSave /\ saving' = saving /\ coarse' = coarse /\ had' = had /\ KeepOpen(s, p)
        /\ disk' = [disk EXCEPT ![s] = [q \in DOMAIN @ \ {p} |-> @[q]]]
    BY <1>10 DEF Unlink
  <2>2. /\ DOMAIN disk' = Sources
        /\ \A t \in Sources : t # s => disk'[t] = disk[t]
        /\ DOMAIN disk'[s] = DOMAIN disk[s] \ {p}
        /\ \A q \in DOMAIN disk[s] : q # p => disk'[s][q] = disk[s][q]
    BY <2>1 DEF ReadInv, DiskOK
  <2>3. \A t \in Sources : \A q \in DOMAIN disk[t] :
            (t # s \/ q # p) => q \in DOMAIN disk'[t] /\ disk'[t][q] = disk[t][q]
    BY <2>2
  <2>4. \A t \in Sources : \A q \in DOMAIN disk'[t] : q \in DOMAIN disk[t] /\ disk'[t][q] = disk[t][q]
    BY <2>2
  <2>5. DiskOK'
    BY <2>1, <2>2, <2>4 DEF ReadInv, DiskOK
  <2>6. HandleOK' /\ (handle = NoHandle => handle' = NoHandle)
    BY <1>2, <2>1, <2>3, HandleKept
  <2> QED
    BY <1>4, <2>1, <2>5, <2>6 DEF SavingOK
<1> QED
  BY <1>5, <1>6, <1>8, <1>9, <1>10 DEF Editor

-----------------------------------------------------------------------------
(* Steps of the builder.                                                    *)

\* Among the sources that are left there is a nearest one.
LEMMA NearestIsLeft ==
  ASSUME todo \subseteq Nat, todo # {}
  PROVE  Nearest \in todo
  BY LeastExists DEF Nearest

LEMMA FailKeepsReading ==
  ASSUME ReadInv, NEW why, Fail(why)
  PROVE  ReadInv'
<1>1. /\ UNCHANGED <<disk, saving, had, coarse>> /\ phase' = "failed" /\ walk' = NoWalk
      /\ handle' = NoHandle /\ entries' = {} /\ todo' = {} /\ sealed' = {}
  BY DEF Fail, editorVars
<1>2. DiskOK' /\ SavingOK'
  BY <1>1 DEF ReadInv, DiskOK, SavingOK, IsFile, Exists
<1> QED
  BY <1>1, <1>2 DEF ReadInv, WalkOK, HandleOK, EntriesOK, SealedOK

\* What a step of the builder leaves alone.
LEMMA EditorIsElsewhere ==
  ASSUME ReadInv, UNCHANGED editorVars
  PROVE  /\ DiskOK' /\ SavingOK'
         /\ UNCHANGED <<disk, saving, had, coarse>>
         /\ \A s, p : IsFile(s, p) <=> IsFile(s, p)'
  BY DEF editorVars, ReadInv, DiskOK, SavingOK, IsFile, Exists

LEMMA SourceReadKeepsReading ==
  ASSUME ReadInv, handle = NoHandle, NEW s, NEW read, SourceRead(s, read), phase # "done",
         phase = "inspecting" => \A e \in read : Whole(s, e.original, e.data)
  PROVE  ReadInv'
<1>1. CASE phase = "inspecting"
  <2>1. Seal(s, read)
    BY <1>1 DEF SourceRead
  <2>2. CASE \E why : Fail(why)
    BY <2>2, FailKeepsReading
  <2>3. CASE ~\E why : Fail(why)
    <3>1. /\ sealed' = sealed \cup Sealed(s, read)
          /\ todo' = todo \ {s}
          /\ phase' = IF todo' = {} THEN "planning" ELSE phase
          /\ walk' = NoWalk /\ entries' = {}
          /\ UNCHANGED <<editorVars, handle, plan, outputs, error>>
      BY <2>1, <2>3 DEF Seal
    <3>2. DiskOK' /\ SavingOK' /\ UNCHANGED <<disk, saving, had, coarse>>
      BY <3>1, EditorIsElsewhere
    <3>3. SealedOK'
      <4>1. ASSUME NEW f \in Sealed(s, read) PROVE Whole(f.source, f.original, f.data)
        <5>1. PICK e \in read : f = [source |-> s, original |-> e.original, path |-> e.path, data |-> e.data]
          BY DEF Sealed
        <5>2. f.source = s /\ f.original = e.original /\ f.data = e.data
          BY <5>1
        <5> QED
          BY <1>1, <5>2
      <4>2. \A f \in sealed' : Whole(f.source, f.original, f.data)
        BY <3>1, <4>1 DEF ReadInv, SealedOK
      <4> QED
        BY <3>2, <4>2 DEF SealedOK, Whole
    <3> QED
      BY <1>1, <3>1, <3>2, <3>3 DEF ReadInv, WalkOK, HandleOK, EntriesOK, NoHandle
  <2> QED
    BY <2>2, <2>3
<1>2. CASE phase # "inspecting"
  <2>1. RenderSource(s, read)
    BY <1>2 DEF SourceRead
  <2>2. CASE \E why : Fail(why)
    BY <2>2, FailKeepsReading
  <2>3. CASE ~\E why : Fail(why)
    <3>1. /\ todo' = todo \ {s}
          /\ walk' = NoWalk /\ entries' = {}
          /\ IF todo' = {} THEN Finish(plan) ELSE UNCHANGED <<phase, error>>
          /\ UNCHANGED <<editorVars, handle, sealed, plan>>
      BY <2>1, <2>3 DEF RenderSource
    <3>2. DiskOK' /\ SavingOK' /\ UNCHANGED <<disk, saving, had, coarse>>
      BY <3>1, EditorIsElsewhere
    <3>3. phase' # "inspecting" /\ (todo' # {} => phase' # "done")
      BY <1>2, <3>1 DEF Finish
    <3> QED
      BY <3>1, <3>2, <3>3 DEF ReadInv, WalkOK, HandleOK, EntriesOK, SealedOK, Whole
  <2> QED
    BY <2>2, <2>3
<1> QED
  BY <1>1, <1>2

LEMMA EndFileKeepsReading ==
  ASSUME ReadInv, EndFile
  PROVE  ReadInv'
<1>1. CASE \E why : Fail(why)
  BY <1>1, FailKeepsReading
<1>2. CASE ~\E why : Fail(why)
  <2> DEFINE e == [original |-> handle.path, path |-> Nfc(handle.path), data |-> WasRead]
  <2>1. /\ Unchanged /\ handle.step = "reading"
        /\ entries' = entries \cup {e} /\ handle' = NoHandle
        /\ UNCHANGED <<editorVars, phase, todo, walk, planVars, error>>
    BY <1>2 DEF EndFile
  <2>2. DiskOK' /\ SavingOK' /\ UNCHANGED <<disk, saving, had, coarse>>
    BY <2>1, EditorIsElsewhere
  <2>3. phase = "inspecting" => Whole(walk.source, e.original, e.data)
    <3> SUFFICES ASSUME phase = "inspecting" PROVE Whole(walk.source, handle.path, WasRead)
      OBVIOUS
    <3>1. /\ IsEntry(Open) /\ <<walk.source, handle.path, Open.data>> \in had
          /\ Open.time = handle.time =>
                 Open.data.head = handle.head \/ <<walk.source, handle.path>> \in coarse
      BY <2>1 DEF ReadInv, HandleOK
    <3>2. CASE Open.data.head = handle.head
      <4>1. WasRead = Open.data
        BY <3>1, <3>2 DEF WasRead, IsEntry, IsData
      <4> QED
        BY <3>1, <4>1 DEF Whole
    <3>3. CASE Open.data.head # handle.head
      BY <2>1, <3>1, <3>3 DEF Whole, Unchanged
    <3> QED
      BY <3>2, <3>3
  <2>4. EntriesOK'
    BY <2>1, <2>2, <2>3 DEF ReadInv, EntriesOK, Whole
  <2>5. walk # NoWalk
    BY <2>1 DEF ReadInv, WalkOK, NoHandle
  <2> QED
    BY <2>1, <2>2, <2>4, <2>5 DEF ReadInv, WalkOK, HandleOK, SealedOK, Whole, NoHandle, planVars, Reading
<1> QED
  BY <1>1, <1>2

LEMMA BeginFileKeepsReading ==
  ASSUME ReadInv, BeginFile
  PROVE  ReadInv'
<1>1. CASE \E why : Fail(why)
  BY <1>1, FailKeepsReading
<1>2. CASE ~\E why : Fail(why)
  <2>1. /\ handle.step = "found" /\ IsFile(walk.source, handle.path)
        /\ handle' = [path |-> handle.path, step |-> "reading", kept |-> <<>>,
                      link |-> disk[walk.source][handle.path].what,
                      head |-> disk[walk.source][handle.path].data.head,
                      time |-> disk[walk.source][handle.path].time,
                      size |-> Size(disk[walk.source][handle.path].data)]
        /\ UNCHANGED <<editorVars, phase, todo, walk, entries, planVars, error>>
    BY <1>2 DEF BeginFile, OpenFile
  <2>2. DiskOK' /\ SavingOK' /\ UNCHANGED <<disk, saving, had, coarse>>
    BY <2>1, EditorIsElsewhere
  <2>3. walk # NoWalk
    BY <2>1 DEF ReadInv, WalkOK, NoHandle
  <2>4. HandleOK'
    <3> SUFFICES ASSUME phase = "inspecting" PROVE HandleOK'
      BY <2>1 DEF HandleOK
    <3> DEFINE file == disk[walk.source][handle.path]
    <3>1. handle'.path = handle.path /\ handle'.kept = <<>> /\ handle'.time = file.time /\ handle'.head = file.data.head
      BY <2>1
    <3>2. Open' = file
      BY <2>1, <2>2, <3>1 DEF Open
    <3>3. IsEntry(file) /\ <<walk.source, handle.path, file.data>> \in had
      BY <2>1, <2>3 DEF ReadInv, DiskOK, WalkOK, IsFile, Exists
    <3>4. file.time \in Nat /\ file.time <= file.time
      BY <3>3 DEF IsEntry
    <3>5. IsFile(walk.source, handle.path)'
      BY <2>1, <2>2, <3>1 DEF IsFile, Exists
    <3> HIDE DEF file
    <3>6. handle' = [path |-> handle'.path, step |-> "reading", kept |-> handle'.kept, link |-> handle'.link,
                     head |-> handle'.head, time |-> handle'.time, size |-> handle'.size]
      BY <2>1
    <3> QED
      BY <2>1, <2>2, <3>1, <3>2, <3>3, <3>4, <3>5, <3>6 DEF HandleOK
  <2> QED
    BY <2>1, <2>2, <2>3, <2>4 DEF ReadInv, WalkOK, EntriesOK, SealedOK, Whole, planVars, Reading
<1> QED
  BY <1>1, <1>2

LEMMA MembersAreWhole ==
  ASSUME DiskOK, NEW s \in Sources, NEW e \in Members(s)
  PROVE  Whole(s, e.original, e.data)
<1>1. PICK p \in DOMAIN disk[s] :
          IsFile(s, p) /\ e = [original |-> p, path |-> Nfc(p), data |-> disk[s][p].data]
  BY DEF Members
<1>2. <<s, p, disk[s][p].data>> \in had
  BY <1>1 DEF DiskOK, IsFile
<1> QED
  BY <1>1, <1>2 DEF Whole

LEMMA BuilderKeepsReading == ReadInv /\ Builder => ReadInv'
<1> SUFFICES ASSUME ReadInv, Builder PROVE ReadInv'
  OBVIOUS
<1>1. CASE OpenSource
  <2>1. /\ Reading /\ todo # {} /\ walk = NoWalk /\ handle = NoHandle /\ entries = {}
        /\ walk'.source = Nearest
        /\ UNCHANGED <<editorVars, phase, todo, handle, entries, planVars, error>>
    BY <1>1 DEF OpenSource, ReadInv, WalkOK
  <2>2. phase = "inspecting" => Nearest \in Sources
    BY <2>1, NearestIsLeft, VaultsAssumption DEF ReadInv, WalkOK
  <2>3. DiskOK' /\ SavingOK' /\ UNCHANGED <<disk, saving, had, coarse>>
    BY <2>1, EditorIsElsewhere
  <2> QED
    BY <2>1, <2>2, <2>3 DEF ReadInv, WalkOK, HandleOK, EntriesOK, SealedOK, Whole, planVars, NoHandle, Reading
<1>2. ASSUME NEW p, Visit(p) PROVE ReadInv'
  <2>1. CASE \E why : Fail(why)
    BY <2>1, FailKeepsReading
  <2>2. CASE ~\E why : Fail(why)
    <3>1. /\ walk # NoWalk /\ walk' = [walk EXCEPT !.seen = @ \cup {p}]
          /\ handle' = NoHandle \/ handle' = [path |-> p, step |-> "found"]
          /\ UNCHANGED <<editorVars, phase, todo, entries, planVars, error>>
      BY <1>2, <2>2 DEF Visit
    <3>2. DiskOK' /\ SavingOK' /\ UNCHANGED <<disk, saving, had, coarse>>
      BY <3>1, EditorIsElsewhere
    <3>3. walk'.source = walk.source
      BY <3>1
    <3>4. walk' # NoWalk
      BY <3>1, <3>3 DEF NoWalk
    <3> QED
      BY <3>1, <3>2, <3>3, <3>4 DEF ReadInv, WalkOK, HandleOK, EntriesOK, SealedOK, Whole, planVars, NoHandle, Reading
  <2> QED
    BY <2>1, <2>2
<1>3. CASE BeginFile
  BY <1>3, BeginFileKeepsReading
<1>4. CASE EndFile
  BY <1>4, EndFileKeepsReading
<1>5. CASE CloseSource
  <2>1. walk # NoWalk /\ handle = NoHandle /\ SourceRead(walk.source, entries)
    BY <1>5 DEF CloseSource, Walked
  <2>2. phase # "done"
    BY <2>1 DEF ReadInv, WalkOK, Reading
  <2> QED
    BY <2>1, <2>2, SourceReadKeepsReading DEF ReadInv, EntriesOK
<1>6. CASE ReadArchive
  <2>1. CASE \E why : Fail(why)
    BY <2>1, FailKeepsReading
  <2>2. CASE ~\E why : Fail(why)
    <3>1. Reading /\ todo # {} /\ walk = NoWalk /\ SourceRead(Nearest, Members(Nearest))
      BY <1>6, <2>2 DEF ReadArchive
    <3>2. handle = NoHandle /\ phase # "done"
      BY <3>1 DEF ReadInv, WalkOK, Reading
    <3>3. phase = "inspecting" => \A e \in Members(Nearest) : Whole(Nearest, e.original, e.data)
      BY <3>1, NearestIsLeft, MembersAreWhole, VaultsAssumption DEF ReadInv, WalkOK
    <3> QED
      BY <3>1, <3>2, <3>3, SourceReadKeepsReading
  <2> QED
    BY <2>1, <2>2
<1>7. CASE BuildPlan
  <2>1. CASE \E why : Fail(why)
    BY <2>1, FailKeepsReading
  <2>2. CASE ~\E why : Fail(why)
    <3>1. /\ phase = "planning"
          /\ IF todo' = {} THEN Finish(Draft(sealed)) ELSE phase' = "rereading" /\ error' = None
          /\ UNCHANGED <<editorVars, walk, handle, entries, sealed>>
      BY <1>7, <2>2 DEF BuildPlan
    <3>2. DiskOK' /\ SavingOK' /\ UNCHANGED <<disk, saving, had, coarse>>
      BY <3>1, EditorIsElsewhere
    <3>3. phase' # "inspecting" /\ (todo' # {} => phase' # "done")
      BY <3>1 DEF Finish
    <3>4. walk = NoWalk
      BY <3>1 DEF ReadInv, WalkOK, Reading
    <3> QED
      BY <3>1, <3>2, <3>3, <3>4 DEF ReadInv, WalkOK, HandleOK, EntriesOK, SealedOK, Whole
  <2> QED
    BY <2>1, <2>2
<1> QED
  BY <1>1, <1>2, <1>3, <1>4, <1>5, <1>6, <1>7 DEF Builder

LEMMA InitReads == Init => ReadInv
<1> SUFFICES ASSUME Init PROVE ReadInv
  OBVIOUS
<1>1. PICK b \in Beginnings : disk = b.disk
  BY DEF Init
<1>2. DiskOK
  <2>1. \A s \in Sources : \A p \in DOMAIN disk[s] : <<s, p, disk[s][p].data>> \in had
    BY DEF Init
  <2> QED
    BY <1>1, <2>1, VaultsAssumption DEF DiskOK
<1> QED
  BY <1>2 DEF Init, ReadInv, SavingOK, WalkOK, HandleOK, EntriesOK, SealedOK, NoHandle

LEMMA ReadInvIsKept == Spec => []ReadInv
<1>1. ReadInv /\ [Next]_vars => ReadInv'
  <2> SUFFICES ASSUME ReadInv, [Next]_vars PROVE ReadInv'
    OBVIOUS
  <2>1. CASE UNCHANGED vars
    <3>1. DiskOK' /\ SavingOK'
      BY <2>1, EditorIsElsewhere DEF vars
    <3> QED
      BY <2>1, <3>1 DEF vars, editorVars, readerVars, planVars, ReadInv, WalkOK, Reading, HandleOK, Open, IsFile,
                       Exists, EntriesOK, SealedOK, Whole
  <2> QED
    BY <2>1, BuilderKeepsReading, EditorKeepsReading DEF Next
<1> QED
  BY <1>1, InitReads, PTL DEF Spec

\* Whatever editors do to the vaults, and whenever, what is sealed of a file the
\* file held at one moment, or it was written within one tick of the clock: a file
\* that is opened beneath its source and has the length and the time it had when it
\* was opened is read as one (read_limited_file, open_file).
THEOREM SealedFilesAreWhole == Spec => []FilesAreWhole
<1>1. ReadInv => FilesAreWhole
  BY DEF ReadInv, SealedOK, Whole, FilesAreWhole
<1> QED
  BY <1>1, ReadInvIsKept, PTL

-----------------------------------------------------------------------------
(* The invariant for what is rewritten.                                     *)

\* A walk comes upon every name once, and reads every file once.
OncePerName ==
    /\ walk = [source |-> walk.source, listed |-> walk.listed, seen |-> walk.seen]
    /\ walk = NoWalk => handle = NoHandle /\ entries = {}
    /\ walk # NoWalk => Reading
    /\ handle.step = "reading" =>
           handle = [path |-> handle.path, step |-> "reading", kept |-> handle.kept, link |-> handle.link,
                     head |-> handle.head, time |-> handle.time, size |-> handle.size]
    /\ handle.step \in {"found", "reading"} =>
           handle.path \in walk.seen /\ \A e \in entries : e.original # handle.path
    /\ \A p, q \in walk.seen : Nfc(p) = Nfc(q) => p = q
    /\ \A e \in entries : e.original \in walk.seen /\ e.path = Nfc(e.original)
    /\ \A e, g \in entries : e.original = g.original => e = g

\* Two texts that differ in their links at most.
SameText(a, b) == [a EXCEPT !.head.links = <<>>] = [b EXCEPT !.head.links = <<>>]

\* What is rendered is the text of a sealed file that the plan rewrites.
RenderedIsSealed ==
    \A at \in DOMAIN outputs : \E op \in plan.operations :
        op.what = "rewrite" /\ op.at = at /\ SameText(outputs[at], op.from.data)

\* What the plan rewrites is rendered, and read alike if it is a note, or its source
\* is still to be read.
RewritesAreRendered ==
    \A op \in plan.operations :
        /\ (op.what = "rewrite" /\ Kind(op.from.path) = "canvas") => op.at \in DOMAIN outputs
        /\ (op.what = "rewrite" /\ Kind(op.from.path) = "markdown") =>
               (op.at \in DOMAIN outputs /\ ReadsAlike(op.from, op.links)) \/ op.from.source \in todo

\* Before there is a plan nothing is rendered, and a plan is finished once it is valid.
PhasesOK ==
    /\ phase \in {"inspecting", "planning"} => plan = NoPlan /\ outputs = <<>>
    /\ phase = "done" => ValidPlan(plan, Sources) /\ todo = {}

RewriteInv == OncePerName /\ RenderedIsSealed /\ RewritesAreRendered /\ PhasesOK

LEMMA LinksAside ==
  ASSUME NEW d, NEW l
  PROVE  SameText([d EXCEPT !.head.links = l], d)
  BY DEF SameText

LEMMA EditorKeepsRewrites == RewriteInv /\ Editor => RewriteInv'
<1> SUFFICES ASSUME RewriteInv, Editor PROVE RewriteInv'
  OBVIOUS
<1>1. /\ phase # "done" /\ UNCHANGED <<phase, todo, walk, entries, plan, outputs>>
  BY DEF Editor, SaveTail, SaveHead, Replace, Link, Unlink, EditorMoves, planVars
<1>2. handle' = handle \/ \E s, p : KeepOpen(s, p)
  BY DEF Editor, SaveTail, SaveHead, Replace, Link, Unlink, Write
<1>3. OncePerName'
  <2>1. CASE handle' = handle
    BY <1>1, <2>1 DEF RewriteInv, OncePerName, Reading
  <2>2. CASE handle' # handle
    <3>1. PICK s, p : KeepOpen(s, p)
      BY <1>2, <2>2
    <3>2. handle.step = "reading" /\ handle' = [handle EXCEPT !.kept = <<disk[s][p]>>]
      BY <2>2, <3>1 DEF KeepOpen
    <3>3. handle' = [path |-> handle.path, step |-> "reading", kept |-> <<disk[s][p]>>, link |-> handle.link,
                     head |-> handle.head, time |-> handle.time, size |-> handle.size]
      BY <3>2 DEF RewriteInv, OncePerName
    <3>4. walk # NoWalk
      BY <3>2 DEF RewriteInv, OncePerName, NoHandle
    <3> QED
      BY <1>1, <3>2, <3>3, <3>4 DEF RewriteInv, OncePerName, Reading
  <2> QED
    BY <2>1, <2>2
<1> QED
  BY <1>1, <1>3 DEF RewriteInv, RenderedIsSealed, RewritesAreRendered, PhasesOK

LEMMA FailKeepsRewrites ==
  ASSUME NEW why, Fail(why)
  PROVE  RewriteInv'
<1>1. /\ phase' = "failed" /\ walk' = NoWalk /\ handle' = NoHandle /\ entries' = {}
      /\ plan' = NoPlan /\ outputs' = <<>>
  BY DEF Fail
<1> QED
  BY <1>1 DEF RewriteInv, OncePerName, RenderedIsSealed, RewritesAreRendered, PhasesOK, NoWalk, NoHandle, NoPlan

\* The steps that only read leave plan and outputs alone.
LEMMA ReadingKeepsRewrites ==
  ASSUME RewriteInv, OncePerName', UNCHANGED <<phase, todo, plan, outputs>>
  PROVE  RewriteInv'
  BY DEF RewriteInv, RenderedIsSealed, RewritesAreRendered, PhasesOK

LEMMA BetweenSources ==
  ASSUME walk' = NoWalk, handle' = NoHandle, entries' = {}
  PROVE  OncePerName'
  BY DEF OncePerName, NoWalk, NoHandle

LEMMA VisitKeepsRewrites ==
  ASSUME RewriteInv, NEW p, Visit(p)
  PROVE  RewriteInv'
<1>1. CASE \E why : Fail(why)
  BY <1>1, FailKeepsRewrites
<1>2. CASE ~\E why : Fail(why)
  <2>1. /\ walk # NoWalk /\ handle = NoHandle /\ p \notin walk.seen
        /\ \A q \in walk.seen : Nfc(q) # Nfc(p)
        /\ walk' = [walk EXCEPT !.seen = @ \cup {p}]
        /\ handle' = NoHandle \/ handle' = [path |-> p, step |-> "found"]
        /\ UNCHANGED <<phase, todo, entries, plan, outputs>>
    BY <1>2 DEF Visit, planVars
  <2>2. walk' = [source |-> walk.source, listed |-> walk.listed, seen |-> walk.seen \cup {p}]
    BY <2>1 DEF RewriteInv, OncePerName
  <2>3. walk' # NoWalk
    BY <2>2 DEF NoWalk
  <2>4. \A e \in entries : e.original # p
    BY <2>1 DEF RewriteInv, OncePerName
  <2>5. /\ handle'.step # "reading"
        /\ handle'.step = "found" => handle'.path = p
    BY <2>1 DEF NoHandle
  <2>6. /\ walk'.seen = walk.seen \cup {p}
        /\ walk' = [source |-> walk'.source, listed |-> walk'.listed, seen |-> walk'.seen]
    BY <2>2
  <2>7. \A q, r \in walk'.seen : Nfc(q) = Nfc(r) => q = r
    BY <2>1, <2>6 DEF RewriteInv, OncePerName
  <2>8. /\ \A e \in entries' : e.original \in walk'.seen /\ e.path = Nfc(e.original)
        /\ \A e, g \in entries' : e.original = g.original => e = g
    BY <2>1, <2>6 DEF RewriteInv, OncePerName
  <2>9. handle'.step \in {"found", "reading"} =>
            handle'.path \in walk'.seen /\ \A e \in entries' : e.original # handle'.path
    BY <2>1, <2>4, <2>5, <2>6
  <2>10. Reading'
    BY <2>1 DEF RewriteInv, OncePerName, Reading
  <2>11. OncePerName'
    BY <2>3, <2>5, <2>6, <2>7, <2>8, <2>9, <2>10 DEF OncePerName
  <2> QED
    BY <2>1, <2>11, ReadingKeepsRewrites
<1> QED
  BY <1>1, <1>2

LEMMA BeginFileKeepsRewrites ==
  ASSUME RewriteInv, BeginFile
  PROVE  RewriteInv'
<1>1. CASE \E why : Fail(why)
  BY <1>1, FailKeepsRewrites
<1>2. CASE ~\E why : Fail(why)
  <2>1. /\ handle.step = "found"
        /\ handle' = [path |-> handle.path, step |-> "reading", kept |-> <<>>,
                      link |-> disk[walk.source][handle.path].what,
                      head |-> disk[walk.source][handle.path].data.head,
                      time |-> disk[walk.source][handle.path].time,
                      size |-> Size(disk[walk.source][handle.path].data)]
        /\ UNCHANGED <<phase, todo, walk, entries, plan, outputs>>
    BY <1>2 DEF BeginFile, planVars
  <2>2. walk # NoWalk
    BY <2>1 DEF RewriteInv, OncePerName, NoHandle
  <2>3. OncePerName'
    BY <2>1, <2>2 DEF RewriteInv, OncePerName, Reading
  <2> QED
    BY <2>1, <2>3, ReadingKeepsRewrites
<1> QED
  BY <1>1, <1>2

LEMMA EndFileKeepsRewrites ==
  ASSUME RewriteInv, EndFile
  PROVE  RewriteInv'
<1>1. CASE \E why : Fail(why)
  BY <1>1, FailKeepsRewrites
<1>2. CASE ~\E why : Fail(why)
  <2> DEFINE e == [original |-> handle.path, path |-> Nfc(handle.path), data |-> WasRead]
  <2>1. /\ handle.step = "reading" /\ handle' = NoHandle /\ entries' = entries \cup {e}
        /\ UNCHANGED <<phase, todo, walk, plan, outputs>>
    BY <1>2 DEF EndFile, planVars
  <2>2. e.original = handle.path /\ e.path = Nfc(e.original)
    OBVIOUS
  <2> HIDE DEF e
  <2>3. walk # NoWalk
    BY <2>1 DEF RewriteInv, OncePerName, NoHandle
  <2>4. handle.path \in walk.seen /\ \A g \in entries : g.original # handle.path
    BY <2>1 DEF RewriteInv, OncePerName
  <2>5. OncePerName'
    BY <2>1, <2>2, <2>3, <2>4 DEF RewriteInv, OncePerName, NoHandle, Reading
  <2> QED
    BY <2>1, <2>5, ReadingKeepsRewrites
<1> QED
  BY <1>1, <1>2

LEMMA SealKeepsRewrites ==
  ASSUME RewriteInv, handle = NoHandle, phase = "inspecting", NEW s, NEW read, Seal(s, read)
  PROVE  RewriteInv'
<1>1. CASE \E why : Fail(why)
  BY <1>1, FailKeepsRewrites
<1>2. CASE ~\E why : Fail(why)
  <2>1. /\ phase' \in {"inspecting", "planning"} /\ walk' = NoWalk /\ entries' = {}
        /\ UNCHANGED <<handle, plan, outputs>>
    BY <1>2 DEF Seal
  <2>2. OncePerName'
    BY <2>1, BetweenSources
  <2> QED
    BY <2>1, <2>2 DEF RewriteInv, RenderedIsSealed, RewritesAreRendered, PhasesOK, NoPlan
<1> QED
  BY <1>1, <1>2

\* Two reads of one source that agree on a path agree on the file.
OnePerPath(read) == \A e, g \in read : e.path = g.path => e = g

\* A note is rendered from the text that was sealed of it.
LEMMA OutputIsSealedText ==
  ASSUME NEW op, NEW read, OnePerPath(read), AsSealed(op.from, read)
  PROVE  SameText(Output(op, read), op.from.data)
<1>1. PICK e \in read : e.path = op.from.path /\ e.data = op.from.data
  BY DEF AsSealed
<1>2. (CHOOSE x \in read : x.path = op.from.path) = e
  <2>1. (CHOOSE x \in read : x.path = op.from.path) \in {x \in read : x.path = op.from.path}
    BY <1>1
  <2> QED
    BY <1>1, <2>1 DEF OnePerPath
<1>3. Output(op, read) = [op.from.data EXCEPT !.head.links = op.links]
  BY <1>1, <1>2 DEF Output
<1> QED
  BY <1>3, LinksAside

LEMMA RenderKeepsRewrites ==
  ASSUME RewriteInv, handle = NoHandle, phase # "inspecting", phase # "planning",
         NEW s, NEW read, OnePerPath(read), RenderSource(s, read)
  PROVE  RewriteInv'
<1>1. CASE \E why : Fail(why)
  BY <1>1, FailKeepsRewrites
<1>2. CASE ~\E why : Fail(why)
  <2>1. /\ \A op \in Rewrites(s) : AsSealed(op.from, read) /\ ReadsAlike(op.from, op.links)
        /\ outputs' = [at \in DOMAIN outputs \cup {op.at : op \in Rewrites(s)} |->
                            IF at \in DOMAIN outputs THEN outputs[at]
                            ELSE Output(CHOOSE op \in Rewrites(s) : op.at = at, read)]
        /\ todo' = todo \ {s} /\ walk' = NoWalk /\ entries' = {}
        /\ IF todo' = {} THEN Finish(plan) ELSE UNCHANGED <<phase, error>>
        /\ UNCHANGED <<handle, plan>>
    BY <1>2 DEF RenderSource
  <2>2. OncePerName'
    BY <2>1, BetweenSources
  <2>3. RenderedIsSealed'
    <3> SUFFICES ASSUME NEW at \in DOMAIN outputs'
                 PROVE  \E op \in plan.operations :
                            op.what = "rewrite" /\ op.at = at /\ SameText(outputs'[at], op.from.data)
      BY <2>1 DEF RenderedIsSealed, SameText
    <3>1. CASE at \in DOMAIN outputs
      <4>1. outputs'[at] = outputs[at]
        BY <2>1, <3>1
      <4> QED
        BY <3>1, <4>1 DEF RewriteInv, RenderedIsSealed
    <3>2. CASE at \notin DOMAIN outputs
      <4> DEFINE op == CHOOSE o \in Rewrites(s) : o.at = at
      <4>1. at \in {o.at : o \in Rewrites(s)}
        BY <2>1, <3>2
      <4>2. op \in Rewrites(s) /\ op.at = at
        BY <4>1
      <4>3. outputs'[at] = Output(op, read)
        BY <2>1, <3>2
      <4> HIDE DEF op
      <4>4. SameText(outputs'[at], op.from.data)
        BY <2>1, <4>2, <4>3, OutputIsSealedText
      <4> QED
        BY <4>2, <4>4 DEF Rewrites
    <3> QED
      BY <3>1, <3>2
  <2>4. RewritesAreRendered'
    <3>1. DOMAIN outputs' = DOMAIN outputs \cup {op.at : op \in Rewrites(s)}
      BY <2>1
    <3>2. ASSUME NEW op \in plan.operations, op.what = "rewrite", Kind(op.from.path) = "markdown"
          PROVE  (op.at \in DOMAIN outputs' /\ ReadsAlike(op.from, op.links)) \/ op.from.source \in todo'
      BY <2>1, <3>1, <3>2 DEF RewriteInv, RewritesAreRendered, Rewrites
    <3>3. \A op \in plan.operations :
              (op.what = "rewrite" /\ Kind(op.from.path) = "canvas") => op.at \in DOMAIN outputs'
      BY <3>1 DEF RewriteInv, RewritesAreRendered
    <3> QED
      BY <2>1, <3>2, <3>3 DEF RewritesAreRendered, ReadsAlike, Split, SplitMarkdown, SplitWiki, Links
  <2>5. PhasesOK'
    BY <2>1 DEF RewriteInv, PhasesOK, Finish
  <2> QED
    BY <2>2, <2>3, <2>4, <2>5 DEF RewriteInv
<1> QED
  BY <1>1, <1>2

LEMMA SourceReadKeepsRewrites ==
  ASSUME RewriteInv, Reading, handle = NoHandle, NEW s, NEW read, OnePerPath(read), SourceRead(s, read)
  PROVE  RewriteInv'
<1>1. CASE phase = "inspecting"
  BY <1>1, SealKeepsRewrites DEF SourceRead
<1>2. CASE phase = "rereading"
  BY <1>2, RenderKeepsRewrites DEF SourceRead
<1> QED
  BY <1>1, <1>2 DEF Reading

\* No two names of an archive are one path, or it is not read.
LEMMA MembersAreApart ==
  ASSUME NEW s, ArchiveError(s) = None
  PROVE  OnePerPath(Members(s))
<1>1. \A p, q \in DOMAIN disk[s] : Nfc(p) = Nfc(q) => p = q
  BY DEF ArchiveError, None
<1>2. ASSUME NEW e \in Members(s), NEW g \in Members(s), e.path = g.path PROVE e = g
  <2>1. PICK p \in DOMAIN disk[s] : e = [original |-> p, path |-> Nfc(p), data |-> disk[s][p].data]
    BY DEF Members
  <2>2. PICK q \in DOMAIN disk[s] : g = [original |-> q, path |-> Nfc(q), data |-> disk[s][q].data]
    BY DEF Members
  <2>3. p = q
    BY <1>1, <1>2, <2>1, <2>2
  <2> QED
    BY <2>1, <2>2, <2>3
<1> QED
  BY <1>2 DEF OnePerPath

\* Canvases are rendered from what was sealed of them.
LEMMA CanvasesAreRendered ==
  ASSUME NEW draft
  PROVE  /\ \A at \in DOMAIN CanvasOutputs(draft) : \E op \in draft.operations :
                 op.what = "rewrite" /\ op.at = at /\ SameText(CanvasOutputs(draft)[at], op.from.data)
         /\ \A op \in draft.operations :
                 (op.what = "rewrite" /\ Kind(op.from.path) = "canvas") => op.at \in DOMAIN CanvasOutputs(draft)
<1> DEFINE rewrites == {op \in draft.operations : op.what = "rewrite" /\ Kind(op.from.path) = "canvas"}
           of(at) == CHOOSE o \in rewrites : o.at = at
<1>1. CanvasOutputs(draft) = [at \in {op.at : op \in rewrites} |-> [of(at).from.data EXCEPT !.head.links = of(at).links]]
  BY DEF CanvasOutputs
<1>2. ASSUME NEW at \in {op.at : op \in rewrites}
      PROVE  /\ of(at) \in rewrites /\ of(at).at = at
             /\ SameText(CanvasOutputs(draft)[at], of(at).from.data)
  <2>1. of(at) \in rewrites /\ of(at).at = at
    OBVIOUS
  <2>2. CanvasOutputs(draft)[at] = [of(at).from.data EXCEPT !.head.links = of(at).links]
    BY <1>1
  <2> HIDE DEF of
  <2> QED
    BY <2>1, <2>2, LinksAside
<1> HIDE DEF of
<1> QED
  BY <1>1, <1>2

LEMMA BuildPlanKeepsRewrites ==
  ASSUME RewriteInv, BuildPlan
  PROVE  RewriteInv'
<1>1. CASE \E why : Fail(why)
  BY <1>1, FailKeepsRewrites
<1>2. CASE ~\E why : Fail(why)
  <2> DEFINE draft == Draft(sealed)
             reread == {op.from.source : op \in {o \in draft.operations :
                                      o.what = "rewrite" /\ Kind(o.from.path) = "markdown"}}
  <2>1. /\ phase = "planning" /\ plan' = draft /\ outputs' = CanvasOutputs(draft)
        /\ todo' = reread
        /\ IF todo' = {} THEN Finish(draft) ELSE phase' = "rereading" /\ error' = None
        /\ UNCHANGED <<walk, handle, entries>>
    BY <1>2 DEF BuildPlan
  <2>2. OncePerName'
    <3>1. walk = NoWalk
      BY <2>1 DEF RewriteInv, OncePerName, Reading
    <3> QED
      BY <2>1, <3>1, BetweenSources DEF RewriteInv, OncePerName
  <2>3. PhasesOK'
    BY <2>1 DEF PhasesOK, Finish
  <2> HIDE DEF draft
  <2>4. RenderedIsSealed'
    <3>1. \A at \in DOMAIN CanvasOutputs(draft) : \E op \in draft.operations :
              op.what = "rewrite" /\ op.at = at /\ SameText(CanvasOutputs(draft)[at], op.from.data)
      BY CanvasesAreRendered
    <3> QED
      BY <2>1, <3>1 DEF RenderedIsSealed, SameText
  <2>5. RewritesAreRendered'
    <3>1. \A op \in draft.operations :
              (op.what = "rewrite" /\ Kind(op.from.path) = "canvas") => op.at \in DOMAIN CanvasOutputs(draft)
      BY CanvasesAreRendered
    <3>2. \A op \in draft.operations :
              (op.what = "rewrite" /\ Kind(op.from.path) = "markdown") => op.from.source \in reread
      OBVIOUS
    <3> QED
      BY <2>1, <3>1, <3>2 DEF RewritesAreRendered
  <2> QED
    BY <2>2, <2>3, <2>4, <2>5 DEF RewriteInv
<1> QED
  BY <1>1, <1>2

LEMMA BuilderKeepsRewrites == RewriteInv /\ Builder => RewriteInv'
<1> SUFFICES ASSUME RewriteInv, Builder PROVE RewriteInv'
  OBVIOUS
<1>1. CASE OpenSource
  <2>1. /\ Reading /\ handle = NoHandle /\ entries = {}
        /\ walk'.seen = {} /\ walk' = [source |-> walk'.source, listed |-> walk'.listed, seen |-> walk'.seen]
        /\ UNCHANGED <<phase, todo, handle, entries, plan, outputs>>
    BY <1>1 DEF OpenSource, RewriteInv, OncePerName, planVars
  <2>2. OncePerName'
    BY <2>1 DEF OncePerName, NoHandle, Reading
  <2> QED
    BY <2>1, <2>2, ReadingKeepsRewrites
<1>2. CASE CloseSource
  <2>1. walk # NoWalk /\ handle = NoHandle /\ SourceRead(walk.source, entries)
    BY <1>2 DEF CloseSource, Walked
  <2>2. Reading /\ OnePerPath(entries)
    BY <2>1 DEF RewriteInv, OncePerName, OnePerPath
  <2> QED
    BY <2>1, <2>2, SourceReadKeepsRewrites
<1>3. CASE ReadArchive
  <2>1. CASE \E why : Fail(why)
    BY <2>1, FailKeepsRewrites
  <2>2. CASE ~\E why : Fail(why)
    <3>1. /\ Reading /\ walk = NoWalk /\ ArchiveError(Nearest) = None
          /\ SourceRead(Nearest, Members(Nearest))
      BY <1>3, <2>2 DEF ReadArchive
    <3>2. handle = NoHandle
      BY <3>1 DEF RewriteInv, OncePerName
    <3> QED
      BY <3>1, <3>2, MembersAreApart, SourceReadKeepsRewrites
  <2> QED
    BY <2>1, <2>2
<1> QED
  BY <1>1, <1>2, <1>3, VisitKeepsRewrites, BeginFileKeepsRewrites, EndFileKeepsRewrites,
     BuildPlanKeepsRewrites DEF Builder

\* In a finished plan every rewrite is rendered from the text sealed of its file.
LEMMA DoneIsRendered == RewriteInv => RewritesAreOfInspected
<1> SUFFICES ASSUME RewriteInv, phase = "done", NEW op \in plan.operations, op.what = "rewrite"
             PROVE  SameText(outputs[op.at], op.from.data)
  BY DEF RewritesAreOfInspected, SameText
<1>1. OperationsCover(plan) /\ todo = {}
  BY DEF RewriteInv, PhasesOK, ValidPlan
<1>2. Kind(op.from.path) \in {"markdown", "canvas"}
  BY <1>1 DEF OperationsCover, RewriteIsSound
<1>3. op.at \in DOMAIN outputs
  BY <1>1, <1>2 DEF RewriteInv, RewritesAreRendered
<1>4. PICK other \in plan.operations :
          other.what = "rewrite" /\ other.at = op.at /\ SameText(outputs[op.at], other.from.data)
  BY <1>3 DEF RewriteInv, RenderedIsSealed
<1>5. other = op
  BY <1>1, <1>4 DEF OperationsCover
<1> QED
  BY <1>4, <1>5

\* What the second reading rendered stays what was sealed.
LEMMA RewriteInvIsKept == Spec => []RewriteInv
<1>1. Init => RewriteInv
  BY DEF Init, RewriteInv, OncePerName, RenderedIsSealed, RewritesAreRendered, PhasesOK, NoWalk, NoHandle, NoPlan
<1>2. RewriteInv /\ [Next]_vars => RewriteInv'
  <2> SUFFICES ASSUME RewriteInv, [Next]_vars PROVE RewriteInv'
    OBVIOUS
  <2>1. CASE UNCHANGED vars
    <3>1. UNCHANGED <<phase, todo, walk, handle, entries, plan, outputs>>
      BY <2>1 DEF vars, readerVars, planVars
    <3>2. OncePerName'
      BY <3>1 DEF RewriteInv, OncePerName, Reading
    <3> QED
      BY <3>1, <3>2, ReadingKeepsRewrites
  <2> QED
    BY <2>1, BuilderKeepsRewrites, EditorKeepsRewrites DEF Next
<1> QED
  BY <1>1, <1>2, PTL DEF Spec

\* However the vaults changed between the two readings, a finished plan rewrites
\* what was inspected: every rewritten note and canvas is there, and all of it but
\* the links is what was sealed of the file (materialize_markdown_rewrites).
THEOREM OnlyInspectedIsRewritten == Spec => []RewritesAreOfInspected
  BY RewriteInvIsKept, DoneIsRendered, PTL

-----------------------------------------------------------------------------
(* Finite sets in order.                                                    *)

StrictOrder(S, R) ==
    /\ \A f, g \in S : f = g \/ <<f, g>> \in R \/ <<g, f>> \in R
    /\ \A f, g \in S : ~(<<f, g>> \in R /\ <<g, f>> \in R)
    /\ \A f, g, h \in S : (<<f, g>> \in R /\ <<g, h>> \in R) => <<f, h>> \in R

Below(S, R, f) == {g \in S : <<g, f>> \in R}

LEMMA RanksGrow ==
  ASSUME NEW S, IsFiniteSet(S), NEW R, StrictOrder(S, R), NEW f \in S, NEW g \in S, <<f, g>> \in R
  PROVE  /\ Cardinality(Below(S, R, f)) \in Nat /\ Cardinality(Below(S, R, g)) \in Nat
         /\ Cardinality(Below(S, R, f)) < Cardinality(Below(S, R, g))
<1>1. /\ Below(S, R, f) \in SUBSET Below(S, R, g) /\ Below(S, R, g) \in SUBSET S
      /\ f \in Below(S, R, g) /\ f \notin Below(S, R, f)
  BY DEF StrictOrder, Below
<1>2. IsFiniteSet(Below(S, R, g)) /\ IsFiniteSet(Below(S, R, f))
  BY <1>1, FS_Subset
<1>3. Cardinality(Below(S, R, f)) \in Nat /\ Cardinality(Below(S, R, g)) \in Nat
  BY <1>2, FS_CardinalityType
<1>4. /\ Cardinality(Below(S, R, f)) <= Cardinality(Below(S, R, g))
      /\ Cardinality(Below(S, R, f)) # Cardinality(Below(S, R, g))
  BY <1>1, <1>2, FS_Subset
<1> QED
  BY <1>3, <1>4

\* Every place of the sorted sequence is taken by exactly one member.
LEMMA SortedIsInOrder ==
  ASSUME NEW S, IsFiniteSet(S), NEW R, StrictOrder(S, R)
  PROVE  /\ Cardinality(S) \in Nat /\ DOMAIN Sorted(S, R) = 1..Cardinality(S)
         /\ \A i \in 1..Cardinality(S) : Sorted(S, R)[i] \in S
         /\ \A i, j \in 1..Cardinality(S) : i < j => <<Sorted(S, R)[i], Sorted(S, R)[j]>> \in R
         /\ \A f \in S : \E i \in 1..Cardinality(S) : Sorted(S, R)[i] = f
<1> DEFINE N == Cardinality(S)
           rank == [f \in S |-> Cardinality(Below(S, R, f)) + 1]
<1>1. N \in Nat
  BY FS_CardinalityType
<1>2. ASSUME NEW f \in S PROVE rank[f] \in 1..N
  <2>1. Below(S, R, f) \in SUBSET S /\ f \notin Below(S, R, f)
    BY DEF Below, StrictOrder
  <2>2. IsFiniteSet(Below(S, R, f)) /\ Cardinality(Below(S, R, f)) <= N /\ Cardinality(Below(S, R, f)) # N
    BY <2>1, FS_Subset
  <2>3. Cardinality(Below(S, R, f)) \in Nat
    BY <2>2, FS_CardinalityType
  <2>4. rank[f] = Cardinality(Below(S, R, f)) + 1
    OBVIOUS
  <2> QED
    BY <1>1, <2>2, <2>3, <2>4
<1>3. ASSUME NEW f \in S, NEW g \in S, rank[f] = rank[g] PROVE f = g
  <2>1. rank[f] = Cardinality(Below(S, R, f)) + 1 /\ rank[g] = Cardinality(Below(S, R, g)) + 1
    OBVIOUS
  <2>2. CASE <<f, g>> \in R
    <3>1. Cardinality(Below(S, R, f)) \in Nat /\ Cardinality(Below(S, R, g)) \in Nat
          /\ Cardinality(Below(S, R, f)) < Cardinality(Below(S, R, g))
      BY <2>2, RanksGrow
    <3> QED
      BY <1>3, <2>1, <3>1
  <2>3. CASE <<g, f>> \in R
    <3>1. Cardinality(Below(S, R, f)) \in Nat /\ Cardinality(Below(S, R, g)) \in Nat
          /\ Cardinality(Below(S, R, g)) < Cardinality(Below(S, R, f))
      BY <2>3, RanksGrow
    <3> QED
      BY <1>3, <2>1, <3>1
  <2> QED
    BY <2>2, <2>3 DEF StrictOrder
<1>4. IsFiniteSet(1..N) /\ Cardinality(1..N) = N
  <2>1. /\ IsFiniteSet(1..N)
        /\ Cardinality(1..N) = IF 1 > N THEN 0 ELSE N - 1 + 1
    BY <1>1, FS_Interval
  <2> QED
    BY <1>1, <2>1
<1>5. rank \in Injection(S, 1..N)
  BY <1>2, <1>3 DEF Injection, IsInjective
<1>6. rank \in Surjection(S, 1..N)
  BY <1>4, <1>5, FS_Injection
<1>7. ASSUME NEW i \in 1..N
      PROVE  /\ Sorted(S, R)[i] \in S /\ rank[Sorted(S, R)[i]] = i
  <2>1. PICK f \in S : rank[f] = i
    BY <1>6 DEF Surjection
  <2>2. Cardinality(Below(S, R, f)) = i - 1
    <3>1. Below(S, R, f) \in SUBSET S
      BY DEF Below
    <3>2. Cardinality(Below(S, R, f)) \in Nat
      BY <3>1, FS_Subset, FS_CardinalityType
    <3> QED
      BY <2>1, <3>2
  <2>3. Sorted(S, R)[i] = CHOOSE g \in S : Cardinality(Below(S, R, g)) = i - 1
    BY DEF Sorted, Below
  <2>4. Sorted(S, R)[i] \in S /\ Cardinality(Below(S, R, Sorted(S, R)[i])) = i - 1
    BY <2>2, <2>3
  <2>5. i - 1 + 1 = i
    BY <1>1
  <2> QED
    BY <2>4, <2>5
<1>8. ASSUME NEW i \in 1..N, NEW j \in 1..N, i < j
      PROVE  <<Sorted(S, R)[i], Sorted(S, R)[j]>> \in R
  <2> DEFINE f == Sorted(S, R)[i]
             g == Sorted(S, R)[j]
  <2>1. f \in S /\ g \in S /\ rank[f] = i /\ rank[g] = j
    BY <1>7
  <2>2. CASE <<g, f>> \in R
    <3>1. Cardinality(Below(S, R, f)) \in Nat /\ Cardinality(Below(S, R, g)) \in Nat
          /\ Cardinality(Below(S, R, g)) < Cardinality(Below(S, R, f))
      BY <2>1, <2>2, RanksGrow
    <3>2. rank[f] = Cardinality(Below(S, R, f)) + 1 /\ rank[g] = Cardinality(Below(S, R, g)) + 1
      BY <2>1
    <3> QED
      BY <1>1, <1>8, <2>1, <3>1, <3>2
  <2>3. f # g
    BY <1>1, <1>8, <2>1
  <2> QED
    BY <2>1, <2>2, <2>3 DEF StrictOrder
<1>9. DOMAIN Sorted(S, R) = 1..N
  BY DEF Sorted
<1>10. ASSUME NEW f \in S PROVE \E i \in 1..N : Sorted(S, R)[i] = f
  BY <1>2, <1>3, <1>7
<1> HIDE DEF rank
<1> QED
  BY <1>1, <1>7, <1>8, <1>9, <1>10

\* A member that all others come after.
LEMMA FirstExists ==
  ASSUME NEW S, IsFiniteSet(S), S # {}, NEW R, StrictOrder(S, R)
  PROVE  \E f \in S : \A g \in S : g = f \/ <<f, g>> \in R
<1> DEFINE N == Cardinality(S)
           q == Sorted(S, R)
<1>1. /\ N \in Nat /\ \A i \in 1..N : q[i] \in S
      /\ \A i, j \in 1..N : i < j => <<q[i], q[j]>> \in R
      /\ \A f \in S : \E i \in 1..N : q[i] = f
  BY SortedIsInOrder
<1> HIDE DEF N, q
<1>2. 1 \in 1..N
  <2>1. PICK f : f \in S
    OBVIOUS
  <2>2. PICK i \in 1..N : q[i] = f
    BY <1>1, <2>1
  <2> QED
    BY <1>1, <2>2
<1>3. ASSUME NEW g \in S PROVE g = q[1] \/ <<q[1], g>> \in R
  <2>1. PICK i \in 1..N : q[i] = g
    BY <1>1
  <2>2. i = 1 \/ 1 < i
    BY <1>1, <2>1
  <2> QED
    BY <1>1, <1>2, <2>1, <2>2
<1> QED
  BY <1>1, <1>2, <1>3

-----------------------------------------------------------------------------
(* The allocation of destinations, one file after the other.                *)

\* The allocation of the files up to n, as FoldLeft computes it from sets of places.
IsFold(F, root, base, q, n) ==
    F = [s \in SUBSET (1..n) |-> IF s = {} THEN base ELSE Allocate(root, F[s \ {Max(s)}], q[Max(s)])]

LEMMA GreatestIsMax ==
  ASSUME NEW n \in Nat, NEW s \in SUBSET (1..(n + 1)), n + 1 \in s
  PROVE  Max(s) = n + 1
<1>1. \A y \in s : n + 1 >= y
  OBVIOUS
<1>2. Max(s) \in s /\ \A y \in s : Max(s) >= y
  BY <1>1 DEF Max
<1> DEFINE m == Max(s)
<1>3. m \in s /\ \A y \in s : m >= y
  BY <1>2
<1> HIDE DEF m
<1>4. m \in 1..(n + 1) /\ m >= n + 1
  BY <1>3
<1>5. m = n + 1
  BY <1>4
<1> QED
  BY <1>5 DEF m

LEMMA FoldExists ==
  ASSUME NEW root, NEW base, NEW q, NEW n \in Nat
  PROVE  \E F : IsFold(F, root, base, q, n)
<1> DEFINE T == {k \in Nat : \E F : IsFold(F, root, base, q, k)}
<1>1. 0 \in T
  <2> DEFINE F == [s \in SUBSET (1..0) |-> base]
  <2>1. 1..0 = {}
    OBVIOUS
  <2>2. \A s \in SUBSET (1..0) : s = {}
    BY <2>1
  <2>3. F = [s \in SUBSET (1..0) |-> IF s = {} THEN base ELSE Allocate(root, F[s \ {Max(s)}], q[Max(s)])]
    BY <2>2
  <2> QED
    BY <2>3 DEF IsFold
<1>2. ASSUME NEW k \in Nat, k \in T PROVE k + 1 \in T
  <2>1. PICK F : IsFold(F, root, base, q, k)
    BY <1>2
  <2> DEFINE G == [s \in SUBSET (1..(k + 1)) |->
                      IF k + 1 \in s THEN Allocate(root, F[s \ {k + 1}], q[k + 1]) ELSE F[s]]
  <2>2. ASSUME NEW s \in SUBSET (1..(k + 1))
        PROVE  G[s] = IF s = {} THEN base ELSE Allocate(root, G[s \ {Max(s)}], q[Max(s)])
    <3>1. CASE k + 1 \in s
      <4>1. Max(s) = k + 1
        BY <3>1, GreatestIsMax
      <4>2. s \ {k + 1} \in SUBSET (1..(k + 1)) /\ k + 1 \notin s \ {k + 1}
        OBVIOUS
      <4>3. G[s \ {k + 1}] = F[s \ {k + 1}]
        BY <4>2
      <4>4. G[s] = Allocate(root, F[s \ {k + 1}], q[k + 1])
        BY <3>1
      <4> HIDE DEF G
      <4> QED
        BY <3>1, <4>1, <4>3, <4>4
    <3>2. CASE k + 1 \notin s
      <4>1. s \in SUBSET (1..k)
        BY <3>2
      <4>2. G[s] = F[s]
        BY <3>2
      <4>3. F[s] = IF s = {} THEN base ELSE Allocate(root, F[s \ {Max(s)}], q[Max(s)])
        BY <2>1, <4>1 DEF IsFold
      <4>4. s \ {Max(s)} \in SUBSET (1..(k + 1)) /\ k + 1 \notin s \ {Max(s)}
        BY <3>2
      <4>5. G[s \ {Max(s)}] = F[s \ {Max(s)}]
        BY <4>4
      <4> HIDE DEF G
      <4> QED
        BY <4>2, <4>3, <4>5
    <3> QED
      BY <3>1, <3>2
  <2>3. IsFold(G, root, base, q, k + 1)
    <3>1. G = [s \in SUBSET (1..(k + 1)) |-> G[s]]
      OBVIOUS
    <3> HIDE DEF G
    <3>2. [s \in SUBSET (1..(k + 1)) |-> G[s]]
            = [s \in SUBSET (1..(k + 1)) |->
                  IF s = {} THEN base ELSE Allocate(root, G[s \ {Max(s)}], q[Max(s)])]
      BY <2>2
    <3> QED
      BY <3>1, <3>2 DEF IsFold
  <2> QED
    BY <2>3
<1>3. n \in T
  <2> HIDE DEF T
  <2> QED
    BY <1>1, <1>2, NumbersFollow
<1> QED
  BY <1>3

\* What is allocated after k of n files, for every k.
IsAllocation(h, root, base, q, n) ==
    /\ h[0] = base
    /\ \A k \in 0..(n - 1) : h[k + 1] = Allocate(root, h[k], q[k + 1])

LEMMA AllocateAllSteps ==
  ASSUME NEW root, NEW base, NEW q, NEW n \in Nat, DOMAIN q = 1..n
  PROVE  \E h : IsAllocation(h, root, base, q, n) /\ AllocateAll(root, base, q) = h[n]
<1> DEFINE F[s \in SUBSET (1..n)] == IF s = {} THEN base ELSE Allocate(root, F[s \ {Max(s)}], q[Max(s)])
<1>1. AllocateAll(root, base, q) = F[1..n]
  BY DEF AllocateAll, FoldLeft, MapThenFoldSet
<1>2. IsFold(F, root, base, q, n)
  <2>1. \E G : G = [s \in SUBSET (1..n) |->
                     IF s = {} THEN base ELSE Allocate(root, G[s \ {Max(s)}], q[Max(s)])]
    <3>1. PICK G : IsFold(G, root, base, q, n)
      BY FoldExists
    <3> QED
      BY <3>1 DEF IsFold
  <2> QED
    BY <2>1, Zenon DEF IsFold
<1> HIDE DEF F
<1> DEFINE h == [k \in 0..n |-> F[1..k]]
<1>3. h[0] = base
  <2>1. 1..0 = {} /\ 1..0 \in SUBSET (1..n)
    OBVIOUS
  <2> QED
    BY <1>2, <2>1 DEF IsFold
<1>4. ASSUME NEW k \in 0..(n - 1) PROVE h[k + 1] = Allocate(root, h[k], q[k + 1])
  <2>1. k \in Nat /\ k \in 0..n /\ k + 1 \in 0..n
    OBVIOUS
  <2>2. 1..(k + 1) \in SUBSET (1..n) /\ k + 1 \in 1..(k + 1)
    BY <2>1
  <2>3. Max(1..(k + 1)) = k + 1
    BY <2>1, <2>2, GreatestIsMax
  <2>4. (1..(k + 1)) \ {k + 1} = 1..k
    BY <2>1
  <2>5. F[1..(k + 1)] = Allocate(root, F[(1..(k + 1)) \ {Max(1..(k + 1))}], q[Max(1..(k + 1))])
    BY <1>2, <2>2 DEF IsFold
  <2>6. h[k + 1] = F[1..(k + 1)] /\ h[k] = F[1..k]
    BY <2>1
  <2> HIDE DEF h
  <2> QED
    BY <2>3, <2>4, <2>5, <2>6
<1>5. h[n] = F[1..n]
  OBVIOUS
<1> HIDE DEF h
<1> QED
  BY <1>1, <1>3, <1>4, <1>5 DEF IsAllocation

-----------------------------------------------------------------------------
(* Sealed files, their order and their representatives.                     *)

SoundFiles(files) ==
    /\ IsFiniteSet(files)
    /\ \A f \in files : /\ f.source \in Sources /\ f.path \in LogicalPaths
                       /\ \A i \in DOMAIN Links(f) : IsText(Links(f)[i])
    /\ SnapshotsAreSound(files, Sources)

LEMMA FilesAreInOrder ==
  ASSUME NEW files, SoundFiles(files), NEW S \in SUBSET files
  PROVE  /\ IsFiniteSet(S)
         /\ StrictOrder(S, {p \in S \X S : Precedes(p[1], p[2])})
         /\ StrictOrder(S, {p \in S \X S : SourceFirst(p[1], p[2])})
<1> DEFINE P == {p \in S \X S : Precedes(p[1], p[2])}
           Q == {p \in S \X S : SourceFirst(p[1], p[2])}
<1>1. /\ \A f, g \in S : <<f, g>> \in P <=> Precedes(f, g)
      /\ \A f, g \in S : <<f, g>> \in Q <=> SourceFirst(f, g)
  OBVIOUS
<1>2. \A f \in S : f.source \in Nat /\ f.path \in LogicalPaths
  BY VaultsAssumption DEF SoundFiles
<1>3. \A f, g \in S : f.source = g.source /\ f.path = g.path => f = g
  BY DEF SoundFiles, SnapshotsAreSound
<1> HIDE DEF P, Q
<1>4. StrictOrder(S, P)
  <2>1. \A f, g \in S : f = g \/ Precedes(f, g) \/ Precedes(g, f)
    BY <1>2, <1>3, OrderAssumption DEF Precedes
  <2>2. \A f, g \in S : ~(Precedes(f, g) /\ Precedes(g, f))
    BY <1>2, OrderAssumption DEF Precedes
  <2>3. \A f, g, h \in S : (Precedes(f, g) /\ Precedes(g, h)) => Precedes(f, h)
    BY <1>2, OrderAssumption DEF Precedes
  <2> QED
    BY <1>1, <2>1, <2>2, <2>3 DEF StrictOrder
<1>5. StrictOrder(S, Q)
  <2>1. \A f, g \in S : f = g \/ SourceFirst(f, g) \/ SourceFirst(g, f)
    BY <1>2, <1>3, OrderAssumption DEF SourceFirst
  <2>2. \A f, g \in S : ~(SourceFirst(f, g) /\ SourceFirst(g, f))
    BY <1>2, OrderAssumption DEF SourceFirst
  <2>3. \A f, g, h \in S : (SourceFirst(f, g) /\ SourceFirst(g, h)) => SourceFirst(f, h)
    BY <1>2, OrderAssumption DEF SourceFirst
  <2> QED
    BY <1>1, <2>1, <2>2, <2>3 DEF StrictOrder
<1> QED
  BY <1>4, <1>5, FS_Subset DEF SoundFiles, P, Q

\* The representative of a file is a file of its kind that is the same file to the
\* planner, and represents itself.
LEMMA RepresentativeIsSealed ==
  ASSUME NEW files, SoundFiles(files), NEW f \in files
  PROVE  /\ Owners(files)[f] \in files
         /\ Kind(Owners(files)[f].path) = Kind(f.path)
         /\ SameFile(Owners(files)[f], f)
         /\ Owners(files)[Owners(files)[f]] = Owners(files)[f]
<1> DEFINE o == Owners(files)[f]
<1>1. CASE Kind(f.path) = "markdown"
  <2> DEFINE notes == OfKind(files, "markdown")
             E == {g \in notes : ExactKey(g) = ExactKey(f)}
             R == {p \in E \X E : Precedes(p[1], p[2])}
  <2>1. E \in SUBSET files /\ f \in E
    BY <1>1 DEF OfKind
  <2>2. IsFiniteSet(E) /\ StrictOrder(E, R)
    <3> HIDE DEF E
    <3> QED
      BY <2>1, FilesAreInOrder
  <2>3. \E g \in E : \A h \in E : h = g \/ <<g, h>> \in R
    <3> HIDE DEF E, R
    <3> QED
      BY <2>1, <2>2, FirstExists
  <2>4. \E g \in notes : ExactKey(g) = ExactKey(f)
                          /\ \A h \in notes : ExactKey(h) = ExactKey(f) => h = g \/ Precedes(g, h)
    BY <2>3
  <2>5. o = FirstOfEqual(notes, f)
    BY <1>1 DEF Owners
  <2>6. o \in notes /\ ExactKey(o) = ExactKey(f)
    BY <2>4, <2>5 DEF FirstOfEqual
  <2>7. o \in files /\ Kind(o.path) = "markdown"
    BY <2>6 DEF OfKind
  <2>8. FirstOfEqual(notes, o) = FirstOfEqual(notes, f)
    BY <2>6 DEF FirstOfEqual
  <2>9. Owners(files)[o] = o
    BY <2>5, <2>7, <2>8 DEF Owners
  <2> QED
    BY <1>1, <2>6, <2>7, <2>9 DEF SameFile
<1>2. CASE Kind(f.path) = "asset"
  <2> DEFINE assets == OfKind(files, "asset")
             E == {g \in assets : g.data = f.data}
             R == {p \in E \X E : SourceFirst(p[1], p[2])}
  <2>1. E \in SUBSET files /\ f \in E
    BY <1>2 DEF OfKind
  <2>2. IsFiniteSet(E) /\ StrictOrder(E, R)
    <3> HIDE DEF E
    <3> QED
      BY <2>1, FilesAreInOrder
  <2>3. \E g \in E : \A h \in E : h = g \/ <<g, h>> \in R
    <3> HIDE DEF E, R
    <3> QED
      BY <2>1, <2>2, FirstExists
  <2>4. \E g \in assets : g.data = f.data
                          /\ \A h \in assets : h.data = f.data => h = g \/ SourceFirst(g, h)
    BY <2>3
  <2>5. o = FirstOccurrence(assets, f)
    BY <1>2 DEF Owners
  <2>6. o \in assets /\ o.data = f.data
    BY <2>4, <2>5 DEF FirstOccurrence
  <2>7. o \in files /\ Kind(o.path) = "asset"
    BY <2>6 DEF OfKind
  <2>8. FirstOccurrence(assets, o) = FirstOccurrence(assets, f)
    BY <2>6 DEF FirstOccurrence
  <2>9. Owners(files)[o] = o
    BY <2>5, <2>7, <2>8 DEF Owners
  <2> QED
    BY <1>2, <2>6, <2>7, <2>9 DEF SameFile
<1>3. CASE Kind(f.path) \notin {"markdown", "asset"}
  <2>1. o = f
    BY <1>3 DEF Owners
  <2> QED
    BY <2>1 DEF SameFile
<1> QED
  BY <1>1, <1>2, <1>3

-----------------------------------------------------------------------------
(* Destinations.                                                            *)

IsPlace(p) ==
    /\ Len(p) \in Nat \ {0} /\ DOMAIN p = 1..Len(p) /\ p = [i \in 1..Len(p) |-> p[i]]
    /\ \A i \in DOMAIN p : p[i] = [word |-> p[i].word, spelling |-> p[i].spelling, ext |-> p[i].ext, tag |-> p[i].tag]

TagOf(p) == p[Len(p)].tag

\* The names a path consists of, and those the planner makes up.
NamesOf(p) == {p[i].word : i \in DOMAIN p} \cup {p[i].ext : i \in DOMAIN p}

MadeUp == {"", "knowledge", "attachments", "prefix", "canvases", "views"}

\* Places of one portable key have one tag.
LEMMA KeysKeepTags ==
  ASSUME NEW p, NEW q, IsPlace(p), IsPlace(q), Key(p) = Key(q)
  PROVE  TagOf(p) = TagOf(q)
<1>1. DOMAIN p = DOMAIN q
  BY DEF Key
<1>2. Len(p) = Len(q) /\ Len(p) \in DOMAIN p
  <2> DEFINE m == Len(p)
             n == Len(q)
  <2>1. m \in Nat \ {0} /\ n \in Nat \ {0} /\ DOMAIN p = 1..m /\ DOMAIN q = 1..n
    BY DEF IsPlace
  <2> HIDE DEF m, n
  <2>2. m \in 1..m /\ n \in 1..n
    BY <2>1
  <2>3. m \in DOMAIN p /\ n \in DOMAIN q
    BY <2>1, <2>2
  <2>4. m \in DOMAIN q /\ n \in DOMAIN p
    BY <1>1, <2>3
  <2>5. m \in 1..n /\ n \in 1..m
    BY <2>1, <2>4
  <2>6. m = n
    BY <2>1, <2>5
  <2> QED
    BY <2>3, <2>6 DEF m, n
<1> DEFINE n == Len(p)
<1>3. Key(p)[n] = [p[n] EXCEPT !.spelling = "plain"] /\ Key(q)[n] = [q[n] EXCEPT !.spelling = "plain"]
  BY <1>1, <1>2 DEF Key
<1>4. "tag" \in DOMAIN p[n] /\ "tag" \in DOMAIN q[n]
  BY <1>1, <1>2 DEF IsPlace
<1>5. Key(p)[n].tag = p[n].tag /\ Key(q)[n].tag = q[n].tag
  BY <1>3, <1>4
<1> QED
  BY <1>2, <1>5 DEF TagOf

\* A logical path under the root of a kind is a place without a tag.
LEMMA WantedIsPlace ==
  ASSUME NEW root, NEW path \in LogicalPaths
  PROVE  IsPlace(<<Folder(root)>> \o path) /\ TagOf(<<Folder(root)>> \o path) = <<>>
<1>1. PICK p \in Paths : path = Nfc(p)
  BY DEF LogicalPaths
<1>2. IsPath(p)
  BY VaultsAssumption
<1> DEFINE S == {path[i] : i \in 1..Len(p)}
<1>3. path = [i \in 1..Len(p) |-> [p[i] EXCEPT !.spelling = IF @ = "decomposed" THEN "plain" ELSE @]]
  BY <1>1, <1>2 DEF Nfc, IsPath
<1>4. path \in Seq(S) /\ Len(path) = Len(p)
  BY <1>2, <1>3 DEF IsPath
<1>5. ASSUME NEW i \in 1..Len(p)
      PROVE  path[i] = [word |-> path[i].word, spelling |-> path[i].spelling, ext |-> path[i].ext, tag |-> <<>>]
  <2>1. p[i] = [word |-> p[i].word, spelling |-> p[i].spelling, ext |-> p[i].ext, tag |-> <<>>]
    BY <1>2 DEF IsPath, Component
  <2>2. path[i] = [p[i] EXCEPT !.spelling = path[i].spelling]
    BY <1>3, <2>1
  <2>3. path[i].tag = <<>> /\ path[i] = [k \in {"word", "spelling", "ext", "tag"} |-> path[i][k]]
    BY <1>3, <2>1
  <2> QED
    BY <2>3
<1> HIDE DEF S
<1> DEFINE w == <<Folder(root)>> \o path
<1>6. /\ Len(w) = Len(p) + 1 /\ DOMAIN w = 1..Len(w)
      /\ w[1] = Folder(root) /\ \A i \in 1..Len(p) : w[i + 1] = path[i]
      /\ w = [i \in 1..Len(w) |-> w[i]]
  BY <1>2, <1>4 DEF IsPath
<1>7. ASSUME NEW i \in DOMAIN w
      PROVE  w[i] = [word |-> w[i].word, spelling |-> w[i].spelling, ext |-> w[i].ext, tag |-> <<>>]
  <2> HIDE DEF w
  <2>1. CASE i = 1
    <3> DEFINE r == [word |-> root, spelling |-> "plain", ext |-> "", tag |-> <<>>]
    <3>1. w[i] = r
      BY <1>6, <2>1 DEF Folder, Component
    <3>2. r = [word |-> r.word, spelling |-> r.spelling, ext |-> r.ext, tag |-> <<>>]
      OBVIOUS
    <3> HIDE DEF r
    <3> QED
      BY <3>1, <3>2
  <2>2. CASE i # 1
    <3>1. i - 1 \in 1..Len(p) /\ (i - 1) + 1 = i
      BY <1>2, <1>6, <2>2 DEF IsPath
    <3>2. w[i] = path[i - 1]
      BY <1>6, <3>1
    <3> QED
      BY <1>5, <3>1, <3>2
  <2> QED
    BY <2>1, <2>2
<1> HIDE DEF w
<1>8. Len(w) \in Nat \ {0} /\ Len(w) \in DOMAIN w
  BY <1>2, <1>6 DEF IsPath
<1>9. \A i \in DOMAIN w : /\ w[i] = [word |-> w[i].word, spelling |-> w[i].spelling, ext |-> w[i].ext, tag |-> w[i].tag]
                         /\ w[i].tag = <<>>
  BY <1>7
<1>10. IsPlace(w) /\ TagOf(w) = <<>>
  BY <1>6, <1>8, <1>9 DEF IsPlace, TagOf
<1> QED
  BY <1>10 DEF w

LEMMA SuffixedIsPlace ==
  ASSUME NEW w, IsPlace(w), NEW f, NEW n
  PROVE  IsPlace(Suffixed(w, f, n)) /\ TagOf(Suffixed(w, f, n)) = <<"~", Short(f.source, f.path, n)>>
<1> DEFINE t == <<"~", Short(f.source, f.path, n)>>
           p == [w EXCEPT ![Len(w)].tag = t]
<1>1. Len(w) \in DOMAIN w /\ DOMAIN w = 1..Len(w) /\ Len(w) \in Nat
  BY DEF IsPlace
<1>2. p = Suffixed(w, f, n) /\ DOMAIN p = 1..Len(w) /\ Len(p) = Len(w)
  BY <1>1 DEF Suffixed
<1>8. p = [i \in 1..Len(w) |-> p[i]]
  <2> DEFINE l == w[Len(w)]
             c == [l EXCEPT !.tag = t]
  <2>1. p = [i \in DOMAIN w |-> IF i = Len(w) THEN c ELSE w[i]]
    BY <1>1
  <2> HIDE DEF p, c
  <2> QED
    BY <1>1, <2>1
<1>3. /\ p[Len(w)] = [w[Len(w)] EXCEPT !.tag = t]
      /\ \A i \in DOMAIN w : i # Len(w) => p[i] = w[i]
  BY <1>1
<1>4. w[Len(w)] = [word |-> w[Len(w)].word, spelling |-> w[Len(w)].spelling, ext |-> w[Len(w)].ext, tag |-> w[Len(w)].tag]
  BY <1>1 DEF IsPlace
<1>5. /\ p[Len(w)] = [k \in {"word", "spelling", "ext", "tag"} |-> p[Len(w)][k]]
      /\ p[Len(w)].tag = t
  BY <1>3, <1>4
<1> HIDE DEF p, t
<1>6. p[Len(w)] = [word |-> p[Len(w)].word, spelling |-> p[Len(w)].spelling, ext |-> p[Len(w)].ext, tag |-> p[Len(w)].tag]
  BY <1>5
<1>7. IsPlace(p)
  BY <1>1, <1>2, <1>3, <1>6, <1>8 DEF IsPlace
<1> QED
  BY <1>2, <1>5, <1>7 DEF TagOf, t

\* The names of what is made of a path.
LEMMA LogicalNames ==
  ASSUME NEW p, IsPath(p)
  PROVE  /\ DOMAIN Nfc(p) = DOMAIN p /\ Len(Nfc(p)) = Len(p)
         /\ \A i \in DOMAIN p : Nfc(p)[i].word = p[i].word /\ Nfc(p)[i].ext = p[i].ext
<1>1. Nfc(p) = [i \in 1..Len(p) |-> [p[i] EXCEPT !.spelling = IF @ = "decomposed" THEN "plain" ELSE @]]
  BY DEF Nfc, IsPath
<1>2. ASSUME NEW i \in DOMAIN p PROVE Nfc(p)[i].word = p[i].word /\ Nfc(p)[i].ext = p[i].ext
  <2> DEFINE c == p[i]
  <2>1. c = [word |-> c.word, spelling |-> c.spelling, ext |-> c.ext, tag |-> <<>>]
    BY DEF IsPath, Component
  <2>2. Nfc(p)[i] = [c EXCEPT !.spelling = IF @ = "decomposed" THEN "plain" ELSE @]
    BY <1>1 DEF IsPath
  <2> HIDE DEF c
  <2>3. Nfc(p)[i].word = c.word /\ Nfc(p)[i].ext = c.ext
    BY <2>1, <2>2
  <2> QED
    BY <2>3 DEF c
<1> QED
  BY <1>1, <1>2 DEF IsPath

LEMMA WantedNames ==
  ASSUME NEW root \in MadeUp, NEW path \in LogicalPaths
  PROVE  NamesOf(<<Folder(root)>> \o path) \subseteq MadeUp \cup NamesOf(path)
<1>1. PICK p \in Paths : path = Nfc(p)
  BY DEF LogicalPaths
<1>2. IsPath(p)
  BY VaultsAssumption
<1> DEFINE S == {path[i] : i \in 1..Len(p)}
           w == <<Folder(root)>> \o path
<1>3. path = [i \in 1..Len(p) |-> [p[i] EXCEPT !.spelling = IF @ = "decomposed" THEN "plain" ELSE @]]
  BY <1>1, <1>2 DEF Nfc, IsPath
<1>4. path \in Seq(S) /\ Len(path) = Len(p) /\ DOMAIN path = 1..Len(p)
  BY <1>2, <1>3 DEF IsPath
<1> HIDE DEF S
<1>5. /\ DOMAIN w = 1..(Len(p) + 1) /\ w[1] = Folder(root)
      /\ \A i \in 1..Len(p) : w[i + 1] = path[i]
  BY <1>2, <1>4 DEF IsPath
<1> HIDE DEF w
<1> DEFINE e == ""
<1>6. Folder(root).word = root /\ Folder(root).ext = e /\ e \in MadeUp
  BY DEF Folder, Component, MadeUp
<1> HIDE DEF e
<1>7. ASSUME NEW i \in DOMAIN w PROVE {w[i].word, w[i].ext} \subseteq MadeUp \cup NamesOf(path)
  <2>1. CASE i = 1
    BY <1>5, <1>6, <2>1
  <2>2. CASE i # 1
    <3>1. i - 1 \in 1..Len(p) /\ (i - 1) + 1 = i
      BY <1>2, <1>5, <2>2 DEF IsPath
    <3>2. w[i] = path[i - 1] /\ i - 1 \in DOMAIN path
      BY <1>4, <1>5, <3>1
    <3> QED
      BY <3>2 DEF NamesOf
  <2> QED
    BY <2>1, <2>2
<1>8. NamesOf(w) \subseteq MadeUp \cup NamesOf(path)
  BY <1>7 DEF NamesOf
<1> QED
  BY <1>8 DEF w

LEMMA SuffixedNames ==
  ASSUME NEW w, IsPlace(w), NEW f, NEW n
  PROVE  NamesOf(Suffixed(w, f, n)) \subseteq NamesOf(w)
<1> DEFINE t == <<"~", Short(f.source, f.path, n)>>
           p == [w EXCEPT ![Len(w)].tag = t]
           l == w[Len(w)]
<1>1. Len(w) \in DOMAIN w /\ DOMAIN p = DOMAIN w
  BY DEF IsPlace
<1>2. l = [word |-> l.word, spelling |-> l.spelling, ext |-> l.ext, tag |-> l.tag]
  BY <1>1 DEF IsPlace
<1>3. p[Len(w)] = [l EXCEPT !.tag = t] /\ \A i \in DOMAIN w : i # Len(w) => p[i] = w[i]
  BY <1>1
<1>4. p = Suffixed(w, f, n)
  BY DEF Suffixed
<1> HIDE DEF p, t
<1>5. p[Len(w)].word = w[Len(w)].word /\ p[Len(w)].ext = w[Len(w)].ext
  <2> HIDE DEF l
  <2>1. p[Len(w)].word = l.word /\ p[Len(w)].ext = l.ext
    BY <1>2, <1>3
  <2> QED
    BY <2>1 DEF l
<1>6. \A i \in DOMAIN w : p[i].word = w[i].word /\ p[i].ext = w[i].ext
  BY <1>3, <1>5
<1>7. NamesOf(p) \subseteq NamesOf(w)
  BY <1>1, <1>6 DEF NamesOf
<1> QED
  BY <1>4, <1>7

LEMMA AssetNames ==
  ASSUME NEW f, f.path \in LogicalPaths
  PROVE  NamesOf(AssetPlace(f)) \subseteq MadeUp \cup NamesOf(f.path)
<1>1. PICK p \in Paths : f.path = Nfc(p)
  BY DEF LogicalPaths
<1>2. IsPath(p)
  BY <1>1, VaultsAssumption
<1>3. f.path = [i \in 1..Len(p) |-> [p[i] EXCEPT !.spelling = IF @ = "decomposed" THEN "plain" ELSE @]]
  BY <1>1, <1>2 DEF Nfc, IsPath
<1>4. Len(f.path) = Len(p) /\ Len(p) \in 1..Len(p) /\ DOMAIN f.path = 1..Len(p)
  BY <1>2, <1>3 DEF IsPath
<1> DEFINE c == p[Len(p)]
           last == Last(f.path)
           l == [last EXCEPT !.tag = <<"#", f.data>>]
<1>5. last = f.path[Len(p)] /\ last = [c EXCEPT !.spelling = IF @ = "decomposed" THEN "plain" ELSE @]
  BY <1>3, <1>4 DEF Last
<1>6. c = [word |-> c.word, spelling |-> c.spelling, ext |-> c.ext, tag |-> <<>>]
  BY <1>2, <1>4 DEF IsPath, Component
<1> HIDE DEF c
<1>7. DOMAIN last = {"word", "spelling", "ext", "tag"}
  BY <1>5, <1>6
<1> HIDE DEF last
<1>8. l.word = last.word /\ l.ext = last.ext
  BY <1>7
<1> HIDE DEF l
<1>9. l.word \in NamesOf(f.path) /\ l.ext \in NamesOf(f.path)
  BY <1>4, <1>5, <1>8 DEF NamesOf
<1> DEFINE a == Folder("attachments")
           b == Folder("prefix")
           place == <<a, b, l>>
<1>10. AssetPlace(f) = place
  BY DEF AssetPlace, last, l
<1>11. {a.word, a.ext, b.word, b.ext} \subseteq MadeUp
  BY DEF Folder, Component, MadeUp
<1> HIDE DEF a, b
<1>12. DOMAIN place = 1..3 /\ place[1] = a /\ place[2] = b /\ place[3] = l
  OBVIOUS
<1> HIDE DEF place
<1>13. \A i \in DOMAIN place : i = 1 \/ i = 2 \/ i = 3
  BY <1>12
<1>14. \A i \in DOMAIN place : {place[i].word, place[i].ext} \subseteq MadeUp \cup NamesOf(f.path)
  BY <1>9, <1>11, <1>12, <1>13
<1>15. NamesOf(place) \subseteq MadeUp \cup NamesOf(f.path)
  BY <1>14 DEF NamesOf
<1> QED
  BY <1>10, <1>15

\* The tag of a destination tells at most whose it is.
OwnTag(t) ==
    \/ TagOf(t.at) = <<>>
    \/ TagOf(t.at) = <<"#", t.owner.data>> /\ Kind(t.owner.path) = "asset"
    \/ \E n \in 1..FullLength : TagOf(t.at) = <<"~", Short(t.owner.source, t.owner.path, n)>>

\* A destination has the names of the file and of the folders the planner makes up.
OwnNames(t) == NamesOf(t.at) \subseteq MadeUp \cup NamesOf(t.owner.path)

\* The files of D have their destinations, each one of its own.
Allocated(d, D) ==
    /\ d = [taken |-> d.taken, conflicts |-> d.conflicts, error |-> None]
    /\ \A c \in d.conflicts : c.kind # "LINK_AMBIGUITY"
    /\ \A t \in d.taken : /\ t = [at |-> t.at, request |-> t.request, owner |-> t.owner]
                          /\ t.owner \in D /\ IsPlace(t.at) /\ OwnTag(t) /\ OwnNames(t)
    /\ \A t, u \in d.taken : Key(t.at) = Key(u.at) \/ t.owner = u.owner => t = u
    /\ \A f \in D : \E t \in d.taken : t.owner = f

\* With its whole identity in its name a file finds a free destination.
LEMMA WholeIdentityIsFree ==
  ASSUME NEW files, SoundFiles(files), NEW D \in SUBSET files, NEW d, Allocated(d, D),
         NEW f \in files, f \notin D, NEW w, IsPlace(w)
  PROVE  Free(Suffixed(w, f, FullLength), d.taken)
<1> DEFINE p == Suffixed(w, f, FullLength)
<1>1. IsPlace(p) /\ TagOf(p) = <<"~", Short(f.source, f.path, FullLength)>>
  BY SuffixedIsPlace
<1> HIDE DEF p
<1> SUFFICES ASSUME NEW t \in d.taken, Key(t.at) = Key(p) PROVE FALSE
  BY DEF Free, p
<1>2. t.owner \in D /\ IsPlace(t.at) /\ OwnTag(t)
  BY DEF Allocated
<1>3. TagOf(t.at) = <<"~", Short(f.source, f.path, FullLength)>>
  BY <1>1, <1>2, KeysKeepTags
<1>4. PICK n \in 1..FullLength : TagOf(t.at) = <<"~", Short(t.owner.source, t.owner.path, n)>>
  BY <1>2, <1>3 DEF OwnTag
<1>5. Short(t.owner.source, t.owner.path, n) = Short(f.source, f.path, FullLength)
  BY <1>3, <1>4
<1>6. /\ t.owner.source \in Sources /\ t.owner.path \in LogicalPaths
      /\ f.source \in Sources /\ f.path \in LogicalPaths /\ t.owner \in files
  BY <1>2 DEF SoundFiles
<1>7. t.owner.source = f.source /\ t.owner.path = f.path
  BY <1>5, <1>6, IdentityAssumption
<1>8. t.owner = f
  BY <1>6, <1>7 DEF SoundFiles, SnapshotsAreSound
<1> QED
  BY <1>2, <1>8

\* One file more is given a destination.
LEMMA AllocateOne ==
  ASSUME NEW files, SoundFiles(files), NEW D \in SUBSET files, NEW d, Allocated(d, D),
         NEW f \in files, f \notin D, NEW root \in MadeUp
  PROVE  Allocated(Allocate(root, d, f), D \cup {f})
<1> DEFINE wanted   == <<Folder(root)>> \o f.path
           lengths  == {n \in 1..FullLength : Free(Suffixed(wanted, f, n), d.taken)}
           least    == CHOOSE n \in lengths : \A m \in lengths : n <= m
           at       == IF Free(wanted, d.taken) THEN wanted ELSE Suffixed(wanted, f, least)
           requested == <<Folder(root)>> \o f.original
           request  == IF at = wanted THEN requested ELSE at
           new      == [at |-> at, request |-> request, owner |-> f]
           existing == {t \in d.taken : Key(t.at) = Key(wanted)}
           told     == {Conflict(CollisionKind(t.request, requested), FALSE,
                                 IF root = "knowledge" THEN {t.owner, f} ELSE {}, <<at>>) : t \in existing}
<1>1. IsPlace(wanted) /\ TagOf(wanted) = <<>>
  BY WantedIsPlace DEF SoundFiles
<1>2. FullLength \in lengths
  <2> HIDE DEF wanted
  <2>1. Free(Suffixed(wanted, f, FullLength), d.taken)
    BY <1>1, WholeIdentityIsFree
  <2> QED
    BY <2>1, IdentityAssumption
<1>3. least \in lengths
  <2> HIDE DEF lengths
  <2>1. lengths \subseteq Nat
    BY DEF lengths
  <2> QED
    BY <1>2, <2>1, LeastExists
<1>4. /\ IsPlace(at) /\ Free(at, d.taken)
      /\ TagOf(at) = <<>> \/ \E n \in 1..FullLength : TagOf(at) = <<"~", Short(f.source, f.path, n)>>
  <2>1. CASE Free(wanted, d.taken)
    BY <1>1, <2>1
  <2>2. CASE ~Free(wanted, d.taken)
    <3>1. least \in 1..FullLength /\ Free(Suffixed(wanted, f, least), d.taken) /\ at = Suffixed(wanted, f, least)
      BY <1>3, <2>2
    <3> HIDE DEF wanted, least, at
    <3> QED
      BY <1>1, <3>1, SuffixedIsPlace
  <2> QED
    BY <2>1, <2>2
<1>5. Allocate(root, d, f) = [d EXCEPT !.taken = @ \cup {new}, !.conflicts = @ \cup told]
  <2>1. ~(~Free(wanted, d.taken) /\ lengths = {})
    BY <1>2
  <2> QED
    BY <2>1 DEF Allocate
<1>6. new.owner = f /\ new.at = at /\ new = [at |-> new.at, request |-> new.request, owner |-> new.owner]
  <2> HIDE DEF at, request
  <2>1. new.owner = f /\ new.at = at /\ new.request = request
    OBVIOUS
  <2> QED
    BY <2>1
<1>7. \A c \in told : c.kind # "LINK_AMBIGUITY"
  BY DEF Conflict, CollisionKind
<1> HIDE DEF at, new, told
<1>8. Allocate(root, d, f) = [taken |-> d.taken \cup {new}, conflicts |-> d.conflicts \cup told, error |-> None]
  <2> DEFINE e == [d EXCEPT !.taken = @ \cup {new}, !.conflicts = @ \cup told]
  <2>1. e = [k \in {"taken", "conflicts", "error"} |-> e[k]]
    BY DEF Allocated
  <2>2. e.taken = d.taken \cup {new} /\ e.conflicts = d.conflicts \cup told /\ e.error = None
    BY DEF Allocated
  <2> HIDE DEF e
  <2>3. e = [taken |-> e.taken, conflicts |-> e.conflicts, error |-> e.error]
    BY <2>1
  <2>4. e = [taken |-> d.taken \cup {new}, conflicts |-> d.conflicts \cup told, error |-> None]
    BY <2>2, <2>3
  <2> QED
    BY <1>5, <2>4 DEF e
<1> DEFINE e == Allocate(root, d, f)
<1>9. e.taken = d.taken \cup {new} /\ e.conflicts = d.conflicts \cup told /\ e.error = None
  BY <1>8
<1>10. e = [taken |-> e.taken, conflicts |-> e.conflicts, error |-> None]
  BY <1>8, <1>9
<1> HIDE DEF e
<1>11. OwnTag(new)
  BY <1>4, <1>6 DEF OwnTag
<1>17. OwnNames(new)
  <2>1. NamesOf(at) \subseteq NamesOf(wanted)
    BY <1>1, SuffixedNames DEF at
  <2>2. NamesOf(wanted) \subseteq MadeUp \cup NamesOf(f.path)
    BY WantedNames DEF SoundFiles
  <2> QED
    BY <1>6, <2>1, <2>2 DEF OwnNames
<1>12. \A t \in d.taken : Key(t.at) # Key(new.at) /\ t.owner # new.owner
  BY <1>4, <1>6 DEF Free, Allocated
<1>13. \A t, u \in e.taken : Key(t.at) = Key(u.at) \/ t.owner = u.owner => t = u
  BY <1>9, <1>12 DEF Allocated
<1>14. \A t \in e.taken : /\ t = [at |-> t.at, request |-> t.request, owner |-> t.owner]
                          /\ t.owner \in D \cup {f} /\ IsPlace(t.at) /\ OwnTag(t) /\ OwnNames(t)
  BY <1>4, <1>6, <1>9, <1>11, <1>17 DEF Allocated
<1>15. \A g \in D \cup {f} : \E t \in e.taken : t.owner = g
  BY <1>6, <1>9 DEF Allocated
<1>16. \A c \in e.conflicts : c.kind # "LINK_AMBIGUITY"
  BY <1>7, <1>9 DEF Allocated
<1> QED
  BY <1>10, <1>13, <1>14, <1>15, <1>16 DEF Allocated, e

\* Files that come one after the other get destinations apart.
LEMMA AllocateSorted ==
  ASSUME NEW files, SoundFiles(files), NEW D \in SUBSET files, NEW d, Allocated(d, D),
         NEW S \in SUBSET files, S \cap D = {}, NEW R, StrictOrder(S, R), NEW root \in MadeUp
  PROVE  Allocated(AllocateAll(root, d, Sorted(S, R)), D \cup S)
<1> DEFINE n == Cardinality(S)
           q == Sorted(S, R)
           first(k) == {q[i] : i \in 1..k}
<1>1. IsFiniteSet(S)
  BY FS_Subset DEF SoundFiles
<1>2. /\ n \in Nat /\ DOMAIN q = 1..n /\ \A i \in 1..n : q[i] \in S
      /\ \A i, j \in 1..n : i < j => <<q[i], q[j]>> \in R
      /\ \A f \in S : \E i \in 1..n : q[i] = f
  BY <1>1, SortedIsInOrder
<1> HIDE DEF n, q
<1>3. PICK h : IsAllocation(h, root, d, q, n) /\ AllocateAll(root, d, q) = h[n]
  BY <1>2, AllocateAllSteps
<1> DEFINE T == {k \in Nat : k <= n => Allocated(h[k], D \cup first(k))}
<1>4. 0 \in T
  <2>1. h[0] = d /\ first(0) = {}
    BY <1>3 DEF IsAllocation
  <2>2. D \cup first(0) = D
    BY <2>1
  <2> QED
    BY <2>1, <2>2
<1>5. ASSUME NEW k \in Nat, k \in T PROVE k + 1 \in T
  <2> SUFFICES ASSUME k + 1 <= n PROVE Allocated(h[k + 1], D \cup first(k + 1))
    OBVIOUS
  <2>1. k \in 0..(n - 1) /\ k + 1 \in 1..n /\ Allocated(h[k], D \cup first(k))
    BY <1>2, <1>5
  <2>2. h[k + 1] = Allocate(root, h[k], q[k + 1])
    BY <1>3, <2>1 DEF IsAllocation
  <2>3. first(k) \subseteq S /\ q[k + 1] \in S
    BY <1>2, <2>1
  <2>4. q[k + 1] \notin first(k)
    <3> SUFFICES ASSUME NEW i \in 1..k, q[i] = q[k + 1] PROVE FALSE
      OBVIOUS
    <3>1. i \in 1..n /\ i < k + 1
      BY <1>2, <2>1
    <3>2. <<q[i], q[k + 1]>> \in R
      BY <1>2, <2>1, <3>1
    <3> QED
      BY <2>3, <3>2 DEF StrictOrder
  <2>5. first(k + 1) = first(k) \cup {q[k + 1]}
    <3>1. 1..(k + 1) = (1..k) \cup {k + 1}
      BY <1>5
    <3> QED
      BY <3>1
  <2> DEFINE E == D \cup first(k)
  <2>6. E \in SUBSET files /\ q[k + 1] \in files /\ q[k + 1] \notin E
    BY <2>3, <2>4
  <2>7. D \cup first(k + 1) = E \cup {q[k + 1]}
    BY <2>5
  <2>8. Allocated(h[k], E)
    BY <2>1
  <2> HIDE DEF E, first
  <2>9. Allocated(Allocate(root, h[k], q[k + 1]), E \cup {q[k + 1]})
    BY <2>6, <2>8, AllocateOne
  <2> QED
    BY <2>2, <2>7, <2>9
<1>6. n \in T
  <2> HIDE DEF T
  <2> QED
    BY <1>2, <1>4, <1>5, NumbersFollow
<1>7. first(n) = S
  BY <1>2
<1>8. Allocated(h[n], D \cup S)
  <2>1. n \in Nat /\ n <= n
    BY <1>2
  <2> HIDE DEF first
  <2>2. Allocated(h[n], D \cup first(n))
    BY <1>6, <2>1
  <2> QED
    BY <1>7, <2>2
<1> QED
  BY <1>3, <1>8 DEF q

\* An attachment is written under its content.
LEMMA AssetIsPlaced ==
  ASSUME NEW f, f.path \in LogicalPaths
  PROVE  IsPlace(AssetPlace(f)) /\ TagOf(AssetPlace(f)) = <<"#", f.data>>
<1> DEFINE w == <<Folder("none")>> \o f.path
<1>1. IsPlace(w)
  BY WantedIsPlace
<1>2. PICK p \in Paths : f.path = Nfc(p)
  BY DEF LogicalPaths
<1>3. IsPath(p)
  BY <1>2, VaultsAssumption
<1>4. f.path = [i \in 1..Len(p) |-> [p[i] EXCEPT !.spelling = IF @ = "decomposed" THEN "plain" ELSE @]]
  BY <1>2, <1>3 DEF Nfc, IsPath
<1>5. Len(f.path) = Len(p) /\ Len(p) \in 1..Len(p)
  BY <1>3, <1>4 DEF IsPath
<1> DEFINE c == p[Len(p)]
           last == Last(f.path)
           l == [last EXCEPT !.tag = <<"#", f.data>>]
<1>6. last = [c EXCEPT !.spelling = IF @ = "decomposed" THEN "plain" ELSE @]
  BY <1>4, <1>5 DEF Last
<1>7. c = [word |-> c.word, spelling |-> c.spelling, ext |-> c.ext, tag |-> <<>>]
  BY <1>3, <1>5 DEF IsPath, Component
<1> HIDE DEF c
<1>8. DOMAIN last = {"word", "spelling", "ext", "tag"}
  BY <1>6, <1>7
<1> HIDE DEF last
<1>9. l = [k \in {"word", "spelling", "ext", "tag"} |-> l[k]] /\ l.tag = <<"#", f.data>>
  BY <1>8
<1> HIDE DEF l
<1>10. l = [word |-> l.word, spelling |-> l.spelling, ext |-> l.ext, tag |-> l.tag]
  BY <1>9
<1> DEFINE a == [word |-> "attachments", spelling |-> "plain", ext |-> "", tag |-> <<>>]
           b == [word |-> "prefix", spelling |-> "plain", ext |-> "", tag |-> <<>>]
           place == <<a, b, l>>
<1>11. /\ a = [word |-> a.word, spelling |-> a.spelling, ext |-> a.ext, tag |-> a.tag]
       /\ b = [word |-> b.word, spelling |-> b.spelling, ext |-> b.ext, tag |-> b.tag]
  OBVIOUS
<1>12. AssetPlace(f) = place
  BY DEF AssetPlace, Folder, Component, last, l
<1> HIDE DEF a, b
<1>13. Len(place) = 3 /\ DOMAIN place = 1..3 /\ place[1] = a /\ place[2] = b /\ place[3] = l
       /\ place = [i \in 1..3 |-> place[i]]
  OBVIOUS
<1> HIDE DEF place
<1>14. \A i \in DOMAIN place : i = 1 \/ i = 2 \/ i = 3
  BY <1>13
<1>15. IsPlace(place)
  BY <1>10, <1>11, <1>13, <1>14 DEF IsPlace
<1>16. TagOf(place) = <<"#", f.data>>
  BY <1>9, <1>13 DEF TagOf
<1> QED
  BY <1>12, <1>15, <1>16

\* The files that are written of one kind are of that kind and write themselves.
LEMMA WrittenAreSealed ==
  ASSUME NEW files, SoundFiles(files), NEW kind, NEW f \in Written(files, Owners(files), kind)
  PROVE  f \in files /\ Kind(f.path) = kind /\ Owners(files)[f] = f
<1>1. PICK g \in files : Kind(g.path) = kind /\ f = Owners(files)[g]
  BY DEF Written, OfKind
<1> QED
  BY <1>1, RepresentativeIsSealed

\* Attachments of one content have one representative.
LEMMA ContentsAreApart ==
  ASSUME NEW files, SoundFiles(files), NEW f \in Written(files, Owners(files), "asset"),
         NEW g \in Written(files, Owners(files), "asset"), f.data = g.data
  PROVE  f = g
<1>1. /\ f \in files /\ Kind(f.path) = "asset" /\ Owners(files)[f] = f
      /\ g \in files /\ Kind(g.path) = "asset" /\ Owners(files)[g] = g
  BY WrittenAreSealed
<1> DEFINE assets == OfKind(files, "asset")
<1>2. Owners(files)[f] = FirstOccurrence(assets, f) /\ Owners(files)[g] = FirstOccurrence(assets, g)
  BY <1>1 DEF Owners
<1> HIDE DEF assets
<1>3. FirstOccurrence(assets, f) = FirstOccurrence(assets, g)
  BY DEF FirstOccurrence
<1> QED
  BY <1>1, <1>2, <1>3

\* The attachments join the notes that have their destinations.
LEMMA AssetsJoinNotes ==
  ASSUME NEW files, SoundFiles(files), NEW notes, NEW A, NEW W,
         A = Written(files, Owners(files), "markdown"), W = Written(files, Owners(files), "asset"),
         Allocated(notes, A)
  PROVE  Allocated([notes EXCEPT !.taken = {[t EXCEPT !.request = t.at] : t \in @}
                                     \cup {[at |-> AssetPlace(f), request |-> AssetPlace(f), owner |-> f] : f \in W}],
                   A \cup W)
<1> DEFINE fixed(t) == [t EXCEPT !.request = t.at]
           asset(f) == [at |-> AssetPlace(f), request |-> AssetPlace(f), owner |-> f]
           taken    == {fixed(t) : t \in notes.taken} \cup {asset(f) : f \in W}
           new      == [notes EXCEPT !.taken = taken]
<1>1. new = [taken |-> taken, conflicts |-> notes.conflicts, error |-> None]
  <2> HIDE DEF taken
  <2>1. notes = [taken |-> notes.taken, conflicts |-> notes.conflicts, error |-> None]
    BY DEF Allocated
  <2>2. new = [k \in {"taken", "conflicts", "error"} |-> new[k]]
    BY <2>1
  <2>3. new.taken = taken /\ new.conflicts = notes.conflicts /\ new.error = None
    BY <2>1
  <2> HIDE DEF new
  <2>4. new = [taken |-> new.taken, conflicts |-> new.conflicts, error |-> new.error]
    BY <2>2
  <2> QED
    BY <2>3, <2>4
<1>2. ASSUME NEW t \in notes.taken
      PROVE  /\ fixed(t) = [at |-> t.at, request |-> t.at, owner |-> t.owner]
             /\ t.owner \in A /\ IsPlace(t.at) /\ OwnTag(t) /\ OwnNames(t)
  <2>1. t = [at |-> t.at, request |-> t.request, owner |-> t.owner]
    BY DEF Allocated
  <2> DEFINE e == fixed(t)
  <2>2. e = [k \in {"at", "request", "owner"} |-> e[k]] /\ e.at = t.at /\ e.request = t.at /\ e.owner = t.owner
    BY <2>1
  <2> HIDE DEF e
  <2>3. e = [at |-> e.at, request |-> e.request, owner |-> e.owner]
    BY <2>2
  <2>4. e = [at |-> t.at, request |-> t.at, owner |-> t.owner]
    BY <2>2, <2>3
  <2> QED
    BY <2>4 DEF Allocated, e
<1>3. ASSUME NEW f \in W
      PROVE  /\ f \in files /\ Kind(f.path) = "asset"
             /\ IsPlace(AssetPlace(f)) /\ TagOf(AssetPlace(f)) = <<"#", f.data>>
             /\ NamesOf(AssetPlace(f)) \subseteq MadeUp \cup NamesOf(f.path)
  <2>1. f \in files /\ Kind(f.path) = "asset"
    BY WrittenAreSealed
  <2> QED
    BY <2>1, AssetIsPlaced, AssetNames DEF SoundFiles
<1>4. \A f \in A : Kind(f.path) = "markdown"
  BY WrittenAreSealed
<1> HIDE DEF fixed
<1>5. ASSUME NEW t \in taken
      PROVE  /\ t = [at |-> t.at, request |-> t.request, owner |-> t.owner]
             /\ t.owner \in A \cup W /\ IsPlace(t.at) /\ OwnTag(t) /\ OwnNames(t)
  <2>1. CASE \E u \in notes.taken : t = fixed(u)
    <3>1. PICK u \in notes.taken : t = fixed(u)
      BY <2>1
    <3>2. t = [at |-> u.at, request |-> u.at, owner |-> u.owner]
      BY <1>2, <3>1
    <3>3. t.at = u.at /\ t.request = u.at /\ t.owner = u.owner
      BY <3>2
    <3>4. OwnTag(t) /\ OwnNames(t)
      BY <1>2, <3>3 DEF OwnTag, OwnNames
    <3> QED
      BY <1>2, <3>2, <3>3, <3>4
  <2>2. CASE \E f \in W : t = asset(f)
    <3>1. PICK f \in W : t = asset(f)
      BY <2>2
    <3>2. t.at = AssetPlace(f) /\ t.request = AssetPlace(f) /\ t.owner = f
      BY <3>1
    <3>3. OwnTag(t) /\ OwnNames(t)
      BY <1>3, <3>2 DEF OwnTag, OwnNames
    <3> QED
      BY <1>3, <3>1, <3>2, <3>3
  <2> QED
    BY <2>1, <2>2
\* A note keeps out of the names of attachments.
<1>6. ASSUME NEW t \in notes.taken, NEW f \in W
      PROVE  Key(t.at) # Key(AssetPlace(f)) /\ t.owner # f
  <2>1. IsPlace(t.at) /\ t.owner \in A /\ OwnTag(t)
    BY <1>2
  <2>2. TagOf(t.at) # <<"#", f.data>>
    BY <1>4, <2>1 DEF OwnTag
  <2> QED
    BY <1>3, <1>4, <2>1, <2>2, KeysKeepTags
<1>7. ASSUME NEW t \in taken, NEW u \in taken, Key(t.at) = Key(u.at) \/ t.owner = u.owner
      PROVE  t = u
  <2>1. CASE (\E x \in notes.taken : t = fixed(x)) /\ \E x \in notes.taken : u = fixed(x)
    <3>1. PICK x \in notes.taken : t = fixed(x)
      BY <2>1
    <3>2. PICK y \in notes.taken : u = fixed(y)
      BY <2>1
    <3>3. t.at = x.at /\ t.owner = x.owner /\ u.at = y.at /\ u.owner = y.owner
      BY <1>2, <3>1, <3>2
    <3>4. x = y
      BY <1>7, <3>3 DEF Allocated
    <3> QED
      BY <3>1, <3>2, <3>4
  <2>2. CASE (\E x \in notes.taken : t = fixed(x)) /\ \E f \in W : u = asset(f)
    <3>1. PICK x \in notes.taken : t = fixed(x)
      BY <2>2
    <3>2. PICK f \in W : u = asset(f)
      BY <2>2
    <3>3. t.at = x.at /\ t.owner = x.owner /\ u.at = AssetPlace(f) /\ u.owner = f
      BY <1>2, <3>1, <3>2
    <3> QED
      BY <1>6, <1>7, <3>3
  <2>3. CASE (\E f \in W : t = asset(f)) /\ \E x \in notes.taken : u = fixed(x)
    <3>1. PICK f \in W : t = asset(f)
      BY <2>3
    <3>2. PICK x \in notes.taken : u = fixed(x)
      BY <2>3
    <3>3. u.at = x.at /\ u.owner = x.owner /\ t.at = AssetPlace(f) /\ t.owner = f
      BY <1>2, <3>1, <3>2
    <3> QED
      BY <1>6, <1>7, <3>3
  <2>4. CASE (\E f \in W : t = asset(f)) /\ \E f \in W : u = asset(f)
    <3>1. PICK f \in W : t = asset(f)
      BY <2>4
    <3>2. PICK g \in W : u = asset(g)
      BY <2>4
    <3>3. t.at = AssetPlace(f) /\ t.owner = f /\ u.at = AssetPlace(g) /\ u.owner = g
      BY <3>1, <3>2
    <3>4. CASE Key(t.at) = Key(u.at)
      <4>1. <<"#", f.data>> = <<"#", g.data>>
        BY <1>3, <3>3, <3>4, KeysKeepTags
      <4>2. f.data = g.data
        BY <4>1
      <4>3. f = g
        BY <4>2, ContentsAreApart
      <4> QED
        BY <3>1, <3>2, <4>3
    <3> QED
      BY <1>7, <3>1, <3>2, <3>3, <3>4
  <2> QED
    BY <2>1, <2>2, <2>3, <2>4
<1>8. ASSUME NEW f \in A \cup W PROVE \E t \in taken : t.owner = f
  <2>1. CASE f \in A
    <3>1. PICK t \in notes.taken : t.owner = f
      BY <2>1 DEF Allocated
    <3>2. fixed(t) \in taken /\ fixed(t).owner = f
      BY <1>2, <3>1
    <3> QED
      BY <3>2
  <2>2. CASE f \in W
    <3>1. asset(f) \in taken /\ asset(f).owner = f
      BY <2>2
    <3> QED
      BY <3>1
  <2> QED
    BY <2>1, <2>2
<1> HIDE DEF taken
<1>9. new.taken = taken /\ new.conflicts = notes.conflicts /\ new.error = None
  BY <1>1
<1>10. new = [taken |-> new.taken, conflicts |-> new.conflicts, error |-> None]
  BY <1>1, <1>9
<1> HIDE DEF new
<1>11. Allocated(new, A \cup W)
  BY <1>5, <1>7, <1>8, <1>9, <1>10 DEF Allocated
<1> QED
  BY <1>11 DEF new, taken, fixed

\* All that is written has its destination, and no allocation fails.
LEMMA AllocationsAreSound ==
  ASSUME NEW files, SoundFiles(files)
  PROVE  Allocated(Allocations(files, Owners(files)), {Owners(files)[f] : f \in files})
<1> DEFINE owners   == Owners(files)
           W(kind)  == Written(files, owners, kind)
           nothing  == [taken |-> {}, conflicts |-> {}, error |-> None]
           notes    == AllocateAll("knowledge", nothing, InOrder(W("markdown")))
           settled  == [notes EXCEPT !.taken = {[t EXCEPT !.request = t.at] : t \in @}
                                     \cup {[at |-> AssetPlace(f), request |-> AssetPlace(f), owner |-> f] : f \in W("asset")}]
           canvases == AllocateAll("canvases", settled, InOrder(W("canvas")))
           views    == AllocateAll("views", canvases, BySource(W("base")))
<1>1. Allocations(files, owners) = views
  BY DEF Allocations
<1>2. ASSUME NEW kind PROVE /\ W(kind) \in SUBSET files
                            /\ \A f \in W(kind) : Kind(f.path) = kind
                            /\ StrictOrder(W(kind), {p \in W(kind) \X W(kind) : Precedes(p[1], p[2])})
                            /\ StrictOrder(W(kind), {p \in W(kind) \X W(kind) : SourceFirst(p[1], p[2])})
  <2>1. W(kind) \in SUBSET files /\ \A f \in W(kind) : Kind(f.path) = kind
    BY WrittenAreSealed
  <2> HIDE DEF W
  <2> QED
    BY <2>1, FilesAreInOrder
<1> DEFINE A == W("markdown")
           B == W("asset")
           C == W("canvas")
           D == W("base")
<1>3. /\ A \in SUBSET files /\ B \in SUBSET files /\ C \in SUBSET files /\ D \in SUBSET files
      /\ C \cap (A \cup B) = {} /\ D \cap (A \cup B \cup C) = {}
  BY <1>2
<1>10. {"knowledge", "canvases", "views"} \subseteq MadeUp
  BY DEF MadeUp
<1>4. Allocated(nothing, {})
  BY DEF Allocated
<1>5. Allocated(notes, A)
  <2>1. InOrder(A) = Sorted(A, {p \in A \X A : Precedes(p[1], p[2])})
    BY DEF InOrder
  <2>2. StrictOrder(A, {p \in A \X A : Precedes(p[1], p[2])})
    BY <1>2
  <2> DEFINE R == {p \in A \X A : Precedes(p[1], p[2])}
  <2>3. StrictOrder(A, R) /\ notes = AllocateAll("knowledge", nothing, Sorted(A, R))
    BY <2>1, <2>2
  <2> HIDE DEF A, R, nothing, notes
  <2>4. {} \in SUBSET files /\ A \cap {} = {} /\ {} \cup A = A
    OBVIOUS
  <2> QED
    BY <1>3, <1>4, <1>10, <2>3, <2>4, AllocateSorted
<1>6. Allocated(settled, A \cup B)
  <2> HIDE DEF notes
  <2> QED
    BY <1>5, AssetsJoinNotes
<1>7. Allocated(canvases, (A \cup B) \cup C)
  <2> DEFINE R == {p \in C \X C : Precedes(p[1], p[2])}
             E == A \cup B
  <2>1. StrictOrder(C, R) /\ canvases = AllocateAll("canvases", settled, Sorted(C, R))
    BY <1>2 DEF InOrder
  <2>2. E \in SUBSET files /\ C \in SUBSET files /\ C \cap E = {} /\ Allocated(settled, E)
    BY <1>3, <1>6
  <2> HIDE DEF A, B, C, E, R, settled, canvases
  <2>3. Allocated(canvases, E \cup C)
    BY <1>10, <2>1, <2>2, AllocateSorted
  <2> QED
    BY <2>3 DEF E
<1>8. Allocated(views, ((A \cup B) \cup C) \cup D)
  <2> DEFINE R == {p \in D \X D : SourceFirst(p[1], p[2])}
             E == (A \cup B) \cup C
  <2>1. StrictOrder(D, R) /\ views = AllocateAll("views", canvases, Sorted(D, R))
    BY <1>2 DEF BySource
  <2>2. E \in SUBSET files /\ D \in SUBSET files /\ D \cap E = {} /\ Allocated(canvases, E)
    BY <1>3, <1>7
  <2> HIDE DEF A, B, C, D, E, R, canvases, views
  <2>3. Allocated(views, E \cup D)
    BY <1>10, <2>1, <2>2, AllocateSorted
  <2> QED
    BY <2>3 DEF E
<1>9. ((A \cup B) \cup C) \cup D = {owners[f] : f \in files}
  <2>1. \A f \in files : Kind(f.path) \in {"markdown", "asset", "canvas", "base"}
    BY DEF Kind
  <2>2. /\ A = {owners[f] : f \in {g \in files : Kind(g.path) = "markdown"}}
        /\ B = {owners[f] : f \in {g \in files : Kind(g.path) = "asset"}}
        /\ C = {owners[f] : f \in {g \in files : Kind(g.path) = "canvas"}}
        /\ D = {owners[f] : f \in {g \in files : Kind(g.path) = "base"}}
    BY DEF Written, OfKind
  <2> HIDE DEF owners, A, B, C, D
  <2> QED
    BY <2>1, <2>2
<1> HIDE DEF A, B, C, D, views
<1> QED
  BY <1>1, <1>8, <1>9

-----------------------------------------------------------------------------
(* The plan the builder drafts.                                             *)

\* What a draft consists of when there is one.
Drafted(files, d) ==
    LET owners   == Owners(files)
        done     == Allocations(files, owners)
        place    == Places(files, owners, done.taken)
        resolved == Resolutions(files, owners)
    IN  /\ d.error = None /\ d.files = files /\ d.owners = owners /\ d.place = place /\ d.resolved = resolved
        /\ d.operations = {Operation(place, resolved, owners[f]) : f \in files}
        /\ d.conflicts = done.conflicts \cup ReviewConflicts(files, owners)
                             \cup {LinkConflict(owners, resolved, l[1], l[2]) : l \in AmbiguousLinks(resolved)}

LEMMA DraftIsDrafted ==
  ASSUME NEW files, SoundFiles(files)
  PROVE  \/ Draft(files) = [error |-> "UnsafePath"]
         \/ Drafted(files, Draft(files))
<1>1. Allocations(files, Owners(files)).error = None
  BY AllocationsAreSound DEF Allocated
<1> DEFINE owners   == Owners(files)
           done     == Allocations(files, owners)
           place    == Places(files, owners, done.taken)
           resolved == Resolutions(files, owners)
           escape   == \E f \in Linking(files) : \E i \in DOMAIN Links(f) :
                           Escapes(place, f, Links(f)[i], resolved[f][i])
           operations == {Operation(place, resolved, owners[f]) : f \in files}
           conflicts  == done.conflicts \cup ReviewConflicts(files, owners)
                             \cup {LinkConflict(owners, resolved, l[1], l[2]) : l \in AmbiguousLinks(resolved)}
           d == [error |-> None, files |-> files, owners |-> owners, place |-> place,
                 resolved |-> resolved, operations |-> operations, conflicts |-> conflicts]
<1>2. Draft(files) = IF done.error # None THEN [error |-> done.error]
                     ELSE IF escape THEN [error |-> "UnsafePath"] ELSE d
  BY DEF Draft
<1>3. Draft(files) = IF escape THEN [error |-> "UnsafePath"] ELSE d
  BY <1>1, <1>2
<1>4. CASE escape
  BY <1>3, <1>4
<1>5. CASE ~escape
  <2>1. Draft(files) = d
    BY <1>3, <1>5
  <2> HIDE DEF owners, done, place, resolved, operations, conflicts, escape
  <2>2. /\ d.error = None /\ d.files = files /\ d.owners = owners /\ d.place = place /\ d.resolved = resolved
        /\ d.operations = operations /\ d.conflicts = conflicts
    OBVIOUS
  <2> HIDE DEF d
  <2>3. Drafted(files, d)
    BY <2>2 DEF Drafted, owners, done, place, resolved, operations, conflicts
  <2> QED
    BY <2>1, <2>3
<1> QED
  BY <1>4, <1>5

\* A file is found where its representative is written, and nothing else is there.
LEMMA PlacesAreApart ==
  ASSUME NEW files, SoundFiles(files), NEW place,
         place = Places(files, Owners(files), Allocations(files, Owners(files)).taken)
  PROVE  /\ DOMAIN place = files
         /\ \A f \in files : place[Owners(files)[f]] = place[f]
         /\ \A f, g \in files : Key(place[f]) = Key(place[g]) => Owners(files)[f] = Owners(files)[g]
         /\ \A f \in files : IsPlace(place[f]) /\ NamesOf(place[f]) \subseteq MadeUp \cup NamesOf(Owners(files)[f].path)
<1> DEFINE owners == Owners(files)
           done   == Allocations(files, owners)
           mine(f) == CHOOSE t \in done.taken : t.owner = owners[f]
<1>1. Allocated(done, {owners[f] : f \in files})
  BY AllocationsAreSound
<1>2. \A f \in files : owners[f] \in files /\ owners[owners[f]] = owners[f]
  BY RepresentativeIsSealed
<1> HIDE DEF owners, done
<1>3. ASSUME NEW f \in files PROVE mine(f) \in done.taken /\ mine(f).owner = owners[f]
  <2>1. \E t \in done.taken : t.owner = owners[f]
    BY <1>1 DEF Allocated
  <2> QED
    BY <2>1
<1>4. place = [f \in files |-> mine(f).at]
  BY DEF Places, owners, done
<1>5. \A f \in files : place[owners[f]] = place[f]
  <2> SUFFICES ASSUME NEW f \in files PROVE place[owners[f]] = place[f]
    OBVIOUS
  <2>1. mine(owners[f]) = mine(f)
    BY <1>2
  <2> QED
    BY <1>2, <1>4, <2>1
<1>6. ASSUME NEW f \in files, NEW g \in files, Key(place[f]) = Key(place[g]) PROVE owners[f] = owners[g]
  <2>1. place[f] = mine(f).at /\ place[g] = mine(g).at
    BY <1>4
  <2> HIDE DEF mine
  <2>2. mine(f) = mine(g)
    BY <1>1, <1>3, <1>6, <2>1 DEF Allocated
  <2> QED
    BY <1>3, <2>2
<1>7. DOMAIN place = files
  BY <1>4
<1>8. ASSUME NEW f \in files PROVE IsPlace(place[f]) /\ NamesOf(place[f]) \subseteq MadeUp \cup NamesOf(owners[f].path)
  <2>1. place[f] = mine(f).at
    BY <1>4
  <2> HIDE DEF mine
  <2> QED
    BY <1>1, <1>3, <2>1 DEF Allocated, OwnNames
<1> HIDE DEF mine
<1> QED
  BY <1>5, <1>6, <1>7, <1>8 DEF owners

LEMMA OperationIs ==
  ASSUME NEW place, NEW resolved, NEW f
  PROVE  /\ Operation(place, resolved, f).from = f /\ Operation(place, resolved, f).at = place[f]
         /\ Operation(place, resolved, f).what \in {"copy", "rewrite"}
         /\ (Operation(place, resolved, f).what = "copy" /\ Kind(f.path) \in {"markdown", "canvas"})
                => Rewritten(place, resolved, f) = Links(f)
         /\ Operation(place, resolved, f).what = "rewrite" =>
                /\ Kind(f.path) \in {"markdown", "canvas"}
                /\ Operation(place, resolved, f).links = Rewritten(place, resolved, f)
                /\ Rewritten(place, resolved, f) # Links(f)
<1> DEFINE links == IF Kind(f.path) \in {"markdown", "canvas"} THEN Rewritten(place, resolved, f) ELSE <<>>
           same  == Kind(f.path) \in {"asset", "base"} \/ links = Links(f)
           op    == Operation(place, resolved, f)
<1>1. op = [what |-> IF same THEN "copy" ELSE "rewrite", from |-> f, at |-> place[f],
            links |-> IF same THEN <<>> ELSE links]
  BY DEF Operation
<1>2. Kind(f.path) \in {"markdown", "asset", "canvas", "base"}
  BY DEF Kind
<1> HIDE DEF op, links, same
<1>3. /\ op.from = f /\ op.at = place[f] /\ op.what = IF same THEN "copy" ELSE "rewrite"
      /\ op.links = IF same THEN <<>> ELSE links
  BY <1>1
<1>4. CASE same
  <2>1. op.what = "copy"
    BY <1>3, <1>4
  <2>2. Kind(f.path) \in {"markdown", "canvas"} => Rewritten(place, resolved, f) = Links(f)
    BY <1>4 DEF same, links
  <2> QED
    BY <1>3, <2>1, <2>2 DEF op
<1>5. CASE ~same
  <2>1. op.what = "rewrite" /\ op.links = links
    BY <1>3, <1>5
  <2>2. Kind(f.path) \in {"markdown", "canvas"} /\ links = Rewritten(place, resolved, f) /\ links # Links(f)
    BY <1>2, <1>5 DEF same, links
  <2> QED
    BY <1>3, <2>1, <2>2 DEF op
<1> QED
  BY <1>4, <1>5

\* The operations of a draft write every sealed file, each at a place of its own.
LEMMA DraftCovers ==
  ASSUME NEW files, SoundFiles(files), NEW d, Drafted(files, d)
  PROVE  OperationsCover(d)
<1> DEFINE owners   == Owners(files)
           place    == Places(files, owners, Allocations(files, owners).taken)
           resolved == Resolutions(files, owners)
           op(f)    == Operation(place, resolved, owners[f])
<1>1. /\ d.files = files /\ d.owners = owners /\ d.place = place /\ d.resolved = resolved
      /\ d.operations = {op(f) : f \in files}
  BY DEF Drafted
<1>2. /\ DOMAIN place = files
      /\ \A f \in files : place[owners[f]] = place[f]
      /\ \A f, g \in files : Key(place[f]) = Key(place[g]) => owners[f] = owners[g]
  BY PlacesAreApart
<1>3. \A f \in files : owners[f] \in files /\ owners[owners[f]] = owners[f]
  BY RepresentativeIsSealed
<1> HIDE DEF owners, place, resolved
<1>4. ASSUME NEW f \in files PROVE op(f).from = owners[f] /\ op(f).at = place[f]
  BY <1>2, OperationIs
<1>5. ASSUME NEW f \in files
      PROVE  SourceIsSealed(d, op(f)) /\ IF op(f).what = "copy" THEN CopyIsSound(d, op(f)) ELSE RewriteIsSound(d, op(f))
  <2>1. SourceIsSealed(d, op(f))
    BY <1>1, <1>2, <1>3, <1>4 DEF SourceIsSealed
  <2>2. CASE op(f).what = "copy"
    <3>1. CopyIsSound(d, op(f))
      BY <1>1, <1>4, <2>2, OperationIs DEF CopyIsSound
    <3> QED
      BY <2>1, <2>2, <3>1
  <2>3. CASE op(f).what # "copy"
    <3>1. op(f).what = "rewrite"
      BY <2>3, OperationIs
    <3>2. /\ Kind(owners[f].path) \in {"markdown", "canvas"}
          /\ op(f).links = Rewritten(place, resolved, owners[f])
          /\ Rewritten(place, resolved, owners[f]) # Links(owners[f])
      BY <3>1, OperationIs
    <3>3. RewriteIsSound(d, op(f))
      BY <1>1, <1>4, <3>2 DEF RewriteIsSound
    <3> QED
      BY <2>1, <2>3, <3>3
  <2> QED
    BY <2>2, <2>3
<1>6. ASSUME NEW f \in files, NEW g \in files, Key(op(f).at) = Key(op(g).at) PROVE op(f) = op(g)
  <2>1. owners[f] = owners[g]
    BY <1>2, <1>4, <1>6
  <2> QED
    BY <2>1
<1> HIDE DEF op
<1>7. \A x, y \in d.operations : Key(x.at) = Key(y.at) => x = y
  BY <1>1, <1>6
<1>8. {x.at : x \in d.operations} = {d.place[f] : f \in d.files}
  BY <1>1, <1>4
<1>9. \A x \in d.operations :
          SourceIsSealed(d, x) /\ IF x.what = "copy" THEN CopyIsSound(d, x) ELSE RewriteIsSound(d, x)
  BY <1>1, <1>5
<1> QED
  BY <1>1, <1>2, <1>7, <1>8, <1>9 DEF OperationsCover

\* What a link may lead to was sealed.
LEMMA CandidatesAreSealed ==
  ASSUME NEW files, SoundFiles(files), NEW f \in files, NEW text, NEW kinds
  PROVE  Candidates(files, Owners(files), f, Split(f, text).path, kinds) \subseteq files
<1> DEFINE owners == Owners(files)
           candidates == Candidates(files, owners, f, Split(f, text).path, kinds)
<1>1. \A g \in files : owners[g] \in files
  BY RepresentativeIsSealed
<1> DEFINE target == Split(f, text).path
           among   == {g \in files : Kind(g.path) \in kinds}
           exact   == UNION {At(among, f.source, p) : p \in Reached(f.path, target)}
           implied == UNION {At(among, f.source, WithMd(p))
                             : p \in {q \in Reached(f.path, target) : Last(q).ext # "md"}}
           named   == IF target.parts = <<>> THEN {}
                      ELSE {g \in OfKind(files, "markdown") : Last(target.parts).word \in LookupKeys(g)}
<1>2. exact \subseteq files /\ implied \subseteq files /\ named \subseteq files
  BY DEF At, OfKind
<1>3. \/ candidates = {}
      \/ candidates = {owners[g] : g \in exact}
      \/ candidates = {owners[g] : g \in implied}
      \/ candidates = {owners[g] : g \in named}
  <2>1. candidates = IF target = NoPath \/ Reached(f.path, target) = {} THEN {}
                     ELSE {owners[g] : g \in IF exact # {} THEN exact ELSE IF implied # {} THEN implied ELSE named}
    BY DEF Candidates
  <2> HIDE DEF candidates, exact, implied, named, owners
  <2> QED
    BY <2>1
<1> HIDE DEF candidates, exact, implied, named, owners
<1> QED
  BY <1>1, <1>2, <1>3 DEF candidates, owners

LEMMA LinkIsSealed ==
  ASSUME NEW files, SoundFiles(files), NEW f \in files, NEW text, NEW r,
         r = ResolveLink(files, Owners(files), f, text), r.state \in {"resolved", "asset"}
  PROVE  r.to \subseteq files /\ r.to # {}
<1> DEFINE owners   == Owners(files)
           link     == Split(f, text)
           matching == {c \in Candidates(files, owners, f, link.path, {"markdown"}) : FragmentMatches(c, link)}
           assets   == AssetsAt(files, owners, f, link.path)
           itself   == /\ link.path = NoPath
                       /\ link.heading # None \/ link.block # None
                       /\ FragmentMatches(owners[f], link)
<1>1. r = CASE matching # {} -> Decide(matching)
            [] matching = {} /\ link.path # NoPath /\ assets # {} -> Resolution("asset", {CHOOSE a \in assets : TRUE})
            [] itself -> Resolution("resolved", {owners[f]})
            [] OTHER -> Resolution("unresolved", {})
  BY DEF ResolveLink
<1>2. \A g \in files : owners[g] \in files
  BY RepresentativeIsSealed
<1>3. matching \subseteq files
  BY CandidatesAreSealed
<1>4. assets \subseteq files
  BY <1>2 DEF AssetsAt, At, OfKind
<1>5. itself => link.path = NoPath
  OBVIOUS
<1> HIDE DEF matching, assets, owners, itself, link
<1>6. CASE matching # {} /\ r = Decide(matching)
  BY <1>3, <1>6 DEF Decide, Resolution
<1>7. CASE matching = {} /\ link.path # NoPath /\ assets # {}
  <2>1. r = Resolution("asset", {CHOOSE a \in assets : TRUE})
    BY <1>1, <1>5, <1>7
  <2>2. (CHOOSE a \in assets : TRUE) \in assets
    BY <1>7
  <2> QED
    BY <1>4, <2>1, <2>2 DEF Resolution
<1>8. CASE r = Resolution("resolved", {owners[f]})
  BY <1>2, <1>8 DEF Resolution
<1>10. CASE r = Resolution("unresolved", {})
  BY <1>10 DEF Resolution
<1>11. \/ matching # {} /\ r = Decide(matching)
       \/ matching = {} /\ link.path # NoPath /\ assets # {}
       \/ r = Resolution("resolved", {owners[f]})
       \/ r = Resolution("unresolved", {})
  BY <1>1
<1> QED
  BY <1>6, <1>7, <1>8, <1>10, <1>11

\* What a reference of a canvas is resolved to is sealed, and it is one file or several.
LEMMA ReferenceIsSealed ==
  ASSUME NEW files, SoundFiles(files), NEW f \in files, NEW text, NEW r,
         r = ResolveReference(files, Owners(files), f, text)
  PROVE  /\ r.to \subseteq files
         /\ r.state = "resolved" => Cardinality(r.to) = 1
         /\ r.state = "ambiguous" => Cardinality(r.to) >= 2
<1> DEFINE owners == Owners(files)
           kinds  == {"markdown", "asset", "canvas", "base"}
           candidates == Candidates(files, owners, f, Split(f, text).path, kinds)
<1>1. candidates \subseteq files
  BY CandidatesAreSealed
<1>2. r = IF candidates = {} THEN Resolution("unresolved", {}) ELSE Decide(candidates)
  BY DEF ResolveReference
<1> HIDE DEF candidates
<1>3. IsFiniteSet(candidates) /\ Cardinality(candidates) \in Nat /\ (Cardinality(candidates) = 0 <=> candidates = {})
  BY <1>1, FS_Subset, FS_CardinalityType, FS_EmptySet DEF SoundFiles
<1>4. CASE candidates = {}
  BY <1>2, <1>4 DEF Resolution
<1>5. CASE candidates # {} /\ Cardinality(candidates) = 1
  BY <1>1, <1>2, <1>5 DEF Resolution, Decide
<1>6. CASE candidates # {} /\ Cardinality(candidates) # 1
  <2>1. r.to = candidates /\ r.state = "ambiguous"
    BY <1>2, <1>6 DEF Resolution, Decide
  <2>2. Cardinality(candidates) >= 2
    BY <1>3, <1>6
  <2> QED
    BY <1>1, <2>1, <2>2
<1> QED
  BY <1>4, <1>5, <1>6

\* No conflict but those of links is about a link.
LEMMA OtherConflicts ==
  ASSUME NEW files, NEW owners, NEW c \in ReviewConflicts(files, owners)
  PROVE  c.kind # "LINK_AMBIGUITY"
<1> DEFINE notes == OfKind(files, "markdown")
           titles(f) == {Title(f), Last(f.path).word}
           aliases(f) == f.data.head.aliases
           titled(w) == {owners[f] : f \in {g \in notes : w \in titles(g)}}
           named(w) == {owners[f] : f \in {g \in notes : w \in aliases(g)}}
           sameBody(f) == {g \in notes : g.data.head.links = f.data.head.links /\ ExactKey(g).tail = ExactKey(f).tail}
           X == {w \in UNION {titles(f) : f \in notes} : Cardinality(titled(w)) > 1}
           Y == {w \in UNION {aliases(f) : f \in notes} : Cardinality(named(w)) > 1}
           Z == {g \in notes : \E h \in sameBody(g) : h.data.head # g.data.head}
<1>1. ReviewConflicts(files, owners)
          = {Conflict("TITLE_AMBIGUITY", FALSE, titled(w), <<w>>) : w \in X}
            \cup {Conflict("ALIAS_AMBIGUITY", FALSE, named(w), <<w>>) : w \in Y}
            \cup {Conflict("FRONTMATTER_VALUE", FALSE, sameBody(f), <<>>) : f \in Z}
  BY DEF ReviewConflicts
<1> HIDE DEF X, Y, Z, titled, named, sameBody
<1> QED
  BY <1>1 DEF Conflict

LEMMA DraftTellsConflicts ==
  ASSUME NEW files, SoundFiles(files), NEW d, Drafted(files, d), NEW kind
  PROVE  ConflictsCover(d, kind)
<1> DEFINE owners   == Owners(files)
           done     == Allocations(files, owners)
           resolved == Resolutions(files, owners)
           link(l)  == LinkConflict(owners, resolved, l[1], l[2])
           links    == AmbiguousLinks(resolved)
<1>1. /\ d.owners = owners /\ d.resolved = resolved
      /\ d.conflicts = done.conflicts \cup ReviewConflicts(files, owners) \cup {link(l) : l \in links}
  BY DEF Drafted
<1>2. \A c \in done.conflicts : c.kind # "LINK_AMBIGUITY"
  BY AllocationsAreSound DEF Allocated
<1>3. \A c \in ReviewConflicts(files, owners) : c.kind # "LINK_AMBIGUITY"
  BY OtherConflicts
<1>4. \A l : link(l).kind = "LINK_AMBIGUITY" /\ link(l).subject[1] = l[1]
  BY DEF LinkConflict, Conflict
<1> HIDE DEF owners, done, resolved, link, links
<1>5. {c \in d.conflicts : c.kind = "LINK_AMBIGUITY" /\ Kind(c.subject[1].path) = kind}
          = {link(l) : l \in {m \in links : Kind(m[1].path) = kind}}
  BY <1>1, <1>2, <1>3, <1>4
<1> QED
  BY <1>1, <1>5 DEF ConflictsCover, link, links

\* The builder would accept its own plan from anybody.
LEMMA DraftIsValid ==
  ASSUME NEW files, SoundFiles(files), NEW d, Drafted(files, d)
  PROVE  ValidPlan(d, Sources)
<1> DEFINE owners   == Owners(files)
           resolved == Resolutions(files, owners)
<1>1. d.files = files /\ d.owners = owners /\ d.resolved = resolved
  BY DEF Drafted
<1>2. \A f \in files : owners[f] \in files /\ Kind(owners[f].path) = Kind(f.path) /\ SameFile(owners[f], f)
  BY RepresentativeIsSealed
<1>3. SnapshotsAreSound(d.files, Sources)
  BY <1>1 DEF SoundFiles
<1>4. NotesAreSound(d)
  BY <1>1, <1>2 DEF NotesAreSound, OfKind
<1>5. AttachmentsAreSound(d)
  <2>1. \A f \in files : Kind(f.path) = "asset" => owners[f].data = f.data
    BY <1>2 DEF SameFile
  <2> QED
    BY <1>1, <1>2, <2>1 DEF AttachmentsAreSound, OfKind
<1>6. ReferencesAreSound(d)
  <2> SUFFICES ASSUME NEW f \in files, Kind(f.path) = "canvas", NEW i \in DOMAIN Links(f)
               PROVE  /\ resolved[f][i].to \subseteq files
                      /\ resolved[f][i].state = "resolved" => Cardinality(resolved[f][i].to) = 1
                      /\ resolved[f][i].state = "ambiguous" => Cardinality(resolved[f][i].to) >= 2
    BY <1>1 DEF ReferencesAreSound, OfKind
  <2>1. resolved[f][i] = ResolveReference(files, owners, f, Links(f)[i])
    BY DEF Resolutions, Linking, OfKind
  <2> HIDE DEF resolved
  <2> QED
    BY <2>1, ReferenceIsSealed
<1>7. CanvasConflictsCover(d) /\ NoteConflictsCover(d)
  BY DraftTellsConflicts DEF CanvasConflictsCover, NoteConflictsCover
<1> QED
  BY <1>3, <1>4, <1>5, <1>6, <1>7, DraftCovers DEF ValidPlan

-----------------------------------------------------------------------------
(* The way from one destination to another.                                 *)

\* A logical path is a place.
LEMMA LogicalIsPlace ==
  ASSUME NEW path \in LogicalPaths
  PROVE  IsPlace(path)
<1>1. PICK p \in Paths : path = Nfc(p)
  BY DEF LogicalPaths
<1>2. IsPath(p)
  BY VaultsAssumption
<1>3. path = [i \in 1..Len(p) |-> [p[i] EXCEPT !.spelling = IF @ = "decomposed" THEN "plain" ELSE @]]
  BY <1>1, <1>2 DEF Nfc, IsPath
<1>4. Len(path) = Len(p) /\ DOMAIN path = 1..Len(p) /\ path = [i \in 1..Len(p) |-> path[i]]
  BY <1>2, <1>3 DEF IsPath
<1>5. ASSUME NEW i \in 1..Len(p)
      PROVE  path[i] = [word |-> path[i].word, spelling |-> path[i].spelling, ext |-> path[i].ext, tag |-> path[i].tag]
  <2>1. p[i] = [word |-> p[i].word, spelling |-> p[i].spelling, ext |-> p[i].ext, tag |-> <<>>]
    BY <1>2 DEF IsPath, Component
  <2>2. path[i] = [k \in {"word", "spelling", "ext", "tag"} |-> path[i][k]]
    BY <1>3, <2>1
  <2> QED
    BY <2>2
<1> QED
  BY <1>2, <1>4, <1>5 DEF IsPath, IsPlace

\* Sequences of one length with the same members at every place are one sequence.
LEMMA PlaceIsSequence ==
  ASSUME NEW p, Len(p) \in Nat, p = [i \in 1..Len(p) |-> p[i]]
  PROVE  p \in Seq({p[i] : i \in 1..Len(p)})
<1> DEFINE S == {p[i] : i \in 1..Len(p)}
           n == Len(p)
<1>1. n \in Nat /\ p = [i \in 1..n |-> p[i]] /\ \A i \in 1..n : p[i] \in S
  OBVIOUS
<1> HIDE DEF n, S
<1>2. p \in Seq(S)
  BY <1>1
<1> QED
  BY <1>2 DEF S, n

LEMMA SequenceOver ==
  ASSUME NEW p, Len(p) \in Nat, p = [i \in 1..Len(p) |-> p[i]], NEW S, \A i \in 1..Len(p) : p[i] \in S
  PROVE  p \in Seq(S)
<1> DEFINE n == Len(p)
<1>1. n \in Nat /\ p = [i \in 1..n |-> p[i]] /\ \A i \in 1..n : p[i] \in S
  OBVIOUS
<1> HIDE DEF n
<1> QED
  BY <1>1

\* A bounded set of numbers that is not empty has a greatest one.
LEMMA GreatestExists ==
  ASSUME NEW n \in Nat, NEW S \in SUBSET (0..n), S # {}
  PROVE  (CHOOSE k \in S : \A m \in S : m <= k) \in S
<1> DEFINE U == {k \in Nat : \A m \in S : m <= k}
<1>1. n \in U
  OBVIOUS
<1>2. PICK k \in U : \A j \in U : k <= j
  BY <1>1, LeastExists
<1>3. k \in S
  <2> SUFFICES ASSUME k \notin S PROVE FALSE
    OBVIOUS
  <2>1. \A m \in S : m \in Nat /\ m <= k /\ m # k
    BY <1>2
  <2>2. PICK m0 \in S : TRUE
    OBVIOUS
  <2>3. k \in Nat /\ m0 \in Nat /\ m0 <= k /\ m0 # k
    BY <2>1, <2>2
  <2>4. k - 1 \in Nat /\ \A m \in S : m <= k - 1
    BY <2>1, <2>3
  <2>5. k - 1 \in U
    BY <2>4
  <2> QED
    BY <1>2, <2>3, <2>5
<1> QED
  BY <1>2, <1>3

\* The way from one destination to another leads there (relative_output_target).
LEMMA RelativeLeadsThere ==
  ASSUME NEW from, NEW to, IsPlace(from), IsPlace(to)
  PROVE  /\ Reached(from, Relative(from, to)) = {to}
         /\ \A i \in DOMAIN Relative(from, to).parts : \E j \in DOMAIN to : Relative(from, to).parts[i] = to[j]
<1> DEFINE S == {from[i] : i \in 1..Len(from)} \cup {to[i] : i \in 1..Len(to)}
           base   == Front(from)
           shared == {n \in 0..Len(base) : n < Len(to) /\ SubSeq(base, 1, n) = SubSeq(to, 1, n)}
           common == CHOOSE n \in shared : \A m \in shared : m <= n
           parts  == SubSeq(to, common + 1, Len(to))
           target == Relative(from, to)
<1>1. /\ from \in Seq(S) /\ to \in Seq(S) /\ Len(from) \in Nat \ {0} /\ Len(to) \in Nat \ {0}
      /\ \A i \in 1..Len(from) : from[i] \in S
      /\ \A i \in 1..Len(to) : to[i] \in S
  <2>1. /\ Len(from) \in Nat \ {0} /\ Len(to) \in Nat \ {0}
        /\ from = [i \in 1..Len(from) |-> from[i]] /\ to = [i \in 1..Len(to) |-> to[i]]
    BY DEF IsPlace
  <2>2. from \in Seq({from[i] : i \in 1..Len(from)}) /\ to \in Seq({to[i] : i \in 1..Len(to)})
    BY <2>1, PlaceIsSequence
  <2>3. \A i \in 1..Len(from) : from[i] \in S
    OBVIOUS
  <2>4. \A i \in 1..Len(to) : to[i] \in S
    OBVIOUS
  <2> HIDE DEF S
  <2> QED
    BY <2>1, <2>2, <2>3, <2>4
<1> HIDE DEF S
<1>2. /\ base \in Seq(S) /\ Len(base) = Len(from) - 1 /\ Len(base) \in Nat
      /\ \A i \in 1..Len(base) : base[i] \in S
  <2>1. \A i \in 1..Len(from) - 1 : from[i] \in S
    BY <1>1
  <2>2. base = SubSeq(from, 1, Len(from) - 1)
    BY DEF Front
  <2> HIDE DEF base
  <2> DEFINE n == Len(from)
  <2>3. n \in Nat \ {0} /\ 1 \in Int /\ n - 1 \in Int /\ \A i \in 1..n - 1 : from[i] \in S
    BY <1>1, <2>1
  <2> HIDE DEF n
  <2>4. base = SubSeq(from, 1, n - 1)
    BY <2>2 DEF n
  <2>5. /\ base \in Seq(S) /\ Len(base) = IF 1 <= n - 1 THEN (n - 1) - 1 + 1 ELSE 0
    BY <2>3, <2>4, SubSeqProperties
  <2>6. Len(base) = n - 1 /\ n - 1 \in Nat
    BY <2>3, <2>5
  <2> QED
    BY <2>5, <2>6 DEF n
<1> HIDE DEF base
<1>3. common \in shared
  <2>1. 0 \in shared
    BY <1>1, <1>2, SubSeqEmpty
  <2>2. shared \in SUBSET (0..Len(base)) /\ shared # {}
    BY <2>1
  <2> HIDE DEF shared
  <2> QED
    BY <1>2, <2>2, GreatestExists
<1>4. common \in 0..Len(base) /\ common < Len(to) /\ SubSeq(base, 1, common) = SubSeq(to, 1, common)
  BY <1>3
<1>5. target = [rooted |-> FALSE, ups |-> Len(base) - common, parts |-> parts]
  BY DEF Relative, base
<1> HIDE DEF common, target, shared
<1>6. Trimmed(from, target) = SubSeq(to, 1, common) \o parts
  <2>1. Trimmed(from, target) = SubSeq(base, 1, Len(base) - (Len(base) - common)) \o parts
    BY <1>5 DEF Trimmed, base
  <2>2. Len(base) - (Len(base) - common) = common
    BY <1>2, <1>4
  <2> QED
    BY <1>4, <2>1, <2>2
<1> DEFINE b == parts
<1>13. b \in Seq(S) /\ Len(b) = Len(to) - common /\ \A i \in 1..Len(to) - common : b[i] = to[common + i]
  <2>1. common + 1 \in Int /\ Len(to) \in Int /\ \A i \in common + 1 .. Len(to) : to[i] \in S
    BY <1>1, <1>2, <1>4
  <2>2. /\ b \in Seq(S) /\ Len(b) = IF common + 1 <= Len(to) THEN Len(to) - (common + 1) + 1 ELSE 0
        /\ \A i \in 1..Len(to) - (common + 1) + 1 : b[i] = to[(common + 1) + i - 1]
    BY <2>1, SubSeqProperties
  <2> HIDE DEF b
  <2>3. Len(b) = Len(to) - common
    BY <1>1, <1>2, <1>4, <2>2
  <2>4. ASSUME NEW i \in 1..Len(to) - common PROVE b[i] = to[common + i]
    <3>1. i \in 1..Len(to) - (common + 1) + 1 /\ (common + 1) + i - 1 = common + i
      BY <1>1, <1>2, <1>4
    <3> QED
      BY <2>2, <3>1
  <2> QED
    BY <2>2, <2>3, <2>4
<1> HIDE DEF b
<1>7. SubSeq(to, 1, common) \o parts = to
  <2> DEFINE a == SubSeq(to, 1, common)
  <2>1. \A i \in 1..common : to[i] \in S
    BY <1>1, <1>2, <1>4
  <2>2. a \in Seq(S) /\ Len(a) = common /\ \A i \in 1..common : a[i] = to[i]
    <3>1. 1 \in Int /\ common \in Int
      BY <1>2, <1>4
    <3>2. /\ a \in Seq(S) /\ Len(a) = IF 1 <= common THEN common - 1 + 1 ELSE 0
          /\ \A i \in 1..common - 1 + 1 : a[i] = to[1 + i - 1]
      BY <2>1, <3>1, SubSeqProperties
    <3> HIDE DEF a
    <3> QED
      BY <1>2, <1>4, <3>2
  <2>3. b \in Seq(S) /\ Len(b) = Len(to) - common /\ \A i \in 1..Len(to) - common : b[i] = to[common + i]
    BY <1>13
  <2> HIDE DEF a
  <2>4. /\ a \o b \in Seq(S) /\ Len(a \o b) = Len(a) + Len(b)
        /\ \A i \in 1..Len(a) + Len(b) : (a \o b)[i] = IF i <= Len(a) THEN a[i] ELSE b[i - Len(a)]
    BY <2>2, <2>3, ConcatProperties
  <2>5. Len(a \o b) = Len(to)
    BY <1>1, <1>2, <1>4, <2>2, <2>3, <2>4
  <2>6. ASSUME NEW i \in 1..Len(to) PROVE (a \o b)[i] = to[i]
    <3>1. i \in 1..Len(a) + Len(b)
      BY <1>1, <1>2, <1>4, <2>2, <2>3
    <3>2. CASE i <= common
      <4>1. i \in 1..common /\ i <= Len(a)
        BY <2>2, <3>2
      <4> QED
        BY <2>2, <2>4, <3>1, <4>1
    <3>3. CASE ~(i <= common)
      <4>1. i - common \in 1..Len(to) - common /\ common + (i - common) = i /\ ~(i <= Len(a)) /\ i - Len(a) = i - common
        BY <1>1, <1>2, <1>4, <2>2, <3>3
      <4> QED
        BY <2>3, <2>4, <3>1, <4>1
    <3> QED
      BY <3>2, <3>3
  <2>7. a \o b = to
    BY <1>1, <2>4, <2>5, <2>6, SeqEqual
  <2> QED
    BY <2>7 DEF a, b
<1>8. to # <<>> /\ DOMAIN to = 1..Len(to)
  BY <1>1
<1>14. \A i \in DOMAIN target.parts : \E j \in DOMAIN to : target.parts[i] = to[j]
  <2>1. target.parts = b /\ DOMAIN b = 1..Len(to) - common
    BY <1>5, <1>13 DEF b
  <2>2. ASSUME NEW i \in 1..Len(to) - common PROVE common + i \in 1..Len(to) /\ b[i] = to[common + i]
    BY <1>1, <1>2, <1>4, <1>13
  <2> QED
    BY <1>8, <2>1, <2>2
<1>9. ~(target.ups > Len(from) - 1) /\ target.rooted = FALSE
  BY <1>2, <1>4, <1>5
<1> HIDE DEF target
<1>10. Trimmed(from, target) = to
  BY <1>6, <1>7
<1>11. Reached(from, target) = {Trimmed(from, target)} \ {<<>>}
  BY <1>9 DEF Reached
<1>12. Reached(from, target) = {to}
  BY <1>8, <1>10, <1>11
<1> QED
  BY <1>12, <1>14 DEF target

\* What is marked with some characters is marked with more.
LEMMA MarkedMore ==
  ASSUME NEW parts, NEW M, NEW N
  PROVE  /\ M \subseteq N /\ Marked(parts, M) => Marked(parts, N)
         /\ Marked(parts, M \cup N) <=> Marked(parts, M) \/ Marked(parts, N)
  BY DEF Marked

\* A wiki link in which nothing is cut is read as it is written.
LEMMA WikiIsRead ==
  ASSUME NEW text, ~Marked(text.path.parts, text.open), ~Marked(text.path.parts, {"#", "^", "]]"})
  PROVE  SplitWiki(text) = [path |-> text.path, heading |-> text.heading, block |-> text.block, whole |-> TRUE]
<1>1. {"#"} \subseteq {"#", "^", "]]"} /\ {"^"} \subseteq {"#", "^", "]]"} /\ {"]]"} \subseteq {"#", "^", "]]"}
  OBVIOUS
<1>2. /\ ~Marked(text.path.parts, {"#"}) /\ ~Marked(text.path.parts, {"^"}) /\ ~Marked(text.path.parts, {"]]"})
  BY <1>1, MarkedMore
<1>3. ~Marked(text.path.parts, text.open \cup {"]]"})
  BY <1>2, MarkedMore
<1> QED
  BY <1>2, <1>3 DEF SplitWiki

\* The fields of what is read of a Markdown link.
LEMMA MarkdownIsRead ==
  ASSUME NEW text
  PROVE  /\ SplitMarkdown(text).whole = ~Marked(text.path.parts, text.open)
         /\ text.block = None => /\ SplitMarkdown(text).path = text.path /\ SplitMarkdown(text).heading = text.heading
                                 /\ SplitMarkdown(text).block = None
<1> DEFINE empty == ""
           more == [text.path EXCEPT !.parts = WithLast(@, Extended(Last(@), "^", text.block))]
           path == IF text.heading = None /\ text.block # None /\ text.path.parts # <<>> THEN more ELSE text.path
           heading == CASE text.heading = empty /\ text.block # None -> None
                        [] text.heading \notin {None, empty} /\ text.block # None -> "caret"
                        [] OTHER -> text.heading
           block == IF text.heading = empty THEN text.block ELSE None
           whole == ~Marked(text.path.parts, text.open)
<1>1. SplitMarkdown(text) = [path |-> path, heading |-> heading, block |-> block, whole |-> whole]
  BY DEF SplitMarkdown
<1>2. text.block = None => path = text.path /\ heading = text.heading /\ block = None
  OBVIOUS
<1> HIDE DEF path, heading, block, whole
<1> QED
  BY <1>1, <1>2 DEF whole

\* What is written of a link, and how it is read again.
LEMMA RenderedLink ==
  ASSUME NEW f, NEW text, IsText(text), NEW target, Kind(f.path) # "canvas"
  PROVE  LET link == Split(f, text)
             new  == Render(f, text, target)
             heading == IF text.syntax = "markdown" THEN Encode(link.heading) ELSE link.heading
         IN  /\ new.syntax = text.syntax /\ new.path = target /\ new.heading = heading /\ new.block = link.block
             /\ new.open = text.open
             /\ text.syntax = "markdown" => Split(f, new) = SplitMarkdown(new) /\ link = SplitMarkdown(text)
             /\ text.syntax = "wiki" => Split(f, new) = SplitWiki(new) /\ link = SplitWiki(text)
             /\ text.syntax \notin {"markdown", "wiki"} =>
                    Split(f, new) = SplitReference(new) /\ link = SplitReference(text)
<1> DEFINE link == Split(f, text)
           new  == Render(f, text, target)
           heading == IF text.syntax = "markdown" THEN Encode(link.heading) ELSE link.heading
<1>1. new = [text EXCEPT !.path = target, !.heading = heading, !.block = link.block]
  BY DEF Render
<1>2. DOMAIN text = {"syntax", "path", "heading", "block", "open"}
  BY DEF IsText
<1>3. /\ new.syntax = text.syntax /\ new.path = target /\ new.heading = heading /\ new.block = link.block
      /\ new.open = text.open
  <2> HIDE DEF heading, link, new
  <2> QED
    BY <1>1, <1>2
<1>4. /\ text.syntax = "markdown" => link = SplitMarkdown(text)
      /\ text.syntax = "wiki" => link = SplitWiki(text)
      /\ text.syntax \notin {"markdown", "wiki"} => link = SplitReference(text)
  BY DEF Split
<1> HIDE DEF new, link, heading
<1>5. /\ text.syntax = "markdown" => Split(f, new) = SplitMarkdown(new)
      /\ text.syntax = "wiki" => Split(f, new) = SplitWiki(new)
      /\ text.syntax \notin {"markdown", "wiki"} => Split(f, new) = SplitReference(new)
  BY <1>3 DEF Split
<1> QED
  BY <1>3, <1>4, <1>5 DEF new, link, heading

\* A link that is written as it is read, with a path that it can be given, keeps its
\* heading and its block, and is found as one link.
LEMMA RenderedReadsAlike ==
  ASSUME NEW f, Kind(f.path) # "canvas", NEW text, IsText(text), ~WrittenOtherwise(text),
         NEW target, ~Unwritable(text, target.parts)
  PROVE  /\ Split(f, Render(f, text, target)).heading = Split(f, text).heading
         /\ Split(f, Render(f, text, target)).block = Split(f, text).block
         /\ Split(f, Render(f, text, target)).whole
<1> DEFINE link == Split(f, text)
           new  == Render(f, text, target)
           heading == IF text.syntax = "markdown" THEN Encode(link.heading) ELSE link.heading
<1>1. /\ new.syntax = text.syntax /\ new.path = target /\ new.heading = heading /\ new.block = link.block
      /\ new.open = text.open
      /\ text.syntax = "markdown" => Split(f, new) = SplitMarkdown(new) /\ link = SplitMarkdown(text)
      /\ text.syntax = "wiki" => Split(f, new) = SplitWiki(new) /\ link = SplitWiki(text)
      /\ text.syntax \notin {"markdown", "wiki"} => Split(f, new) = SplitReference(new) /\ link = SplitReference(text)
  BY RenderedLink
<1> HIDE DEF new, link
<1>5. ~Marked(new.path.parts, new.open)
  BY <1>1, MarkedMore DEF Unwritable
<1>2. CASE text.syntax = "markdown"
  <2>1. link.block = None /\ Encode(link.heading) = link.heading
    BY <1>1, <1>2 DEF WrittenOtherwise
  <2>2. new.heading = link.heading /\ new.block = None
    BY <1>1, <1>2, <2>1
  <2>3. Split(f, new).heading = new.heading /\ Split(f, new).block = None /\ Split(f, new).whole
    BY <1>1, <1>2, <1>5, <2>2, MarkdownIsRead
  <2> QED
    BY <2>1, <2>2, <2>3 DEF new, link
<1>3. CASE text.syntax = "wiki"
  <2>1. ~Marked(new.path.parts, {"#", "^", "]]"})
    BY <1>1, <1>3, MarkedMore DEF Unwritable
  <2>2. Split(f, new) = [path |-> new.path, heading |-> new.heading, block |-> new.block, whole |-> TRUE]
    BY <1>1, <1>3, <1>5, <2>1, WikiIsRead
  <2> QED
    BY <1>1, <1>3, <2>2 DEF new, link
<1>4. CASE text.syntax \notin {"markdown", "wiki"}
  <2>1. Split(f, new) = [path |-> new.path, heading |-> None, block |-> None, whole |-> TRUE]
    BY <1>1, <1>4 DEF SplitReference
  <2>2. link = [path |-> text.path, heading |-> None, block |-> None, whole |-> TRUE]
    BY <1>1, <1>4 DEF SplitReference
  <2> QED
    BY <2>1, <2>2 DEF new, link
<1> QED
  BY <1>2, <1>3, <1>4

\* A link that stays as it is was found as one link.
LEMMA KeptReadsAlike ==
  ASSUME NEW f, NEW text, IsText(text)
  PROVE  Split(f, text).whole
<1>1. ~Marked(text.path.parts, text.open)
  BY DEF IsText
<1>2. text.syntax = "wiki" =>
          SplitWiki(text) = [path |-> text.path, heading |-> text.heading, block |-> text.block, whole |-> TRUE]
  BY <1>1, WikiIsRead DEF IsText
<1>3. SplitMarkdown(text).whole
  BY <1>1, MarkdownIsRead
<1>5. SplitReference(text).whole
  BY DEF SplitReference
<1>6. text.syntax = "wiki" => SplitWiki(text).whole
  BY <1>2
<1>4. Split(f, text) \in {SplitMarkdown(text), SplitReference(text)} \/ (text.syntax = "wiki" /\ Split(f, text) = SplitWiki(text))
  BY DEF Split
<1> QED
  BY <1>3, <1>4, <1>5, <1>6

\* What the planner makes up is not marked, and neither is what is made of an
\* unmarked path.
LEMMA NamesAreMarked ==
  ASSUME NEW p, NEW q, NamesOf(p) \subseteq MadeUp \cup NamesOf(q), NEW M, Marked(p, M)
  PROVE  Marked(q, M)
<1>1. PICK i \in DOMAIN p : M \cap (Marks(p[i].word) \cup Marks(p[i].ext)) # {}
  BY DEF Marked
<1>2. {p[i].word, p[i].ext} \subseteq MadeUp \cup NamesOf(q)
  BY DEF NamesOf
<1>3. \A n \in MadeUp : Marks(n) = {}
  BY MarkAssumption DEF MadeUp
<1>4. PICK n \in NamesOf(q) : M \cap Marks(n) # {}
  BY <1>1, <1>2, <1>3
<1>5. PICK j \in DOMAIN q : n = q[j].word \/ n = q[j].ext
  BY DEF NamesOf
<1> QED
  BY <1>4, <1>5 DEF Marked

\* A rewrite of a note that does not read alike has a link that is written otherwise,
\* or one that cannot be given the path of some file.
LEMMA RewriteReadsAlike ==
  ASSUME NEW files, SoundFiles(files), NEW d, Drafted(files, d), NEW op \in d.operations, op.what = "rewrite",
         Kind(op.from.path) = "markdown", ~ReadsAlike(op.from, op.links)
  PROVE  /\ op.from \in files
         /\ \E i \in DOMAIN Links(op.from) : \/ WrittenOtherwise(Links(op.from)[i])
                                             \/ \E t \in files : Unwritable(Links(op.from)[i], t.path)
<1> DEFINE f == op.from
           owners == Owners(files)
<1>1. f \in files /\ op.links = Rewritten(d.place, d.resolved, f) /\ owners[f] = f
  BY DraftCovers DEF OperationsCover, SourceIsSealed, RewriteIsSound, Drafted
<1>2. d.place = Places(files, owners, Allocations(files, owners).taken) /\ d.resolved = Resolutions(files, owners)
  BY DEF Drafted
<1>3. /\ \A g \in files : IsPlace(d.place[g]) /\ NamesOf(d.place[g]) \subseteq MadeUp \cup NamesOf(owners[g].path)
      /\ \A g \in files : owners[g] \in files
  BY <1>2, PlacesAreApart, RepresentativeIsSealed
<1> HIDE DEF f, owners
<1> SUFFICES ASSUME NEW i \in DOMAIN Links(f), ~WrittenOtherwise(Links(f)[i]),
                    \A t \in files : ~Unwritable(Links(f)[i], t.path)
             PROVE  /\ Split(f, op.links[i]).heading = Split(f, Links(f)[i]).heading
                    /\ Split(f, op.links[i]).block = Split(f, Links(f)[i]).block
                    /\ Split(f, op.links[i]).whole
  BY <1>1 DEF ReadsAlike, f
<1> DEFINE text == Links(f)[i]
           r    == d.resolved[f][i]
           t    == CHOOSE x \in r.to : TRUE
           way  == Relative(d.place[f], d.place[t])
<1>4. IsText(text) /\ Kind(f.path) = "markdown"
  BY <1>1 DEF SoundFiles, f
<1>5. op.links[i] = IF Retargeted(f, text, r) THEN Render(f, text, way) ELSE text
  BY <1>1 DEF Rewritten
<1>6. CASE ~Retargeted(f, text, r)
  <2> HIDE DEF text, r, t
  <2>1. op.links[i] = text /\ Split(f, text).whole
    BY <1>4, <1>5, <1>6, KeptReadsAlike
  <2> QED
    BY <2>1 DEF text
<1>7. CASE Retargeted(f, text, r)
  <2>1. t \in files
    <3>1. r.state \in {"resolved", "asset"}
      BY <1>7 DEF Retargeted
    <3>2. f \in Linking(files)
      BY <1>1, <1>4 DEF Linking, OfKind
    <3>3. r = ResolveLink(files, owners, f, text)
      BY <1>2, <1>4, <3>2 DEF Resolutions
    <3> HIDE DEF text, r
    <3>4. r.to \subseteq files /\ r.to # {}
      BY <1>1, <3>1, <3>3, LinkIsSealed DEF owners
    <3> QED
      BY <3>4
  <2> HIDE DEF text, r, t
  <2>2. \A k \in DOMAIN way.parts : \E j \in DOMAIN d.place[t] : way.parts[k] = d.place[t][j]
    BY <1>1, <1>3, <2>1, RelativeLeadsThere
  <2> HIDE DEF way
  <2>3. NamesOf(way.parts) \subseteq MadeUp \cup NamesOf(owners[t].path)
    <3>1. NamesOf(way.parts) \subseteq NamesOf(d.place[t])
      BY <2>2 DEF NamesOf
    <3> QED
      BY <1>3, <2>1, <3>1
  <2>4. ~Unwritable(text, way.parts)
    <3>1. ~Unwritable(text, owners[t].path)
      BY <1>3, <2>1 DEF text
    <3> QED
      BY <2>3, <3>1, NamesAreMarked DEF Unwritable
  <2> QED
    BY <1>4, <1>5, <1>7, <2>4, RenderedReadsAlike DEF text
<1> QED
  BY <1>6, <1>7

-----------------------------------------------------------------------------
(* The invariant for what the builder makes of its own plan.                *)

\* Every source holds finitely many files, at paths that files have or are given.
VaultsOK == \A s \in Sources : DOMAIN disk[s] \subseteq Paths /\ IsFiniteSet(DOMAIN disk[s])

\* A head that some file had.
Known(head) ==
    /\ \E e \in had : e[3].head = head
    /\ \A i \in DOMAIN head.links : IsText(head.links[i])

\* The sources that are left, and the one being walked.
RoundOK ==
    /\ todo \subseteq Sources
    /\ walk = [source |-> walk.source, listed |-> walk.listed, seen |-> walk.seen]
    /\ walk # NoWalk => walk.source \in Sources \ Archives

\* What is read for the first time is of the vaults.
FoundOK ==
    phase = "inspecting" =>
        /\ handle # NoHandle => handle.path \in Paths
        /\ handle.step = "reading" => Known(handle.head)
        /\ IsFiniteSet(entries)
        /\ \A e \in entries : e.path \in LogicalPaths /\ Known(e.data.head)

SealedFilesOK ==
    /\ IsFiniteSet(sealed)
    /\ \A f \in sealed : f.source \in Sources /\ f.path \in LogicalPaths /\ Known(f.data.head)

\* The plan is a draft of the sealed files.
PlanOK ==
    /\ phase \in {"inspecting", "planning"} => plan = NoPlan /\ error = None
    /\ phase \in {"rereading", "done"} => SoundFiles(sealed) /\ Drafted(sealed, plan) /\ error = None

\* A file of a vault, and what a first reading finds of a vault that nobody edits.
FileAt(vault, p) == p \in DOMAIN vault /\ vault[p].what = "file"

FilesOf(vault) ==
    {[original |-> p, path |-> Nfc(p), data |-> vault[p].data]
     : p \in {q \in DOMAIN vault : FileAt(vault, q) /\ ~Excluded(Nfc(q))}}

\* The file being read is as it was when it was opened.
QuietHandle(vault, h) ==
    /\ FileAt(vault, h.path) /\ ~Excluded(Nfc(h.path)) /\ ~Pruned(h.path)
    /\ \/ h = [path |-> h.path, step |-> "found"]
       \/ h = [path |-> h.path, step |-> "reading", kept |-> <<>>, link |-> vault[h.path].what,
               head |-> vault[h.path].data.head, time |-> vault[h.path].time, size |-> Size(vault[h.path].data)]

\* What was read is what is there, and all that was come upon was read but the
\* file at hand.
QuietWalk(vault, w, h, read) ==
    /\ w.listed = {p \in DOMAIN vault : ~Pruned(p)}
    /\ h # NoHandle => QuietHandle(vault, h)
    /\ read \subseteq FilesOf(vault) /\ \A e \in read : ~Pruned(e.original)
    /\ \A p \in w.seen : (FileAt(vault, p) /\ ~Excluded(Nfc(p))) =>
           (h # NoHandle /\ h.path = p) \/ \E e \in read : e.original = p

QuietFile(vault, f) ==
    /\ \E e \in FilesOf(vault) : f.original = e.original /\ f.path = e.path /\ f.data = e.data
    /\ f.source \in Archives \/ ~Pruned(f.original)

QuietOK ==
    ~edited => /\ walk # NoWalk => QuietWalk(disk[walk.source], walk, handle, entries)
               /\ \A f \in sealed : QuietFile(disk[f.source], f)

BuildInv ==
    /\ VaultsOK /\ RoundOK /\ FoundOK /\ SealedFilesOK /\ PlanOK /\ QuietOK
    /\ OwnPlanIsAccepted

\* What is known of a head stays known.
LEMMA KnownStays ==
  ASSUME had \subseteq had'
  PROVE  \A head : Known(head) => (\E e \in had' : e[3].head = head) /\ \A i \in DOMAIN head.links : IsText(head.links[i])
  BY DEF Known

LEMMA EditsAreAtPaths ==
  ASSUME NEW t \in Sources, NEW x \in Edits(t)
  PROVE  x.path \in Paths
<1> DEFINE A == (UNION {DOMAIN b.disk[s] : b \in Beginnings, s \in Sources})
           B == {e.path : e \in UNION {Edits(s) : s \in Sources}}
<1>1. Paths = A \cup B
  BY DEF Paths
<1>2. x \in UNION {Edits(s) : s \in Sources}
  OBVIOUS
<1>3. x.path \in B
  BY <1>2
<1> HIDE DEF A, B
<1> QED
  BY <1>1, <1>3

\* Every path on record is one that files have or are given, and of every file that
\* was written within one tick there is a record.
RecordOK ==
    /\ \A e \in had : e[2] \in Paths
    /\ \A c \in coarse : \E e \in had : e[2] = c[2]

LEMMA RecordIsKept ==
  ASSUME ReadInv, RecordOK, [Next]_vars
  PROVE  RecordOK'
<1>1. ASSUME UNCHANGED <<had, coarse>> PROVE RecordOK'
  BY <1>1 DEF RecordOK
<1>2. ASSUME NEW s, NEW p \in Paths, NEW data, Write(s, p, data) PROVE RecordOK'
  <2> DEFINE e == <<s, p, data>>
             c == <<s, p>>
  <2>1. e[2] = p /\ c[2] = p
    OBVIOUS
  <2>2. had' = had \cup {e} /\ coarse' \subseteq coarse \cup {c}
    BY <1>2 DEF Write
  <2> HIDE DEF e, c
  <2> QED
    BY <2>1, <2>2 DEF RecordOK
<1>3. ASSUME NEW s \in Sources, NEW p, IsFile(s, p) PROVE p \in Paths
  <2> DEFINE e == <<s, p, disk[s][p].data>>
  <2>1. e \in had /\ e[2] = p
    BY <1>3 DEF ReadInv, DiskOK, IsFile, Exists
  <2> HIDE DEF e
  <2> QED
    BY <2>1 DEF RecordOK
<1>4. CASE Editor
  <2>1. CASE SaveTail
    <3>1. /\ saving.source \in Sources /\ IsFile(saving.source, saving.path)
          /\ Write(saving.source, saving.path, saving.data)
      BY <2>1 DEF SaveTail, ReadInv, SavingOK
    <3> QED
      BY <1>2, <1>3, <3>1
  <2>2. ASSUME NEW s \in Sources, NEW x \in Edits(s), SaveHead(s, x) PROVE RecordOK'
    BY <1>2, <2>2, EditsAreAtPaths DEF SaveHead
  <2>3. ASSUME NEW s \in Sources, NEW x \in Edits(s), Replace(s, x) PROVE RecordOK'
    <3> DEFINE e == <<s, x.path, x.data>>
    <3>1. e[2] = x.path /\ x.path \in Paths
      BY EditsAreAtPaths
    <3>2. had' = had \cup {e} /\ coarse' = coarse
      BY <2>3 DEF Replace
    <3> HIDE DEF e
    <3> QED
      BY <3>1, <3>2 DEF RecordOK
  <2>4. ASSUME NEW s \in Sources, NEW x, Link(s, x) \/ Unlink(s, x) PROVE RecordOK'
    BY <1>1, <2>4 DEF Link, Unlink
  <2> QED
    BY <1>4, <2>1, <2>2, <2>3, <2>4 DEF Editor
<1>5. CASE Builder
  <2>1. UNCHANGED editorVars
    BY <1>5 DEF Builder, OpenSource, Visit, BeginFile, EndFile, CloseSource, ReadArchive, BuildPlan, SourceRead,
                Seal, RenderSource, Fail
  <2> QED
    BY <1>1, <2>1 DEF editorVars
<1>6. CASE UNCHANGED vars
  BY <1>1, <1>6 DEF vars, editorVars
<1> QED
  BY <1>4, <1>5, <1>6 DEF Next

\* A path whose logical form is marked is marked.
LEMMA LogicalIsMarked ==
  ASSUME NEW p \in Paths, NEW M, Marked(Nfc(p), M)
  PROVE  Marked(p, M)
<1>1. IsPath(p)
  BY VaultsAssumption
<1>2. /\ DOMAIN Nfc(p) = DOMAIN p
      /\ \A i \in DOMAIN p : Nfc(p)[i].word = p[i].word /\ Nfc(p)[i].ext = p[i].ext
  BY <1>1, LogicalNames
<1> QED
  BY <1>2 DEF Marked

\* The path of a sealed file is the logical form of one that was on record.
LEMMA SealedIsOnRecord ==
  ASSUME ReadInv, RecordOK, NEW f \in sealed, f.path = Nfc(f.original), NEW M, Marked(f.path, M)
  PROVE  \E e \in had : Marked(e[2], M)
<1>1. \E e \in had : e[2] = f.original
  <2> DEFINE e == <<f.source, f.original, f.data>>
             c == <<f.source, f.original>>
  <2>1. e \in had \/ c \in coarse
    BY DEF ReadInv, SealedOK, Whole
  <2>2. e[2] = f.original /\ c[2] = f.original
    OBVIOUS
  <2> HIDE DEF e, c
  <2> QED
    BY <2>1, <2>2 DEF RecordOK
<1>2. PICK e \in had : e[2] = f.original
  BY <1>1
<1>3. f.original \in Paths
  BY <1>2 DEF RecordOK
<1> QED
  BY <1>2, <1>3, LogicalIsMarked

LEMMA EditorKeepsBuild ==
  ASSUME ReadInv, BuildInv, Editor
  PROVE  BuildInv'
<1>1. EditorMoves
  BY DEF Editor, SaveTail, SaveHead, Replace, Link, Unlink
<1>2. UNCHANGED <<phase, todo, walk, entries, sealed, plan, error>> /\ edited' = TRUE
  BY <1>1 DEF EditorMoves, planVars
\* A step changes one file of one source, at a path that files have or are given.
<1>3. \E s \in Sources, p \in Paths :
          /\ \A t \in Sources : DOMAIN disk'[t] \subseteq DOMAIN disk[t] \cup (IF t = s THEN {p} ELSE {})
          /\ had \subseteq had' /\ (handle' = handle \/ KeepOpen(s, p))
  <2>1. ASSUME NEW s \in Sources, NEW e \in Edits(s) PROVE e.path \in Paths
    BY EditsAreAtPaths
  <2>2. ASSUME NEW s \in Sources, NEW p, NEW file, disk' = Put(s, p, file)
        PROVE  \A t \in Sources : DOMAIN disk'[t] \subseteq DOMAIN disk[t] \cup (IF t = s THEN {p} ELSE {})
    BY <2>2, PutOne DEF ReadInv
  <2>3. CASE SaveTail
    <3>1. /\ saving.source \in Sources /\ saving.path \in DOMAIN disk[saving.source]
          /\ Write(saving.source, saving.path, saving.data)
      BY <2>3 DEF SaveTail, ReadInv, SavingOK, IsFile, Exists
    <3>2. saving.path \in Paths
      BY <3>1 DEF BuildInv, VaultsOK
    <3> QED
      BY <2>2, <3>1, <3>2 DEF Write
  <2>4. ASSUME NEW s \in Sources, NEW e \in Edits(s), SaveHead(s, e) \/ Replace(s, e) \/ Link(s, e)
        PROVE  /\ \A t \in Sources : DOMAIN disk'[t] \subseteq DOMAIN disk[t] \cup (IF t = s THEN {e.path} ELSE {})
               /\ had \subseteq had' /\ (handle' = handle \/ KeepOpen(s, e.path))
    BY <2>2, <2>4 DEF SaveHead, Replace, Link, Write
  <2>5. ASSUME NEW s \in Sources, NEW p, Unlink(s, p)
        PROVE  /\ \A t \in Sources : DOMAIN disk'[t] \subseteq DOMAIN disk[t] \cup (IF t = s THEN {p} ELSE {})
               /\ had \subseteq had' /\ (handle' = handle \/ KeepOpen(s, p))
    BY <2>5 DEF Unlink, ReadInv, DiskOK
  <2>6. CASE \E s \in Sources : \E e \in Edits(s) : SaveHead(s, e) \/ Replace(s, e) \/ Link(s, e)
    BY <2>1, <2>4, <2>6
  <2>7. CASE \E s \in Sources : \E p \in {e.path : e \in Edits(s)} : Unlink(s, p)
    BY <2>1, <2>5, <2>7
  <2> QED
    BY <2>3, <2>6, <2>7 DEF Editor
<1>4. PICK s \in Sources, p \in Paths :
          /\ \A t \in Sources : DOMAIN disk'[t] \subseteq DOMAIN disk[t] \cup (IF t = s THEN {p} ELSE {})
          /\ had \subseteq had' /\ (handle' = handle \/ KeepOpen(s, p))
  BY <1>3
<1>5. VaultsOK'
  <2> SUFFICES ASSUME NEW t \in Sources PROVE DOMAIN disk'[t] \subseteq Paths /\ IsFiniteSet(DOMAIN disk'[t])
    BY DEF VaultsOK
  <2>1. DOMAIN disk'[t] \subseteq DOMAIN disk[t] \cup {p}
    BY <1>4
  <2>2. DOMAIN disk[t] \subseteq Paths /\ IsFiniteSet(DOMAIN disk[t])
    BY DEF BuildInv, VaultsOK
  <2> DEFINE D == DOMAIN disk[t]
             E == DOMAIN disk'[t]
  <2> HIDE DEF D, E
  <2>3. IsFiniteSet(D \cup {p})
    BY <2>2, FS_AddElement DEF D
  <2>4. IsFiniteSet(E)
    BY <2>1, <2>3, FS_Subset DEF D, E
  <2> QED
    BY <2>1, <2>2, <2>4 DEF E
<1>6. phase = "inspecting" =>
          /\ handle' # NoHandle => handle # NoHandle /\ handle'.path = handle.path
          /\ handle'.step = "reading" => handle.step = "reading" /\ handle'.head = handle.head
  <2> SUFFICES ASSUME phase = "inspecting", handle' # handle
               PROVE  /\ handle # NoHandle /\ handle'.path = handle.path
                      /\ handle.step = "reading" /\ handle'.head = handle.head
    OBVIOUS
  <2>1. handle.step = "reading" /\ handle' = [handle EXCEPT !.kept = <<disk[s][p]>>]
    BY <1>4 DEF KeepOpen
  <2>2. handle = [path |-> handle.path, step |-> "reading", kept |-> handle.kept, link |-> handle.link,
                  head |-> handle.head, time |-> handle.time, size |-> handle.size]
    BY <2>1 DEF ReadInv, HandleOK
  <2>3. DOMAIN handle = {"path", "step", "kept", "link", "head", "time", "size"}
    BY <2>2
  <2> QED
    BY <2>1, <2>3 DEF NoHandle
<1>7. FoundOK'
  BY <1>2, <1>4, <1>6, KnownStays DEF BuildInv, FoundOK, Known
<1>8. SealedFilesOK'
  BY <1>2, <1>4, KnownStays DEF BuildInv, SealedFilesOK, Known
<1>9. RoundOK' /\ PlanOK' /\ QuietOK'
  BY <1>2 DEF BuildInv, RoundOK, PlanOK, QuietOK
<1>10. OwnPlanIsAccepted'
  BY <1>2, <1>4 DEF BuildInv, OwnPlanIsAccepted
<1> QED
  BY <1>5, <1>7, <1>8, <1>9, <1>10 DEF BuildInv

\* Some file had a link that is written in another way than it is read, or that cannot
\* be given the path of some file.
SomeIsNotWritten ==
    \E f, g \in had : \E i \in DOMAIN f[3].head.links :
        WrittenOtherwise(f[3].head.links[i]) \/ Unwritable(f[3].head.links[i], g[2])

LEMMA FailKeepsBuild ==
  ASSUME BuildInv, NEW why, Fail(why), why # "Internal",
         why = "PlanStale" => SomeIsNotWritten, why \in {"IdentityMismatch", "Io"} => edited
  PROVE  BuildInv'
<1>1. /\ UNCHANGED <<disk, edited, had>> /\ phase' = "failed" /\ walk' = NoWalk /\ error' = why
      /\ handle' = NoHandle /\ entries' = {} /\ todo' = {} /\ sealed' = {}
  BY DEF Fail, editorVars
<1>2. VaultsOK'
  BY <1>1 DEF BuildInv, VaultsOK
<1>3. RoundOK' /\ FoundOK' /\ PlanOK'
  BY <1>1 DEF RoundOK, FoundOK, PlanOK, NoWalk
<1>4. SealedFilesOK' /\ QuietOK'
  BY <1>1, FS_EmptySet DEF SealedFilesOK, QuietOK
<1>5. OwnPlanIsAccepted'
  BY <1>1 DEF OwnPlanIsAccepted, SomeIsNotWritten
<1> QED
  BY <1>2, <1>3, <1>4, <1>5 DEF BuildInv

\* What the builder does leaves the vaults alone.
LEMMA VaultsStay ==
  ASSUME UNCHANGED editorVars
  PROVE  /\ UNCHANGED <<disk, edited, had>> /\ VaultsOK' = VaultsOK
         /\ \A head : Known(head)' <=> Known(head)
  BY DEF editorVars, VaultsOK, Known

LEMMA FilesOfVaults ==
  ASSUME NEW s
  PROVE  /\ \A p : IsFile(s, p) <=> FileAt(disk[s], p)
         /\ Members(s) = FilesOf(disk[s])
  BY DEF IsFile, Exists, FileAt, Members, FilesOf

LEMMA OpenKeepsBuild ==
  ASSUME ReadInv, BuildInv, OpenSource
  PROVE  BuildInv'
<1>1. /\ todo # {} /\ walk = NoWalk /\ handle = NoHandle /\ entries = {} /\ Nearest \notin Archives
      /\ walk' = [source |-> Nearest, listed |-> {p \in DOMAIN disk[Nearest] : ~Pruned(p)}, seen |-> {}]
      /\ UNCHANGED <<editorVars, phase, todo, handle, entries, planVars, error>>
  BY DEF OpenSource, ReadInv, WalkOK
<1>2. Nearest \in Sources
  BY <1>1, NearestIsLeft, VaultsAssumption DEF BuildInv, RoundOK
<1>3. /\ walk'.source = Nearest /\ walk'.listed = {p \in DOMAIN disk[Nearest] : ~Pruned(p)} /\ walk'.seen = {}
      /\ walk' = [source |-> walk'.source, listed |-> walk'.listed, seen |-> walk'.seen]
  BY <1>1
<1>4. UNCHANGED <<disk, edited, had, phase, todo, handle, entries, sealed, plan, error>>
  BY <1>1 DEF editorVars, planVars
<1>5. RoundOK'
  BY <1>1, <1>2, <1>3, <1>4 DEF BuildInv, RoundOK
<1>6. VaultsOK' /\ FoundOK' /\ SealedFilesOK' /\ PlanOK' /\ OwnPlanIsAccepted'
  BY <1>1, <1>4 DEF BuildInv, VaultsOK, FoundOK, SealedFilesOK, PlanOK, OwnPlanIsAccepted, Known
<1>7. QuietOK'
  <2>1. QuietWalk(disk[Nearest], walk', handle, entries)
    BY <1>1, <1>3 DEF QuietWalk
  <2> QED
    BY <1>3, <1>4, <2>1 DEF BuildInv, QuietOK
<1> QED
  BY <1>5, <1>6, <1>7 DEF BuildInv

LEMMA VisitKeepsBuild ==
  ASSUME ReadInv, BuildInv, NEW p, Visit(p)
  PROVE  BuildInv'
<1>1. CASE \E q \in walk.seen : Nfc(q) = Nfc(p)
  <2>1. Fail("UnsafePath")
    BY <1>1 DEF Visit
  <2> QED
    BY <2>1, FailKeepsBuild
<1>2. CASE ~\E q \in walk.seen : Nfc(q) = Nfc(p)
  <2>1. /\ walk # NoWalk /\ handle = NoHandle /\ p \in DOMAIN disk[walk.source] /\ ~Pruned(p)
        /\ walk' = [walk EXCEPT !.seen = @ \cup {p}]
        /\ handle' = IF Excluded(Nfc(p)) \/ ~IsFile(walk.source, p) THEN NoHandle
                     ELSE [path |-> p, step |-> "found"]
        /\ UNCHANGED <<editorVars, phase, todo, entries, planVars, error>>
    BY <1>2 DEF Visit
  <2>2. UNCHANGED <<disk, edited, had, phase, todo, entries, sealed, plan, error>>
    BY <2>1 DEF editorVars, planVars
  <2>3. walk.source \in Sources \ Archives /\ p \in Paths
    BY <2>1 DEF BuildInv, RoundOK, VaultsOK
  <2>4. /\ walk'.source = walk.source /\ walk'.listed = walk.listed /\ walk'.seen = walk.seen \cup {p}
        /\ walk' = [source |-> walk'.source, listed |-> walk'.listed, seen |-> walk'.seen]
    <3>1. walk = [source |-> walk.source, listed |-> walk.listed, seen |-> walk.seen]
      BY DEF BuildInv, RoundOK
    <3> QED
      BY <2>1, <3>1
  <2>5. RoundOK'
    BY <2>2, <2>3, <2>4 DEF BuildInv, RoundOK
  <2>6. handle' # NoHandle =>
            handle' = [path |-> p, step |-> "found"] /\ IsFile(walk.source, p) /\ ~Excluded(Nfc(p))
    BY <2>1
  <2>7. handle'.step # "reading" /\ (handle' # NoHandle => handle'.path = p)
    BY <2>6 DEF NoHandle
  <2>8. FoundOK'
    BY <2>2, <2>3, <2>7, VaultsStay, <2>1 DEF BuildInv, FoundOK
  <2>9. VaultsOK' /\ SealedFilesOK' /\ PlanOK' /\ OwnPlanIsAccepted'
    BY <2>2 DEF BuildInv, VaultsOK, SealedFilesOK, PlanOK, OwnPlanIsAccepted, Known
  <2>10. QuietOK'
    <3> SUFFICES ASSUME ~edited PROVE QuietOK'
      BY <2>2 DEF QuietOK
    <3> DEFINE vault == disk[walk.source]
    <3>1. /\ QuietWalk(vault, walk, handle, entries)
          /\ \A f \in sealed : QuietFile(disk[f.source], f)
      BY <2>1 DEF BuildInv, QuietOK
    <3>2. p \in DOMAIN vault /\ (IsFile(walk.source, p) <=> FileAt(vault, p))
      BY <2>1, FilesOfVaults
    <3> HIDE DEF vault
    <3>3. handle' # NoHandle => QuietHandle(vault, handle')
      BY <2>1, <2>6, <2>7, <3>2 DEF QuietHandle
    <3>4. ASSUME NEW q \in walk'.seen, FileAt(vault, q), ~Excluded(Nfc(q))
          PROVE  (handle' # NoHandle /\ handle'.path = q) \/ \E e \in entries : e.original = q
      <4>1. CASE q = p
        <5>1. handle' = [path |-> p, step |-> "found"]
          BY <2>1, <3>2, <3>4, <4>1
        <5> QED
          BY <4>1, <5>1 DEF NoHandle
      <4>2. CASE q # p
        BY <2>1, <2>4, <3>1, <3>4, <4>2 DEF QuietWalk
      <4> QED
        BY <4>1, <4>2
    <3>5. QuietWalk(vault, walk', handle', entries)
      BY <2>4, <3>1, <3>3, <3>4 DEF QuietWalk
    <3> QED
      BY <2>2, <2>4, <3>1, <3>5 DEF QuietOK, vault
  <2> QED
    BY <2>5, <2>8, <2>9, <2>10 DEF BuildInv
<1> QED
  BY <1>1, <1>2

LEMMA BeginKeepsBuild ==
  ASSUME ReadInv, BuildInv, BeginFile
  PROVE  BuildInv'
<1> DEFINE s == walk.source
           p == handle.path
<1>1. /\ handle.step = "found" /\ handle # NoHandle /\ walk # NoWalk /\ s \in Sources
  BY DEF BeginFile, NoHandle, ReadInv, WalkOK, BuildInv, RoundOK
<1>2. ~edited => QuietWalk(disk[s], walk, handle, entries) /\ FileAt(disk[s], p) /\ ~Excluded(Nfc(p)) /\ ~Pruned(p)
  BY <1>1 DEF BuildInv, QuietOK, QuietWalk, QuietHandle
<1>3. IsFile(s, p) <=> FileAt(disk[s], p)
  BY FilesOfVaults
<1>4. CASE ~Exists(s, p)
  <2>1. Fail("Io")
    BY <1>4 DEF BeginFile
  <2>2. edited
    BY <1>2, <1>3, <1>4 DEF IsFile
  <2> QED
    BY <2>1, <2>2, FailKeepsBuild
<1>5. CASE Exists(s, p) /\ ~IsFile(s, p)
  <2>1. Fail("UnsafePath")
    BY <1>5 DEF BeginFile, OpenFile
  <2> QED
    BY <2>1, FailKeepsBuild
<1>6. CASE IsFile(s, p)
  <2> DEFINE file == disk[s][p]
  <2>1. /\ handle' = [path |-> p, step |-> "reading", kept |-> <<>>, link |-> file.what,
                      head |-> file.data.head, time |-> file.time, size |-> Size(file.data)]
        /\ UNCHANGED <<editorVars, phase, todo, walk, entries, planVars, error>>
    BY <1>6 DEF BeginFile, OpenFile, IsFile
  <2>2. UNCHANGED <<disk, edited, had, phase, todo, walk, entries, sealed, plan, error>>
    BY <2>1 DEF editorVars, planVars
  <2>3. <<s, p, file.data>> \in had /\ IsData(file.data)
    BY <1>1, <1>6 DEF IsFile, Exists, ReadInv, DiskOK, IsEntry
  <2>4. Known(file.data.head)
    <3>1. <<s, p, file.data>>[3].head = file.data.head
      OBVIOUS
    <3> QED
      BY <2>3, <3>1 DEF Known, IsData
  <2>5. handle' # NoHandle /\ handle'.path = p /\ handle'.step = "reading" /\ handle'.head = file.data.head
    BY <2>1 DEF NoHandle
  <2>6. FoundOK'
    BY <1>1, <2>2, <2>4, <2>5 DEF BuildInv, FoundOK, Known
  <2>7. VaultsOK' /\ RoundOK' /\ SealedFilesOK' /\ PlanOK' /\ OwnPlanIsAccepted'
    BY <2>2 DEF BuildInv, VaultsOK, RoundOK, SealedFilesOK, PlanOK, OwnPlanIsAccepted, Known
  <2>8. ASSUME ~edited PROVE QuietWalk(disk[s], walk, handle', entries)
    <3> DEFINE vault == disk[s]
    <3>1. /\ QuietWalk(vault, walk, handle, entries) /\ FileAt(vault, p) /\ ~Excluded(Nfc(p)) /\ ~Pruned(p)
          /\ file = vault[p]
      BY <1>2, <2>8
    <3>2. QuietHandle(vault, handle')
      <4> HIDE DEF vault, file
      <4>1. FileAt(vault, handle'.path)
        BY <2>5, <3>1
      <4> QED
        BY <2>1, <2>5, <3>1, <4>1 DEF QuietHandle
    <3> HIDE DEF vault, file
    <3>3. QuietWalk(vault, walk, handle', entries)
      BY <1>1, <2>5, <3>1, <3>2 DEF QuietWalk
    <3> QED
      BY <3>3 DEF vault
  <2>9. QuietOK'
    BY <1>1, <2>2, <2>8 DEF BuildInv, QuietOK
  <2> QED
    BY <2>6, <2>7, <2>9 DEF BuildInv
<1> QED
  BY <1>4, <1>5, <1>6 DEF IsFile

LEMMA EndKeepsBuild ==
  ASSUME ReadInv, BuildInv, EndFile
  PROVE  BuildInv'
<1> DEFINE s == walk.source
           p == handle.path
           e == [original |-> p, path |-> Nfc(p), data |-> WasRead]
<1>1. /\ handle.step = "reading" /\ handle # NoHandle /\ walk # NoWalk /\ s \in Sources
  BY DEF EndFile, NoHandle, ReadInv, WalkOK, BuildInv, RoundOK
<1>2. ~edited => QuietWalk(disk[s], walk, handle, entries)
  BY <1>1 DEF BuildInv, QuietOK
\* While nobody edits, the file has not changed.
<1>3. ASSUME ~edited
      PROVE  /\ FileAt(disk[s], p) /\ disk[s][p].what = handle.link
             /\ WasRead = disk[s][p].data /\ Unchanged /\ ~Excluded(Nfc(p)) /\ ~Pruned(p)
  <2> DEFINE file == disk[s][p]
  <2>1. QuietHandle(disk[s], handle)
    BY <1>1, <1>2, <1>3 DEF QuietWalk
  <2>2. FileAt(disk[s], p) /\ ~Excluded(Nfc(p)) /\ ~Pruned(p)
    BY <2>1 DEF QuietHandle
  <2>3. handle = [path |-> p, step |-> "reading", kept |-> <<>>, link |-> file.what,
                  head |-> file.data.head, time |-> file.time, size |-> Size(file.data)]
    BY <1>1, <2>1 DEF QuietHandle
  <2>4. IsEntry(file)
    BY <1>1, <2>2 DEF FileAt, ReadInv, DiskOK
  <2>5. /\ handle.kept = <<>> /\ handle.link = file.what /\ handle.head = file.data.head
        /\ handle.time = file.time /\ handle.size = Size(file.data)
    <3> HIDE DEF file, p
    <3> QED
      BY <2>3
  <2>6. Open = file
    BY <2>5 DEF Open
  <2>7. WasRead = file.data
    BY <2>4, <2>5, <2>6 DEF WasRead, IsEntry, IsData
  <2> QED
    BY <2>2, <2>5, <2>6, <2>7 DEF Unchanged
<1>4. CASE ~Unchanged
  BY <1>3, <1>4, FailKeepsBuild DEF EndFile
<1>5. CASE Unchanged /\ ~Exists(s, p)
  BY <1>3, <1>5, FailKeepsBuild DEF EndFile, FileAt, Exists
<1>6. CASE Unchanged /\ Exists(s, p) /\ disk[s][p].what # handle.link
  BY <1>3, <1>6, FailKeepsBuild DEF EndFile
<1>7. CASE /\ Unchanged /\ Exists(s, p) /\ disk[s][p].what = handle.link
           /\ Cardinality(entries) >= MaxFiles
  <2>1. Fail("ResourceLimit")
    BY <1>7 DEF EndFile
  <2> QED
    BY <2>1, FailKeepsBuild
<1>8. CASE /\ Unchanged /\ Exists(s, p) /\ disk[s][p].what = handle.link
           /\ ~(Cardinality(entries) >= MaxFiles)
  <2>1. /\ entries' = entries \cup {e} /\ handle' = NoHandle
        /\ UNCHANGED <<editorVars, phase, todo, walk, planVars, error>>
    BY <1>8 DEF EndFile
  <2>2. UNCHANGED <<disk, edited, had, phase, todo, walk, sealed, plan, error>>
    BY <2>1 DEF editorVars, planVars
  <2>3. e.original = p /\ e.path = Nfc(p) /\ e.data = WasRead /\ WasRead.head = handle.head
    BY DEF WasRead
  <2>4. FoundOK'
    <3> SUFFICES ASSUME phase = "inspecting" PROVE FoundOK'
      BY <2>2 DEF FoundOK
    <3>1. p \in Paths /\ Known(handle.head)
      BY <1>1 DEF BuildInv, FoundOK
    <3>2. Nfc(p) \in LogicalPaths
      BY <3>1 DEF LogicalPaths
    <3>3. IsFiniteSet(entries')
      BY <2>1, FS_AddElement DEF BuildInv, FoundOK
    <3> HIDE DEF e
    <3>4. \A x \in entries' : x.path \in LogicalPaths /\ Known(x.data.head)
      BY <2>1, <2>3, <3>1, <3>2 DEF BuildInv, FoundOK
    <3> QED
      BY <2>1, <2>2, <3>3, <3>4 DEF FoundOK, Known, NoHandle
  <2>5. VaultsOK' /\ RoundOK' /\ SealedFilesOK' /\ PlanOK' /\ OwnPlanIsAccepted'
    BY <2>2 DEF BuildInv, VaultsOK, RoundOK, SealedFilesOK, PlanOK, OwnPlanIsAccepted, Known
  <2>6. ASSUME ~edited PROVE QuietWalk(disk[s], walk, handle', entries')
    <3> DEFINE vault == disk[s]
    <3>1. /\ QuietWalk(vault, walk, handle, entries) /\ FileAt(vault, p) /\ WasRead = vault[p].data
          /\ ~Excluded(Nfc(p)) /\ ~Pruned(p)
      BY <1>2, <1>3, <2>6
    <3> HIDE DEF vault
    <3>2. e \in FilesOf(vault)
      BY <3>1 DEF FilesOf, FileAt
    <3> HIDE DEF e
    <3>3. /\ walk.listed = {q \in DOMAIN vault : ~Pruned(q)} /\ entries' \subseteq FilesOf(vault)
          /\ handle' = NoHandle /\ \A x \in entries' : ~Pruned(x.original)
      BY <2>1, <2>3, <3>1, <3>2 DEF QuietWalk
    <3>4. ASSUME NEW q \in walk.seen, FileAt(vault, q), ~Excluded(Nfc(q))
          PROVE  \E x \in entries' : x.original = q
      <4>1. q = p \/ \E x \in entries : x.original = q
        BY <3>1, <3>4 DEF QuietWalk
      <4> QED
        BY <2>1, <2>3, <4>1
    <3>5. QuietWalk(vault, walk, handle', entries')
      <4> HIDE DEF p
      <4> QED
        BY <3>3, <3>4 DEF QuietWalk
    <3> QED
      BY <3>5 DEF vault
  <2>7. QuietOK'
    BY <1>1, <2>2, <2>6 DEF BuildInv, QuietOK
  <2> QED
    BY <2>4, <2>5, <2>7 DEF BuildInv
<1> QED
  BY <1>4, <1>5, <1>6, <1>7, <1>8

LEMMA ImagesAreFinite ==
  ASSUME NEW S, IsFiniteSet(S), NEW f, DOMAIN f = S
  PROVE  IsFiniteSet({f[x] : x \in S})
<1> DEFINE T == {f[x] : x \in S}
           g == [x \in S |-> f[x]]
<1>1. g \in Surjection(S, T)
  BY DEF Surjection
<1> HIDE DEF g, T
<1>2. IsFiniteSet(T)
  BY <1>1, FS_Surjection
<1> QED
  BY <1>2 DEF T

\* A source is sealed as it was read.
LEMMA SealKeepsBuild ==
  ASSUME ReadInv, BuildInv, handle = NoHandle, phase = "inspecting", NEW s \in Sources, NEW read, Seal(s, read),
         IsFiniteSet(read), \A e \in read : e.path \in LogicalPaths /\ Known(e.data.head),
         ~edited => /\ read \subseteq FilesOf(disk[s])
                    /\ \A e \in read : s \in Archives \/ ~Pruned(e.original)
  PROVE  BuildInv'
<1>1. CASE Cardinality(sealed) + Cardinality(read) > MaxFiles
  <2>1. Fail("ResourceLimit")
    BY <1>1 DEF Seal
  <2> QED
    BY <2>1, FailKeepsBuild
<1>2. CASE ~(Cardinality(sealed) + Cardinality(read) > MaxFiles) /\ \E e \in read : Malformed(e.data)
  <2>1. Fail("MalformedInput")
    BY <1>2 DEF Seal
  <2> QED
    BY <2>1, FailKeepsBuild
<1>3. CASE ~(Cardinality(sealed) + Cardinality(read) > MaxFiles) /\ ~\E e \in read : Malformed(e.data)
  <2>1. /\ sealed' = sealed \cup Sealed(s, read) /\ todo' = todo \ {s}
        /\ phase' = IF todo' = {} THEN "planning" ELSE phase
        /\ walk' = NoWalk /\ entries' = {}
        /\ UNCHANGED <<editorVars, handle, plan, outputs, error>>
    BY <1>3 DEF Seal
  <2>2. UNCHANGED <<disk, edited, had, handle, plan, error>>
    BY <2>1 DEF editorVars
  <2>3. ASSUME NEW f \in Sealed(s, read)
        PROVE  \E e \in read : f.source = s /\ f.original = e.original /\ f.path = e.path /\ f.data = e.data
    BY DEF Sealed
  <2>4. IsFiniteSet(sealed')
    <3>1. IsFiniteSet(Sealed(s, read))
      <4> DEFINE file(e) == [source |-> s, original |-> e.original, path |-> e.path, data |-> e.data]
      <4>1. Sealed(s, read) = {file(e) : e \in read}
        BY DEF Sealed
      <4> DEFINE files == [e \in read |-> file(e)]
      <4>2. DOMAIN files = read /\ {files[e] : e \in read} = {file(e) : e \in read}
        OBVIOUS
      <4> HIDE DEF file, files
      <4> QED
        BY <4>1, <4>2, ImagesAreFinite
    <3>2. IsFiniteSet(sealed)
      BY DEF BuildInv, SealedFilesOK
    <3> QED
      BY <2>1, <3>1, <3>2, FS_Union
  <2>5. SealedFilesOK'
    <3>1. \A f \in sealed' : f.source \in Sources /\ f.path \in LogicalPaths /\ Known(f.data.head)
      BY <2>1, <2>3 DEF BuildInv, SealedFilesOK
    <3> QED
      BY <2>2, <2>4, <3>1 DEF SealedFilesOK, Known
  <2>6. VaultsOK' /\ RoundOK' /\ FoundOK' /\ PlanOK' /\ OwnPlanIsAccepted'
    <3>1. VaultsOK' /\ RoundOK' /\ OwnPlanIsAccepted'
      BY <2>1, <2>2 DEF BuildInv, VaultsOK, RoundOK, OwnPlanIsAccepted, NoWalk
    <3>2. FoundOK' /\ PlanOK'
      BY <2>1, <2>2, FS_EmptySet DEF BuildInv, FoundOK, PlanOK, NoHandle
    <3> QED
      BY <3>1, <3>2
  <2>7. QuietOK'
    <3> SUFFICES ASSUME ~edited, NEW f \in sealed' PROVE QuietFile(disk[f.source], f)
      BY <2>1, <2>2 DEF QuietOK
    <3>1. CASE f \in sealed
      BY <3>1 DEF BuildInv, QuietOK
    <3>2. CASE f \in Sealed(s, read)
      <4>1. PICK e \in read : f.source = s /\ f.original = e.original /\ f.path = e.path /\ f.data = e.data
        BY <2>3, <3>2
      <4> QED
        BY <4>1 DEF QuietFile
    <3> QED
      BY <2>1, <3>1, <3>2
  <2> QED
    BY <2>5, <2>6, <2>7 DEF BuildInv
<1> QED
  BY <1>1, <1>2, <1>3

\* A second reading that finds what was sealed ends in a finished plan.
LEMMA RenderKeepsBuild ==
  ASSUME ReadInv, BuildInv, RecordOK, handle = NoHandle, phase = "rereading", NEW s \in Sources, NEW read,
         RenderSource(s, read),
         ~edited => \A e \in FilesOf(disk[s]) : s \in Archives \/ ~Pruned(e.original) => e \in read
  PROVE  BuildInv'
<1>1. SoundFiles(sealed) /\ Drafted(sealed, plan) /\ error = None
  BY DEF BuildInv, PlanOK
<1>2. \A op \in Rewrites(s) : /\ op \in plan.operations /\ op.what = "rewrite" /\ op.from.source = s
                             /\ Kind(op.from.path) = "markdown"
  BY DEF Rewrites
<1>3. \A op \in plan.operations : op.from \in sealed
  BY <1>1, DraftCovers DEF OperationsCover, SourceIsSealed, Drafted
<1>4. CASE \E op \in Rewrites(s) : ~AsSealed(op.from, read)
  <2>1. Fail("IdentityMismatch")
    BY <1>4 DEF RenderSource
  <2>2. ASSUME ~edited PROVE FALSE
    <3>1. PICK op \in Rewrites(s) : ~AsSealed(op.from, read)
      BY <1>4
    <3>2. op.from \in sealed /\ op.from.source = s
      BY <1>2, <1>3
    <3>3. QuietFile(disk[s], op.from)
      BY <2>2, <3>2 DEF BuildInv, QuietOK
    <3>4. PICK e \in FilesOf(disk[s]) : op.from.original = e.original /\ op.from.path = e.path /\ op.from.data = e.data
      BY <3>3 DEF QuietFile
    <3>5. e \in read
      BY <2>2, <3>2, <3>3, <3>4 DEF QuietFile
    <3> QED
      BY <3>1, <3>4, <3>5 DEF AsSealed
  <2> QED
    BY <2>1, <2>2, FailKeepsBuild
<1>5. CASE /\ ~\E op \in Rewrites(s) : ~AsSealed(op.from, read)
           /\ \E op \in Rewrites(s) : ~ReadsAlike(op.from, op.links)
  <2>1. Fail("PlanStale")
    BY <1>5 DEF RenderSource
  <2>2. PICK op \in Rewrites(s) : ~ReadsAlike(op.from, op.links)
    BY <1>5
  <2>3. /\ op.from \in sealed
        /\ \E i \in DOMAIN Links(op.from) : \/ WrittenOtherwise(Links(op.from)[i])
                                            \/ \E t \in sealed : Unwritable(Links(op.from)[i], t.path)
    BY <1>1, <1>2, <2>2, RewriteReadsAlike
  <2>4. PICK e \in had : e[3].head = op.from.data.head
    BY <2>3 DEF BuildInv, SealedFilesOK, Known
  <2>6. ASSUME NEW text, NEW t \in sealed, Unwritable(text, t.path)
        PROVE  \E g \in had : Unwritable(text, g[2])
    <3>1. t.path = Nfc(t.original)
      BY <1>1 DEF SoundFiles, SnapshotsAreSound
    <3> QED
      BY <2>6, <3>1, SealedIsOnRecord DEF Unwritable
  <2>7. PICK i \in DOMAIN e[3].head.links : \/ WrittenOtherwise(e[3].head.links[i])
                                             \/ \E t \in sealed : Unwritable(e[3].head.links[i], t.path)
    BY <2>3, <2>4 DEF Links
  <2>8. \E g \in had : WrittenOtherwise(e[3].head.links[i]) \/ Unwritable(e[3].head.links[i], g[2])
    BY <2>6, <2>7
  <2>5. SomeIsNotWritten
    BY <2>8 DEF SomeIsNotWritten
  <2> QED
    BY <2>1, <2>5, FailKeepsBuild
<1>6. CASE /\ ~\E op \in Rewrites(s) : ~AsSealed(op.from, read)
           /\ ~\E op \in Rewrites(s) : ~ReadsAlike(op.from, op.links)
  <2>1. /\ todo' = todo \ {s} /\ walk' = NoWalk /\ entries' = {}
        /\ IF todo' = {} THEN Finish(plan) ELSE UNCHANGED <<phase, error>>
        /\ UNCHANGED <<editorVars, handle, sealed, plan>>
    BY <1>6 DEF RenderSource
  <2>2. UNCHANGED <<disk, edited, had, handle, sealed, plan>>
    BY <2>1 DEF editorVars
  <2>3. phase' \in {"rereading", "done"} /\ error' = None
    BY <1>1, <2>1, DraftIsValid DEF Finish
  <2>4. VaultsOK' /\ RoundOK' /\ SealedFilesOK'
    BY <2>1, <2>2 DEF BuildInv, VaultsOK, RoundOK, SealedFilesOK, Known, NoWalk
  <2>5. FoundOK' /\ PlanOK' /\ OwnPlanIsAccepted'
    BY <1>1, <2>2, <2>3 DEF FoundOK, PlanOK, OwnPlanIsAccepted, None
  <2>6. QuietOK'
    BY <2>1, <2>2 DEF BuildInv, QuietOK
  <2> QED
    BY <2>4, <2>5, <2>6 DEF BuildInv
<1> QED
  BY <1>4, <1>5, <1>6

LEMMA CloseKeepsBuild ==
  ASSUME ReadInv, BuildInv, RecordOK, CloseSource
  PROVE  BuildInv'
<1> DEFINE s == walk.source
<1>1. /\ walk # NoWalk /\ handle = NoHandle /\ walk.listed \cap DOMAIN disk[s] \subseteq walk.seen
      /\ SourceRead(s, entries) /\ phase \in {"inspecting", "rereading"}
  BY DEF CloseSource, Walked, ReadInv, WalkOK, Reading
<1>2. s \in Sources /\ s \notin Archives
  BY <1>1 DEF BuildInv, RoundOK
<1>3. ~edited => QuietWalk(disk[s], walk, handle, entries)
  BY <1>1 DEF BuildInv, QuietOK
<1> HIDE DEF s
<1>4. CASE phase = "inspecting"
  <2>1. Seal(s, entries)
    BY <1>1, <1>4 DEF SourceRead
  <2>2. IsFiniteSet(entries) /\ \A e \in entries : e.path \in LogicalPaths /\ Known(e.data.head)
    BY <1>4 DEF BuildInv, FoundOK
  <2>3. ~edited => /\ entries \subseteq FilesOf(disk[s])
                   /\ \A e \in entries : s \in Archives \/ ~Pruned(e.original)
    BY <1>3 DEF QuietWalk
  <2> QED
    BY <1>1, <1>2, <1>4, <2>1, <2>2, <2>3, SealKeepsBuild
<1>5. CASE phase = "rereading"
  <2>1. RenderSource(s, entries)
    BY <1>1, <1>5 DEF SourceRead
  <2>2. ASSUME ~edited, NEW e \in FilesOf(disk[s]), ~Pruned(e.original) PROVE e \in entries
    <3> DEFINE vault == disk[s]
    <3>1. QuietWalk(vault, walk, handle, entries)
      BY <1>3, <2>2
    <3>2. walk.listed \cap DOMAIN vault \subseteq walk.seen /\ e \in FilesOf(vault)
      BY <1>1, <2>2
    <3> HIDE DEF vault
    <3>3. PICK p \in DOMAIN vault : /\ FileAt(vault, p) /\ ~Excluded(Nfc(p))
                                    /\ e = [original |-> p, path |-> Nfc(p), data |-> vault[p].data]
      BY <3>2 DEF FilesOf
    <3>4. e.original = p
      BY <3>3
    <3>5. p \in walk.seen
      BY <2>2, <3>1, <3>2, <3>4 DEF QuietWalk
    <3>6. PICK x \in entries : x.original = p
      BY <1>1, <3>1, <3>3, <3>5 DEF QuietWalk
    <3>7. x \in FilesOf(vault)
      BY <3>1, <3>6 DEF QuietWalk
    <3>8. PICK q \in DOMAIN vault : x = [original |-> q, path |-> Nfc(q), data |-> vault[q].data]
      BY <3>7 DEF FilesOf
    <3>9. x = e
      BY <3>3, <3>6, <3>8
    <3> QED
      BY <3>6, <3>9
  <2>3. ~edited => \A e \in FilesOf(disk[s]) : s \in Archives \/ ~Pruned(e.original) => e \in entries
    BY <1>2, <2>2
  <2> QED
    BY <1>1, <1>2, <1>5, <2>1, <2>3, RenderKeepsBuild
<1> QED
  BY <1>1, <1>4, <1>5

LEMMA ArchiveKeepsBuild ==
  ASSUME ReadInv, BuildInv, RecordOK, ReadArchive
  PROVE  BuildInv'
<1> DEFINE s == Nearest
           read == Members(s)
<1>1. /\ Reading /\ todo # {} /\ walk = NoWalk /\ handle = NoHandle /\ s \in Archives
      /\ IF ArchiveError(s) # None THEN Fail(ArchiveError(s)) ELSE SourceRead(s, read)
  BY DEF ReadArchive, ReadInv, WalkOK
<1>2. s \in Sources
  BY <1>1, NearestIsLeft, VaultsAssumption DEF BuildInv, RoundOK
<1> HIDE DEF s
<1>3. read = FilesOf(disk[s])
  BY FilesOfVaults
<1>4. CASE ArchiveError(s) # None
  <2>1. Fail(ArchiveError(s)) /\ ArchiveError(s) \in {"UnsafePath", "ResourceLimit"}
    BY <1>1, <1>4 DEF ArchiveError
  <2> QED
    BY <2>1, FailKeepsBuild
<1>5. CASE ArchiveError(s) = None /\ phase = "inspecting"
  <2>1. Seal(s, read)
    BY <1>1, <1>5 DEF SourceRead
  <2> DEFINE vault == disk[s]
             D == {q \in DOMAIN vault : FileAt(vault, q) /\ ~Excluded(Nfc(q))}
             f == [q \in D |-> [original |-> q, path |-> Nfc(q), data |-> vault[q].data]]
  <2>2. IsFiniteSet(D) /\ D \in SUBSET Paths /\ D \in SUBSET DOMAIN vault
    BY <1>2, FS_Subset DEF BuildInv, VaultsOK
  <2>3. read = {f[q] : q \in D}
    BY <1>3 DEF FilesOf
  <2>4. ASSUME NEW q \in D
        PROVE  f[q].path \in LogicalPaths /\ Known(f[q].data.head)
    <3>1. f[q].path = Nfc(q) /\ f[q].data = vault[q].data
      OBVIOUS
    <3>2. Nfc(q) \in LogicalPaths
      BY <2>2 DEF LogicalPaths
    <3>3. <<s, q, vault[q].data>> \in had /\ IsData(vault[q].data)
      BY <1>2, <2>4 DEF FileAt, ReadInv, DiskOK, IsEntry
    <3>4. <<s, q, vault[q].data>>[3].head = vault[q].data.head
      OBVIOUS
    <3>5. Known(vault[q].data.head)
      BY <3>3, <3>4 DEF Known, IsData
    <3> QED
      BY <3>1, <3>2, <3>5
  <2>5. IsFiniteSet(read)
    <3>1. DOMAIN f = D
      OBVIOUS
    <3> HIDE DEF f, D, read
    <3> QED
      BY <2>2, <2>3, <3>1, ImagesAreFinite
  <2> HIDE DEF f, D, read, vault
  <2>6. \A e \in read : e.path \in LogicalPaths /\ Known(e.data.head)
    BY <2>3, <2>4
  <2>7. ~edited => /\ read \subseteq FilesOf(disk[s])
                   /\ \A e \in read : s \in Archives \/ ~Pruned(e.original)
    BY <1>1, <1>3
  <2> QED
    BY <1>1, <1>2, <1>5, <2>1, <2>5, <2>6, <2>7, SealKeepsBuild
<1>6. CASE ArchiveError(s) = None /\ phase = "rereading"
  <2>1. RenderSource(s, read)
    BY <1>1, <1>6 DEF SourceRead
  <2>2. ~edited => \A e \in FilesOf(disk[s]) : s \in Archives \/ ~Pruned(e.original) => e \in read
    BY <1>3
  <2> HIDE DEF read
  <2> QED
    BY <1>1, <1>2, <1>6, <2>1, <2>2, RenderKeepsBuild
<1> QED
  BY <1>1, <1>4, <1>5, <1>6 DEF Reading

LEMMA PlanKeepsBuild ==
  ASSUME ReadInv, BuildInv, BuildPlan
  PROVE  BuildInv'
<1> DEFINE draft == Draft(sealed)
<1>1. phase = "planning" /\ walk = NoWalk /\ handle = NoHandle
  BY DEF BuildPlan, ReadInv, WalkOK, Reading
<1>2. CASE ~SnapshotsAreSound(sealed, Sources)
  <2>1. Fail("InvalidConfig")
    BY <1>2 DEF BuildPlan
  <2> QED
    BY <2>1, FailKeepsBuild
<1>3. CASE SnapshotsAreSound(sealed, Sources)
  <2>1. SoundFiles(sealed)
    BY <1>3 DEF BuildInv, SealedFilesOK, SoundFiles, Known, Links
  <2>2. CASE draft.error # None
    <3>1. Fail(draft.error)
      BY <1>3, <2>2 DEF BuildPlan
    <3>2. draft = [error |-> "UnsafePath"]
      BY <2>1, <2>2, DraftIsDrafted DEF Drafted
    <3>3. draft.error = "UnsafePath"
      BY <3>2
    <3> HIDE DEF draft
    <3> QED
      BY <3>1, <3>3, FailKeepsBuild
  <2>3. CASE draft.error = None
    <3>1. Drafted(sealed, draft)
      <4>1. draft # [error |-> "UnsafePath"]
        BY <2>3 DEF None
      <4> QED
        BY <2>1, <4>1, DraftIsDrafted
    <3>2. /\ plan' = draft
          /\ todo' = {op.from.source : op \in {o \in draft.operations :
                                      o.what = "rewrite" /\ Kind(o.from.path) = "markdown"}}
          /\ IF todo' = {} THEN Finish(draft) ELSE phase' = "rereading" /\ error' = None
          /\ UNCHANGED <<editorVars, walk, handle, entries, sealed>>
      BY <1>3, <2>3 DEF BuildPlan
    <3>3. UNCHANGED <<disk, edited, had, walk, handle, entries, sealed>>
      BY <3>2 DEF editorVars
    <3> HIDE DEF draft
    <3>4. \A op \in draft.operations : op.from \in sealed
      BY <2>1, <3>1, DraftCovers DEF OperationsCover, SourceIsSealed, Drafted
    <3>5. todo' \subseteq Sources
      BY <3>2, <3>4 DEF BuildInv, SealedFilesOK
    <3>6. ValidPlan(draft, Sources)
      BY <2>1, <3>1, DraftIsValid
    <3>7. phase' \in {"rereading", "done"} /\ error' = None
      BY <3>2, <3>6 DEF Finish
    <3>8. VaultsOK' /\ RoundOK' /\ SealedFilesOK'
      BY <3>3, <3>5 DEF BuildInv, VaultsOK, RoundOK, SealedFilesOK, Known
    <3>9. FoundOK' /\ PlanOK' /\ OwnPlanIsAccepted'
      BY <2>1, <3>1, <3>2, <3>3, <3>7 DEF FoundOK, PlanOK, OwnPlanIsAccepted, None
    <3>10. QuietOK'
      BY <1>1, <3>3 DEF BuildInv, QuietOK
    <3> QED
      BY <3>8, <3>9, <3>10 DEF BuildInv
  <2> QED
    BY <2>2, <2>3
<1> QED
  BY <1>2, <1>3

LEMMA BeginningIsSound == Init => ReadInv /\ BuildInv /\ RecordOK
<1> SUFFICES ASSUME Init PROVE ReadInv /\ BuildInv /\ RecordOK
  OBVIOUS
<1>1. PICK b \in Beginnings : disk = b.disk
  BY DEF Init
<1>2. DOMAIN disk = Sources /\ \A s \in Sources : /\ IsFiniteSet(DOMAIN disk[s])
                                                 /\ \A p \in DOMAIN disk[s] : IsEntry(disk[s][p])
  BY <1>1, VaultsAssumption
<1>3. \A s \in Sources : \A p \in DOMAIN disk[s] : <<s, p, disk[s][p].data>> \in had
  BY DEF Init
<1>4. ReadInv
  BY <1>2, <1>3 DEF Init, ReadInv, DiskOK, SavingOK, WalkOK, HandleOK, EntriesOK, SealedOK, NoHandle, NoWalk
<1>5. VaultsOK
  <2> DEFINE A == (UNION {DOMAIN x.disk[s] : x \in Beginnings, s \in Sources})
             B == {e.path : e \in UNION {Edits(s) : s \in Sources}}
  <2>1. Paths = A \cup B
    BY DEF Paths
  <2>2. \A s \in Sources : DOMAIN disk[s] \subseteq A
    BY <1>1
  <2> HIDE DEF A, B
  <2> QED
    BY <1>2, <2>1, <2>2 DEF VaultsOK
<1>6. RoundOK /\ FoundOK /\ SealedFilesOK
  BY FS_EmptySet DEF Init, RoundOK, FoundOK, SealedFilesOK, NoWalk, NoHandle
<1>7. PlanOK /\ QuietOK /\ OwnPlanIsAccepted
  BY DEF Init, PlanOK, QuietOK, OwnPlanIsAccepted, None
<1>8. RecordOK
  <2>1. coarse = {}
    BY DEF Init
  <2>2. ASSUME NEW e \in had PROVE e[2] \in Paths
    <3>1. PICK s \in Sources : \E p \in DOMAIN disk[s] : e = <<s, p, disk[s][p].data>>
      BY DEF Init
    <3>2. PICK p \in DOMAIN disk[s] : e = <<s, p, disk[s][p].data>>
      BY <3>1
    <3>3. e[2] = p /\ p \in Paths
      BY <1>5, <3>2 DEF VaultsOK
    <3> QED
      BY <3>3
  <2> QED
    BY <2>1, <2>2 DEF RecordOK
<1> QED
  BY <1>4, <1>5, <1>6, <1>7, <1>8 DEF BuildInv

\* What was sealed, and the plan that is made of it, stay sound.
LEMMA BuildInvIsKept == Spec => [](ReadInv /\ BuildInv /\ RecordOK)
<1>1. (ReadInv /\ BuildInv /\ RecordOK) /\ [Next]_vars => (ReadInv /\ BuildInv)'
  <2> SUFFICES ASSUME ReadInv, BuildInv, RecordOK, [Next]_vars PROVE ReadInv' /\ BuildInv'
    OBVIOUS
  <2>1. CASE Editor
    BY <2>1, EditorKeepsReading, EditorKeepsBuild
  <2>2. CASE Builder
    <3>1. ReadInv'
      BY <2>2, BuilderKeepsReading
    <3>2. BuildInv'
      BY <2>2, OpenKeepsBuild, VisitKeepsBuild, BeginKeepsBuild, EndKeepsBuild, CloseKeepsBuild,
         ArchiveKeepsBuild, PlanKeepsBuild DEF Builder
    <3> QED
      BY <3>1, <3>2
  <2>3. CASE UNCHANGED vars
    <3>1. UNCHANGED <<disk, edited, saving, had, coarse, phase, todo, walk, handle, entries, sealed, plan, error>>
      BY <2>3 DEF vars, editorVars, readerVars, planVars
    <3>2. ReadInv'
      BY <3>1 DEF ReadInv, DiskOK, SavingOK, WalkOK, HandleOK, EntriesOK, SealedOK, Whole, IsFile, Exists,
                  Reading, Open
    <3>3. BuildInv'
      BY <3>1 DEF BuildInv, VaultsOK, RoundOK, FoundOK, SealedFilesOK, PlanOK, QuietOK, Known, OwnPlanIsAccepted
    <3> QED
      BY <3>2, <3>3
  <2> QED
    BY <2>1, <2>2, <2>3 DEF Next
<1>2. (ReadInv /\ BuildInv /\ RecordOK) /\ [Next]_vars => RecordOK'
  BY RecordIsKept
<1> QED
  BY <1>1, <1>2, BeginningIsSound, PTL DEF Spec

\* The builder never refuses a plan of its own, and never says that a source
\* changed when none did: a vault that can be read can be built, unless a link is
\* written in another way than it is read, or there is a link and a file whose path
\* that link cannot be given (validate_integrity, validate_rewritten_markdown_links).
THEOREM BuildableVaultsAreBuilt == Spec => []OwnPlanIsAccepted
<1>1. ReadInv /\ BuildInv => OwnPlanIsAccepted
  BY DEF BuildInv
<1> QED
  BY <1>1, BuildInvIsKept, PTL

-----------------------------------------------------------------------------
(* Where links lead.                                                        *)

\* Places have one portable key if their components differ in their spelling only.
LEMMA KeysAre ==
  ASSUME NEW p, NEW q, IsPlace(p), IsPlace(q)
  PROVE  Key(p) = Key(q) <=>
             /\ Len(p) = Len(q)
             /\ \A i \in 1..Len(p) : p[i].word = q[i].word /\ p[i].ext = q[i].ext /\ p[i].tag = q[i].tag
<1> DEFINE m == Len(p)
           n == Len(q)
           plain(c) == [word |-> c.word, spelling |-> "plain", ext |-> c.ext, tag |-> c.tag]
<1>1. /\ m \in Nat \ {0} /\ n \in Nat \ {0} /\ DOMAIN p = 1..m /\ DOMAIN q = 1..n
      /\ \A i \in 1..m : p[i] = [word |-> p[i].word, spelling |-> p[i].spelling, ext |-> p[i].ext, tag |-> p[i].tag]
      /\ \A i \in 1..n : q[i] = [word |-> q[i].word, spelling |-> q[i].spelling, ext |-> q[i].ext, tag |-> q[i].tag]
  BY DEF IsPlace
<1> HIDE DEF m, n
<1>2. ASSUME NEW c, c = [word |-> c.word, spelling |-> c.spelling, ext |-> c.ext, tag |-> c.tag]
      PROVE  [c EXCEPT !.spelling = "plain"] = plain(c)
  BY <1>2
<1>3. /\ Key(p) = [i \in 1..m |-> [p[i] EXCEPT !.spelling = "plain"]]
      /\ Key(q) = [i \in 1..n |-> [q[i] EXCEPT !.spelling = "plain"]]
  BY <1>1 DEF Key
<1>4. /\ \A i \in 1..m : Key(p)[i] = plain(p[i])
      /\ \A i \in 1..n : Key(q)[i] = plain(q[i])
      /\ DOMAIN Key(p) = 1..m /\ DOMAIN Key(q) = 1..n
  <2> HIDE DEF plain
  <2>1. ASSUME NEW i \in 1..m PROVE Key(p)[i] = plain(p[i])
    BY <1>1, <1>2, <1>3
  <2>2. ASSUME NEW i \in 1..n PROVE Key(q)[i] = plain(q[i])
    BY <1>1, <1>2, <1>3
  <2> QED
    BY <1>3, <2>1, <2>2
<1>5. ASSUME Key(p) = Key(q)
      PROVE  m = n /\ \A i \in 1..m : p[i].word = q[i].word /\ p[i].ext = q[i].ext /\ p[i].tag = q[i].tag
  <2>1. 1..m = 1..n
    BY <1>4, <1>5
  <2>2. m \in 1..n /\ n \in 1..m
    BY <1>1, <2>1
  <2>3. m = n
    BY <1>1, <2>2
  <2>4. ASSUME NEW i \in 1..m
        PROVE  p[i].word = q[i].word /\ p[i].ext = q[i].ext /\ p[i].tag = q[i].tag
    <3>1. plain(p[i]) = plain(q[i])
      BY <1>4, <1>5, <2>3
    <3>2. plain(p[i]).word = plain(q[i]).word /\ plain(p[i]).ext = plain(q[i]).ext /\ plain(p[i]).tag = plain(q[i]).tag
      BY <3>1
    <3> QED
      BY <3>2
  <2> QED
    BY <2>3, <2>4
<1>6. ASSUME m = n, \A i \in 1..m : p[i].word = q[i].word /\ p[i].ext = q[i].ext /\ p[i].tag = q[i].tag
      PROVE  Key(p) = Key(q)
  <2>1. \A i \in 1..m : plain(p[i]) = plain(q[i])
    BY <1>6
  <2> HIDE DEF plain
  <2>2. /\ Key(p) = [i \in 1..m |-> Key(p)[i]] /\ Key(q) = [i \in 1..m |-> Key(q)[i]]
    BY <1>3, <1>6
  <2>3. \A i \in 1..m : Key(p)[i] = Key(q)[i]
    BY <1>4, <1>6, <2>1
  <2> QED
    BY <2>2, <2>3
<1> QED
  BY <1>5, <1>6 DEF m, n

\* With ".md" appended a place is a place whose name ends in ".md".
LEMMA MdIsPlace ==
  ASSUME NEW old, IsPlace(old)
  PROVE  IsPlace(WithMd(old)) /\ Last(WithMd(old)).ext = "md"
<1> DEFINE n    == Len(old)
           word == IF old[n].ext = "" THEN old[n].word ELSE Joined(old[n].word, ".", old[n].ext)
           last == [word |-> word, spelling |-> old[n].spelling, ext |-> "md", tag |-> old[n].tag]
           new  == [i \in 1..n |-> IF i = n THEN last ELSE old[i]]
<1>1. /\ n \in Nat \ {0} /\ DOMAIN old = 1..n /\ old = [i \in 1..n |-> old[i]]
      /\ \A i \in 1..n : old[i] = [word |-> old[i].word, spelling |-> old[i].spelling, ext |-> old[i].ext, tag |-> old[i].tag]
  BY DEF IsPlace
<1>2. WithMd(old) = [old EXCEPT ![n] = [old[n] EXCEPT !.word = word, !.ext = "md"]]
  BY DEF WithMd, WithLast, Last
<1> HIDE DEF n, word
<1>3. n \in 1..n
  BY <1>1
<1>4. [old[n] EXCEPT !.word = word, !.ext = "md"] = last
  <2> DEFINE one == [old[n] EXCEPT !.word = word]
  <2>1. one = [word |-> word, spelling |-> old[n].spelling, ext |-> old[n].ext, tag |-> old[n].tag]
    BY <1>1, <1>3
  <2>2. [old[n] EXCEPT !.word = word, !.ext = "md"] = [one EXCEPT !.ext = "md"]
    OBVIOUS
  <2> HIDE DEF one
  <2>3. [one EXCEPT !.ext = "md"] = last
    BY <2>1
  <2> QED
    BY <2>2, <2>3
<1>5. /\ last.ext = "md"
      /\ last = [word |-> last.word, spelling |-> last.spelling, ext |-> last.ext, tag |-> last.tag]
  OBVIOUS
<1> HIDE DEF last
<1>6. WithMd(old) = new
  <2>1. [old EXCEPT ![n] = last] = [i \in DOMAIN old |-> IF i = n THEN last ELSE old[i]]
    BY <1>1, <1>3
  <2>3. DOMAIN old = 1..n
    BY <1>1
  <2> QED
    BY <1>2, <1>4, <2>1, <2>3
<1>7. Len(new) = n /\ DOMAIN new = 1..n /\ new = [i \in 1..n |-> new[i]] /\ new[n] = last
  BY <1>1, <1>3
<1>8. \A i \in 1..n : new[i] = [word |-> new[i].word, spelling |-> new[i].spelling, ext |-> new[i].ext, tag |-> new[i].tag]
  BY <1>1, <1>5
<1> HIDE DEF new
<1>9. IsPlace(new)
  BY <1>1, <1>7, <1>8 DEF IsPlace
<1> QED
  BY <1>5, <1>6, <1>7, <1>9 DEF Last

\* A rewritten link that reads alike names the path it was given.
LEMMA WrittenIsReadBack ==
  ASSUME NEW f, Kind(f.path) \in {"markdown", "canvas"}, NEW text, IsText(text), NEW target,
         Kind(f.path) = "markdown" =>
             /\ Split(f, Render(f, text, target)).heading = Split(f, text).heading
             /\ Split(f, Render(f, text, target)).block = Split(f, text).block
  PROVE  Split(f, Render(f, text, target)).path = target
<1> DEFINE new  == Render(f, text, target)
           link == Split(f, text)
<1>1. CASE Kind(f.path) = "canvas"
  <2> DEFINE heading == IF text.syntax = "markdown" THEN Encode(link.heading) ELSE link.heading
  <2>1. new = [text EXCEPT !.path = target, !.heading = heading, !.block = link.block]
    BY DEF Render
  <2>2. "path" \in DOMAIN text
    BY DEF IsText
  <2> HIDE DEF heading, link, new
  <2>3. new.path = target
    BY <2>1, <2>2
  <2>4. Split(f, new) = SplitReference(new)
    BY <1>1 DEF Split
  <2>5. SplitReference(new).path = new.path
    BY DEF SplitReference
  <2> QED
    BY <2>3, <2>4, <2>5 DEF new
<1>2. ASSUME Kind(f.path) = "markdown"
      PROVE  /\ new.syntax = text.syntax /\ new.path = target /\ new.block = link.block
             /\ text.syntax = "markdown" => Split(f, new) = SplitMarkdown(new)
             /\ text.syntax = "wiki" => Split(f, new) = SplitWiki(new) /\ link = SplitWiki(text)
             /\ text.syntax \notin {"markdown", "wiki"} => Split(f, new) = SplitReference(new)
             /\ Split(f, new).heading = link.heading /\ Split(f, new).block = link.block
  BY <1>2, RenderedLink
<1>3. CASE Kind(f.path) = "markdown" /\ text.syntax \notin {"markdown", "wiki"}
  <2>1. SplitReference(new).path = new.path
    BY DEF SplitReference
  <2> QED
    BY <1>2, <1>3, <2>1
<1>4. CASE Kind(f.path) = "markdown" /\ text.syntax = "wiki"
  <2>1. link.heading # "rest" /\ link.block # "rest"
    <3>1. SplitWiki(text) = [path |-> text.path, heading |-> text.heading, block |-> text.block, whole |-> TRUE]
      BY <1>4, WikiIsRead DEF IsText
    <3>2. SplitWiki(text).heading = text.heading /\ SplitWiki(text).block = text.block
      BY <3>1
    <3> QED
      BY <1>2, <1>4, <3>2 DEF IsText
  <2>2. Split(f, new) = SplitWiki(new) /\ SplitWiki(new).heading # "rest" /\ SplitWiki(new).block # "rest"
    BY <1>2, <1>4, <2>1
  <2> HIDE DEF new, link
  <2> DEFINE hash  == Marked(new.path.parts, {"#"})
             caret == Marked(new.path.parts, {"^"})
             path  == IF hash \/ caret THEN Cut(new.path, {"#", "^"}) ELSE new.path
             heading == CASE hash -> "rest"
                          [] ~hash /\ caret -> None
                          [] OTHER -> new.heading
             block == IF caret THEN "rest" ELSE new.block
             whole == ~Marked(new.path.parts, new.open \cup {"]]"})
  <2>3. SplitWiki(new) = [path |-> path, heading |-> heading, block |-> block, whole |-> whole]
    BY DEF SplitWiki
  <2> HIDE DEF hash, caret, path, heading, block, whole
  <2>4. SplitWiki(new).path = path /\ SplitWiki(new).heading = heading /\ SplitWiki(new).block = block
    BY <2>3
  <2>5. ~hash /\ ~caret
    BY <2>2, <2>4 DEF heading, block
  <2>6. path = new.path
    BY <2>5 DEF path
  <2> QED
    BY <1>2, <1>4, <2>2, <2>4, <2>6 DEF new
<1>5. CASE Kind(f.path) = "markdown" /\ text.syntax = "markdown"
  <2>1. new.path = target /\ new.block = link.block /\ Split(f, new) = SplitMarkdown(new)
    BY <1>2, <1>5
  <2>2. Split(f, new).block = link.block
    BY <1>2, <1>5
  <2> HIDE DEF new, link
  <2> DEFINE empty == ""
             more  == [new.path EXCEPT !.parts = WithLast(@, Extended(Last(@), "^", new.block))]
             path  == IF new.heading = None /\ new.block # None /\ new.path.parts # <<>> THEN more ELSE new.path
             heading == CASE new.heading = empty /\ new.block # None -> None
                          [] new.heading \notin {None, empty} /\ new.block # None -> "caret"
                          [] OTHER -> new.heading
             block == IF new.heading = empty THEN new.block ELSE None
             whole == ~Marked(new.path.parts, new.open)
  <2>6. SplitMarkdown(new) = [path |-> path, heading |-> heading, block |-> block, whole |-> whole]
    BY DEF SplitMarkdown
  <2> HIDE DEF path, heading, block, whole
  <2>7. SplitMarkdown(new).path = path /\ SplitMarkdown(new).block = block
    BY <2>6
  <2>4. ~(new.heading = None /\ new.block # None)
    BY <2>1, <2>2, <2>7 DEF None, block
  <2>5. path = new.path
    BY <2>4 DEF path
  <2> QED
    BY <2>1, <2>5, <2>7 DEF new
<1> QED
  BY <1>1, <1>3, <1>4, <1>5

\* A component with something hung on its name is a component.
LEMMA ExtendedIsComponent ==
  ASSUME NEW c, IsComponent(c), NEW mark, NEW more
  PROVE  IsComponent(Extended(c, mark, more))
<1>1. ASSUME NEW w PROVE IsComponent([c EXCEPT !.word = w])
  <2> DEFINE d == [c EXCEPT !.word = w]
  <2>1. d = [word |-> w, spelling |-> c.spelling, ext |-> c.ext, tag |-> c.tag]
    BY DEF IsComponent
  <2> QED
    BY <2>1 DEF IsComponent
<1>2. ASSUME NEW e PROVE IsComponent([c EXCEPT !.ext = e])
  <2> DEFINE d == [c EXCEPT !.ext = e]
  <2>1. d = [word |-> c.word, spelling |-> c.spelling, ext |-> e, tag |-> c.tag]
    BY DEF IsComponent
  <2> QED
    BY <2>1 DEF IsComponent
<1>3. \/ Extended(c, mark, more) = [c EXCEPT !.word = Joined(c.word, mark, more)]
      \/ Extended(c, mark, more) = [c EXCEPT !.ext = Joined(c.ext, mark, more)]
  BY DEF Extended
<1> QED
  BY <1>1, <1>2, <1>3

\* What is read of a link names a target.
LEMMA SplitIsTarget ==
  ASSUME NEW f, NEW text, IsText(text)
  PROVE  IsTarget(Split(f, text).path)
<1> DEFINE target  == text.path
           parts   == target.parts
           n       == Len(parts)
           last    == Extended(Last(parts), "^", text.block)
           changed == [i \in 1..n |-> IF i = n THEN last ELSE parts[i]]
           misread == [target EXCEPT !.parts = WithLast(parts, last)]
<1>1. IsTarget(target)
  BY DEF IsText
<1>2. /\ target = [rooted |-> target.rooted, ups |-> target.ups, parts |-> parts] /\ target.ups \in Nat
      /\ n \in Nat /\ DOMAIN parts = 1..n /\ parts = [i \in 1..n |-> parts[i]]
      /\ \A i \in 1..n : IsComponent(parts[i])
  <2>1. DOMAIN parts = 1..n
    BY <1>1 DEF IsTarget
  <2> QED
    BY <1>1, <2>1 DEF IsTarget
<1>3. Split(f, text).path = target \/ (parts # <<>> /\ Split(f, text).path = misread)
  <2>1. text.syntax = "wiki" => SplitWiki(text).path = target
    <3>1. text.syntax = "wiki" =>
              SplitWiki(text) = [path |-> text.path, heading |-> text.heading, block |-> text.block, whole |-> TRUE]
      BY WikiIsRead DEF IsText
    <3> QED
      BY <3>1
  <2>2. SplitReference(text).path = target
    BY DEF SplitReference
  <2>3. SplitMarkdown(text).path = target \/ (parts # <<>> /\ SplitMarkdown(text).path = misread)
    BY DEF SplitMarkdown
  <2>4. \/ text.syntax = "wiki" /\ Split(f, text) = SplitWiki(text)
        \/ Split(f, text) = SplitReference(text)
        \/ Split(f, text) = SplitMarkdown(text)
    BY DEF Split
  <2> HIDE DEF target, parts, misread
  <2> QED
    BY <2>1, <2>2, <2>3, <2>4
<1>4. ASSUME parts # <<>> PROVE IsTarget(misread)
  <2>1. n \in 1..n
    <3>1. n # 0
      BY <1>2, <1>4
    <3> QED
      BY <1>2, <3>1
  <2>2. IsComponent(last)
    <3>1. Last(parts) = parts[n]
      BY DEF Last
    <3> HIDE DEF parts, n
    <3> QED
      BY <1>2, <2>1, <3>1, ExtendedIsComponent
  <2>3. misread = [target EXCEPT !.parts = [parts EXCEPT ![n] = last]]
    BY DEF WithLast
  <2> HIDE DEF parts, n, last, misread
  <2>4. [parts EXCEPT ![n] = last] = changed
    BY <1>2, <2>1
  <2>5. Len(changed) = n /\ DOMAIN changed = 1..n /\ changed = [i \in 1..n |-> changed[i]]
    BY <1>2
  <2>6. \A i \in 1..n : IsComponent(changed[i])
    BY <1>2, <2>2
  <2> HIDE DEF changed, target
  <2>7. misread = [rooted |-> target.rooted, ups |-> target.ups, parts |-> changed]
    BY <1>2, <2>3, <2>4
  <2>8. misread.rooted = target.rooted /\ misread.ups = target.ups /\ misread.parts = changed
    BY <2>7
  <2> QED
    BY <1>2, <2>5, <2>6, <2>7, <2>8 DEF IsTarget
<1> QED
  BY <1>1, <1>3, <1>4

\* From a place a target leads to a place or nowhere, and to its last component.
LEMMA ReachedIsPlace ==
  ASSUME NEW from, IsPlace(from), NEW target, IsTarget(target), NEW to \in Reached(from, target)
  PROVE  /\ IsPlace(to) /\ Reached(from, target) = {to}
         /\ target.parts # <<>> => Last(to) = Last(target.parts)
<1> DEFINE S == {from[i] : i \in 1..Len(from)} \cup {target.parts[i] : i \in 1..Len(target.parts)}
           base  == IF target.rooted THEN <<>> ELSE Front(from)
           k     == Len(base) - target.ups
           start == SubSeq(base, 1, k)
           parts == target.parts
           n     == Len(parts)
<1>1. ~(target.ups > (IF target.rooted THEN 0 ELSE Len(from) - 1)) /\ to = Trimmed(from, target) /\ to # <<>>
      /\ Reached(from, target) = {to}
  BY DEF Reached
<1>2. /\ from \in Seq(S) /\ parts \in Seq(S) /\ Len(from) \in Nat \ {0} /\ n \in Nat /\ target.ups \in Nat
      /\ \A i \in 1..Len(from) : from[i] \in S
  <2>1. /\ Len(from) \in Nat \ {0} /\ n \in Nat /\ target.ups \in Nat
        /\ from = [i \in 1..Len(from) |-> from[i]] /\ parts = [i \in 1..n |-> parts[i]]
    BY DEF IsPlace, IsTarget
  <2>3. \A i \in 1..Len(from) : from[i] \in S
    OBVIOUS
  <2>4. \A i \in 1..n : parts[i] \in S
    OBVIOUS
  <2> HIDE DEF S, parts, n
  <2>6. from \in Seq(S)
    BY <2>1, <2>3
  <2>7. parts \in Seq(S)
    <3>1. n = Len(parts)
      BY DEF n
    <3>2. Len(parts) \in Nat /\ parts = [i \in 1..Len(parts) |-> parts[i]] /\ \A i \in 1..Len(parts) : parts[i] \in S
      BY <2>1, <2>4, <3>1
    <3> QED
      BY <3>2, SequenceOver
  <2> QED
    BY <2>1, <2>3, <2>6, <2>7
<1>3. \A c \in S : c = [word |-> c.word, spelling |-> c.spelling, ext |-> c.ext, tag |-> c.tag]
  <2>1. \A i \in 1..Len(from) : from[i] = [word |-> from[i].word, spelling |-> from[i].spelling, ext |-> from[i].ext,
                                           tag |-> from[i].tag]
    BY DEF IsPlace
  <2>2. DOMAIN parts = 1..n
    BY <1>2
  <2>3. \A i \in 1..n : IsComponent(parts[i])
    BY <2>2 DEF IsTarget
  <2>4. \A i \in 1..n : parts[i] = [word |-> parts[i].word, spelling |-> parts[i].spelling, ext |-> parts[i].ext,
                                    tag |-> parts[i].tag]
    BY <2>3 DEF IsComponent
  <2> QED
    BY <2>1, <2>4
<1> HIDE DEF S
<1>4. base \in Seq(S) /\ Len(base) = (IF target.rooted THEN 0 ELSE Len(from) - 1) /\ Len(base) \in Nat
      /\ \A i \in 1..Len(base) : base[i] \in S
  <2>1. CASE target.rooted
    <3>1. base = <<>>
      BY <2>1
    <3> QED
      BY <2>1, <3>1
  <2>2. CASE ~target.rooted
    <3> DEFINE m == Len(from)
    <3>1. m \in Nat \ {0} /\ 1 \in Int /\ m - 1 \in Int /\ \A i \in 1..m - 1 : from[i] \in S
      BY <1>2
    <3>2. base = SubSeq(from, 1, m - 1)
      BY <2>2 DEF Front
    <3> HIDE DEF m, base
    <3>3. base \in Seq(S) /\ Len(base) = IF 1 <= m - 1 THEN (m - 1) - 1 + 1 ELSE 0
      BY <3>1, <3>2, SubSeqProperties
    <3>4. Len(base) = m - 1 /\ m - 1 \in Nat
      BY <3>1, <3>3
    <3> QED
      BY <2>2, <3>3, <3>4 DEF m
  <2> QED
    BY <2>1, <2>2
<1> HIDE DEF base
<1>5. k \in Nat /\ k <= Len(base)
  BY <1>1, <1>2, <1>4
<1>6. start \in Seq(S)
  <2>1. 1 \in Int /\ k \in Int /\ \A i \in 1..k : base[i] \in S
    BY <1>4, <1>5
  <2> HIDE DEF k
  <2> QED
    BY <2>1, SubSeqProperties
<1>7. to = start \o parts
  BY <1>1 DEF Trimmed, base
<1> HIDE DEF start, parts, n, k
<1>8. /\ to \in Seq(S) /\ Len(to) = Len(start) + Len(parts) /\ Len(start) \in Nat
      /\ \A i \in 1..Len(start) + Len(parts) :
             to[i] = IF i <= Len(start) THEN start[i] ELSE parts[i - Len(start)]
  BY <1>2, <1>6, <1>7, ConcatProperties
<1>9. Len(to) \in Nat \ {0} /\ DOMAIN to = 1..Len(to) /\ to = [i \in 1..Len(to) |-> to[i]]
      /\ \A i \in 1..Len(to) : to[i] \in S
  BY <1>1, <1>8
<1>10. IsPlace(to)
  BY <1>3, <1>9 DEF IsPlace
<1>11. ASSUME parts # <<>> PROVE Last(to) = Last(parts)
  <2>1. n \in Nat /\ n # 0
    BY <1>2, <1>11 DEF n
  <2>2. Len(to) = Len(start) + n /\ Len(to) \in 1..Len(start) + Len(parts) /\ ~(Len(to) <= Len(start))
        /\ Len(to) - Len(start) = n
    BY <1>8, <2>1 DEF n
  <2>3. to[Len(to)] = parts[n]
    BY <1>8, <2>2
  <2> QED
    BY <2>3 DEF Last, n
<1> QED
  BY <1>1, <1>10, <1>11 DEF parts

\* Of two places with one key the last components have one word and one extension.
LEMMA KeysKeepNames ==
  ASSUME NEW p, NEW q, IsPlace(p), IsPlace(q), Key(p) = Key(q)
  PROVE  Last(p).word = Last(q).word /\ Last(p).ext = Last(q).ext /\ Kind(p) = Kind(q)
<1>1. Len(p) = Len(q) /\ \A i \in 1..Len(p) : p[i].word = q[i].word /\ p[i].ext = q[i].ext
  BY KeysAre
<1>2. Len(p) \in 1..Len(p)
  BY DEF IsPlace
<1>3. p[Len(p)].word = q[Len(q)].word /\ p[Len(p)].ext = q[Len(q)].ext
  BY <1>1, <1>2
<1>4. Last(p).word = Last(q).word /\ Last(p).ext = Last(q).ext
  BY <1>3 DEF Last
<1> QED
  BY <1>4 DEF Kind

\* The ways in which a link of f may lead to a file: by its path, by its path with
\* ".md" appended, by its name as the code cuts it, or by its whole name; and the
\* parts of the file that the link asks for.
AtPath(f, target, g) == g.source = f.source /\ \E p \in Reached(f.path, target) : Key(p) = Key(g.path)
AtStem(f, target, g) ==
    /\ Kind(g.path) = "markdown" /\ g.source = f.source
    /\ \E p \in Reached(f.path, target) : Last(p).ext # "md" /\ Key(WithMd(p)) = Key(g.path)
OfName(target, g) ==
    Kind(g.path) = "markdown" /\ target.parts # <<>> /\ Last(target.parts).word \in LookupKeys(g)
OfWholeName(target, g) ==
    Kind(g.path) = "markdown" /\ target.parts # <<>> /\ Name(Last(target.parts)) \in LookupKeys(g)
Undotted(target) == Last(target.parts).ext \in {"", "md"}
Fits(link, g) == Kind(g.path) = "markdown" => FragmentMatches(g, link)

\* The files that resolve_document_candidates finds.
Found(f, target, kinds, g) ==
    /\ Kind(g.path) \in kinds
    /\ \/ AtPath(f, target, g)
       \/ AtStem(f, target, g) /\ \A h \in sealed : Kind(h.path) \in kinds => ~AtPath(f, target, h)
       \/ /\ OfName(target, g)
          /\ \A h \in sealed : Kind(h.path) \in kinds => ~AtPath(f, target, h) /\ ~AtStem(f, target, h)

\* The path a target names ends in the name it ends in.
LEMMA SealedReach ==
  ASSUME SoundFiles(sealed), NEW f \in sealed, NEW target, IsTarget(target), NEW p \in Reached(f.path, target)
  PROVE  /\ IsPlace(p) /\ Reached(f.path, target) = {p}
         /\ target.parts # <<>> => Last(p) = Last(target.parts)
<1>1. IsPlace(f.path)
  BY LogicalIsPlace DEF SoundFiles
<1> QED
  BY <1>1, ReachedIsPlace

\* What has the path of a note's ".md" is a note.
LEMMA StemIsImplied ==
  ASSUME SoundFiles(sealed), NEW f \in sealed, NEW g \in sealed, NEW target, IsTarget(target)
  PROVE  AtStem(f, target, g) <=>
             /\ g.source = f.source
             /\ \E p \in Reached(f.path, target) : Last(p).ext # "md" /\ Key(g.path) = Key(WithMd(p))
<1>1. ASSUME NEW p \in Reached(f.path, target), Key(g.path) = Key(WithMd(p))
      PROVE  Kind(g.path) = "markdown"
  <2>1. IsPlace(p) /\ IsPlace(g.path)
    BY SealedReach, LogicalIsPlace DEF SoundFiles
  <2>2. IsPlace(WithMd(p)) /\ Last(WithMd(p)).ext = "md"
    BY <2>1, MdIsPlace
  <2>3. Last(g.path).ext = "md"
    BY <1>1, <2>1, <2>2, KeysKeepNames
  <2> QED
    BY <2>3 DEF Kind
<1> QED
  BY <1>1 DEF AtStem

\* The candidates of a link are the representatives of the files it finds.
LEMMA CandidatesAre ==
  ASSUME SoundFiles(sealed), NEW f \in sealed, NEW target, IsTarget(target), NEW kinds, "markdown" \in kinds,
         NEW owners
  PROVE  Candidates(sealed, owners, f, target, kinds) =
             IF target = NoPath \/ Reached(f.path, target) = {} THEN {}
             ELSE {owners[g] : g \in {h \in sealed : Found(f, target, kinds, h)}}
<1> DEFINE among   == {g \in sealed : Kind(g.path) \in kinds}
           exact   == UNION {At(among, f.source, p) : p \in Reached(f.path, target)}
           implied == UNION {At(among, f.source, WithMd(p))
                             : p \in {q \in Reached(f.path, target) : Last(q).ext # "md"}}
           named   == IF target.parts = <<>> THEN {}
                      ELSE {g \in OfKind(sealed, "markdown") : Last(target.parts).word \in LookupKeys(g)}
           first   == IF exact # {} THEN exact ELSE IF implied # {} THEN implied ELSE named
<1>1. Candidates(sealed, owners, f, target, kinds) =
          IF target = NoPath \/ Reached(f.path, target) = {} THEN {} ELSE {owners[g] : g \in first}
  BY DEF Candidates
<1>2. \A g : g \in exact <=> g \in sealed /\ Kind(g.path) \in kinds /\ AtPath(f, target, g)
  BY DEF At, AtPath
<1>3. \A g : g \in implied <=> g \in sealed /\ AtStem(f, target, g)
  <2>1. \A g : g \in implied <=>
            /\ g \in sealed /\ Kind(g.path) \in kinds /\ g.source = f.source
            /\ \E p \in Reached(f.path, target) : Last(p).ext # "md" /\ Key(g.path) = Key(WithMd(p))
    <3> DEFINE bare == {q \in Reached(f.path, target) : Last(q).ext # "md"}
    <3>1. \A g : g \in implied <=> \E p \in bare : g \in At(among, f.source, WithMd(p))
      OBVIOUS
    <3>2. \A g, p : g \in At(among, f.source, WithMd(p)) <=>
              g \in sealed /\ Kind(g.path) \in kinds /\ g.source = f.source /\ Key(g.path) = Key(WithMd(p))
      BY DEF At
    <3>3. \A p : p \in bare <=> p \in Reached(f.path, target) /\ Last(p).ext # "md"
      OBVIOUS
    <3> HIDE DEF bare, implied, among
    <3> QED
      BY <3>1, <3>2, <3>3
  <2>2. \A g \in sealed : AtStem(f, target, g) => Kind(g.path) \in kinds
    BY DEF AtStem
  <2> HIDE DEF implied
  <2> QED
    BY <2>1, <2>2, StemIsImplied
<1>4. \A g : g \in named <=> g \in sealed /\ OfName(target, g)
  BY DEF OfName, OfKind
<1>5. \A g \in sealed : OfName(target, g) => Kind(g.path) \in kinds
  BY DEF OfName
<1>6. \A g \in sealed : AtStem(f, target, g) => Kind(g.path) \in kinds
  BY DEF AtStem
<1> HIDE DEF exact, implied, named
<1>7. \A g : g \in first <=> g \in sealed /\ Found(f, target, kinds, g)
  <2>1. CASE exact # {}
    <3>1. PICK x \in exact : TRUE
      BY <2>1
    <3>2. x \in sealed /\ Kind(x.path) \in kinds /\ AtPath(f, target, x)
      BY <1>2
    <3>3. \A g : Found(f, target, kinds, g) <=> Kind(g.path) \in kinds /\ AtPath(f, target, g)
      BY <3>2 DEF Found
    <3> QED
      BY <1>2, <2>1, <3>3
  <2>2. CASE exact = {} /\ implied # {}
    <3>1. PICK x \in implied : TRUE
      BY <2>2
    <3>2. x \in sealed /\ AtStem(f, target, x) /\ Kind(x.path) \in kinds
      BY <1>3, <1>6
    <3>3. \A h \in sealed : Kind(h.path) \in kinds => ~AtPath(f, target, h)
      BY <1>2, <2>2
    <3>4. \A g \in sealed : Found(f, target, kinds, g) <=> AtStem(f, target, g)
      BY <1>6, <3>2, <3>3 DEF Found
    <3> QED
      BY <1>3, <2>2, <3>4
  <2>3. CASE exact = {} /\ implied = {}
    <3>1. \A h \in sealed : ~AtStem(f, target, h)
      BY <1>3, <2>3
    <3>2. \A h \in sealed : Kind(h.path) \in kinds => ~AtPath(f, target, h)
      BY <1>2, <2>3
    <3>3. \A g \in sealed : Found(f, target, kinds, g) <=> OfName(target, g)
      BY <1>5, <3>1, <3>2 DEF Found
    <3> QED
      BY <1>4, <2>3, <3>3
  <2> QED
    BY <2>1, <2>2, <2>3
<1> HIDE DEF first
<1>8. first = {h \in sealed : Found(f, target, kinds, h)}
  BY <1>7
<1> QED
  BY <1>1, <1>8

\* What an author may have meant.
LEMMA MeantIs ==
  ASSUME NEW f, NEW text, NEW g \in Meant(f, text), NEW link, link = Split(f, text), NEW target, target = link.path
  PROVE  \/ target = NoPath /\ g = f
         \/ /\ target # NoPath /\ g \in sealed /\ Fits(link, g)
            /\ \/ AtPath(f, target, g)
               \/ AtStem(f, target, g) /\ \A h \in sealed : Fits(link, h) => ~AtPath(f, target, h)
               \/ /\ OfWholeName(target, g)
                  /\ \A h \in sealed : Fits(link, h) => ~AtPath(f, target, h) /\ ~AtStem(f, target, h)
<1> DEFINE reach   == Reached(f.path, target)
           whole   == {x \in sealed : Kind(x.path) = "markdown" => FragmentMatches(x, link)}
           own     == {x \in whole : x.source = f.source}
           exact   == {x \in own : x.path \in reach}
           folded  == {x \in own : \E p \in reach : Key(p) = Key(x.path)}
           implied == {x \in OfKind(own, "markdown") :
                           \E p \in reach : Last(p).ext # "md" /\ Key(WithMd(p)) = Key(x.path)}
           named   == {x \in OfKind(whole, "markdown") :
                           target.parts # <<>> /\ Name(Last(target.parts)) \in LookupKeys(x)}
<1>1. g \in IF target = NoPath THEN {f}
            ELSE IF exact # {} THEN exact
            ELSE IF folded # {} THEN folded
            ELSE IF implied # {} THEN implied
            ELSE named
  BY DEF Meant
<1>2. \A x : x \in exact => x \in sealed /\ Fits(link, x) /\ AtPath(f, target, x)
  BY DEF Fits, AtPath
<1>3. \A x : x \in folded <=> x \in sealed /\ Fits(link, x) /\ AtPath(f, target, x)
  BY DEF Fits, AtPath
<1>4. \A x : x \in implied <=> x \in sealed /\ Fits(link, x) /\ AtStem(f, target, x)
  BY DEF Fits, AtStem, OfKind
<1>5. \A x : x \in named <=> x \in sealed /\ Fits(link, x) /\ OfWholeName(target, x)
  BY DEF Fits, OfWholeName, OfKind
<1> HIDE DEF exact, folded, implied, named
<1> QED
  BY <1>1, <1>2, <1>3, <1>4, <1>5

\* A name without a dot is looked up as it is.
LEMMA NamesWithoutDot ==
  ASSUME NEW target, Undotted(target), NEW g
  PROVE  OfWholeName(target, g) <=> OfName(target, g)
  BY DEF OfWholeName, OfName, Name, Undotted

\* What a link that names a path where something else than a note is, or a name with
\* a dot that leads nowhere, may be mistaken for.
LEMMA MistakenAre ==
  ASSUME NEW f, NEW text, NEW target, target = Split(f, text).path, NEW h \in sealed
  PROVE  /\ (/\ Kind(f.path) # "canvas"
             /\ \E g \in sealed : Kind(g.path) # "markdown" /\ AtPath(f, target, g)
             /\ AtPath(f, target, h) \/ AtStem(f, target, h) \/ OfName(target, h)) => h \in Mistaken(f, text)
         /\ (/\ \A g \in sealed : AtPath(f, target, g) => Kind(g.path) = "markdown"
             /\ target.parts # <<>> /\ ~Undotted(target)
             /\ OfName(target, h)) => h \in Mistaken(f, text)
<1> DEFINE reach   == Reached(f.path, target)
           own     == {g \in sealed : g.source = f.source}
           there   == {g \in own : Kind(g.path) # "markdown" /\ \E p \in reach : Key(p) = Key(g.path)}
           besides == {g \in own : \E p \in reach : Key(g.path) \in {Key(p), Key(WithMd(p))}}
           named   == {g \in OfKind(sealed, "markdown") :
                           target.parts # <<>> /\ Last(target.parts).word \in LookupKeys(g)}
<1>1. Mistaken(f, text) =
          CASE there # {} /\ Kind(f.path) # "canvas" -> besides \cup named
            [] there = {} /\ target.parts # <<>> -> IF Last(target.parts).ext \in {"", "md"} THEN {} ELSE named
            [] OTHER -> {}
  BY DEF Mistaken
<1>2. OfName(target, h) => h \in named
  BY DEF OfName, OfKind
<1>3. AtPath(f, target, h) \/ AtStem(f, target, h) => h \in besides
  BY DEF AtPath, AtStem
<1>4. (\E g \in sealed : Kind(g.path) # "markdown" /\ AtPath(f, target, g)) => there # {}
  BY DEF AtPath
<1>5. (\A g \in sealed : AtPath(f, target, g) => Kind(g.path) = "markdown") => there = {}
  BY DEF AtPath
<1> HIDE DEF there, besides, named
<1>6. there # {} /\ Kind(f.path) # "canvas" => Mistaken(f, text) = besides \cup named
  BY <1>1
<1>7. there = {} /\ target.parts # <<>> /\ ~Undotted(target) => Mistaken(f, text) = named
  BY <1>1 DEF Undotted
<1> QED
  BY <1>2, <1>3, <1>4, <1>5, <1>6, <1>7

\* A representative has the heading and the blocks of whom it represents.
LEMMA RepresentativeFits ==
  ASSUME SoundFiles(sealed), NEW h \in sealed, Kind(h.path) = "markdown", NEW link
  PROVE  FragmentMatches(Owners(sealed)[h], link) <=> Fits(link, h)
<1> DEFINE t == Owners(sealed)[h]
<1>1. Kind(t.path) = "markdown" /\ SameFile(t, h)
  BY RepresentativeIsSealed
<1> HIDE DEF t
<1>2. t = h \/ ExactKey(t) = ExactKey(h)
  BY <1>1 DEF SameFile
<1>3. ASSUME ExactKey(t) = ExactKey(h)
      PROVE  t.data.tail.heading = h.data.tail.heading /\ t.data.tail.blocks = h.data.tail.blocks
  <2> DEFINE tail(f) == [words |-> f.data.tail.words, heading |-> f.data.tail.heading, blocks |-> f.data.tail.blocks]
  <2>1. /\ ExactKey(t).tail = tail(t)
        /\ ExactKey(h).tail = tail(h)
    BY DEF ExactKey
  <2>2. tail(t) = tail(h)
    BY <1>3, <2>1
  <2>3. tail(t).heading = tail(h).heading /\ tail(t).blocks = tail(h).blocks
    BY <2>2
  <2> QED
    BY <2>3 DEF tail
<1>4. FragmentMatches(t, link) <=> FragmentMatches(h, link)
  BY <1>2, <1>3 DEF FragmentMatches
<1> QED
  BY <1>4 DEF Fits, t

\* What a resolved link of a note or a reference of a canvas leads to: one file that
\* is written, and that is what the author meant or is mistaken for it.
LeadsThere(f, text, t) ==
    /\ t \in sealed /\ Owners(sealed)[t] = t
    /\ \/ \A g \in Meant(f, text) : SameFile(t, g)
       \/ \E h \in Mistaken(f, text) : SameFile(t, h)

LEMMA OneOfOne ==
  ASSUME NEW S, IsFiniteSet(S), Decide(S).state = "resolved"
  PROVE  \E t : S = {t} /\ Decide(S).to = {t}
<1>1. Decide(S) = IF Cardinality(S) = 1 THEN [state |-> "resolved", to |-> S] ELSE [state |-> "ambiguous", to |-> S]
  BY DEF Decide, Resolution
<1>2. Cardinality(S) = 1 /\ Decide(S).to = S
  BY <1>1
<1> QED
  BY <1>2, FS_Singleton

LEMMA ReferenceLeadsThere ==
  ASSUME SoundFiles(sealed), NEW f \in sealed, Kind(f.path) = "canvas", NEW text, IsText(text), NEW r,
         r = ResolveReference(sealed, Owners(sealed), f, text), r.state \in {"resolved", "asset"}
  PROVE  \E t : r.to = {t} /\ LeadsThere(f, text, t)
<1> DEFINE owners == Owners(sealed)
           link   == Split(f, text)
           target == link.path
           kinds  == {"markdown", "asset", "canvas", "base"}
           C      == Candidates(sealed, owners, f, target, kinds)
<1>1. IsTarget(target) /\ link.heading = None /\ link.block = None
  <2>1. IsTarget(target)
    BY SplitIsTarget
  <2>2. link = [path |-> text.path, heading |-> None, block |-> None, whole |-> TRUE]
    BY DEF Split, SplitReference
  <2> HIDE DEF link
  <2> QED
    BY <2>1, <2>2
<1>2. \A g : Kind(g.path) \in kinds
  BY DEF Kind
<1>3. r = IF C = {} THEN [state |-> "unresolved", to |-> {}] ELSE Decide(C)
  BY DEF ResolveReference, Resolution
<1> HIDE DEF C, owners, link, target
<1>4. \A g : Fits(link, g)
  BY <1>1 DEF Fits, FragmentMatches
<1>5. C = IF target = NoPath \/ Reached(f.path, target) = {} THEN {}
          ELSE {owners[g] : g \in {h \in sealed : Found(f, target, kinds, h)}}
  BY <1>1, CandidatesAre DEF C
<1> HIDE DEF kinds
<1>6. C \subseteq sealed /\ \A c \in C : owners[c] = c
  <2>1. \A g \in sealed : owners[g] \in sealed /\ owners[owners[g]] = owners[g]
    BY RepresentativeIsSealed DEF owners
  <2> QED
    BY <1>5, <2>1
<1>7. C # {} /\ r = Decide(C)
  BY <1>3
<1>8. IsFiniteSet(C)
  BY <1>6, FS_Subset DEF SoundFiles
<1>9. r.state = "resolved"
  BY <1>7 DEF Decide, Resolution
<1>10. PICK t : C = {t} /\ r.to = {t}
  BY <1>7, <1>8, <1>9, OneOfOne
<1>13. PICK x \in sealed : Found(f, target, kinds, x) /\ t = owners[x]
  BY <1>5, <1>7, <1>10
<1>14. target # NoPath
  BY <1>5, <1>7
<1>15. ASSUME NEW g \in sealed, Found(f, target, kinds, g) PROVE SameFile(t, g)
  <2>1. owners[g] \in C
    BY <1>5, <1>7, <1>15
  <2>2. owners[g] = t
    BY <1>10, <2>1
  <2> QED
    BY <2>2, RepresentativeIsSealed DEF owners
<1>16. \A g \in Meant(f, text) :
           /\ g \in sealed
           /\ \/ AtPath(f, target, g)
              \/ AtStem(f, target, g) /\ \A h \in sealed : ~AtPath(f, target, h)
              \/ OfWholeName(target, g) /\ \A h \in sealed : ~AtPath(f, target, h) /\ ~AtStem(f, target, h)
  BY <1>4, <1>14, MeantIs DEF link, target
<1>17. SameFile(t, x)
  BY <1>13, <1>15
<1>18. CASE /\ \A h \in sealed : ~AtPath(f, target, h) /\ ~AtStem(f, target, h)
            /\ ~Undotted(target)
  <2>1. OfName(target, x)
    BY <1>13, <1>18 DEF Found
  <2>2. x \in Mistaken(f, text)
    BY <1>18, <2>1, MistakenAre DEF OfName, target, link
  <2> QED
    BY <1>6, <1>10, <1>17, <2>2 DEF LeadsThere, owners
<1>19. CASE ~(/\ \A h \in sealed : ~AtPath(f, target, h) /\ ~AtStem(f, target, h)
              /\ ~Undotted(target))
  <2>1. ASSUME NEW g \in Meant(f, text) PROVE Found(f, target, kinds, g)
    <3>1. OfWholeName(target, g) /\ (\A h \in sealed : ~AtPath(f, target, h) /\ ~AtStem(f, target, h)) => OfName(target, g)
      BY <1>19, NamesWithoutDot
    <3> QED
      BY <1>2, <1>16, <3>1 DEF Found
  <2>2. \A g \in Meant(f, text) : SameFile(t, g)
    BY <1>15, <1>16, <2>1
  <2> QED
    BY <1>6, <1>10, <2>2 DEF LeadsThere, owners
<1> QED
  BY <1>18, <1>19

LEMMA LinkLeadsThere ==
  ASSUME SoundFiles(sealed), NEW f \in sealed, Kind(f.path) = "markdown", NEW text, IsText(text), NEW r,
         r = ResolveLink(sealed, Owners(sealed), f, text), r.state \in {"resolved", "asset"}
  PROVE  \E t : r.to = {t} /\ LeadsThere(f, text, t)
<1> DEFINE owners   == Owners(sealed)
           link     == Split(f, text)
           target   == link.path
           kinds    == {"markdown"}
           C        == Candidates(sealed, owners, f, target, kinds)
           matching == {c \in C : FragmentMatches(c, link)}
           assets   == AssetsAt(sealed, owners, f, target)
           itself   == /\ target = NoPath
                       /\ link.heading # None \/ link.block # None
                       /\ FragmentMatches(owners[f], link)
<1>1. IsTarget(target)
  BY SplitIsTarget
<1>2. r = CASE matching # {} -> Decide(matching)
            [] matching = {} /\ target # NoPath /\ assets # {} -> [state |-> "asset", to |-> {CHOOSE a \in assets : TRUE}]
            [] itself -> [state |-> "resolved", to |-> {owners[f]}]
            [] OTHER -> [state |-> "unresolved", to |-> {}]
  BY DEF ResolveLink, Resolution
<1>3. C = IF target = NoPath \/ Reached(f.path, target) = {} THEN {}
          ELSE {owners[g] : g \in {h \in sealed : Found(f, target, kinds, h)}}
  <2>1. "markdown" \in kinds /\ C = Candidates(sealed, owners, f, target, kinds)
    OBVIOUS
  <2> HIDE DEF target, owners, link, C, kinds
  <2> QED
    BY <1>1, <2>1, CandidatesAre
<1>4. \A g \in sealed : /\ owners[g] \in sealed /\ owners[owners[g]] = owners[g]
                        /\ Kind(owners[g].path) = Kind(g.path) /\ SameFile(owners[g], g)
  BY RepresentativeIsSealed
<1>5. \A g \in sealed : Kind(g.path) = "markdown" => (FragmentMatches(owners[g], link) <=> Fits(link, g))
  BY RepresentativeFits
<1>6. \A a : a \in assets <=> \E g \in sealed : Kind(g.path) = "asset" /\ AtPath(f, target, g) /\ a = owners[g]
  BY DEF AssetsAt, At, AtPath, OfKind
<1>7. ASSUME NEW g \in Meant(f, text)
      PROVE  \/ target = NoPath /\ g = f
             \/ /\ target # NoPath /\ g \in sealed /\ Fits(link, g)
                /\ \/ AtPath(f, target, g)
                   \/ AtStem(f, target, g) /\ \A h \in sealed : Fits(link, h) => ~AtPath(f, target, h)
                   \/ /\ OfWholeName(target, g)
                      /\ \A h \in sealed : Fits(link, h) => ~AtPath(f, target, h) /\ ~AtStem(f, target, h)
  BY MeantIs
<1>8. \A g \in sealed : Found(f, target, kinds, g) => Kind(g.path) = "markdown"
  BY DEF Found
<1>9. ASSUME NEW g \in sealed, Kind(g.path) = "markdown", Fits(link, g), target # NoPath,
             Reached(f.path, target) # {}, Found(f, target, kinds, g)
      PROVE  owners[g] \in matching
  BY <1>3, <1>5, <1>9
<1>13. target = NoPath => matching = {}
  BY <1>3
<1>14. itself => target = NoPath
  OBVIOUS
<1> HIDE DEF C, owners, link, target, assets, kinds, itself
<1>10. CASE matching # {}
  <2>1. IsFiniteSet(matching)
    <3>1. C \subseteq sealed
      BY <1>3, <1>4
    <3> QED
      BY <3>1, FS_Subset DEF SoundFiles
  <2> HIDE DEF matching
  <2>2. r = Decide(matching)
    BY <1>2, <1>10, <1>13, <1>14
  <2>3. r.state = "resolved"
    BY <2>2 DEF Decide, Resolution
  <2>4. PICK t : matching = {t} /\ r.to = {t}
    <3>1. Decide(matching).state = "resolved"
      BY <2>2, <2>3
    <3>2. PICK t : matching = {t} /\ Decide(matching).to = {t}
      BY <2>1, <3>1, OneOfOne
    <3> QED
      BY <2>2, <3>2
  <2>5. t \in C /\ FragmentMatches(t, link)
    BY <2>4 DEF matching
  <2>6. target # NoPath /\ Reached(f.path, target) # {}
    BY <1>3, <2>5
  <2>7. PICK h \in sealed : Found(f, target, kinds, h) /\ t = owners[h]
    BY <1>3, <2>5, <2>6
  <2>8. Fits(link, h) /\ Kind(h.path) = "markdown"
    BY <1>5, <1>8, <2>5, <2>7
  <2>9. SameFile(t, h) /\ t \in sealed /\ owners[t] = t
    BY <1>4, <2>7
  <2>10. ASSUME h \in Mistaken(f, text) PROVE LeadsThere(f, text, t)
    BY <2>9, <2>10 DEF LeadsThere, owners
  <2>11. AtPath(f, target, h) \/ AtStem(f, target, h) \/ OfName(target, h)
    BY <2>7 DEF Found
  <2>12. CASE \E g \in sealed : Kind(g.path) # "markdown" /\ AtPath(f, target, g)
    <3>1. h \in Mistaken(f, text)
      BY <2>11, <2>12, MistakenAre DEF target, link
    <3> QED
      BY <2>4, <2>10, <3>1
  <2>13. CASE /\ \A g \in sealed : AtPath(f, target, g) => Kind(g.path) = "markdown"
              /\ target.parts # <<>> /\ ~Undotted(target) /\ OfName(target, h)
    <3>1. h \in Mistaken(f, text)
      BY <2>13, MistakenAre DEF target, link
    <3> QED
      BY <2>4, <2>10, <3>1
  <2>14. CASE /\ \A g \in sealed : AtPath(f, target, g) => Kind(g.path) = "markdown"
              /\ ~(target.parts # <<>> /\ ~Undotted(target) /\ OfName(target, h))
    <3>1. ASSUME NEW g \in Meant(f, text) PROVE SameFile(t, g)
      <4>1. /\ g \in sealed /\ Fits(link, g)
            /\ \/ AtPath(f, target, g)
               \/ AtStem(f, target, g) /\ \A x \in sealed : Fits(link, x) => ~AtPath(f, target, x)
               \/ /\ OfWholeName(target, g)
                  /\ \A x \in sealed : Fits(link, x) => ~AtPath(f, target, x) /\ ~AtStem(f, target, x)
        BY <1>7, <2>6
      <4>2. ASSUME Kind(g.path) = "markdown", Found(f, target, kinds, g) PROVE SameFile(t, g)
        <5>1. owners[g] \in matching
          BY <1>9, <2>6, <4>1, <4>2
        <5> QED
          BY <1>4, <2>4, <4>1, <5>1
      <4>3. CASE AtPath(f, target, g)
        <5>1. Kind(g.path) = "markdown"
          BY <2>14, <4>1, <4>3
        <5>2. Found(f, target, kinds, g)
          BY <4>3, <5>1 DEF Found, kinds
        <5> QED
          BY <4>2, <5>1, <5>2
      <4>4. CASE AtStem(f, target, g) /\ \A x \in sealed : Fits(link, x) => ~AtPath(f, target, x)
        <5>1. Kind(g.path) = "markdown"
          BY <4>4 DEF AtStem
        <5>2. ~AtPath(f, target, h)
          BY <2>8, <4>4
        <5>3. \A x \in sealed : Kind(x.path) \in kinds => ~AtPath(f, target, x)
          BY <2>7, <5>2 DEF Found
        <5>4. Found(f, target, kinds, g)
          BY <4>4, <5>1, <5>3 DEF Found, kinds
        <5> QED
          BY <4>2, <5>1, <5>4
      <4>5. CASE /\ OfWholeName(target, g)
                 /\ \A x \in sealed : Fits(link, x) => ~AtPath(f, target, x) /\ ~AtStem(f, target, x)
        <5>1. Kind(g.path) = "markdown" /\ target.parts # <<>>
          BY <4>5 DEF OfWholeName
        <5>2. ~AtPath(f, target, h) /\ ~AtStem(f, target, h)
          BY <2>8, <4>5
        <5>3. \A x \in sealed : Kind(x.path) \in kinds => ~AtPath(f, target, x) /\ ~AtStem(f, target, x)
          BY <2>7, <5>2 DEF Found
        <5>4. Undotted(target)
          BY <2>11, <2>14, <5>1, <5>2
        <5>5. OfName(target, g)
          BY <4>5, <5>4, NamesWithoutDot
        <5>6. Found(f, target, kinds, g)
          BY <5>1, <5>3, <5>5 DEF Found, kinds
        <5> QED
          BY <4>2, <5>1, <5>6
      <4> QED
        BY <4>1, <4>3, <4>4, <4>5
    <3>2. LeadsThere(f, text, t)
      BY <2>9, <3>1 DEF LeadsThere, owners
    <3> QED
      BY <2>4, <3>2
  <2> QED
    BY <2>12, <2>13, <2>14
<1>11. CASE matching = {} /\ target # NoPath /\ assets # {}
  <2> DEFINE t == CHOOSE a \in assets : TRUE
  <2> HIDE DEF matching
  <2>1. r = [state |-> "asset", to |-> {t}]
    BY <1>2, <1>11, <1>13, <1>14
  <2>2. t \in assets
    BY <1>11
  <2> HIDE DEF t
  <2>3. PICK h \in sealed : Kind(h.path) = "asset" /\ AtPath(f, target, h) /\ t = owners[h]
    BY <1>6, <2>2
  <2>4. h \in Mistaken(f, text)
    BY <2>3, MistakenAre DEF target, link
  <2>5. SameFile(t, h) /\ t \in sealed /\ owners[t] = t
    BY <1>4, <2>3
  <2>6. r.to = {t}
    BY <2>1
  <2> QED
    BY <2>4, <2>5, <2>6 DEF LeadsThere, owners
<1>12. CASE matching = {} /\ ~(target # NoPath /\ assets # {})
  <2> HIDE DEF matching
  <2>1. itself /\ r = [state |-> "resolved", to |-> {owners[f]}]
    BY <1>2, <1>12
  <2>2. target = NoPath
    BY <2>1 DEF itself
  <2>3. \A g \in Meant(f, text) : g = f
    BY <1>7, <2>2
  <2>4. SameFile(owners[f], f) /\ owners[f] \in sealed /\ owners[owners[f]] = owners[f]
    BY <1>4
  <2>5. r.to = {owners[f]}
    BY <2>1
  <2> QED
    BY <2>3, <2>4, <2>5 DEF LeadsThere, owners
<1> QED
  BY <1>10, <1>11, <1>12

\* What the plan makes of a link that it changes.
LEMMA ChangedLink ==
  ASSUME SoundFiles(sealed), Drafted(sealed, plan), NEW op \in plan.operations, op.what = "rewrite",
         NEW i \in Changed(op), NEW f, f = op.from, NEW text, text = Links(f)[i]
  PROVE  /\ f \in sealed /\ op.at = plan.place[f] /\ Kind(f.path) \in {"markdown", "canvas"}
         /\ i \in DOMAIN Links(f) /\ IsText(text)
         /\ \E t : /\ LeadsThere(f, text, t)
                   /\ op.links[i] = Render(f, text, Relative(plan.place[f], plan.place[t]))
<1> DEFINE r == plan.resolved[f][i]
           owners == Owners(sealed)
<1>1. /\ f \in sealed /\ op.at = plan.place[f] /\ Kind(f.path) \in {"markdown", "canvas"}
      /\ op.links = Rewritten(plan.place, plan.resolved, f)
  BY DraftCovers DEF OperationsCover, SourceIsSealed, RewriteIsSound, Drafted
<1>2. i \in DOMAIN op.links /\ op.links[i] # text
  BY DEF Changed
<1>3. i \in DOMAIN Links(f)
  BY <1>1, <1>2 DEF Rewritten
<1>4. IsText(text)
  BY <1>1, <1>3 DEF SoundFiles
<1>5. op.links[i] = IF Retargeted(f, text, r)
                    THEN Render(f, text, Relative(plan.place[f], plan.place[CHOOSE t \in r.to : TRUE]))
                    ELSE text
  BY <1>1, <1>3 DEF Rewritten
<1>6. r = IF Kind(f.path) = "markdown" THEN ResolveLink(sealed, owners, f, text)
          ELSE ResolveReference(sealed, owners, f, text)
  <2>1. f \in Linking(sealed)
    BY <1>1 DEF Linking, OfKind
  <2>2. plan.resolved = Resolutions(sealed, owners)
    BY DEF Drafted
  <2> QED
    BY <1>3, <2>1, <2>2 DEF Resolutions
<1> HIDE DEF r, owners
<1>7. Retargeted(f, text, r)
  BY <1>2, <1>5
<1>8. r.state \in {"resolved", "asset"}
  BY <1>7 DEF Retargeted
<1>9. PICK t : r.to = {t} /\ LeadsThere(f, text, t)
  <2>1. CASE Kind(f.path) = "markdown"
    <3>1. r = ResolveLink(sealed, Owners(sealed), f, text)
      BY <1>6, <2>1 DEF owners
    <3> QED
      BY <1>1, <1>4, <1>8, <2>1, <3>1, LinkLeadsThere
  <2>2. CASE Kind(f.path) = "canvas"
    <3>1. r = ResolveReference(sealed, Owners(sealed), f, text)
      BY <1>6, <2>2 DEF owners
    <3> QED
      BY <1>1, <1>4, <1>8, <2>2, <3>1, ReferenceLeadsThere
  <2> QED
    BY <1>1, <2>1, <2>2
<1>10. (CHOOSE x \in r.to : TRUE) = t
  BY <1>9
<1>11. op.links[i] = Render(f, text, Relative(plan.place[f], plan.place[t]))
  BY <1>5, <1>7, <1>10
<1> QED
  BY <1>1, <1>3, <1>4, <1>9, <1>11

\* Where a changed link leads, one file is written.
LEMMA OneTarget ==
  ASSUME SoundFiles(sealed), Drafted(sealed, plan), NEW op \in plan.operations, NEW i, NEW t \in sealed,
         Owners(sealed)[t] = t, Reached(op.at, Split(op.from, op.links[i]).path) = {plan.place[t]}
  PROVE  Cardinality(Targets(op, i)) = 1 /\ \A o \in Targets(op, i) : o.from = t
<1>1. /\ \A o, x \in plan.operations : Key(o.at) = Key(x.at) => o = x
      /\ {o.at : o \in plan.operations} = {plan.place[f] : f \in sealed}
      /\ \A o \in plan.operations : o.from \in sealed /\ Owners(sealed)[o.from] = o.from /\ o.at = plan.place[o.from]
  BY DraftCovers DEF OperationsCover, SourceIsSealed, Drafted
<1>2. \A o : o \in Targets(op, i) <=> o \in plan.operations /\ o.at = plan.place[t]
  BY DEF Targets
<1>3. PICK o \in plan.operations : o.at = plan.place[t]
  BY <1>1
<1>4. Targets(op, i) = {o}
  BY <1>1, <1>2, <1>3
<1>5. o.from = t
  <2>1. \A f, g \in sealed : Key(plan.place[f]) = Key(plan.place[g]) => Owners(sealed)[f] = Owners(sealed)[g]
    BY PlacesAreApart DEF Drafted
  <2> QED
    BY <1>1, <1>3, <2>1
<1> QED
  BY <1>4, <1>5, FS_Singleton

\* Where a link of a note or a canvas was rewritten it leads to one file that is written,
\* and that is the file its author meant, under whatever name that file or its duplicate
\* is written, or one of those it may be mistaken for (resolve_links,
\* resolve_document_candidates, relative_output_target, render_link_target).
THEOREM LinksLeadWhereTheyLed == Spec => []LinksSurvive
<1>1. BuildInv /\ RewriteInv => LinksSurvive
  <2> SUFFICES ASSUME BuildInv, RewriteInv, phase = "done",
                      NEW op \in plan.operations, op.what = "rewrite", NEW i \in Changed(op)
               PROVE  /\ Cardinality(Targets(op, i)) = 1
                      /\ \A o \in Targets(op, i) :
                             \/ \A g \in Meant(op.from, Links(op.from)[i]) : SameFile(o.from, g)
                             \/ \E h \in Mistaken(op.from, Links(op.from)[i]) : SameFile(o.from, h)
    BY DEF LinksSurvive
  <2> DEFINE f    == op.from
             text == Links(f)[i]
  <2>1. SoundFiles(sealed) /\ Drafted(sealed, plan)
    BY DEF BuildInv, PlanOK
  <2>2. /\ f \in sealed /\ op.at = plan.place[f] /\ Kind(f.path) \in {"markdown", "canvas"}
        /\ i \in DOMAIN Links(f) /\ IsText(text)
        /\ \E t : /\ LeadsThere(f, text, t)
                  /\ op.links[i] = Render(f, text, Relative(plan.place[f], plan.place[t]))
    BY <2>1, ChangedLink
  <2>3. PICK t : /\ LeadsThere(f, text, t)
                 /\ op.links[i] = Render(f, text, Relative(plan.place[f], plan.place[t]))
    BY <2>2
  <2> DEFINE way == Relative(plan.place[f], plan.place[t])
  <2>4. Kind(f.path) = "markdown" => ReadsAlike(f, op.links)
    BY DEF RewriteInv, RewritesAreRendered, PhasesOK
  <2>5. Kind(f.path) = "markdown" => /\ Split(f, op.links[i]).heading = Split(f, text).heading
                                     /\ Split(f, op.links[i]).block = Split(f, text).block
    BY <2>2, <2>4 DEF ReadsAlike
  <2> HIDE DEF f, text, way
  <2>6. Split(f, op.links[i]).path = way
    BY <2>2, <2>3, <2>5, WrittenIsReadBack DEF way
  <2>7. t \in sealed /\ Owners(sealed)[t] = t
    BY <2>3 DEF LeadsThere
  <2>8. IsPlace(plan.place[f]) /\ IsPlace(plan.place[t])
    BY <2>1, <2>2, <2>7, PlacesAreApart DEF Drafted
  <2>9. Reached(op.at, Split(op.from, op.links[i]).path) = {plan.place[t]}
    BY <2>2, <2>6, <2>8, RelativeLeadsThere DEF way, f
  <2>10. Cardinality(Targets(op, i)) = 1 /\ \A o \in Targets(op, i) : o.from = t
    BY <2>1, <2>7, <2>9, OneTarget
  <2>11. \/ \A g \in Meant(f, text) : SameFile(t, g)
         \/ \E h \in Mistaken(f, text) : SameFile(t, h)
    BY <2>3 DEF LeadsThere
  <2> QED
    BY <2>10, <2>11 DEF f, text
<1> QED
  BY <1>1, RewriteInvIsKept, BuildInvIsKept, PTL
=============================================================================
