----------------------------- MODULE CorpusBuild -----------------------------
(***************************************************************************)
(* The build of a corpus from vaults that stay open in other programs       *)
(* (okc-core: corpus.rs, snapshot.rs, source_io.rs, plan.rs).  The builder  *)
(* reads every source once, file by file, and seals what it read; plans     *)
(* over the sealed files (CorpusPlan); and for the notes whose links it     *)
(* rewrites it reads their sources a second time.  An editor changes,       *)
(* creates, replaces and removes files meanwhile: nothing locks a vault.    *)
(*                                                                         *)
(* A file is read in two halves, and an editor that saves in place writes   *)
(* it in two halves.  "had" is a history of what every file once held, and  *)
(* "coarse" of the files written without moving their time stamp.           *)
(***************************************************************************)
EXTENDS CorpusPlan

CONSTANTS
    Sources,        \* the registered sources, numbers
    Archives, Tars, \* those that are archives, and those of them that are tar.zst
    MaxFiles,       \* the limit on the number of files
    Excluded(_),    \* paths the snapshot policy leaves out
    Size(_),        \* the length of a file's data
    Malformed(_),   \* data no parser accepts
    Beginnings,     \* [disk, edits]: a disk, and how many edits the editor makes
    Edits(_)        \* what an editor may write to a source: [path, data]

\* The data of a file, and what is at a path.
IsComponent(c) == c = [word |-> c.word, spelling |-> c.spelling, ext |-> c.ext, tag |-> c.tag]
IsTarget(p) ==
    /\ p = [rooted |-> p.rooted, ups |-> p.ups, parts |-> p.parts] /\ p.ups \in Nat
    /\ Len(p.parts) \in Nat /\ p.parts = [i \in 1..Len(p.parts) |-> p.parts[i]]
    /\ \A i \in DOMAIN p.parts : IsComponent(p.parts[i])
IsText(t) ==
    /\ t = [syntax |-> t.syntax, path |-> t.path, heading |-> t.heading, block |-> t.block, open |-> t.open]
    /\ IsTarget(t.path)
    \* It was found as one link, and cut where it could be.
    /\ ~Marked(t.path.parts, t.open)
    /\ t.syntax = "wiki" => ~Marked(t.path.parts, {"#", "^", "]]"})
    /\ t.heading # "rest" /\ t.block # "rest"
IsData(d) ==
    /\ d = [head |-> d.head, tail |-> d.tail]
    /\ \A i \in DOMAIN d.head.links : IsText(d.head.links[i])
IsEntry(f) ==
    /\ f = [what |-> f.what, data |-> f.data, time |-> f.time]
    /\ f.what \in {"file", "link"} /\ IsData(f.data) /\ f.time \in Nat
IsPath(p) ==
    /\ Len(p) \in Nat \ {0} /\ DOMAIN p = 1..Len(p)
    /\ \A i \in DOMAIN p : p[i] = Component(p[i].word, p[i].spelling, p[i].ext)

\* The original paths that files have or are given, and the logical ones.
Paths == (UNION {DOMAIN b.disk[s] : b \in Beginnings, s \in Sources})
         \cup {e.path : e \in UNION {Edits(s) : s \in Sources}}
LogicalPaths == {Nfc(p) : p \in Paths}

ASSUME VaultsAssumption ==
    /\ Sources \subseteq Nat \ {0} /\ Archives \subseteq Sources /\ Tars \subseteq Archives
    /\ \A b \in Beginnings :
           /\ b.edits \in Nat /\ DOMAIN b.disk = Sources
           /\ \A s \in Sources : /\ IsFiniteSet(DOMAIN b.disk[s])
                                 /\ \A p \in DOMAIN b.disk[s] : IsEntry(b.disk[s][p])
    /\ \A s \in Sources : \A e \in Edits(s) : IsData(e.data)
    /\ \A p \in Paths : IsPath(p)

\* Paths are ordered by their bytes.
ASSUME OrderAssumption ==
    /\ \A p, q \in LogicalPaths : Before(p, q) \/ p = q \/ Before(q, p)
    /\ \A p, q \in LogicalPaths : ~(Before(p, q) /\ Before(q, p))
    /\ \A p, q, r \in LogicalPaths : (Before(p, q) /\ Before(q, r)) => Before(p, r)

\* Whole identities are those of one file, and no part of one is a whole one.
ASSUME IdentityAssumption ==
    /\ FullLength \in Nat \ {0}
    /\ \A s, t \in Sources : \A p, q \in LogicalPaths : \A n \in 1..FullLength :
           Short(s, p, n) = Short(t, q, FullLength) => n = FullLength /\ s = t /\ p = q

\* The names the planner makes up are read as they are written.
ASSUME MarkAssumption ==
    \A word \in {"", "knowledge", "attachments", "prefix", "canvases", "views"} : Marks(word) = {}

VARIABLES
    disk,      \* the files of every source, by original path: [what, data, time]
    budget,    \* how many edits are left
    edited,    \* whether the editor did anything
    saving,    \* the save in place that is half done
    had, coarse,
    phase,     \* "inspecting", "planning", "rereading", "done" or "failed"
    todo,      \* the sources still to be read in this phase
    walk,      \* the directory being walked, if any
    handle,    \* the file being read, if any
    entries,   \* what was read of the source so far
    sealed,    \* the sealed files
    plan,      \* the plan
    outputs,   \* what the rewritten notes and canvases become, by destination
    error      \* what ended the build

editorVars == <<disk, budget, edited, saving, had, coarse>>
readerVars == <<todo, walk, handle, entries>>
planVars == <<sealed, plan, outputs>>
vars == <<editorVars, phase, readerVars, planVars, error>>

NoWalk == [source |-> 0, listed |-> {}, seen |-> {}]
NoHandle == [path |-> <<>>, step |-> "none"]
NoSave == [source |-> 0]
NoPlan == [operations |-> {}]

Exists(s, p) == p \in DOMAIN disk[s]
IsFile(s, p) == Exists(s, p) /\ disk[s][p].what = "file"

Init ==
    /\ \E b \in Beginnings : disk = b.disk /\ budget = b.edits
    /\ edited = FALSE /\ saving = NoSave
    /\ had = UNION {{<<s, p, disk[s][p].data>> : p \in DOMAIN disk[s]} : s \in Sources}
    /\ coarse = {}
    /\ phase = "inspecting" /\ todo = Sources
    /\ walk = NoWalk /\ handle = NoHandle /\ entries = {}
    /\ sealed = {} /\ plan = NoPlan /\ outputs = <<>>
    /\ error = None

-----------------------------------------------------------------------------
(* The editor.                                                              *)

\* A handle on a file that loses its name keeps the file.
KeepOpen(s, p) ==
    handle' = IF handle.step = "reading" /\ walk.source = s /\ handle.path = p /\ handle.kept = <<>>
              THEN [handle EXCEPT !.kept = <<disk[s][p]>>] ELSE handle

Put(s, p, file) == [disk EXCEPT ![s] = [q \in DOMAIN @ \cup {p} |-> IF q = p THEN file ELSE @[q]]]

EditorMoves ==
    /\ phase \notin {"done", "failed"}
    /\ edited' = TRUE
    /\ UNCHANGED <<phase, todo, walk, entries, planVars, error>>

\* A write in place, with or without the time stamp moving.
Write(s, p, data) ==
    /\ \E tick \in {0, 1} :
           /\ disk' = Put(s, p, [disk[s][p] EXCEPT !.data = data, !.time = @ + tick])
           /\ coarse' = IF tick = 0 THEN coarse \cup {<<s, p>>} ELSE coarse
    /\ had' = had \cup {<<s, p, data>>}
    /\ UNCHANGED handle

SaveHead(s, e) ==
    /\ saving = NoSave /\ budget > 0 /\ budget' = budget - 1
    /\ s \notin Archives /\ IsFile(s, e.path) /\ disk[s][e.path].data # e.data
    /\ Write(s, e.path, [disk[s][e.path].data EXCEPT !.head = e.data.head])
    /\ saving' = [source |-> s, path |-> e.path, data |-> e.data]
    /\ EditorMoves

SaveTail ==
    /\ saving # NoSave
    /\ Write(saving.source, saving.path, saving.data)
    /\ saving' = NoSave /\ UNCHANGED budget
    /\ EditorMoves

\* A save by rename, or the creation of a file.
Replace(s, e) ==
    /\ saving = NoSave /\ budget > 0 /\ budget' = budget - 1 /\ UNCHANGED <<saving, coarse>>
    /\ Exists(s, e.path) => disk[s][e.path].data # e.data
    /\ disk' = Put(s, e.path, [what |-> "file", data |-> e.data, time |-> 0])
    /\ had' = had \cup {<<s, e.path, e.data>>}
    /\ KeepOpen(s, e.path)
    /\ EditorMoves

Unlink(s, p) ==
    /\ saving = NoSave /\ budget > 0 /\ budget' = budget - 1 /\ UNCHANGED <<saving, coarse, had>>
    /\ Exists(s, p)
    /\ disk' = [disk EXCEPT ![s] = [q \in DOMAIN @ \ {p} |-> @[q]]]
    /\ KeepOpen(s, p)
    /\ EditorMoves

\* A file makes way for a symbolic link to a file outside of every source.
Link(s, e) ==
    /\ saving = NoSave /\ budget > 0 /\ budget' = budget - 1 /\ UNCHANGED <<saving, coarse, had>>
    /\ s \notin Archives /\ IsFile(s, e.path)
    /\ disk' = Put(s, e.path, [what |-> "link", data |-> e.data, time |-> 0])
    /\ KeepOpen(s, e.path)
    /\ EditorMoves

Editor ==
    \/ SaveTail
    \/ \E s \in Sources : \E e \in Edits(s) : SaveHead(s, e) \/ Replace(s, e) \/ Link(s, e)
    \/ \E s \in Sources : \E p \in {e.path : e \in Edits(s)} : Unlink(s, p)

-----------------------------------------------------------------------------
(* Reading a source.                                                        *)

Reading == phase \in {"inspecting", "rereading"}

Fail(why) ==
    /\ phase' = "failed" /\ error' = why
    /\ walk' = NoWalk /\ handle' = NoHandle /\ entries' = {} /\ todo' = {}
    /\ plan' = NoPlan /\ outputs' = <<>> /\ sealed' = {}
    /\ UNCHANGED editorVars

Nearest == CHOOSE s \in todo : \A t \in todo : s <= t

\* The walk does not enter a folder that is left out.
Pruned(p) == \E n \in 1..(Len(p) - 1) : Excluded(Nfc(SubSeq(p, 1, n)))

OpenSource ==
    /\ Reading /\ todo # {} /\ walk = NoWalk /\ Nearest \notin Archives
    /\ walk' = [source |-> Nearest, listed |-> {p \in DOMAIN disk[Nearest] : ~Pruned(p)}, seen |-> {}]
    /\ UNCHANGED <<editorVars, phase, todo, handle, entries, planVars, error>>

\* The walk comes upon an entry: a name that is another's after composition ends
\* the build, and links and excluded paths are passed over.
Visit(p) ==
    /\ walk # NoWalk /\ handle = NoHandle
    /\ p \in DOMAIN disk[walk.source] \ walk.seen /\ ~Pruned(p)
    /\ IF \E q \in walk.seen : Nfc(q) = Nfc(p) THEN Fail("UnsafePath")
       ELSE /\ walk' = [walk EXCEPT !.seen = @ \cup {p}]
            /\ handle' = IF Excluded(Nfc(p)) \/ ~IsFile(walk.source, p) THEN NoHandle
                         ELSE [path |-> p, step |-> "found"]
            /\ UNCHANGED <<editorVars, phase, todo, entries, planVars, error>>

\* The file is opened beneath the source, and no component may be a link.
OpenFile(s, p) == IsFile(s, p)

BeginFile ==
    /\ handle.step = "found"
    /\ LET s == walk.source
           p == handle.path
       IN  IF ~Exists(s, p) THEN Fail("Io")
           ELSE IF ~OpenFile(s, p) THEN Fail("UnsafePath")
           ELSE /\ handle' = [path |-> p, step |-> "reading", kept |-> <<>>, link |-> disk[s][p].what,
                              head |-> disk[s][p].data.head,
                              time |-> disk[s][p].time, size |-> Size(disk[s][p].data)]
                /\ UNCHANGED <<editorVars, phase, todo, walk, entries, planVars, error>>

Open == IF handle.kept = <<>> THEN disk[walk.source][handle.path] ELSE handle.kept[1]

WasRead == [head |-> handle.head, tail |-> Open.data.tail]

\* Variant: only the length is compared.
SameLength == Size(Open.data) = handle.size /\ Size(WasRead) = handle.size

\* The file has the length and the time it had when it was opened.
Unchanged == Size(Open.data) = handle.size /\ Size(WasRead) = handle.size /\ Open.time = handle.time

EndFile ==
    /\ handle.step = "reading"
    /\ LET s == walk.source
           p == handle.path
       IN  IF ~Unchanged THEN Fail("IdentityMismatch")
           ELSE IF ~Exists(s, p) THEN Fail("Io")
           ELSE IF disk[s][p].what # handle.link THEN Fail("IdentityMismatch")
           ELSE IF Cardinality(entries) >= MaxFiles THEN Fail("ResourceLimit")
           ELSE /\ entries' = entries \cup {[original |-> p, path |-> Nfc(p), data |-> WasRead]}
                /\ handle' = NoHandle
                /\ UNCHANGED <<editorVars, phase, todo, walk, planVars, error>>

\* The walk may miss what was created after it began, but nothing else.
Walked ==
    /\ walk # NoWalk /\ handle = NoHandle
    /\ walk.listed \cap DOMAIN disk[walk.source] \subseteq walk.seen

\* An archive is read through one handle; it is replaced as a whole or not at all.
Members(s) ==
    {[original |-> p, path |-> Nfc(p), data |-> disk[s][p].data]
     : p \in {q \in DOMAIN disk[s] : IsFile(s, q) /\ ~Excluded(Nfc(q))}}

\* A tar archive pays for every member, a zip archive for those it keeps.
Counted(s) == IF s \in Tars THEN Cardinality(DOMAIN disk[s]) ELSE Cardinality(Members(s))

ArchiveError(s) ==
    CASE \E p, q \in DOMAIN disk[s] : p # q /\ Nfc(p) = Nfc(q) -> "UnsafePath"
      [] Counted(s) > MaxFiles -> "ResourceLimit"
      [] OTHER -> None

-----------------------------------------------------------------------------
(* Sealing, planning, rewriting.                                            *)

Sealed(s, read) == {[source |-> s, original |-> e.original, path |-> e.path, data |-> e.data] : e \in read}

\* A source was read for the first time: its files are sealed and parsed.
Seal(s, read) ==
    IF Cardinality(sealed) + Cardinality(read) > MaxFiles THEN Fail("ResourceLimit")
    ELSE IF \E e \in read : Malformed(e.data) THEN Fail("MalformedInput")
    ELSE /\ sealed' = sealed \cup Sealed(s, read)
         /\ todo' = todo \ {s}
         /\ phase' = IF todo' = {} THEN "planning" ELSE phase
         /\ walk' = NoWalk /\ entries' = {}
         /\ UNCHANGED <<editorVars, handle, plan, outputs, error>>

Rewrites(s) == {op \in plan.operations : op.what = "rewrite" /\ Kind(op.from.path) = "markdown" /\ op.from.source = s}

\* Variant: it is enough that the note is still there.
StillThere(f, read) == \E e \in read : e.path = f.path

\* A note is rewritten only from the bytes that were sealed, under the same name.
AsSealed(f, read) == \E e \in read : e.path = f.path /\ e.original = f.original /\ e.data = f.data

Output(op, read) ==
    LET e == CHOOSE x \in read : x.path = op.from.path
    IN  [e.data EXCEPT !.head.links = op.links]

\* The finished plan is validated like anybody else's.
Finish(finished) ==
    IF ValidPlan(finished, Sources) THEN phase' = "done" /\ error' = None
    ELSE phase' = "failed" /\ error' = "PlanStale"

\* A source was read for the second time: its notes are rewritten.
RenderSource(s, read) ==
    IF \E op \in Rewrites(s) : ~AsSealed(op.from, read) THEN Fail("IdentityMismatch")
    ELSE IF \E op \in Rewrites(s) : ~ReadsAlike(op.from, op.links) THEN Fail("PlanStale")
    ELSE /\ outputs' = [at \in DOMAIN outputs \cup {op.at : op \in Rewrites(s)} |->
                            IF at \in DOMAIN outputs THEN outputs[at]
                            ELSE Output(CHOOSE op \in Rewrites(s) : op.at = at, read)]
         /\ todo' = todo \ {s}
         /\ walk' = NoWalk /\ entries' = {}
         /\ IF todo' = {} THEN Finish(plan) ELSE UNCHANGED <<phase, error>>
         /\ UNCHANGED <<editorVars, handle, sealed, plan>>

SourceRead(s, read) == IF phase = "inspecting" THEN Seal(s, read) ELSE RenderSource(s, read)

CloseSource == Walked /\ SourceRead(walk.source, entries)

ReadArchive ==
    /\ Reading /\ todo # {} /\ walk = NoWalk /\ Nearest \in Archives
    /\ IF ArchiveError(Nearest) # None THEN Fail(ArchiveError(Nearest))
       ELSE SourceRead(Nearest, Members(Nearest))

\* Canvases are rewritten from what was sealed, in the planning itself.
CanvasOutputs(draft) ==
    LET rewrites == {op \in draft.operations : op.what = "rewrite" /\ Kind(op.from.path) = "canvas"}
    IN  [at \in {op.at : op \in rewrites} |->
            LET op == CHOOSE o \in rewrites : o.at = at
            IN  [op.from.data EXCEPT !.head.links = op.links]]

\* All sources are sealed: the plan, and the sources whose notes it rewrites.
BuildPlan ==
    /\ phase = "planning"
    /\ IF ~SnapshotsAreSound(sealed, Sources) THEN Fail("InvalidConfig")
       ELSE LET draft == Draft(sealed)
            IN  IF draft.error # None THEN Fail(draft.error)
                ELSE /\ plan' = draft
                     /\ outputs' = CanvasOutputs(draft)
                     /\ todo' = {op.from.source : op \in {o \in draft.operations :
                                      o.what = "rewrite" /\ Kind(o.from.path) = "markdown"}}
                     /\ IF todo' = {} THEN Finish(draft) ELSE phase' = "rereading" /\ error' = None
                     /\ UNCHANGED <<editorVars, walk, handle, entries, sealed>>

Builder ==
    \/ OpenSource
    \/ \E p \in IF walk = NoWalk THEN {} ELSE DOMAIN disk[walk.source] : Visit(p)
    \/ BeginFile \/ EndFile \/ CloseSource
    \/ ReadArchive \/ BuildPlan

Next == Builder \/ Editor

Spec == Init /\ [][Next]_vars

-----------------------------------------------------------------------------

\* What is sealed of a file, the file really held at one moment: never two halves
\* of two saves, and never anything from outside its source.  The exception is
\* the one no reader without locks can exclude, a write of the same length within
\* one tick of the clock that stamps files (snapshot.rs, read_limited_file;
\* source_io.rs, open_file).
FilesAreWhole ==
    \A f \in sealed : \/ <<f.source, f.original, f.data>> \in had
                      \/ <<f.source, f.original>> \in coarse

\* However the vaults changed between the two readings, a finished plan rewrites
\* what was inspected: everything but the links of a rewritten note is as it was
\* sealed (plan.rs, materialize_markdown_rewrites).
RewritesAreOfInspected ==
    phase = "done" =>
        \A op \in plan.operations : op.what = "rewrite" =>
            [outputs[op.at] EXCEPT !.head.links = <<>>] = [op.from.data EXCEPT !.head.links = <<>>]

\* Two files that are one file to the planner.
SameFile(f, g) == f = g \/ (Kind(f.path) = Kind(g.path) /\ IF Kind(f.path) = "markdown" THEN ExactKey(f) = ExactKey(g)
                                                           ELSE Kind(f.path) = "asset" /\ f.data = g.data)

\* The name of a note, with or without its ".md".
Name(component) ==
    IF component.ext \in {"", "md"} THEN component.word ELSE Joined(component.word, ".", component.ext)

\* What an author who wrote a link may have meant by it: the file at exactly that
\* path of the vault, else those whose paths differ only in case, else the notes
\* whose ".md" was left away, else the notes of any vault that have the name; and
\* of notes, only those that have the heading and the block.
Meant(f, text) ==
    LET link    == Split(f, text)
        reach   == Reached(f.path, link.path)
        whole   == {g \in sealed : Kind(g.path) = "markdown" => FragmentMatches(g, link)}
        own     == {g \in whole : g.source = f.source}
        exact   == {g \in own : g.path \in reach}
        folded  == {g \in own : \E p \in reach : Key(p) = Key(g.path)}
        implied == {g \in OfKind(own, "markdown") :
                        \E p \in reach : Last(p).ext # "md" /\ Key(WithMd(p)) = Key(g.path)}
        named   == {g \in OfKind(whole, "markdown") :
                        link.path.parts # <<>> /\ Name(Last(link.path.parts)) \in LookupKeys(g)}
    IN  IF link.path = NoPath THEN {f}
        ELSE IF exact # {} THEN exact
        ELSE IF folded # {} THEN folded
        ELSE IF implied # {} THEN implied
        ELSE named

\* What the code may take for it.  A note looks among notes before it looks among
\* attachments: if what is at the path is no note, it may find the note at the path
\* with ".md", or a note of any vault that has the name; and of attachments whose
\* paths differ only in case it takes any.  A name with a dot in it that leads to no
\* path is looked up as what is before the dot.
Mistaken(f, text) ==
    LET target  == Split(f, text).path
        reach   == Reached(f.path, target)
        own     == {g \in sealed : g.source = f.source}
        there   == {g \in own : Kind(g.path) # "markdown" /\ \E p \in reach : Key(p) = Key(g.path)}
        besides == {g \in own : \E p \in reach : Key(g.path) \in {Key(p), Key(WithMd(p))}}
        named   == {g \in OfKind(sealed, "markdown") :
                        target.parts # <<>> /\ Last(target.parts).word \in LookupKeys(g)}
    IN  CASE there # {} /\ Kind(f.path) # "canvas" -> besides \cup named
          [] there = {} /\ target.parts # <<>> -> IF Last(target.parts).ext \in {"", "md"} THEN {} ELSE named
          [] OTHER -> {}

\* The links of an operation that are rewritten, and where one of them leads from
\* where its file is written.
Changed(op) == {i \in DOMAIN op.links : op.links[i] # Links(op.from)[i]}
Targets(op, i) == {o \in plan.operations : o.at \in Reached(op.at, Split(op.from, op.links[i]).path)}

\* A rewritten link, followed from where its file is written, leads to exactly one
\* written file, and that is the file the author meant, whichever duplicate of it
\* is kept and under whatever name; where the author may have meant two different
\* files, nothing is rewritten (plan.rs, resolve_links, relative_output_target).
\* The order in which the code looks can mistake other files for the one meant,
\* but only those that Mistaken names (OwnPathWins is what it should keep to).
LinksSurvive ==
    phase = "done" =>
        \A op \in plan.operations : op.what = "rewrite" =>
            \A i \in Changed(op) :
                /\ Cardinality(Targets(op, i)) = 1
                /\ \A o \in Targets(op, i) :
                       \/ \A g \in Meant(op.from, Links(op.from)[i]) : SameFile(o.from, g)
                       \/ \E h \in Mistaken(op.from, Links(op.from)[i]) : SameFile(o.from, h)

\* A link to the path of a file of the own vault leads to that file, whatever other
\* files have its name, as a decision on several vaults promises: the exact path
\* comes first, and an attachment is never guessed (plan.rs, resolve_links).
OwnPathWins ==
    phase = "done" =>
        \A op \in plan.operations : op.what = "rewrite" =>
            \A i \in Changed(op) : \A o \in Targets(op, i) :
                \A g \in {h \in sealed : h.source = op.from.source} :
                    g.path \in Reached(op.from.path, Split(op.from, Links(op.from)[i]).path) => SameFile(o.from, g)

\* A Markdown link whose heading or block is written in another way than it is read.
WrittenOtherwise(text) ==
    LET link == SplitMarkdown(text)
    IN  text.syntax = "markdown" /\ (link.block # None \/ Encode(link.heading) # link.heading)

\* A path the link cannot be given: names are not escaped in wiki links, nor against
\* what stands open before a link in its line.
Unwritable(text, path) ==
    Marked(path, text.open \cup (IF text.syntax = "wiki" THEN {"#", "^", "]]"} ELSE {}))

\* The builder never refuses a plan of its own, and never says that a source
\* changed when none did: a vault that can be read can be built (plan.rs,
\* validate_integrity, validate_rewritten_markdown_links).  Excluded are vaults with
\* a link that is written in another way than it is read, or with a link and a file
\* whose path that link cannot be given.
OwnPlanIsAccepted ==
    /\ error # "Internal"
    /\ error = "PlanStale" =>
        \E f, g \in had : \E i \in DOMAIN f[3].head.links :
            WrittenOtherwise(f[3].head.links[i]) \/ Unwritable(f[3].head.links[i], g[2])
    /\ error \in {"IdentityMismatch", "Io"} => edited
=============================================================================
