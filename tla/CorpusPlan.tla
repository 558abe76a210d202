----------------------------- MODULE CorpusPlan -----------------------------
(***************************************************************************)
(* The plan of a corpus build (okc-core: dedup.rs, parse.rs, plan.rs): pure *)
(* functions of the sealed files.  Exact duplicates get one representative; *)
(* every note, attachment, canvas and base gets one destination; the links  *)
(* of notes and canvases are resolved to representatives and rewritten to   *)
(* destinations; and the finished plan is validated from its own records,   *)
(* as if somebody else had written it.                                      *)
(*                                                                         *)
(* A sealed file is a record of its source, its original and its logical    *)
(* path and its data, and stands for its own identity (its hashes cover the *)
(* source, the path and the bytes).  A path is a sequence of components: a  *)
(* word, how the word is spelled (letter case, Unicode composition), an     *)
(* extension, and a tag for what the planner or a misread link hangs on it. *)
(***************************************************************************)
EXTENDS Naturals, Sequences, FiniteSets, SequencesExt

CONSTANTS
    Before(_, _),  \* the byte order of logical paths: a strict total order
    Short(_, _, _), \* Short(s, p, n): the first n characters of the identity of the file p of source s
    FullLength,    \* the length at which identities differ
    Encode(_),     \* percent encoding of a heading in a Markdown destination
    Joined(_, _, _), \* Joined(a, m, b): the text a, then m, then b
    Marks(_)       \* the characters of a name at which a link to it may be misread

None == "none"

Component(word, spelling, ext) ==
    [word |-> word, spelling |-> spelling, ext |-> ext, tag |-> <<>>]

Folder(word) == Component(word, "plain", "")

\* portable_key: two paths with one key are one file on some file system.
Key(path) == [i \in DOMAIN path |-> [path[i] EXCEPT !.spelling = "plain"]]

\* The logical path: the composed spelling of the original one.
Nfc(path) ==
    [i \in DOMAIN path |-> [path[i] EXCEPT !.spelling = IF @ = "decomposed" THEN "plain" ELSE @]]

Kind(path) ==
    LET ext == Last(path).ext
    IN  CASE ext = "md" -> "markdown"
          [] ext \in {"canvas", "base"} -> ext
          [] OTHER -> "asset"

OfKind(files, kind) == {f \in files : Kind(f.path) = kind}

Precedes(f, g) == Before(f.path, g.path) \/ (f.path = g.path /\ f.source < g.source)

SourceFirst(f, g) == f.source < g.source \/ (f.source = g.source /\ Before(f.path, g.path))

\* The i-th file is the one that i - 1 others precede.
Sorted(files, order) ==
    [i \in 1..Cardinality(files) |-> CHOOSE f \in files : Cardinality({g \in files : <<g, f>> \in order}) = i - 1]

InOrder(files) == Sorted(files, {p \in files \X files : Precedes(p[1], p[2])})

BySource(files) == Sorted(files, {p \in files \X files : SourceFirst(p[1], p[2])})

-----------------------------------------------------------------------------
(* What a note says.  The head of a file holds its frontmatter and its      *)
(* links, the tail its words, headings and blocks.                          *)

Links(f) == f.data.head.links

\* The title written in the frontmatter, else the first heading, else the name.
Title(f) ==
    IF f.data.head.title # None THEN f.data.head.title
    ELSE IF f.data.tail.heading # None THEN f.data.tail.heading
    ELSE Last(f.path).word

LookupKeys(f) == {Title(f), Last(f.path).word} \cup f.data.head.aliases

\* The body and the frontmatter as they are compared: line endings are not.
ExactKey(f) ==
    [head |-> f.data.head,
     tail |-> [words |-> f.data.tail.words, heading |-> f.data.tail.heading, blocks |-> f.data.tail.blocks]]

\* A link target is text: a path, then "#" and a heading, then "^" and a block.
\* The two syntaxes read the same text differently.
NoPath == [rooted |-> FALSE, ups |-> 0, parts |-> <<>>]

\* One of the characters stands in the path.
Marked(parts, marks) ==
    \E i \in DOMAIN parts : marks \cap (Marks(parts[i].word) \cup Marks(parts[i].ext)) # {}

\* The path up to the first of the characters.
Cut(path, marks) ==
    LET first == CHOOSE i \in DOMAIN path.parts :
                     /\ Marked(<<path.parts[i]>>, marks)
                     /\ ~Marked(SubSeq(path.parts, 1, i - 1), marks)
    IN  [path EXCEPT !.parts = Append(SubSeq(@, 1, first - 1), [@[first] EXCEPT !.tag = <<"cut">>])]

\* A wiki link ends at "]]" and is cut at its first "^" and at the first "#" before
\* it, in its path as well: nothing is escaped.  A text is read as a whole when its
\* end is found and nothing in it closes what stands open before it in its line
\* (backquotes, a bracket), of which text.open are the characters.
SplitWiki(text) ==
    LET has(mark) == Marked(text.path.parts, {mark})
    IN  [path    |-> IF has("#") \/ has("^") THEN Cut(text.path, {"#", "^"}) ELSE text.path,
         heading |-> CASE has("#") -> "rest"
                       [] ~has("#") /\ has("^") -> None
                       [] OTHER -> text.heading,
         block   |-> IF has("^") THEN "rest" ELSE text.block,
         whole   |-> ~Marked(text.path.parts, text.open \cup {"]]"})]

WithLast(path, component) == [path EXCEPT ![Len(path)] = component]

\* A name is cut at its last dot.
Extended(component, mark, more) ==
    IF component.ext = "" THEN [component EXCEPT !.word = Joined(@, mark, more)]
    ELSE [component EXCEPT !.ext = Joined(@, mark, more)]

\* In Markdown the path is percent-encoded, and "^" only begins a block directly
\* after "#": before it, it is a part of the path, and after a heading a part of
\* the heading.
SplitMarkdown(text) ==
    [path    |-> IF text.heading = None /\ text.block # None /\ text.path.parts # <<>>
                 THEN [text.path EXCEPT !.parts = WithLast(@, Extended(Last(@), "^", text.block))]
                 ELSE text.path,
     heading |-> CASE text.heading = "" /\ text.block # None -> None
                   [] text.heading \notin {None, ""} /\ text.block # None -> "caret"
                   [] OTHER -> text.heading,
     block   |-> IF text.heading = "" THEN text.block ELSE None,
     whole   |-> ~Marked(text.path.parts, text.open)]

\* The references of a canvas are paths and nothing else.
SplitReference(text) == [path |-> text.path, heading |-> None, block |-> None, whole |-> TRUE]

Split(f, text) ==
    LET syntax == IF Kind(f.path) = "canvas" THEN "canvas" ELSE text.syntax
    IN  CASE syntax = "markdown" -> SplitMarkdown(text)
          [] syntax = "wiki" -> SplitWiki(text)
          [] OTHER -> SplitReference(text)

\* The headings of a note are those of its tail; likewise its blocks.
FragmentMatches(f, link) ==
    /\ link.heading \in {None, "", f.data.tail.heading}
    /\ link.block \in {None} \cup f.data.tail.blocks

-----------------------------------------------------------------------------
(* Representatives and destinations.                                        *)

\* The representative of a note: the first of those with equal body and frontmatter.
FirstOfEqual(notes, f) ==
    CHOOSE g \in notes : /\ ExactKey(g) = ExactKey(f)
                         /\ \A h \in notes : ExactKey(h) = ExactKey(f) => h = g \/ Precedes(g, h)

\* The occurrence of an attachment that is copied: the first by source, then by path.
FirstOccurrence(assets, f) ==
    CHOOSE g \in assets :
        /\ g.data = f.data
        /\ \A h \in assets : h.data = f.data => h = g \/ SourceFirst(g, h)

\* Which file is written for each file.
Owners(files) ==
    [f \in files |->
        CASE Kind(f.path) = "markdown" -> FirstOfEqual(OfKind(files, "markdown"), f)
          [] Kind(f.path) = "asset" -> FirstOccurrence(OfKind(files, "asset"), f)
          [] OTHER -> f]

Suffixed(path, f, n) == [path EXCEPT ![Len(path)].tag = <<"~", Short(f.source, f.path, n)>>]

CollisionKind(existing, requested) ==
    CASE existing = requested -> "PATH_EXACT"
      [] existing # requested /\ Nfc(existing) = Nfc(requested) -> "UNICODE_NORMALIZATION"
      [] OTHER -> "PATH_CASEFOLD"

Conflict(kind, required, notes, subject) ==
    [kind |-> kind, required |-> required, notes |-> notes, subject |-> subject]

\* Variant: a destination is free when nobody has it in exactly this spelling.
FreeExact(path, taken) == \A t \in taken : t.at # path

\* A destination is free when no allocated one has its portable key.
Free(path, taken) == \A t \in taken : Key(t.at) # Key(path)

\* One file takes the path it has in its source, under the root of its kind, or
\* else that path with as much of its identity as makes it free.
Allocate(root, done, f) ==
    LET wanted   == <<Folder(root)>> \o f.path
        lengths  == {n \in 1..FullLength : Free(Suffixed(wanted, f, n), done.taken)}
        at       == IF Free(wanted, done.taken) THEN wanted
                    ELSE Suffixed(wanted, f, CHOOSE n \in lengths : \A m \in lengths : n <= m)
        request  == IF at = wanted THEN <<Folder(root)>> \o f.original ELSE at
        existing == {t \in done.taken : Key(t.at) = Key(wanted)}
        requested == <<Folder(root)>> \o f.original
    IN  IF ~Free(wanted, done.taken) /\ lengths = {} THEN [done EXCEPT !.error = "Internal"]
        ELSE [done EXCEPT !.taken = @ \cup {[at |-> at, request |-> request, owner |-> f]},
                          !.conflicts = @ \cup
                              {Conflict(CollisionKind(t.request, requested), FALSE,
                                        IF root = "knowledge" THEN {t.owner, f} ELSE {}, <<at>>)
                               : t \in existing}]

AllocateAll(root, done, files) == FoldLeft(LAMBDA d, f : Allocate(root, d, f), done, files)

\* Attachments have their content in their name and cannot collide.
AssetPlace(f) ==
    <<Folder("attachments"), Folder("prefix"), [Last(f.path) EXCEPT !.tag = <<"#", f.data>>]>>

Written(files, owners, kind) == {owners[f] : f \in OfKind(files, kind)}

\* Notes first, then attachments, then canvases and bases around both.  Canvases
\* come in the order of their identities, for which any fixed order stands.
Allocations(files, owners) ==
    LET nothing  == [taken |-> {}, conflicts |-> {}, error |-> None]
        notes    == AllocateAll("knowledge", nothing, InOrder(Written(files, owners, "markdown")))
        fixed(t) == [t EXCEPT !.request = t.at]
        assets   == {[at |-> AssetPlace(f), request |-> AssetPlace(f), owner |-> f] : f \in Written(files, owners, "asset")}
        settled  == [notes EXCEPT !.taken = {fixed(t) : t \in @} \cup assets]
        canvases == AllocateAll("canvases", settled, InOrder(Written(files, owners, "canvas")))
    IN  AllocateAll("views", canvases, BySource(Written(files, owners, "base")))

\* Every file is found where its representative is written.
Places(files, owners, taken) ==
    [f \in files |-> (CHOOSE t \in taken : t.owner = owners[f]).at]

-----------------------------------------------------------------------------
(* Resolving links.                                                         *)

Trimmed(current, target) ==
    LET base == IF target.rooted THEN <<>> ELSE Front(current)
    IN  SubSeq(base, 1, Len(base) - target.ups) \o target.parts

\* The path a target names from a file, if it stays beneath the root.
Reached(current, target) ==
    IF target.ups > (IF target.rooted THEN 0 ELSE Len(current) - 1) THEN {}
    ELSE {Trimmed(current, target)} \ {<<>>}

\* A target that is kept as it is must stay beneath the root.
Contained(current, target) == ~target.rooted /\ Reached(current, target) # {}

At(files, source, path) == {f \in files : f.source = source /\ Key(f.path) = Key(path)}

\* The path with ".md" appended, whatever its name ends in.
WithMd(path) ==
    LET name == Last(path)
    IN  WithLast(path, [name EXCEPT !.word = IF name.ext = "" THEN @ ELSE Joined(@, ".", name.ext),
                                    !.ext = "md"])

\* The files a target may mean: those at its path in the own source, else, unless
\* it ends in ".md", those at the path with ".md" appended, else the notes of any
\* source that answer to its name, which is cut at its last dot.
Candidates(files, owners, f, target, kinds) ==
    LET among   == {g \in files : Kind(g.path) \in kinds}
        exact   == UNION {At(among, f.source, p) : p \in Reached(f.path, target)}
        implied == UNION {At(among, f.source, WithMd(p))
                          : p \in {q \in Reached(f.path, target) : Last(q).ext # "md"}}
        named   == IF target.parts = <<>> THEN {}
                   ELSE {g \in OfKind(files, "markdown") : Last(target.parts).word \in LookupKeys(g)}
    IN  IF target = NoPath \/ Reached(f.path, target) = {} THEN {}
        ELSE {owners[g] : g \in IF exact # {} THEN exact ELSE IF implied # {} THEN implied ELSE named}

\* Attachments are found by their path alone; one of several is taken unasked.
AssetsAt(files, owners, f, target) ==
    {owners[g] : g \in UNION {At(OfKind(files, "asset"), f.source, p) : p \in Reached(f.path, target)}}

Resolution(state, to) == [state |-> state, to |-> to]

\* Variant: the first of several candidates is taken.
Choose(candidates) ==
    Resolution("resolved", {CHOOSE c \in candidates : \A d \in candidates : c = d \/ Precedes(c, d)})

\* One candidate is the target; several are nobody's choice but the curator's.
Decide(candidates) ==
    IF Cardinality(candidates) = 1 THEN Resolution("resolved", candidates)
    ELSE Resolution("ambiguous", candidates)

ResolveLink(files, owners, f, text) ==
    LET link     == Split(f, text)
        matching == {c \in Candidates(files, owners, f, link.path, {"markdown"}) : FragmentMatches(c, link)}
        assets   == AssetsAt(files, owners, f, link.path)
    IN  CASE matching # {} -> Decide(matching)
          [] matching = {} /\ link.path # NoPath /\ assets # {} ->
                 Resolution("asset", {CHOOSE a \in assets : TRUE})
          [] /\ link.path = NoPath
             /\ link.heading # None \/ link.block # None
             /\ FragmentMatches(owners[f], link) -> Resolution("resolved", {owners[f]})
          [] OTHER -> Resolution("unresolved", {})

ResolveReference(files, owners, f, text) ==
    LET candidates == Candidates(files, owners, f, Split(f, text).path, {"markdown", "asset", "canvas", "base"})
    IN  IF candidates = {} THEN Resolution("unresolved", {}) ELSE Decide(candidates)

Linking(files) == OfKind(files, "markdown") \cup OfKind(files, "canvas")

\* The resolution of every link of every note and canvas, duplicates included.
Resolutions(files, owners) ==
    [f \in Linking(files) |-> [i \in DOMAIN Links(f) |->
        IF Kind(f.path) = "markdown" THEN ResolveLink(files, owners, f, Links(f)[i])
        ELSE ResolveReference(files, owners, f, Links(f)[i])]]

\* What is not resolved is kept as it is, and must not lead out of the source or
\* out of the compiled vault; a canvas may not even try.
Escapes(place, f, text, resolution) ==
    LET target == Split(f, text).path
    IN  \/ /\ Kind(f.path) = "canvas"
           /\ Reached(f.path, target) = {}
        \/ /\ resolution.state \in {"unresolved", "ambiguous"}
           /\ Kind(f.path) = "canvas" \/ target # NoPath
           /\ ~Contained(f.path, target) \/ ~Contained(place[f], target)

-----------------------------------------------------------------------------
(* The operations of a plan.                                                *)

\* The way from one destination to another.
Relative(from, to) ==
    LET base   == Front(from)
        shared == {n \in 0..Len(base) : n < Len(to) /\ SubSeq(base, 1, n) = SubSeq(to, 1, n)}
        common == CHOOSE n \in shared : \A m \in shared : m <= n
    IN  [rooted |-> FALSE, ups |-> Len(base) - common, parts |-> SubSeq(to, common + 1, Len(to))]

\* The text a link is given for its new target, whose path is escaped in Markdown
\* and written as it is in wiki links.
Render(f, text, target) ==
    LET link == Split(f, text)
    IN  [text EXCEPT !.path = target,
                     !.heading = IF text.syntax = "markdown" THEN Encode(link.heading) ELSE link.heading,
                     !.block = link.block]

\* A link of a note to the note itself without a path stays as it is.
Retargeted(f, text, resolution) ==
    /\ resolution.state \in {"resolved", "asset"}
    /\ ~(Split(f, text).path = NoPath /\ resolution.to = {f})

\* The texts of a written file after its links were rewritten.
Rewritten(place, resolved, f) ==
    [i \in DOMAIN Links(f) |->
        IF Retargeted(f, Links(f)[i], resolved[f][i])
        THEN Render(f, Links(f)[i], Relative(place[f], place[CHOOSE t \in resolved[f][i].to : TRUE]))
        ELSE Links(f)[i]]

\* The rewritten text must be found where it was written, and read as the same link
\* with another path.
ReadsAlike(f, new) ==
    \A i \in DOMAIN Links(f) : /\ Split(f, new[i]).whole
                               /\ Split(f, new[i]).heading = Split(f, Links(f)[i]).heading
                               /\ Split(f, new[i]).block = Split(f, Links(f)[i]).block

Operation(place, resolved, f) ==
    LET links == IF Kind(f.path) \in {"markdown", "canvas"} THEN Rewritten(place, resolved, f) ELSE <<>>
        same  == Kind(f.path) \in {"asset", "base"} \/ links = Links(f)
    IN  [what   |-> IF same THEN "copy" ELSE "rewrite",
         from   |-> f,
         at     |-> place[f],
         links  |-> IF same THEN <<>> ELSE links]

\* Titles, names and aliases that several notes answer to, and notes that differ
\* in their frontmatter alone, are told the curator.
ReviewConflicts(files, owners) ==
    LET notes == OfKind(files, "markdown")
        answering(word, keys(_)) == {owners[f] : f \in {g \in notes : word \in keys(g)}}
        titles(f) == {Title(f), Last(f.path).word}
        aliases(f) == f.data.head.aliases
        clashes(kind, keys(_)) ==
            {Conflict(kind, FALSE, answering(word, keys), <<word>>)
             : word \in {w \in UNION {keys(f) : f \in notes} : Cardinality(answering(w, keys)) > 1}}
        sameBody(f) == {g \in notes : g.data.head.links = f.data.head.links /\ ExactKey(g).tail = ExactKey(f).tail}
    IN  clashes("TITLE_AMBIGUITY", titles) \cup clashes("ALIAS_AMBIGUITY", aliases)
        \cup {Conflict("FRONTMATTER_VALUE", FALSE, sameBody(f), <<>>)
              : f \in {g \in notes : \E h \in sameBody(g) : h.data.head # g.data.head}}

LinkConflict(owners, resolved, f, i) ==
    Conflict("LINK_AMBIGUITY", TRUE,
             {c \in resolved[f][i].to : Kind(c.path) = "markdown"}
                 \cup (IF Kind(f.path) = "markdown" THEN {owners[f]} ELSE {}),
             <<f, i>>)

AmbiguousLinks(resolved) ==
    {l \in UNION {{f} \X DOMAIN resolved[f] : f \in DOMAIN resolved} :
        resolved[l[1]][l[2]].state = "ambiguous"}

\* The plan of the sealed files, or the error that ends the build.
Draft(files) ==
    LET owners   == Owners(files)
        done     == Allocations(files, owners)
        place    == Places(files, owners, done.taken)
        resolved == Resolutions(files, owners)
    IN  IF done.error # None THEN [error |-> done.error]
        ELSE IF \E f \in Linking(files) : \E i \in DOMAIN Links(f) :
                    Escapes(place, f, Links(f)[i], resolved[f][i])
        THEN [error |-> "UnsafePath"]
        ELSE [error      |-> None,
              files      |-> files,
              owners     |-> owners,
              place      |-> place,
              resolved   |-> resolved,
              operations |-> {Operation(place, resolved, owners[f]) : f \in files},
              conflicts  |-> done.conflicts \cup ReviewConflicts(files, owners)
                             \cup {LinkConflict(owners, resolved, l[1], l[2])
                                   : l \in AmbiguousLinks(resolved)}]

-----------------------------------------------------------------------------
(* The validation of a plan from its own records (validate_integrity).      *)

\* The content of a vault: what is at which path.
VaultContent(files, s) == {[path |-> f.path, data |-> f.data] : f \in {g \in files : g.source = s}}

\* Every source has its own content, every file its own path.
SnapshotsAreSound(files, sources) ==
    /\ \A s, t \in sources : VaultContent(files, s) = VaultContent(files, t) => s = t
    /\ \A f, g \in files : f.source = g.source /\ f.path = g.path => f = g
    /\ \A f \in files : f.path = Nfc(f.original)

\* Every note of the workspace is a sealed file, and represented by a note.
NotesAreSound(plan) ==
    \A f \in OfKind(plan.files, "markdown") : plan.owners[f] \in OfKind(plan.files, "markdown")

\* The references of a canvas are resolved to files of the workspace, the
\* ambiguous ones to at least two.
ReferencesAreSound(plan) ==
    \A f \in OfKind(plan.files, "canvas") : \A i \in DOMAIN Links(f) :
        /\ plan.resolved[f][i].to \subseteq plan.files
        /\ plan.resolved[f][i].state = "resolved" => Cardinality(plan.resolved[f][i].to) = 1
        /\ plan.resolved[f][i].state = "ambiguous" => Cardinality(plan.resolved[f][i].to) >= 2

\* All occurrences of an attachment have its content.
AttachmentsAreSound(plan) ==
    \A f \in OfKind(plan.files, "asset") :
        /\ plan.owners[f] \in OfKind(plan.files, "asset")
        /\ plan.owners[f].data = f.data

\* The source of an operation is a sealed file, and its own representative.
SourceIsSealed(plan, op) ==
    /\ op.from \in plan.files
    /\ plan.owners[op.from] = op.from
    /\ op.at = plan.place[op.from]

\* A copy is of a file whose sealed resolutions need no rewriting.
CopyIsSound(plan, op) ==
    Kind(op.from.path) \in {"markdown", "canvas"} => Rewritten(plan.place, plan.resolved, op.from) = Links(op.from)

\* A rewrite of a note or a canvas is what its sealed resolutions ask for.
RewriteIsSound(plan, op) ==
    /\ Kind(op.from.path) \in {"markdown", "canvas"}
    /\ op.links = Rewritten(plan.place, plan.resolved, op.from)
    /\ op.links # Links(op.from)

\* No two operations write one portable path, and together they write every
\* destination of the maps.
OperationsCover(plan) ==
    /\ DOMAIN plan.place = plan.files
    /\ \A op, other \in plan.operations : Key(op.at) = Key(other.at) => op = other
    /\ {op.at : op \in plan.operations} = {plan.place[f] : f \in plan.files}
    /\ \A op \in plan.operations :
           SourceIsSealed(plan, op) /\ IF op.what = "copy" THEN CopyIsSound(plan, op) ELSE RewriteIsSound(plan, op)

\* The conflicts about the links of notes, or of canvases, are exactly those of
\* the ambiguous ones.
ConflictsCover(plan, kind) ==
    LET about == {l \in AmbiguousLinks(plan.resolved) : Kind(l[1].path) = kind}
    IN  {c \in plan.conflicts : c.kind = "LINK_AMBIGUITY" /\ Kind(c.subject[1].path) = kind}
            = {LinkConflict(plan.owners, plan.resolved, l[1], l[2]) : l \in about}

CanvasConflictsCover(plan) == ConflictsCover(plan, "canvas")
NoteConflictsCover(plan) == ConflictsCover(plan, "markdown")

ValidPlan(plan, sources) ==
    /\ SnapshotsAreSound(plan.files, sources)
    /\ NotesAreSound(plan) /\ ReferencesAreSound(plan) /\ AttachmentsAreSound(plan)
    /\ CanvasConflictsCover(plan) /\ NoteConflictsCover(plan)
    /\ OperationsCover(plan)
=============================================================================
