---------------------------- MODULE MCCorpusBuild ----------------------------
(***************************************************************************)
(* Instances of CorpusBuild: a directory, the vault 1, and a tar archive,   *)
(* the vault 2.  The files of the disks are chosen so that paths collide in *)
(* letter case and across vaults, contents are duplicated within and across *)
(* vaults, and links lead to notes, duplicates, attachments, headings,      *)
(* nothing, several notes, or out of the vault; so that two attachments or  *)
(* a note with a heading and one without differ only in letter case; and so *)
(* that names hold dots, or characters that no link can be given.           *)
(***************************************************************************)
EXTENDS CorpusBuild

Note(word, spelling) == Component(word, spelling, "md")
Small == <<Note("a", "plain")>>
Upper == <<Note("a", "upper")>>
Composed == <<Note("e", "plain")>>
Decomposed == <<Note("e", "decomposed")>>
Sub == <<Folder("sub"), Note("b", "plain")>>
Picture == <<Component("pic", "plain", "png")>>
UpperPicture == <<Component("pic", "upper", "png")>>
Board == <<Component("board", "plain", "canvas")>>
View == <<Component("view", "plain", "base")>>
Cache == <<Component("cache", "plain", "db")>>
Private == <<Folder(".private"), Note("a", "plain")>>
Sidecar == <<Note("pic.png", "plain")>>        \* pic.png.md
Sharp == <<Note("c#", "plain")>>               \* c#.md
Ticked == <<Note("t-tick", "plain")>>              \* a backquote in its name
Version == <<Note("v1", "plain")>>             \* v1.md
FullVersion == <<Note("v1.2", "plain")>>       \* v1.2.md
Upset == <<Note("a^k", "plain")>>              \* a^k.md

\* The byte order of the logical paths.
Ordered == <<Private, Cache, Upper, UpperPicture, Small, Upset, Board, Sharp, Composed, Picture, Sidecar,
             Sub, Ticked, FullVersion, Version, View>>
MCBefore(p, q) ==
    \E i, j \in DOMAIN Ordered : i < j /\ Ordered[i] = p /\ Ordered[j] = q

\* All identities begin alike, and differ in the next character.
MCShort(s, p, n) == IF n = 1 THEN <<"0">> ELSE <<"0", s, p>>

MCEncode(heading) == IF heading = "two words" THEN "two%20words" ELSE heading

MCJoined(a, mark, b) == a \o mark \o b

MCMarks(name) ==
    CASE name = "c#" -> {"#"}
      [] name = "t-tick" -> {"tick"}
      [] name = "a^k" -> {"^"}
      [] OTHER -> {}

MCExcluded(path) == path[1].word \in {".private", "cache"}

Data(title, aliases, links, words, heading, ending) ==
    [head |-> [title |-> title, aliases |-> aliases, links |-> links],
     tail |-> [words |-> words, heading |-> heading, blocks |-> {"k"}, ending |-> ending]]

MCSize(data) == IF data.head.title = "long" THEN 2 ELSE 1
MCMalformed(data) == data.head.title = "malformed"

Plain(words) == Data(None, {}, <<>>, words, None, "lf")
Linked(text) == Data(None, {}, <<text>>, "text", None, "lf")
File(data) == [what |-> "file", data |-> data, time |-> 0]

Text(syntax, ups, parts, heading, block) ==
    [syntax |-> syntax, path |-> [rooted |-> FALSE, ups |-> ups, parts |-> parts],
     heading |-> heading, block |-> block, open |-> {}]

Bare(word) == <<Component(word, "plain", "")>>

NoteLinks ==
    {Text("wiki", 0, Bare("a"), None, None),            \* [[a]]
     Text("wiki", 0, Bare("b"), None, "k"),             \* [[b^k]]
     Text("wiki", 0, <<>>, "", "k"),                    \* [[#^k]]
     Text("markdown", 1, Small, None, None),            \* [](../a.md)
     Text("markdown", 1, Small, None, "k"),              \* [](../a.md^k)
     Text("markdown", 1, Small, "intro", None),         \* [](../a.md#intro)
     Text("markdown", 1, Small, "", "k"),               \* [](../a.md#^k)
     Text("markdown", 1, Picture, None, None),          \* [](../pic.png)
     Text("markdown", 2, Small, None, None),            \* [](../../a.md)
     [Text("markdown", 0, Small, None, None) EXCEPT !.path.rooted = TRUE]} \* [](/a.md)

CanvasLinks ==
    {Text("canvas", 0, Small, None, None), Text("canvas", 0, Picture, None, None),
     Text("canvas", 0, Bare("e"), None, None), Text("canvas", 1, Small, None, None)}

\* A vault from what is at each path; what is Nothing is not there.
Nothing == Plain("nothing")
Vault(content) == [p \in {q \in DOMAIN content : content[q] # Nothing} |-> File(content[p])]

Headed == Data("b", {"a"}, <<>>, "two", "intro", "lf")
Bodies == {Nothing, Plain("one"), Headed}

\* What the vaults hold is settled before the build, and nobody edits them.
Static ==
    {[disk |-> <<Vault((Sub :> Linked(l)) @@ (Small :> x) @@ (Upper :> y) @@ (Picture :> pic)),
                 Vault((Small :> z) @@ (Sub :> dup) @@ (Picture :> Plain("image")))>>,
      edits |-> 0]
     : l \in NoteLinks, x \in Bodies, y \in {Nothing, Plain("one"), Plain("three"), Headed},
       pic \in {Nothing, Plain("image"), Plain("other image")},
       z \in Bodies \ {Nothing},
       dup \in {Nothing, Linked(Text("wiki", 0, Bare("a"), None, None))}}

\* Canvases beside notes, bases, names that are composed alike, a private folder,
\* and what ends a build: two equal vaults, a broken note, too many files.
Few == (Small :> Plain("one")) @@ (Sub :> Linked(Text("wiki", 0, Bare("a"), None, None)))
Others == Vault((Small :> Plain("two")) @@ (Picture :> Plain("image")))
\* A note and a canvas that link to a picture whose name a note has as an alias.
Alias == Small :> Data(None, {"pic"}, <<>>, "one", None, "lf")
Illustrated == (Sub :> Linked(Text("markdown", 1, Picture, None, None))) @@ (Picture :> Plain("image"))
Namesakes ==
    Vault(Illustrated @@ Alias @@ (Board :> Linked(Text("canvas", 0, Picture, None, None))))

Odd ==
    {[disk |-> <<v, w>>, edits |-> 0]
     : v \in {Vault((Board :> Linked(l)) @@ (Composed :> Plain("e")) @@ (View :> Plain("view")) @@ more)
              : l \in CanvasLinks, more \in {Small :> Plain("one"), Picture :> Plain("image"),
                                            (Private :> Plain("mine")) @@ (Cache :> Plain("x")), Decomposed :> Plain("e")}}
            \cup {Vault((Sub :> Linked(Text("markdown", 1, p, None, None))) @@ (Picture :> Plain("image"))
                        @@ (UpperPicture :> Plain("other image"))) : p \in {Picture, UpperPicture}}
            \cup {Namesakes, Vault(Few @@ (Picture :> Plain("image")) @@ (Decomposed :> Plain("e"))),
                  Vault(Few @@ (Board :> Data("malformed", {}, <<>>, "text", None, "lf"))),
                  Vault(Few @@ (Sub :> Data(None, {}, <<>>, "one", None, "crlf"))),
                  Vault((Small :> Data("long", {"x"}, <<>>, "one", None, "lf"))
                        @@ (Sub :> Data(None, {"x"}, <<>>, "one", None, "lf")) @@ (Decomposed :> Plain("other")))},
       w \in {Others, Vault(Few @@ (Picture :> Plain("image")) @@ (Decomposed :> Plain("e"))),
              Vault((Composed :> Plain("e")) @@ (Board :> Plain("two")) @@ (View :> Plain("view")) @@ (Private :> Plain("mine")))}}

\* Vaults that are edited twice while they are read.
Edited == {[disk |-> <<Vault(Few @@ more), Others>>, edits |-> 2]
           : more \in {<<>>, Picture :> Plain("image")}}

Relinked(title, words) ==
    Data(title, {}, <<Text("markdown", 1, Picture, None, None)>>, words, None, "lf")

MCEdits(s) ==
    IF s \in Archives THEN {[path |-> Small, data |-> Plain("three")]}
    ELSE {[path |-> Sub, data |-> Relinked(None, "other text")],
          [path |-> Sub, data |-> Relinked("long", "other text")],
          [path |-> Small, data |-> Plain("two")]}

\* A note links to a picture of its vault, and a note of the other vault has its name.
NamesakeDisks == {[disk |-> <<Vault(Illustrated), Vault(Alias)>>, edits |-> 0]}

\* Names with a dot, a "#", a "^" or a backquote in them: a note beside the picture it
\* is about, notes known by an alias, and links that a part of a name answers to.
Aliased == Data(None, {"x"}, <<>>, "one", "intro", "lf")
AfterTick(text) == [text EXCEPT !.open = {"tick"}]
Dotted == <<Component("v1", "plain", "2")>>
Named ==
    {(Sub :> Linked(Text("markdown", 1, Picture, None, None))) @@ (Picture :> Plain("image"))
         @@ (Sidecar :> Plain("about"))}
    \cup {(Sub :> Linked(l)) @@ (note :> Aliased)
          : note \in {Small, Sharp, Ticked, Upset},
            l \in {Text("wiki", 0, Bare("x"), None, None),           \* [[x]]
                   Text("wiki", 0, Bare("x"), "intro", "k"),         \* [[x#intro^k]]
                   AfterTick(Text("wiki", 0, Bare("x"), None, None)),
                   Text("markdown", 0, Bare("x"), None, None),       \* [](x)
                   AfterTick(Text("markdown", 0, Bare("x"), None, None)),
                   Text("markdown", 1, Bare("a"), None, "k")}}       \* [](../a^k)
    \cup {(Sub :> Linked(Text("wiki", ups, Dotted, None, None))) @@ versions
          : ups \in {0, 1},                                          \* [[v1.2]], [[../v1.2]]
            versions \in {Version :> Plain("one"), FullVersion :> Plain("twelve"),
                          (Version :> Plain("one")) @@ (FullVersion :> Plain("twelve"))}}
Unusual == {[disk |-> <<Vault(v), Others>>, edits |-> 0] : v \in Named}

MCBeginnings == Static \cup Odd \cup Unusual \cup Edited
=============================================================================
