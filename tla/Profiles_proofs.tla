---------------------------- MODULE Profiles_proofs ----------------------------
(***************************************************************************)
(* What saving and removing provider profiles promise, for any number of   *)
(* editors, profiles and accounts, through any failure and crash: as long  *)
(* as no two edits met, the file and the credential store agree on every   *)
(* profile that was saved with a secret, and a secret that no profile      *)
(* names belongs to an edit that is going to save or delete it.            *)
(***************************************************************************)
EXTENDS Profiles, TLAPS

Active(e) == ~At(e, "idle")

\* A secret that an edit brings belongs to an account.
SecretsHaveAccounts ==
    \A e \in Editors :
        /\ At(e, "storing") => editor[e].secret
        /\ At(e, "storing") \/ At(e, "merging") \/ At(e, "saving") \/ At(e, "replaced") =>
               (editor[e].secret => editor[e].new # NoAccount)

\* No two edits of one profile, or of one account, at a time.
Apart ==
    \A d, e \in Editors :
        d # e /\ Active(d) /\ Active(e) =>
            /\ editor[d].name # editor[e].name
            /\ AccountsOf(editor[d]) \cap AccountsOf(editor[e]) = {}

\* The account of a profile saved with a secret is named by no other profile, and
\* by no edit of another profile.
Sole ==
    \A n \in entrusted :
        /\ ~Shared(file, n, file[n])
        /\ \A e \in Editors : Active(e) /\ editor[e].name # n => file[n] \notin AccountsOf(editor[e])

\* What an edit knows of its own profile: until it replaces the file, the file has
\* what it read first; afterwards, what it wrote.
Knows ==
    \A e \in Editors :
        /\ At(e, "storing") \/ At(e, "merging") \/ At(e, "saving") \/ At(e, "removing") =>
               editor[e].old = file[editor[e].name]
        /\ At(e, "replaced") => file[editor[e].name] = editor[e].new
        /\ At(e, "removed") => file[editor[e].name] = None

\* A secret is in the store before the file names it.
SecretFirst ==
    \A e \in Editors :
        (At(e, "merging") \/ At(e, "saving")) /\ editor[e].secret => editor[e].new \in secrets

\* An edit that has still to save a secret, or to delete it.
Pending(e, a) ==
    \/ (At(e, "merging") \/ At(e, "saving")) /\ editor[e].secret /\ editor[e].new = a
    \/ (At(e, "replaced") \/ At(e, "removed")) /\ editor[e].old = a

Accounted == \A a \in secrets : (\E n \in Names : file[n] = a) \/ \E e \in Editors : Pending(e, a)

Orderly == Apart /\ Knows /\ Sole /\ SecretFirst /\ SecretsAreThere

ProfilesInv ==
    /\ TypeOK /\ SecretsHaveAccounts
    /\ ~clashed => Orderly
    /\ ~clashed /\ ~leaked => Accounted

-----------------------------------------------------------------------------
\* The stages of an edit.
Upserting(stages) ==
    [pc : stages, name : Names, old : Profile \cup {None}, new : Profile, secret : BOOLEAN]
Writing(stages) ==
    [pc : stages, name : Names, old : Profile \cup {None}, new : Profile, secret : BOOLEAN, read : Files]
Removing(stages) == [pc : stages, name : Names, old : Profile, read : Files]

\* What an edit has read and is going to write, at each of its stages.
LEMMA EditShapes ==
  ASSUME TypeOK, NEW e \in Editors
  PROVE  /\ At(e, "storing") \/ At(e, "merging") => editor[e] \in Upserting({"storing", "merging"})
         /\ At(e, "saving") \/ At(e, "replaced") => editor[e] \in Writing({"saving", "replaced"})
         /\ At(e, "removing") \/ At(e, "removed") => editor[e] \in Removing({"removing", "removed"})
<1>1. editor[e] \in Edits
  BY DEF TypeOK
<1> QED
  BY <1>1 DEF Edits, Idle, At, Upserting, Writing, Removing

\* An edit moves on and keeps what it knows.
LEMMA Moves ==
  /\ \A r \in Upserting({"storing", "merging"}) :
        [r EXCEPT !.pc = "merging"] =
            [pc |-> "merging", name |-> r.name, old |-> r.old, new |-> r.new, secret |-> r.secret]
  /\ \A r \in Writing({"saving", "replaced"}) :
        [r EXCEPT !.pc = "replaced"] =
            [pc |-> "replaced", name |-> r.name, old |-> r.old, new |-> r.new, secret |-> r.secret,
             read |-> r.read]
  /\ \A r \in Removing({"removing", "removed"}) :
        [r EXCEPT !.pc = "removed"] =
            [pc |-> "removed", name |-> r.name, old |-> r.old, read |-> r.read]
<1>1. ASSUME NEW r \in Upserting({"storing", "merging"})
      PROVE  [r EXCEPT !.pc = "merging"] =
                 [pc |-> "merging", name |-> r.name, old |-> r.old, new |-> r.new, secret |-> r.secret]
  BY DEF Upserting
<1>2. ASSUME NEW r \in Writing({"saving", "replaced"})
      PROVE  [r EXCEPT !.pc = "replaced"] =
                 [pc |-> "replaced", name |-> r.name, old |-> r.old, new |-> r.new, secret |-> r.secret,
                  read |-> r.read]
  BY DEF Writing
<1>3. ASSUME NEW r \in Removing({"removing", "removed"})
      PROVE  [r EXCEPT !.pc = "removed"] =
                 [pc |-> "removed", name |-> r.name, old |-> r.old, read |-> r.read]
  BY DEF Removing
<1> QED
  BY <1>1, <1>2, <1>3

\* A step of one edit leaves the others as they are.
LEMMA Others ==
  ASSUME TypeOK, NEW e \in Editors, NEW r, Goto(e, r)
  PROVE  /\ editor'[e] = r
         /\ \A d \in Editors : d # e => editor'[d] = editor[d]
         /\ r \in Edits => editor' \in [Editors -> Edits]
BY DEF Goto, TypeOK

-----------------------------------------------------------------------------
(* Every step keeps the invariant. *)

\* An edit that ends is idle again.
LEMMA FinishKeeps ==
  ASSUME TypeOK, NEW e \in Editors, Finish(e)
  PROVE  /\ editor'[e].pc = "idle"
         /\ \A d \in Editors : d # e => editor'[d] = editor[d]
         /\ editor' \in [Editors -> Edits]
<1>1. Idle \in Edits /\ Idle.pc = "idle"
  BY DEF Edits, Idle
<1> QED
  BY <1>1, Others DEF Finish

\* The edit goes on with its profile and its accounts, or ends.
Continues(e) ==
    \/ editor'[e].pc = "idle"
    \/ /\ Active(e) /\ editor'[e].name = editor[e].name
       /\ AccountsOf(editor'[e]) = AccountsOf(editor[e])

LEMMA StayApart ==
  ASSUME Apart, NEW e \in Editors, Continues(e), \A d \in Editors : d # e => editor'[d] = editor[d]
  PROVE  Apart'
<1> SUFFICES ASSUME NEW c \in Editors, NEW d \in Editors, c # d, Active(c)', Active(d)'
             PROVE  /\ editor'[c].name # editor'[d].name
                    /\ AccountsOf(editor'[c]) \cap AccountsOf(editor'[d]) = {}
  BY DEF Apart
<1>1. \A b \in {c, d} : /\ Active(b) /\ editor'[b].name = editor[b].name
                        /\ AccountsOf(editor'[b]) = AccountsOf(editor[b])
  BY DEF Continues, Active, At
<1> QED
  BY <1>1 DEF Apart

\* What an edit of another profile does to an account that is not its own.
LEMMA StaySole ==
  ASSUME Sole, NEW e \in Editors, Continues(e), \A d \in Editors : d # e => editor'[d] = editor[d],
         NEW n \in entrusted, file'[n] = file[n], ~Shared(file', n, file[n])
  PROVE  /\ ~Shared(file', n, file'[n])
         /\ \A d \in Editors : Active(d)' /\ editor'[d].name # n => file'[n] \notin AccountsOf(editor'[d])
<1> SUFFICES ASSUME NEW d \in Editors, Active(d)', editor'[d].name # n
             PROVE  file'[n] \notin AccountsOf(editor'[d])
  OBVIOUS
<1>1. Active(d) /\ editor'[d].name = editor[d].name /\ AccountsOf(editor'[d]) = AccountsOf(editor[d])
  BY DEF Continues, Active, At
<1> QED
  BY <1>1 DEF Sole

LEMMA AllStaySole ==
  ASSUME Sole, NEW e \in Editors, Continues(e), \A d \in Editors : d # e => editor'[d] = editor[d],
         UNCHANGED <<file, entrusted>>
  PROVE  Sole'
<1>1. \A n \in entrusted : file'[n] = file[n] /\ ~Shared(file', n, file[n])
  BY DEF Sole
<1>2. ASSUME NEW n \in entrusted
      PROVE  /\ ~Shared(file', n, file'[n])
             /\ \A d \in Editors : Active(d)' /\ editor'[d].name # n => file'[n] \notin AccountsOf(editor'[d])
  BY <1>1, StaySole
<1> QED
  BY <1>2 DEF Sole

\* An edit that meets no other one knows what the file says of its profile, and
\* whoever shares an account with it is no longer promised a secret.
LEMMA BeginsInOrder ==
  ASSUME ProfilesInv, NEW e \in Editors, editor[e].pc = "idle", NEW r \in Edits,
         r.pc \in {"storing", "merging", "removing"}, r.pc = "merging" => ~r.secret, r.old = file[r.name],
         editor'[e] = r, \A d \in Editors : d # e => editor'[d] = editor[d],
         clashed' = (clashed \/ MeetsEdit(e, r)),
         entrusted' = {m \in entrusted : m = r.name \/ file[m] \notin AccountsOf(r)},
         UNCHANGED <<file, secrets>>, ~clashed'
  PROVE  Orderly'
<1>1. ~clashed /\ Orderly
  BY DEF ProfilesInv
<1>2. \A d \in Editors : d # e /\ Active(d) =>
          editor[d].name # r.name /\ AccountsOf(editor[d]) \cap AccountsOf(r) = {}
  BY DEF MeetsEdit, Active
<1>3. Apart'
  <2> SUFFICES ASSUME NEW c \in Editors, NEW d \in Editors, c # d, Active(c)', Active(d)'
               PROVE  /\ editor'[c].name # editor'[d].name
                      /\ AccountsOf(editor'[c]) \cap AccountsOf(editor'[d]) = {}
    BY DEF Apart
  <2>1. CASE c # e /\ d # e
    BY <1>1, <2>1 DEF Orderly, Apart, Active, At
  <2>2. CASE c = e
    BY <1>2, <2>2 DEF Active, At
  <2>3. CASE d = e
    BY <1>2, <2>3 DEF Active, At
  <2> QED
    BY <2>1, <2>2, <2>3
<1>4. Sole'
  <2> SUFFICES ASSUME NEW n \in entrusted'
               PROVE  /\ ~Shared(file, n, file[n])
                      /\ \A d \in Editors : Active(d)' /\ editor'[d].name # n =>
                             file[n] \notin AccountsOf(editor'[d])
    BY DEF Sole
  <2>1. n \in entrusted /\ (n = r.name \/ file[n] \notin AccountsOf(r))
    OBVIOUS
  <2>2. ASSUME NEW d \in Editors, Active(d)', editor'[d].name # n
        PROVE  file[n] \notin AccountsOf(editor'[d])
    <3>1. CASE d = e
      BY <2>1, <2>2, <3>1
    <3>2. CASE d # e
      BY <1>1, <2>1, <2>2, <3>2 DEF Orderly, Sole, Active, At
    <3> QED
      BY <3>1, <3>2
  <2> QED
    BY <1>1, <2>1, <2>2 DEF Orderly, Sole
<1>5. Knows'
  BY <1>1 DEF Orderly, Knows, At
<1>6. SecretFirst' /\ SecretsAreThere'
  BY <1>1 DEF Orderly, SecretFirst, SecretsAreThere, At
<1> QED
  BY <1>3, <1>4, <1>5, <1>6 DEF Orderly

LEMMA BeginUpsertKeeps ==
  ASSUME ProfilesInv, NEW e \in Editors, NEW n \in Names, NEW profile \in Profile, NEW secret \in BOOLEAN,
         BeginUpsert(e, n, profile, secret)
  PROVE  ProfilesInv'
<1> DEFINE r == [pc |-> IF secret THEN "storing" ELSE "merging", name |-> n, old |-> file[n],
                 new |-> profile, secret |-> secret]
<1>0. TypeOK /\ file[n] \in Profile \cup {None}
  BY DEF ProfilesInv, TypeOK, Files
<1>7. r \in Edits /\ r.pc = (IF secret THEN "storing" ELSE "merging") /\ r.old = file[n] /\ r.name = n
      /\ r.secret = secret /\ r.new = profile
  BY <1>0 DEF Edits
<1>1. /\ editor[e].pc = "idle" /\ Goto(e, r) /\ edits < MaxEdits /\ edits' = edits + 1
      /\ clashed' = (clashed \/ MeetsEdit(e, r)) /\ (secret => profile # NoAccount)
      /\ entrusted' = {m \in entrusted : m = r.name \/ file[m] \notin AccountsOf(r)}
      /\ UNCHANGED <<file, secrets, leaked>>
  BY DEF BeginUpsert, Begin, At
<1> HIDE DEF r
<1>2. /\ editor'[e] = r /\ \A d \in Editors : d # e => editor'[d] = editor[d]
      /\ editor' \in [Editors -> Edits]
  BY <1>0, <1>1, <1>7, Others
<1>3. TypeOK'
  BY <1>0, <1>1, <1>2, ProfilesAssumption DEF TypeOK
<1>6. SecretsHaveAccounts'
  BY <1>1, <1>2, <1>7 DEF ProfilesInv, SecretsHaveAccounts, At
<1>4. ASSUME ~clashed' PROVE Orderly'
  BY <1>1, <1>2, <1>4, <1>7, BeginsInOrder
<1>5. ASSUME ~clashed', ~leaked' PROVE Accounted'
  <2>1. ~clashed /\ ~leaked /\ Accounted
    BY <1>1, <1>5 DEF ProfilesInv
  <2>2. \A d \in Editors : \A a : Pending(d, a) => d # e /\ Pending(d, a)'
    BY <1>1, <1>2 DEF Pending, At
  <2> QED
    BY <1>1, <2>1, <2>2 DEF Accounted
<1> QED
  BY <1>3, <1>4, <1>5, <1>6 DEF ProfilesInv

\* An edit that ends without touching the file or the secrets leaves all in order.
LEMMA IdleKeepsOrder ==
  ASSUME Orderly, ~clashed, NEW e \in Editors, UNCHANGED <<file, secrets, entrusted, clashed>>,
         editor'[e].pc = "idle", \A d \in Editors : d # e => editor'[d] = editor[d]
  PROVE  Orderly'
<1>1. Apart' /\ Sole'
  BY StayApart, AllStaySole DEF Orderly, Continues
<1>2. Knows'
  BY DEF Orderly, Knows, At
<1>3. (SecretFirst /\ SecretsAreThere)'
  BY DEF Orderly, SecretFirst, SecretsAreThere, At
<1> QED
  BY <1>1, <1>2, <1>3 DEF Orderly

\* An upsert that stores a secret has stored it before it goes on.
LEMMA StoreSecretKeeps ==
  ASSUME ProfilesInv, NEW e \in Editors, StoreSecret(e)
  PROVE  ProfilesInv'
<1>0. TypeOK /\ editor[e].pc = "storing" /\ editor[e] \in Upserting({"storing", "merging"})
      /\ UNCHANGED <<file, edits, entrusted, clashed, leaked>>
  BY EditShapes DEF ProfilesInv, StoreSecret, At
<1>1. CASE secrets' = secrets \cup {editor[e].new} /\ Goto(e, [editor[e] EXCEPT !.pc = "merging"])
  <2> DEFINE r == [pc |-> "merging", name |-> editor[e].name, old |-> editor[e].old,
                   new |-> editor[e].new, secret |-> editor[e].secret]
  <2>1. /\ editor'[e] = r /\ \A d \in Editors : d # e => editor'[d] = editor[d]
        /\ editor' \in [Editors -> Edits]
    <3>1. Goto(e, r)
      BY <1>0, <1>1, Moves
    <3>2. r \in Edits
      BY <1>0 DEF Upserting, Edits
    <3> QED
      BY <1>0, <3>1, <3>2, Others
  <2>2. SecretsHaveAccounts' /\ editor[e].secret /\ editor[e].new # NoAccount
    BY <1>0, <2>1 DEF ProfilesInv, SecretsHaveAccounts, At
  <2>3. TypeOK'
    <3>1. editor[e].new \in Accounts
      BY <1>0, <2>2 DEF Upserting, Profile
    <3> QED
      BY <1>0, <1>1, <2>1, <3>1 DEF TypeOK
  <2>4. ASSUME ~clashed' PROVE Orderly'
    <3>1. ~clashed /\ Orderly
      BY <1>0, <2>4 DEF ProfilesInv
    <3>2. Apart' /\ Sole'
      <4>1. Continues(e)
        BY <1>0, <2>1 DEF Continues, AccountsOf, Active, At
      <4> QED
        BY <1>0, <2>1, <3>1, <4>1, StayApart, AllStaySole DEF Orderly
    <3>3. Knows'
      BY <1>0, <2>1, <3>1 DEF Orderly, Knows, At
    <3>4. (SecretFirst /\ SecretsAreThere)'
      BY <1>0, <1>1, <2>1, <3>1 DEF Orderly, SecretFirst, SecretsAreThere, At
    <3> QED
      BY <3>2, <3>3, <3>4 DEF Orderly
  <2>5. ASSUME ~clashed', ~leaked' PROVE Accounted'
    <3>1. Accounted
      BY <1>0, <2>5 DEF ProfilesInv
    <3>2. \A a : a = editor[e].new => Pending(e, a)'
      BY <2>1, <2>2 DEF Pending, At
    <3>3. \A d \in Editors : \A a : Pending(d, a) => Pending(d, a)'
      BY <1>0, <2>1 DEF Pending, At
    <3>4. ASSUME NEW a \in secrets' PROVE (\E n \in Names : file[n] = a) \/ \E d \in Editors : Pending(d, a)'
      <4>1. CASE a \in secrets
        BY <3>1, <3>3, <4>1 DEF Accounted
      <4>2. CASE a = editor[e].new
        BY <3>2, <4>2
      <4> QED
        BY <1>1, <4>1, <4>2
    <3> QED
      BY <1>0, <3>4 DEF Accounted
  <2> QED
    BY <2>2, <2>3, <2>4, <2>5 DEF ProfilesInv
<1>2. CASE UNCHANGED secrets /\ Finish(e)
  <2>1. /\ editor'[e].pc = "idle" /\ \A d \in Editors : d # e => editor'[d] = editor[d]
        /\ editor' \in [Editors -> Edits]
    BY <1>0, <1>2, FinishKeeps
  <2>2. TypeOK' /\ SecretsHaveAccounts'
    BY <1>0, <1>2, <2>1 DEF ProfilesInv, TypeOK, SecretsHaveAccounts, At
  <2>3. ASSUME ~clashed' PROVE Orderly'
    BY <1>0, <1>2, <2>1, <2>3, IdleKeepsOrder DEF ProfilesInv
  <2>4. ASSUME ~clashed', ~leaked' PROVE Accounted'
    <3>1. \A d \in Editors : \A a : Pending(d, a) => Pending(d, a)'
      BY <1>0, <2>1 DEF Pending, At
    <3> QED
      BY <1>0, <1>2, <2>4, <3>1 DEF ProfilesInv, Accounted
  <2> QED
    BY <2>2, <2>3, <2>4 DEF ProfilesInv
<1> QED
  BY <1>1, <1>2 DEF StoreSecret

\* Reading the file again changes nothing but what the edit has read.
LEMMA MergeKeeps ==
  ASSUME ProfilesInv, NEW e \in Editors, Merge(e)
  PROVE  ProfilesInv'
<1> DEFINE r == [pc |-> "saving", name |-> editor[e].name, old |-> editor[e].old,
                 new |-> editor[e].new, secret |-> editor[e].secret, read |-> file]
<1>0. TypeOK /\ editor[e].pc = "merging" /\ editor[e] \in Upserting({"storing", "merging"}) /\ Goto(e, r)
      /\ UNCHANGED <<file, secrets, edits, entrusted, clashed, leaked>>
  BY EditShapes DEF ProfilesInv, Merge, At
<1>1. /\ editor'[e] = r /\ \A d \in Editors : d # e => editor'[d] = editor[d]
      /\ editor' \in [Editors -> Edits]
  <2>1. r \in Edits
    BY <1>0 DEF Upserting, Edits, TypeOK
  <2> QED
    BY <1>0, <2>1, Others
<1>2. TypeOK' /\ SecretsHaveAccounts'
  BY <1>0, <1>1 DEF ProfilesInv, TypeOK, SecretsHaveAccounts, At
<1>3. ASSUME ~clashed' PROVE Orderly'
  <2>1. ~clashed /\ Orderly
    BY <1>0, <1>3 DEF ProfilesInv
  <2>2. Apart' /\ Sole'
    <3>1. Continues(e)
      BY <1>0, <1>1 DEF Continues, AccountsOf, Active, At
    <3> QED
      BY <1>0, <1>1, <2>1, <3>1, StayApart, AllStaySole DEF Orderly
  <2>3. Knows'
    BY <1>0, <1>1, <2>1 DEF Orderly, Knows, At
  <2>4. (SecretFirst /\ SecretsAreThere)'
    BY <1>0, <1>1, <2>1 DEF Orderly, SecretFirst, SecretsAreThere, At
  <2> QED
    BY <2>2, <2>3, <2>4 DEF Orderly
<1>4. ASSUME ~clashed', ~leaked' PROVE Accounted'
  <2>1. \A d \in Editors : \A a : Pending(d, a) => Pending(d, a)'
    BY <1>0, <1>1 DEF Pending, At
  <2> QED
    BY <1>0, <1>4, <2>1 DEF ProfilesInv, Accounted
<1> QED
  BY <1>2, <1>3, <1>4 DEF ProfilesInv

\* Replacing the profile of the edit in what it has read, while nobody else did.
LEMMA ReplaceInOrder ==
  ASSUME TypeOK, NEW e \in Editors, editor[e].read \in Files, NEW n \in Names, NEW p \in Profile \cup {None},
         Replace(e, n, p), ~clashed'
  PROVE  file' = [file EXCEPT ![n] = p] /\ ~clashed
BY DEF Replace, TypeOK

\* What an edit that met no other one cannot touch: what the others have stored,
\* and the secrets of the profiles that keep one.
LEMMA NotItsOwn ==
  ASSUME ProfilesInv, ~clashed, NEW e \in Editors, Active(e)
  PROVE  /\ editor[e].name \in Names
         /\ \A d \in Editors : d # e /\ Active(d) =>
                editor[d].name \in Names /\ editor[d].name # editor[e].name
         /\ \A d \in Editors : d # e /\ (At(d, "merging") \/ At(d, "saving")) /\ editor[d].secret =>
                editor[d].new \in secrets /\ editor[d].new \notin AccountsOf(editor[e])
         /\ \A n \in entrusted :
                /\ n \in Names /\ file[n] \in secrets /\ file[n] \in Accounts
                /\ n # editor[e].name => file[n] \notin AccountsOf(editor[e])
<1>0. TypeOK /\ Orderly
  BY DEF ProfilesInv
<1>1. \A d \in Editors : Active(d) => editor[d].name \in Names
  BY <1>0 DEF TypeOK, Edits, Idle, Active, At
<1>2. \A d \in Editors : d # e /\ Active(d) => editor[d].name # editor[e].name
  BY <1>0 DEF Orderly, Apart
<1>3. ASSUME NEW d \in Editors, d # e, At(d, "merging") \/ At(d, "saving"), editor[d].secret
      PROVE  editor[d].new \in secrets /\ editor[d].new \notin AccountsOf(editor[e])
  <2>1. editor[d].new \in secrets /\ editor[d].new \in Accounts
    BY <1>0, <1>3 DEF Orderly, SecretFirst, TypeOK
  <2>2. editor[d].new \in AccountsOf(editor[d])
    BY <1>3, <2>1 DEF AccountsOf, At
  <2>3. AccountsOf(editor[d]) \cap AccountsOf(editor[e]) = {}
    BY <1>0, <1>3 DEF Orderly, Apart, Active, At
  <2> QED
    BY <2>1, <2>2, <2>3
<1>4. ASSUME NEW n \in entrusted
      PROVE  /\ n \in Names /\ file[n] \in secrets /\ file[n] \in Accounts
             /\ n # editor[e].name => file[n] \notin AccountsOf(editor[e])
  BY <1>0, <1>4 DEF Orderly, SecretsAreThere, Sole, TypeOK
<1> QED
  BY <1>1, <1>2, <1>3, <1>4

\* An edit that writes names its old and its new account.
LEMMA ItsAccounts ==
  ASSUME NEW e \in Editors, At(e, "saving") \/ At(e, "replaced"), NEW a \in Accounts
  PROVE  a \in AccountsOf(editor[e]) <=> a = editor[e].old \/ a = editor[e].new
BY DEF AccountsOf, At

\* A profile that keeps its account alone keeps it when an edit of another profile
\* replaces the file.
LEMMA ReplaceKeepsSole ==
  ASSUME ProfilesInv, ~clashed, NEW e \in Editors, Active(e), Continues(e),
         \A d \in Editors : d # e => editor'[d] = editor[d],
         NEW p, file' = [file EXCEPT ![editor[e].name] = p], p \in AccountsOf(editor[e]) \/ p \notin Accounts,
         NEW n \in entrusted, n # editor[e].name
  PROVE  /\ file'[n] = file[n]
         /\ ~Shared(file', n, file'[n])
         /\ \A d \in Editors : Active(d)' /\ editor'[d].name # n => file'[n] \notin AccountsOf(editor'[d])
<1>0. TypeOK /\ Orderly /\ file \in [Names -> Profile \cup {None}]
  BY DEF ProfilesInv, TypeOK, Files
<1>1. n \in Names /\ file[n] \in Accounts /\ file[n] \notin AccountsOf(editor[e]) /\ editor[e].name \in Names
  BY NotItsOwn
<1>2. file'[n] = file[n] /\ file[n] # p
  BY <1>0, <1>1
<1>3. ~Shared(file', n, file[n])
  BY <1>0, <1>1, <1>2 DEF Orderly, Sole, Shared
<1> QED
  BY <1>0, <1>2, <1>3, StaySole DEF Orderly

\* The file is replaced: every profile but one is as before, and that one is the
\* edit's.
LEMMA SaveKeeps ==
  ASSUME ProfilesInv, NEW e \in Editors, Save(e)
  PROVE  ProfilesInv'
<1> DEFINE me == editor[e]
           r == [pc |-> "replaced", name |-> me.name, old |-> me.old, new |-> me.new,
                 secret |-> me.secret, read |-> me.read]
<1>0. /\ TypeOK /\ me.pc = "saving" /\ me \in Writing({"saving", "replaced"}) /\ Replace(e, me.name, me.new)
      /\ entrusted' = IF \/ me.secret /\ ~Shared(file', me.name, me.new)
                         \/ me.name \in entrusted /\ me.new = me.old
                        THEN entrusted \cup {me.name}
                        ELSE entrusted \ {me.name}
      /\ UNCHANGED <<secrets, edits, leaked>>
  BY EditShapes DEF ProfilesInv, Save, At
<1>1. /\ editor'[e] = r /\ \A d \in Editors : d # e => editor'[d] = editor[d]
      /\ editor' \in [Editors -> Edits]
  <2>1. Goto(e, r)
    BY <1>0, Moves DEF Save
  <2>2. r \in Edits
    BY <1>0 DEF Writing, Edits
  <2> QED
    BY <1>0, <2>1, <2>2, Others
<1>2. me.name \in Names /\ me.new \in Profile /\ me.read \in Files
  BY <1>0 DEF Writing
<1>3. TypeOK'
  <2>1. file' \in Files /\ clashed' \in BOOLEAN
    BY <1>0, <1>2 DEF Replace, Files
  <2> QED
    BY <1>0, <1>1, <1>2, <2>1 DEF TypeOK
<1>4. SecretsHaveAccounts'
  BY <1>0, <1>1 DEF ProfilesInv, SecretsHaveAccounts, At
<1>5. ASSUME ~clashed'
      PROVE  /\ ~clashed /\ Orderly /\ file' = [file EXCEPT ![me.name] = me.new]
             /\ file \in [Names -> Profile \cup {None}] /\ Active(e) /\ Continues(e)
             /\ me.old = file[me.name]
  <2>1. ~clashed /\ Orderly /\ file' = [file EXCEPT ![me.name] = me.new] /\ file \in [Names -> Profile \cup {None}]
    BY <1>0, <1>2, <1>5, ReplaceInOrder DEF ProfilesInv, TypeOK, Files
  <2>2. Active(e) /\ Continues(e)
    BY <1>0, <1>1 DEF Continues, AccountsOf, Active, At
  <2> QED
    BY <1>0, <2>1, <2>2 DEF Orderly, Knows, At
<1>6. ASSUME ~clashed' PROVE Orderly'
  <2>1. Apart'
    BY <1>1, <1>5, <1>6, StayApart DEF Orderly
  <2>2. \A d \in Editors : d # e /\ Active(d) => editor[d].name \in Names /\ editor[d].name # me.name
    BY <1>5, <1>6, NotItsOwn
  <2>3. Knows'
    BY <1>0, <1>1, <1>2, <1>5, <1>6, <2>2 DEF Orderly, Knows, Active, At
  <2>4. SecretFirst'
    BY <1>0, <1>1, <1>5, <1>6 DEF Orderly, SecretFirst, At
  <2>5. ASSUME me.name \in entrusted' PROVE me.new \in secrets /\ me.new \in Accounts
    <3>1. CASE me.secret
      BY <1>0, <1>5, <1>6, <3>1 DEF Orderly, SecretFirst, At, TypeOK
    <3>2. CASE me.name \in entrusted /\ me.new = me.old
      BY <1>5, <1>6, <3>2, NotItsOwn
    <3> QED
      BY <1>0, <2>5, <3>1, <3>2
  <2>6. ASSUME me.name \in entrusted'
        PROVE  /\ ~Shared(file', me.name, file'[me.name])
               /\ \A d \in Editors : Active(d)' /\ editor'[d].name # me.name =>
                      file'[me.name] \notin AccountsOf(editor'[d])
    <3>1. file'[me.name] = me.new /\ me.new \in Accounts
      BY <1>2, <1>5, <1>6, <2>5, <2>6
    <3>2. ~Shared(file', me.name, me.new)
      <4>1. CASE me.name \in entrusted /\ me.new = me.old
        <5>1. file' = file
          BY <1>2, <1>5, <1>6, <4>1
        <5> QED
          BY <1>5, <1>6, <4>1, <5>1 DEF Orderly, Sole
      <4> QED
        BY <1>0, <2>6, <4>1
    <3>3. ASSUME NEW d \in Editors, Active(d)', editor'[d].name # me.name
          PROVE  me.new \notin AccountsOf(editor'[d])
      <4>1. d # e /\ editor'[d] = editor[d] /\ Active(d)
        BY <1>1, <3>3 DEF Active, At
      <4>2. me.new \in AccountsOf(me)
        BY <1>0, <3>1, ItsAccounts DEF At
      <4> QED
        BY <1>5, <1>6, <4>1, <4>2 DEF Orderly, Apart
    <3> QED
      BY <3>1, <3>2, <3>3
  <2>7. ASSUME NEW n \in entrusted', n # me.name
        PROVE  /\ file'[n] = file[n] /\ n \in entrusted
               /\ ~Shared(file', n, file'[n])
               /\ \A d \in Editors : Active(d)' /\ editor'[d].name # n => file'[n] \notin AccountsOf(editor'[d])
    <3>1. n \in entrusted
      BY <1>0, <2>7
    <3>2. me.new \in AccountsOf(me) \/ me.new \notin Accounts
      BY <1>0, ItsAccounts DEF At
    <3> QED
      BY <1>1, <1>5, <1>6, <2>7, <3>1, <3>2, ReplaceKeepsSole
  <2>8. Sole'
    BY <2>6, <2>7 DEF Sole
  <2>9. SecretsAreThere'
    <3> SUFFICES ASSUME NEW n \in entrusted' PROVE file'[n] \in secrets'
      BY DEF SecretsAreThere
    <3>1. CASE n = me.name
      BY <1>0, <1>2, <1>5, <1>6, <2>5, <3>1
    <3>2. CASE n # me.name
      BY <1>0, <1>5, <1>6, <2>7, <3>2 DEF Orderly, SecretsAreThere
    <3> QED
      BY <3>1, <3>2
  <2> QED
    BY <2>1, <2>3, <2>4, <2>8, <2>9 DEF Orderly
<1>7. ASSUME ~clashed', ~leaked' PROVE Accounted'
  <2>1. Accounted
    BY <1>0, <1>5, <1>7 DEF ProfilesInv
  <2>3. ASSUME NEW a \in secrets, NEW n \in Names, file[n] = a
        PROVE  (\E m \in Names : file'[m] = a) \/ Pending(e, a)'
    <3>1. CASE n = me.name
      BY <1>1, <1>5, <1>7, <2>3, <3>1 DEF Pending, At
    <3>2. CASE n # me.name
      BY <1>2, <1>5, <1>7, <2>3, <3>2
    <3> QED
      BY <3>1, <3>2
  <2>4. ASSUME NEW a \in secrets, Pending(e, a) PROVE \E m \in Names : file'[m] = a
    <3>1. me.new = a
      BY <1>0, <2>4 DEF Pending, At
    <3> QED
      BY <1>2, <1>5, <1>7, <3>1
  <2>5. \A d \in Editors : \A a : d # e /\ Pending(d, a) => Pending(d, a)'
    BY <1>1 DEF Pending, At
  <2> QED
    BY <1>0, <2>1, <2>3, <2>4, <2>5 DEF Accounted
<1> QED
  BY <1>3, <1>4, <1>6, <1>7 DEF ProfilesInv

\* A failed save, before or after the file was replaced.
LEMMA SaveFailsKeeps ==
  ASSUME ProfilesInv, NEW e \in Editors, SaveFails(e)
  PROVE  ProfilesInv'
<1> DEFINE me == editor[e]
<1>0. /\ TypeOK /\ me.pc = "saving" /\ me \in Writing({"saving", "replaced"}) /\ Finish(e) /\ UNCHANGED edits
      /\ \/ UNCHANGED <<file, entrusted, clashed>>
         \/ Replace(e, me.name, me.new) /\ entrusted' = entrusted \ {me.name}
      /\ IF me.old \in {None, NoAccount}
         THEN \/ secrets' = secrets \ {me.new} /\ UNCHANGED leaked
              \/ me.new # NoAccount /\ UNCHANGED secrets /\ leaked' = TRUE
         ELSE /\ UNCHANGED secrets
              /\ leaked' = (leaked \/ (me.new # me.old /\ (me.secret \/ file' # file)))
  BY EditShapes DEF ProfilesInv, SaveFails, At
<1>1. /\ editor'[e].pc = "idle" /\ \A d \in Editors : d # e => editor'[d] = editor[d]
      /\ editor' \in [Editors -> Edits]
  BY <1>0, FinishKeeps
<1>2. me.name \in Names /\ me.new \in Profile /\ me.read \in Files
  BY <1>0 DEF Writing
<1>3. TypeOK'
  <2>1. file' \in Files /\ clashed' \in BOOLEAN /\ entrusted' \subseteq Names
    BY <1>0, <1>2 DEF Replace, Files, TypeOK
  <2>2. secrets' \subseteq Accounts /\ leaked' \in BOOLEAN
    BY <1>0 DEF TypeOK
  <2> QED
    BY <1>0, <1>1, <2>1, <2>2 DEF TypeOK
<1>4. SecretsHaveAccounts'
  BY <1>0, <1>1 DEF ProfilesInv, SecretsHaveAccounts, At
<1>5. ASSUME ~clashed'
      PROVE  /\ ~clashed /\ Orderly /\ file \in [Names -> Profile \cup {None}]
             /\ \/ UNCHANGED <<file, entrusted>>
                \/ file' = [file EXCEPT ![me.name] = me.new] /\ entrusted' = entrusted \ {me.name}
             /\ me.old = file[me.name] /\ Active(e) /\ Continues(e)
             /\ \A n \in Names : file'[n] = file[n] \/ (n = me.name /\ file'[n] = me.new)
  <2>1. ~clashed
    BY <1>0, <1>5 DEF Replace
  <2>2. Orderly /\ file \in [Names -> Profile \cup {None}]
    BY <1>0, <2>1 DEF ProfilesInv, TypeOK, Files
  <2>3. \/ UNCHANGED <<file, entrusted>>
        \/ file' = [file EXCEPT ![me.name] = me.new] /\ entrusted' = entrusted \ {me.name}
    BY <1>0, <1>2, <1>5, ReplaceInOrder
  <2>4. me.old = file[me.name] /\ Active(e) /\ Continues(e)
    BY <1>0, <1>1, <2>2 DEF Orderly, Knows, Continues, Active, At
  <2> QED
    BY <1>2, <2>1, <2>2, <2>3, <2>4
<1>6. ASSUME ~clashed' PROVE Orderly'
  <2>1. Apart'
    BY <1>1, <1>5, <1>6, StayApart DEF Orderly
  <2>2. \A d \in Editors : d # e /\ Active(d) => editor[d].name \in Names /\ editor[d].name # me.name
    BY <1>5, <1>6, NotItsOwn
  <2>3. Knows'
    BY <1>1, <1>5, <1>6, <2>2 DEF Orderly, Knows, Active, At
  <2>4. \A a : a \in secrets /\ (a # me.new \/ me.old \notin {None, NoAccount}) => a \in secrets'
    BY <1>0
  <2>5. \A a \in Accounts : a \notin AccountsOf(me) => a # me.new
    BY <1>0, ItsAccounts DEF At
  <2>6. SecretFirst'
    <3> SUFFICES ASSUME NEW d \in Editors, (At(d, "merging") \/ At(d, "saving"))', editor'[d].secret
                 PROVE  editor'[d].new \in secrets'
      BY DEF SecretFirst
    <3>1. d # e /\ editor'[d] = editor[d] /\ (At(d, "merging") \/ At(d, "saving"))
      BY <1>1 DEF At
    <3>2. editor[d].new \in secrets /\ editor[d].new \notin AccountsOf(me) /\ secrets \subseteq Accounts
      BY <1>0, <1>5, <1>6, <3>1, NotItsOwn DEF TypeOK
    <3> QED
      BY <2>4, <2>5, <3>1, <3>2
  <2>7. ASSUME NEW n \in entrusted'
        PROVE  /\ file'[n] \in secrets'
               /\ ~Shared(file', n, file'[n])
               /\ \A d \in Editors : Active(d)' /\ editor'[d].name # n => file'[n] \notin AccountsOf(editor'[d])
    <3>1. /\ n \in entrusted /\ n \in Names /\ file[n] \in secrets /\ file[n] \in Accounts
          /\ n # me.name => file[n] \notin AccountsOf(me)
      BY <1>5, <1>6, <2>7, NotItsOwn
    <3>2. CASE UNCHANGED file
      <4>1. file[n] # me.new \/ me.old \notin {None, NoAccount}
        BY <1>5, <1>6, <2>5, <3>1, ProfilesAssumption
      <4>2. ~Shared(file', n, file[n])
        BY <1>5, <1>6, <3>1, <3>2 DEF Orderly, Sole
      <4> QED
        BY <1>1, <1>5, <1>6, <2>4, <3>1, <3>2, <4>1, <4>2, StaySole DEF Orderly
    <3>3. CASE file' = [file EXCEPT ![me.name] = me.new] /\ n # me.name
      <4>1. me.new \in AccountsOf(me) \/ me.new \notin Accounts
        BY <1>0, ItsAccounts DEF At
      <4>2. /\ file'[n] = file[n] /\ ~Shared(file', n, file'[n])
            /\ \A d \in Editors : Active(d)' /\ editor'[d].name # n => file'[n] \notin AccountsOf(editor'[d])
        BY <1>1, <1>5, <1>6, <3>1, <3>3, <4>1, ReplaceKeepsSole
      <4> QED
        BY <2>4, <2>5, <3>1, <3>3, <4>2
    <3> QED
      BY <1>5, <1>6, <2>7, <3>2, <3>3
  <2> QED
    BY <2>1, <2>3, <2>6, <2>7 DEF Orderly, Sole, SecretsAreThere
<1>7. ASSUME ~clashed', ~leaked' PROVE Accounted'
  <2>1. ~leaked /\ Accounted
    BY <1>0, <1>5, <1>7 DEF ProfilesInv, TypeOK
  <2>2. \/ me.old \in {None, NoAccount} /\ secrets' = secrets \ {me.new}
        \/ secrets' = secrets /\ me.new = me.old
        \/ secrets' = secrets /\ ~me.secret /\ file' = file /\ me.old \notin {None, NoAccount}
    BY <1>0, <1>7
  <2>3. ASSUME NEW a \in secrets', NEW n \in Names, file[n] = a PROVE \E m \in Names : file'[m] = a
    <3>1. a \in Accounts
      BY <1>3 DEF TypeOK
    <3> QED
      BY <1>2, <1>5, <1>7, <2>2, <2>3, <3>1, ProfilesAssumption
  <2>4. ASSUME NEW a \in secrets', Pending(e, a) PROVE \E m \in Names : file'[m] = a
    <3>1. me.new = a /\ me.secret
      BY <1>0, <2>4 DEF Pending, At
    <3> QED
      BY <1>2, <1>5, <1>7, <2>2, <3>1
  <2>5. \A d \in Editors : \A a : d # e /\ Pending(d, a) => Pending(d, a)'
    BY <1>1 DEF Pending, At
  <2>6. secrets' \subseteq secrets
    BY <2>2
  <2> QED
    BY <2>1, <2>3, <2>4, <2>5, <2>6 DEF Accounted
<1> QED
  BY <1>3, <1>4, <1>6, <1>7 DEF ProfilesInv

\* The account of the replaced profile is deleted unless the new one names it too.
LEMMA DeleteReplacedKeeps ==
  ASSUME ProfilesInv, NEW e \in Editors, DeleteReplaced(e)
  PROVE  ProfilesInv'
<1> DEFINE me == editor[e]
<1>0. /\ TypeOK /\ me.pc = "replaced" /\ me \in Writing({"saving", "replaced"}) /\ Finish(e)
      /\ UNCHANGED <<file, edits, entrusted, clashed>>
      /\ \/ me.old \notin {None, NoAccount, me.new} /\ secrets' = secrets \ {me.old} /\ UNCHANGED leaked
         \/ UNCHANGED secrets /\ leaked'
         \/ me.old \in {None, NoAccount, me.new} /\ UNCHANGED <<secrets, leaked>>
  BY EditShapes DEF ProfilesInv, DeleteReplaced, At
<1>1. /\ editor'[e].pc = "idle" /\ \A d \in Editors : d # e => editor'[d] = editor[d]
      /\ editor' \in [Editors -> Edits]
  BY <1>0, FinishKeeps
<1>2. TypeOK' /\ SecretsHaveAccounts'
  <2>1. secrets' \subseteq secrets /\ leaked' \in BOOLEAN
    BY <1>0 DEF DeleteReplaced, TypeOK
  <2> QED
    BY <1>0, <1>1, <2>1 DEF ProfilesInv, TypeOK, SecretsHaveAccounts, At
<1>3. ASSUME ~clashed' PROVE Orderly'
  <2>1. ~clashed /\ Orderly /\ Active(e) /\ Continues(e)
    BY <1>0, <1>1, <1>3 DEF ProfilesInv, Continues, Active, At
  <2>2. Apart' /\ Sole'
    BY <1>0, <1>1, <2>1, StayApart, AllStaySole DEF Orderly
  <2>3. Knows'
    BY <1>0, <1>1, <2>1 DEF Orderly, Knows, At
  <2>4. /\ file[me.name] = me.new /\ secrets \subseteq Accounts
        /\ \A a : a \in secrets /\ (a # me.old \/ me.old = me.new) => a \in secrets'
    BY <1>0, <2>1 DEF Orderly, Knows, At, TypeOK
  <2>5. \A a \in Accounts : a \notin AccountsOf(me) => a # me.old
    BY <1>0, ItsAccounts DEF At
  <2>6. SecretFirst'
    <3> SUFFICES ASSUME NEW d \in Editors, (At(d, "merging") \/ At(d, "saving"))', editor'[d].secret
                 PROVE  editor'[d].new \in secrets'
      BY DEF SecretFirst
    <3>1. d # e /\ editor'[d] = editor[d] /\ (At(d, "merging") \/ At(d, "saving"))
      BY <1>1 DEF At
    <3>2. editor[d].new \in secrets /\ editor[d].new \notin AccountsOf(me)
      BY <2>1, <3>1, NotItsOwn
    <3> QED
      BY <2>4, <2>5, <3>1, <3>2
  <2>7. SecretsAreThere'
    <3> SUFFICES ASSUME NEW n \in entrusted PROVE file[n] \in secrets'
      BY <1>0 DEF SecretsAreThere
    <3>1. /\ file[n] \in secrets /\ file[n] \in Accounts
          /\ n # me.name => file[n] \notin AccountsOf(me)
      BY <2>1, NotItsOwn
    <3>2. file[n] # me.old \/ me.old = me.new
      BY <2>4, <2>5, <3>1
    <3> QED
      BY <2>4, <3>1, <3>2
  <2> QED
    BY <2>2, <2>3, <2>6, <2>7 DEF Orderly
<1>4. ASSUME ~clashed', ~leaked' PROVE Accounted'
  <2>1. ~clashed /\ ~leaked /\ Accounted /\ Orderly
    BY <1>0, <1>4 DEF ProfilesInv
  <2>2. \/ me.old \notin {None, NoAccount, me.new} /\ secrets' = secrets \ {me.old}
        \/ me.old \in {None, NoAccount, me.new} /\ secrets' = secrets
    BY <1>0, <1>4
  <2>3. ASSUME NEW a \in secrets', Pending(e, a) PROVE \E n \in Names : file[n] = a
    <3>1. me.old = a /\ a \in Accounts
      BY <1>0, <2>2, <2>3 DEF Pending, At, TypeOK
    <3>2. me.old = me.new
      BY <2>2, <3>1, ProfilesAssumption
    <3>3. file[me.name] = me.new /\ me.name \in Names
      BY <1>0, <2>1 DEF Orderly, Knows, At, Writing
    <3> QED
      BY <3>1, <3>2, <3>3
  <2>4. \A d \in Editors : \A a : d # e /\ Pending(d, a) => Pending(d, a)'
    BY <1>1 DEF Pending, At
  <2>5. secrets' \subseteq secrets
    BY <2>2
  <2> QED
    BY <1>0, <2>1, <2>3, <2>4, <2>5 DEF Accounted
<1> QED
  BY <1>2, <1>3, <1>4 DEF ProfilesInv

\* The same of a removal.
LEMMA BeginRemoveKeeps ==
  ASSUME ProfilesInv, NEW e \in Editors, NEW n \in Names, BeginRemove(e, n)
  PROVE  ProfilesInv'
<1> DEFINE r == [pc |-> "removing", name |-> n, old |-> file[n], read |-> file]
<1>0. TypeOK /\ file \in Files /\ file[n] \in Profile
  BY DEF ProfilesInv, TypeOK, Files, BeginRemove
<1>5. r \in Edits /\ r.pc = "removing" /\ r.name = n /\ r.old = file[n]
  BY <1>0 DEF Edits
<1>6. /\ editor[e].pc = "idle" /\ Goto(e, r) /\ edits < MaxEdits /\ edits' = edits + 1
      /\ clashed' = (clashed \/ MeetsEdit(e, r))
      /\ entrusted' = {m \in entrusted : m = r.name \/ file[m] \notin AccountsOf(r)}
      /\ UNCHANGED <<file, secrets, leaked>>
  BY DEF BeginRemove, Begin, At
<1> HIDE DEF r
<1>1. /\ editor'[e] = r /\ \A d \in Editors : d # e => editor'[d] = editor[d]
      /\ editor' \in [Editors -> Edits]
  BY <1>0, <1>5, <1>6, Others
<1>2. TypeOK' /\ SecretsHaveAccounts'
  BY <1>0, <1>1, <1>5, <1>6, ProfilesAssumption DEF ProfilesInv, TypeOK, SecretsHaveAccounts, At
<1>3. ASSUME ~clashed' PROVE Orderly'
  BY <1>1, <1>3, <1>5, <1>6, BeginsInOrder
<1>4. ASSUME ~clashed', ~leaked' PROVE Accounted'
  <2>1. ~clashed /\ ~leaked /\ Accounted
    BY <1>4, <1>6 DEF ProfilesInv
  <2>2. \A d \in Editors : \A a : Pending(d, a) => d # e /\ Pending(d, a)'
    BY <1>1, <1>6 DEF Pending, At
  <2> QED
    BY <1>6, <2>1, <2>2 DEF Accounted
<1> QED
  BY <1>2, <1>3, <1>4 DEF ProfilesInv

\* The profile leaves the file first; its account then waits to be deleted, or
\* stays behind if the process fails after the file was replaced.
LEMMA SaveRemovalKeeps ==
  ASSUME ProfilesInv, NEW e \in Editors, SaveRemoval(e)
  PROVE  ProfilesInv'
<1> DEFINE me == editor[e]
           r == [pc |-> "removed", name |-> me.name, old |-> me.old, read |-> me.read]
           Removed == Replace(e, me.name, None) /\ entrusted' = entrusted \ {me.name}
<1>0. /\ TypeOK /\ me.pc = "removing" /\ me \in Removing({"removing", "removed"})
      /\ \/ Removed /\ Goto(e, r) /\ UNCHANGED leaked
         \/ Removed /\ Finish(e) /\ leaked' = TRUE
         \/ Finish(e) /\ UNCHANGED <<file, entrusted, clashed, leaked>>
      /\ UNCHANGED <<secrets, edits>>
  BY EditShapes, Moves DEF ProfilesInv, SaveRemoval, At
<1>1. me.name \in Names /\ me.old \in Profile /\ me.read \in Files
  BY <1>0 DEF Removing
<1>2. /\ \/ editor'[e] = r \/ editor'[e].pc = "idle"
      /\ \A d \in Editors : d # e => editor'[d] = editor[d]
      /\ editor' \in [Editors -> Edits]
  <2>1. r \in Edits
    BY <1>1 DEF Edits
  <2>2. Goto(e, r) \/ Finish(e)
    BY <1>0
  <2> QED
    BY <1>0, <2>1, <2>2, Others, FinishKeeps
<1>3. TypeOK'
  <2>1. file' \in Files /\ clashed' \in BOOLEAN /\ entrusted' \subseteq Names
    BY <1>0, <1>1 DEF Replace, Files, TypeOK
  <2> QED
    BY <1>0, <1>2, <2>1 DEF TypeOK
<1>4. SecretsHaveAccounts'
  BY <1>0, <1>2 DEF ProfilesInv, SecretsHaveAccounts, At
<1>5. ASSUME ~clashed'
      PROVE  /\ ~clashed /\ Orderly /\ file \in [Names -> Profile \cup {None}]
             /\ \/ UNCHANGED <<file, entrusted>> /\ editor'[e].pc = "idle"
                \/ file' = [file EXCEPT ![me.name] = None] /\ entrusted' = entrusted \ {me.name}
             /\ me.old = file[me.name] /\ Active(e) /\ Continues(e)
  <2>1. ~clashed
    BY <1>0, <1>5 DEF Replace
  <2>2. Orderly /\ file \in [Names -> Profile \cup {None}]
    BY <1>0, <2>1 DEF ProfilesInv, TypeOK, Files
  <2>3. \/ UNCHANGED <<file, entrusted>> /\ editor'[e].pc = "idle"
        \/ file' = [file EXCEPT ![me.name] = None] /\ entrusted' = entrusted \ {me.name}
    BY <1>0, <1>1, <1>5, ReplaceInOrder, FinishKeeps
  <2>4. me.old = file[me.name]
    BY <1>0, <2>2 DEF Orderly, Knows, At
  <2>5. Active(e) /\ Continues(e)
    BY <1>0, <1>2 DEF Continues, AccountsOf, Active, At
  <2> QED
    BY <2>1, <2>2, <2>3, <2>4, <2>5
<1>6. ASSUME ~clashed' PROVE Orderly'
  <2>1. Apart'
    BY <1>2, <1>5, <1>6, StayApart DEF Orderly
  <2>2. \A d \in Editors : d # e /\ Active(d) => editor[d].name \in Names /\ editor[d].name # me.name
    BY <1>5, <1>6, NotItsOwn
  <2>3. Knows'
    BY <1>1, <1>2, <1>5, <1>6, <2>2 DEF Orderly, Knows, Active, At
  <2>4. SecretFirst'
    BY <1>0, <1>2, <1>5, <1>6 DEF Orderly, SecretFirst, At
  <2>5. Sole' /\ SecretsAreThere'
    <3>1. CASE UNCHANGED <<file, entrusted>>
      BY <1>0, <1>2, <1>5, <1>6, <3>1, AllStaySole DEF Orderly, SecretsAreThere
    <3>2. CASE file' = [file EXCEPT ![me.name] = None] /\ entrusted' = entrusted \ {me.name}
      <4>1. ASSUME NEW n \in entrusted'
            PROVE  /\ file'[n] = file[n] /\ n \in entrusted
                   /\ ~Shared(file', n, file'[n])
                   /\ \A d \in Editors :
                          Active(d)' /\ editor'[d].name # n => file'[n] \notin AccountsOf(editor'[d])
        BY <1>2, <1>5, <1>6, <3>2, <4>1, ReplaceKeepsSole, ProfilesAssumption
      <4> QED
        BY <1>0, <1>5, <1>6, <4>1 DEF Orderly, Sole, SecretsAreThere
    <3> QED
      BY <1>5, <1>6, <3>1, <3>2
  <2> QED
    BY <2>1, <2>3, <2>4, <2>5 DEF Orderly
<1>7. ASSUME ~clashed', ~leaked' PROVE Accounted'
  <2>1. ~leaked /\ Accounted
    BY <1>0, <1>5, <1>7 DEF ProfilesInv, TypeOK
  <2>2. \/ file' = file
        \/ file' = [file EXCEPT ![me.name] = None] /\ editor'[e] = r
    BY <1>0, <1>1, <1>2, <1>7, ReplaceInOrder, Others
  <2>3. \A d \in Editors : \A a : Pending(d, a) => Pending(d, a)'
    BY <1>0, <1>2 DEF Pending, At
  <2>4. ASSUME NEW a \in secrets, NEW n \in Names, file[n] = a
        PROVE  (\E m \in Names : file'[m] = a) \/ Pending(e, a)'
    <3>1. CASE n = me.name
      BY <1>5, <1>7, <2>2, <2>4, <3>1 DEF Pending, At
    <3>2. CASE n # me.name
      BY <1>1, <1>5, <1>7, <2>4, <3>2
    <3> QED
      BY <3>1, <3>2
  <2> QED
    BY <1>0, <2>1, <2>3, <2>4 DEF Accounted
<1> QED
  BY <1>3, <1>4, <1>6, <1>7 DEF ProfilesInv

\* The account of the removed profile is deleted, or stays behind.
LEMMA DeleteRemovedKeeps ==
  ASSUME ProfilesInv, NEW e \in Editors, DeleteRemoved(e)
  PROVE  ProfilesInv'
<1> DEFINE me == editor[e]
<1>0. /\ TypeOK /\ me.pc = "removed" /\ me \in Removing({"removing", "removed"}) /\ Finish(e)
      /\ UNCHANGED <<file, edits, entrusted, clashed>>
      /\ \/ secrets' = secrets \ {me.old} /\ UNCHANGED leaked
         \/ UNCHANGED secrets /\ leaked' = TRUE
  BY EditShapes DEF ProfilesInv, DeleteRemoved, At
<1>1. /\ editor'[e].pc = "idle" /\ \A d \in Editors : d # e => editor'[d] = editor[d]
      /\ editor' \in [Editors -> Edits]
  BY <1>0, FinishKeeps
<1>2. TypeOK' /\ SecretsHaveAccounts'
  BY <1>0, <1>1 DEF ProfilesInv, TypeOK, SecretsHaveAccounts, At
<1>3. ASSUME ~clashed' PROVE Orderly'
  <2>1. ~clashed /\ Orderly /\ Active(e) /\ Continues(e)
    BY <1>0, <1>1, <1>3 DEF ProfilesInv, Continues, Active, At
  <2>2. Apart' /\ Sole'
    BY <1>0, <1>1, <2>1, StayApart, AllStaySole DEF Orderly
  <2>3. Knows'
    BY <1>0, <1>1, <2>1 DEF Orderly, Knows, At
  <2>4. /\ file[me.name] = None /\ secrets \subseteq Accounts
        /\ \A a : a \in secrets /\ a # me.old => a \in secrets'
    BY <1>0, <2>1 DEF Orderly, Knows, At, TypeOK
  <2>5. \A a \in Accounts : a \notin AccountsOf(me) => a # me.old
    BY <1>0 DEF AccountsOf
  <2>6. SecretFirst'
    <3> SUFFICES ASSUME NEW d \in Editors, (At(d, "merging") \/ At(d, "saving"))', editor'[d].secret
                 PROVE  editor'[d].new \in secrets'
      BY DEF SecretFirst
    <3>1. d # e /\ editor'[d] = editor[d] /\ (At(d, "merging") \/ At(d, "saving"))
      BY <1>1 DEF At
    <3>2. editor[d].new \in secrets /\ editor[d].new \notin AccountsOf(me)
      BY <2>1, <3>1, NotItsOwn
    <3> QED
      BY <2>4, <2>5, <3>1, <3>2
  <2>7. SecretsAreThere'
    <3> SUFFICES ASSUME NEW n \in entrusted PROVE file[n] \in secrets'
      BY <1>0 DEF SecretsAreThere
    <3>1. /\ file[n] \in secrets /\ file[n] \in Accounts
          /\ n # me.name => file[n] \notin AccountsOf(me)
      BY <2>1, NotItsOwn
    <3>2. file[n] # me.old
      BY <2>4, <2>5, <3>1, ProfilesAssumption
    <3> QED
      BY <2>4, <3>1, <3>2
  <2> QED
    BY <2>2, <2>3, <2>6, <2>7 DEF Orderly
<1>4. ASSUME ~clashed', ~leaked' PROVE Accounted'
  <2>1. Accounted /\ secrets' = secrets \ {me.old}
    BY <1>0, <1>4 DEF ProfilesInv
  <2>2. \A a : Pending(e, a) => a = me.old
    BY <1>0 DEF Pending, At
  <2>3. \A d \in Editors : \A a : d # e /\ Pending(d, a) => Pending(d, a)'
    BY <1>1 DEF Pending, At
  <2> QED
    BY <1>0, <2>1, <2>2, <2>3 DEF Accounted
<1> QED
  BY <1>2, <1>3, <1>4 DEF ProfilesInv

\* A process that dies leaves the file and the secrets as they are.
LEMMA CrashKeeps ==
  ASSUME ProfilesInv, NEW e \in Editors, Crash(e)
  PROVE  ProfilesInv'
<1>0. TypeOK /\ Finish(e) /\ leaked' = TRUE /\ UNCHANGED <<file, secrets, edits, entrusted, clashed>>
  BY DEF ProfilesInv, Crash
<1>1. /\ editor'[e].pc = "idle" /\ \A d \in Editors : d # e => editor'[d] = editor[d]
      /\ editor' \in [Editors -> Edits]
  BY <1>0, FinishKeeps
<1>2. TypeOK' /\ SecretsHaveAccounts'
  BY <1>0, <1>1 DEF ProfilesInv, TypeOK, SecretsHaveAccounts, At
<1>3. ASSUME ~clashed' PROVE Orderly'
  BY <1>0, <1>1, <1>3, IdleKeepsOrder DEF ProfilesInv
<1> QED
  BY <1>0, <1>2, <1>3 DEF ProfilesInv

-----------------------------------------------------------------------------
\* Edits that do not meet keep the file and the credential store in order
\* (upsert_profile, remove_profile).
LEMMA ProfilesInductive == Spec => []ProfilesInv
<1>1. Init => ProfilesInv
  <2> SUFFICES ASSUME Init PROVE ProfilesInv
    OBVIOUS
  <2>1. \A e \in Editors : editor[e].pc = "idle"
    BY DEF Init, Idle
  <2>2. TypeOK
    <3>1. Idle \in Edits /\ 0 \in 0..MaxEdits
      BY ProfilesAssumption DEF Edits
    <3> QED
      BY <3>1 DEF Init, TypeOK, Files
  <2>3. SecretsHaveAccounts
    BY <2>1 DEF SecretsHaveAccounts, At
  <2>4. Orderly
    BY <2>1 DEF Init, Orderly, Apart, Knows, Sole, SecretFirst, SecretsAreThere, Active, At
  <2>5. Accounted
    BY DEF Init, Accounted
  <2> QED
    BY <2>2, <2>3, <2>4, <2>5 DEF ProfilesInv
<1>2. ProfilesInv /\ [Next]_vars => ProfilesInv'
  <2> SUFFICES ASSUME ProfilesInv, [Next]_vars PROVE ProfilesInv'
    OBVIOUS
  <2>1. CASE UNCHANGED vars
    BY <2>1 DEF vars, ProfilesInv, TypeOK, SecretsHaveAccounts, Orderly,
       Apart, Knows, Sole, SecretFirst, SecretsAreThere, Accounted, Pending, Active, At
  <2>2. CASE Next
    <3>1. PICK e \in Editors : Upsert(e) \/ Remove(e) \/ Crash(e)
      BY <2>2 DEF Next
    <3>2. CASE \E n \in Names, profile \in Profile, secret \in BOOLEAN : BeginUpsert(e, n, profile, secret)
      BY <3>2, BeginUpsertKeeps
    <3> QED
      BY <3>1, <3>2, StoreSecretKeeps, MergeKeeps, SaveKeeps, SaveFailsKeeps, DeleteReplacedKeeps,
         BeginRemoveKeeps, SaveRemovalKeeps, DeleteRemovedKeeps, CrashKeeps DEF Upsert, Remove
  <2> QED
    BY <2>1, <2>2
<1> QED
  BY <1>1, <1>2, PTL DEF Spec

\* The cells of the model keep their types: an edit that brings a secret brings
\* the account it belongs to (upsert_profile).
THEOREM TypeCorrect == Spec => []TypeOK
BY ProfilesInductive, PTL DEF ProfilesInv

\* Whoever saved a profile with a secret, for an account that no other profile
\* names, finds both: through every failure and death of an edit, no edit deletes
\* the secret of an account it does not name, and the secret is stored before the
\* file names it (upsert_profile, remove_profile).  Edits that met are excepted,
\* and profiles that share an account.
THEOREM SecretsStay == Spec => []SecretsAreThere
<1>1. ProfilesInv => SecretsAreThere
  BY DEF ProfilesInv, Orderly, SecretsAreThere
<1> QED
  BY <1>1, ProfilesInductive, PTL

\* A store in which nothing failed holds, between edits, no secret but those that
\* a profile of the file names, shared accounts included (remove_profile, the
\* rollback of upsert_profile).
THEOREM NothingStaysBehind == Spec => []NothingIsLeftBehind
<1>1. ProfilesInv => NothingIsLeftBehind
  <2> SUFFICES ASSUME ProfilesInv, ~clashed, ~leaked, \A e \in Editors : At(e, "idle"), NEW a \in secrets
               PROVE  \E n \in Names : a = file[n]
    BY DEF NothingIsLeftBehind
  <2> QED
    BY DEF ProfilesInv, Accounted, Pending, At
<1> QED
  BY <1>1, ProfilesInductive, PTL
=============================================================================
