------------------------------- MODULE Profiles -------------------------------
(***************************************************************************)
(* Provider profiles: one file that every process of the user reads and    *)
(* replaces as a whole, and the secrets the profiles name, which live in    *)
(* the credential store of the operating system.                           *)
(*                                                                         *)
(* No lock guards either.  An edit is a process that reads the file, stores *)
(* a secret, reads the file again, replaces it and deletes a secret; a step *)
(* of this module is one of these, and each may fail or be the last before  *)
(* the process dies.                                                        *)
(***************************************************************************)
EXTENDS Naturals, FiniteSets

CONSTANTS
    Editors,     \* processes that edit profiles
    Names,       \* profile names
    Accounts,    \* accounts of the credential store: os_keychain is free text, and all
                 \* profiles share one service
    None, NoAccount,
    MaxEdits     \* bound of the instance: edits begun

VARIABLES
    file,        \* account of each profile in the file, NoAccount or None
    secrets,     \* accounts that have a secret
    editor,      \* what each editor does and has read
    edits,       \* edits so far
    entrusted,   \* history: profiles saved together with a secret, for an account of their own
    clashed,     \* history: two edits of one profile or account met
    leaked       \* history: a step after which a secret may stay behind

vars == <<file, secrets, editor, edits, entrusted, clashed, leaked>>

\* A profile may do without an account (api_key_env, or no key at all), and nothing
\* keeps two profiles from naming one.
Profile == Accounts \cup {NoAccount}
Files == [Names -> Profile \cup {None}]

ASSUME ProfilesAssumption ==
    /\ MaxEdits \in Nat
    /\ None # NoAccount /\ None \notin Accounts /\ NoAccount \notin Accounts

Idle == [pc |-> "idle"]

Init ==
    /\ file = [n \in Names |-> None]
    /\ secrets = {}
    /\ editor = [e \in Editors |-> Idle]
    /\ edits = 0
    /\ entrusted = {} /\ clashed = FALSE /\ leaked = FALSE

-----------------------------------------------------------------------------
At(e, pc) == editor[e].pc = pc
Goto(e, record) == editor' = [editor EXCEPT ![e] = record]
Finish(e) == Goto(e, Idle)

\* The accounts an edit may store a secret in, or delete the secret of.
AccountsOf(edit) ==
    Accounts \cap (IF edit.pc \in {"removing", "removed"} THEN {edit.old} ELSE {edit.old, edit.new})

\* Another edit of the same profile, or of one of its accounts, is under way.
MeetsEdit(e, edit) ==
    \E d \in Editors \ {e} :
        /\ ~At(d, "idle")
        /\ editor[d].name = edit.name \/ AccountsOf(editor[d]) \cap AccountsOf(edit) # {}

\* Another profile of the file names the account.
Shared(f, n, account) == \E m \in Names \ {n} : f[m] = account

\* An edit puts the secret of every profile that names one of its accounts at stake.

Begin(e, record) ==
    /\ At(e, "idle")
    /\ edits < MaxEdits
    /\ edits' = edits + 1
    /\ clashed' = (clashed \/ MeetsEdit(e, record))
    /\ entrusted' = {m \in entrusted : m = record.name \/ file[m] \notin AccountsOf(record)}
    /\ Goto(e, record)

-----------------------------------------------------------------------------
(* upsert_profile.  A secret that comes without an account gets the one     *)
(* named like the profile.  The old profile is read before the secret is    *)
(* stored.                                                                  *)

BeginUpsert(e, n, profile, secret) ==
    /\ secret => profile # NoAccount
    /\ Begin(e, [pc |-> IF secret THEN "storing" ELSE "merging", name |-> n, old |-> file[n],
                 new |-> profile, secret |-> secret])
    /\ UNCHANGED <<file, secrets, leaked>>

\* The credential store may be locked or unavailable.
StoreSecret(e) ==
    /\ At(e, "storing")
    /\ \/ secrets' = secrets \cup {editor[e].new} /\ Goto(e, [editor[e] EXCEPT !.pc = "merging"])
       \/ UNCHANGED secrets /\ Finish(e)
    /\ UNCHANGED <<file, edits, entrusted, clashed, leaked>>

\* The file is read a second time; what is saved rests on this reading.
Merge(e) ==
    /\ At(e, "merging")
    /\ Goto(e, [pc |-> "saving", name |-> editor[e].name, old |-> editor[e].old, new |-> editor[e].new,
                secret |-> editor[e].secret, read |-> file])
    /\ UNCHANGED <<file, secrets, edits, entrusted, clashed, leaked>>

\* save_config replaces the file at once.  Whoever read it before somebody else
\* replaced it takes that replacement back.
Replace(e, n, profile) ==
    /\ file' = [editor[e].read EXCEPT ![n] = profile]
    /\ clashed' = (clashed \/ editor[e].read # file)

Save(e) ==
    /\ At(e, "saving")
    /\ LET me == editor[e] IN
        /\ Replace(e, me.name, me.new)
        /\ entrusted' = IF \/ me.secret /\ ~Shared(file', me.name, me.new)
                           \/ me.name \in entrusted /\ me.new = me.old
                        THEN entrusted \cup {me.name}
                        ELSE entrusted \ {me.name}
        /\ Goto(e, [me EXCEPT !.pc = "replaced"])
    /\ UNCHANGED <<secrets, edits, leaked>>

\* Variant: the rollback deletes the account whatever the old profile had.
SaveFailsRollsBack(e) ==
    /\ At(e, "saving")
    /\ secrets' = secrets \ {editor[e].new}
    /\ Finish(e)
    /\ UNCHANGED <<file, edits, entrusted, clashed, leaked>>

\* The save fails, before the file is replaced or after, when its permissions are
\* set: the new secret is deleted, as far as that succeeds, unless the old profile
\* had an account, whichever that was.
SaveFails(e) ==
    /\ At(e, "saving")
    /\ LET me == editor[e] IN
        /\ \/ UNCHANGED <<file, entrusted, clashed>>
           \/ Replace(e, me.name, me.new) /\ entrusted' = entrusted \ {me.name}
        /\ IF me.old \in {None, NoAccount}
           THEN \/ secrets' = secrets \ {me.new} /\ UNCHANGED leaked
                \/ me.new # NoAccount /\ UNCHANGED secrets /\ leaked' = TRUE
           ELSE /\ UNCHANGED secrets
                /\ leaked' = (leaked \/ (me.new # me.old /\ (me.secret \/ file' # file)))
    /\ Finish(e)
    /\ UNCHANGED edits

\* Variant: the account of the replaced profile is kept.
KeepReplaced(e) ==
    /\ At(e, "replaced")
    /\ Finish(e)
    /\ UNCHANGED <<file, secrets, edits, entrusted, clashed, leaked>>

\* The account of the replaced profile goes if it is another one; a failure to
\* delete it is ignored.
DeleteReplaced(e) ==
    /\ At(e, "replaced")
    /\ IF editor[e].old \notin {None, NoAccount, editor[e].new}
       THEN \/ secrets' = secrets \ {editor[e].old} /\ UNCHANGED leaked
            \/ UNCHANGED secrets /\ leaked' = TRUE
       ELSE UNCHANGED <<secrets, leaked>>
    /\ Finish(e)
    /\ UNCHANGED <<file, edits, entrusted, clashed>>

-----------------------------------------------------------------------------
(* remove_profile: the file first, then the secret; a failure between keeps   *)
(* the secret.                                                                *)

BeginRemove(e, n) ==
    /\ file[n] # None
    /\ Begin(e, [pc |-> "removing", name |-> n, old |-> file[n], read |-> file])
    /\ UNCHANGED <<file, secrets, leaked>>

SaveRemoval(e) ==
    /\ At(e, "removing")
    /\ \/ /\ Replace(e, editor[e].name, None)
          /\ entrusted' = entrusted \ {editor[e].name}
          /\ Goto(e, [editor[e] EXCEPT !.pc = "removed"])
          /\ UNCHANGED leaked
       \/ /\ Replace(e, editor[e].name, None)
          /\ entrusted' = entrusted \ {editor[e].name}
          /\ Finish(e) /\ leaked' = TRUE
       \/ Finish(e) /\ UNCHANGED <<file, entrusted, clashed, leaked>>
    /\ UNCHANGED <<secrets, edits>>

DeleteRemoved(e) ==
    /\ At(e, "removed")
    /\ \/ secrets' = secrets \ {editor[e].old} /\ UNCHANGED leaked
       \/ editor[e].old # NoAccount /\ UNCHANGED secrets /\ leaked' = TRUE
    /\ Finish(e)
    /\ UNCHANGED <<file, edits, entrusted, clashed>>

-----------------------------------------------------------------------------
\* The process dies between two steps.
Crash(e) ==
    /\ ~At(e, "idle")
    /\ Finish(e)
    /\ leaked' = TRUE
    /\ UNCHANGED <<file, secrets, edits, entrusted, clashed>>

Upsert(e) ==
    \/ \E n \in Names, profile \in Profile, secret \in BOOLEAN : BeginUpsert(e, n, profile, secret)
    \/ StoreSecret(e) \/ Merge(e) \/ Save(e) \/ SaveFails(e) \/ DeleteReplaced(e)

Remove(e) == (\E n \in Names : BeginRemove(e, n)) \/ SaveRemoval(e) \/ DeleteRemoved(e)

Next == \E e \in Editors : Upsert(e) \/ Remove(e) \/ Crash(e)

Spec == Init /\ [][Next]_vars

-----------------------------------------------------------------------------
Edits ==
    {Idle}
    \cup [pc : {"storing", "merging"}, name : Names, old : Profile \cup {None}, new : Profile, secret : BOOLEAN]
    \cup [pc : {"saving", "replaced"}, name : Names, old : Profile \cup {None}, new : Profile, secret : BOOLEAN, read : Files]
    \cup [pc : {"removing", "removed"}, name : Names, old : Profile, read : Files]

\* Every cell keeps its type (upsert_profile, remove_profile).
TypeOK ==
    /\ file \in Files
    /\ secrets \subseteq Accounts
    /\ editor \in [Editors -> Edits]
    /\ edits \in 0..MaxEdits
    /\ entrusted \subseteq Names /\ clashed \in BOOLEAN /\ leaked \in BOOLEAN

\* Whoever saved a profile together with a secret finds both, through every
\* failure and crash of an edit of any profile, until an edit begins that names the
\* same profile or the same account: no edit takes away a secret of an account it
\* does not name, and at no moment does the file name a secret that is not there
\* yet (upsert_profile, remove_profile).  A profile that shares its account gets no
\* such promise: removing or replacing the other one deletes the secret of both.
\* Neither do edits of one profile or account that meet, which are not coordinated.
SecretsAreThere ==
    ~clashed => \A n \in entrusted : file[n] \in secrets

\* Between edits the store holds no secret that no profile names, unless a step
\* failed or a process died: removing or replacing a profile, or failing to save
\* a new one, leaves nothing behind, whether accounts are shared or not
\* (upsert_profile, remove_profile).
NothingIsLeftBehind ==
    ~clashed /\ ~leaked /\ (\A e \in Editors : At(e, "idle"))
        => secrets \subseteq {file[n] : n \in Names}
=============================================================================
