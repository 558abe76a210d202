---------------------------- MODULE TerminalReview ----------------------------
(***************************************************************************)
(* The terminal application as the curator's side of a review: what its    *)
(* screens show of a project, what the curator acknowledges and writes     *)
(* there, and what the operations it starts then approve in the journal.   *)
(*                                                                         *)
(* The application copies the journal into its Model when an operation     *)
(* ended well and when a project is opened (refresh_project_state), never  *)
(* in between; the services read the journal again and approve what is the *)
(* newest there.  One operation runs at a time (TuiWorker), and no other   *)
(* program writes to the projects.                                         *)
(***************************************************************************)
EXTENDS Naturals, FiniteSets

CONSTANTS
    Projects,       \* projects the current directory may have
    NumClusters,    \* clusters of a taxonomy, in its order
    Issues,         \* omissions and minor findings a revision may have
    None,           \* nothing, no run
    Bare, Read,     \* a run of a new source set or route, and one of a corpus
    MaxMade         \* bound: proposals and revisions made

VARIABLES
    project,        \* the journal of each project
    boundary,       \* where the connected profile sends text
    made,           \* proposals and revisions made so far
    model,          \* Model of the application; None: it is not running
    op,             \* the operation of the worker, with what the curator saw
    fresh           \* since the last refresh no operation failed halfway, no refresh did

journal == <<project, boundary, made>>
vars == <<journal, model, op, fresh>>

Clusters == 1..NumClusters

\* A complete critic with its proposal: which one, its omissions and minor
\* findings, and whether it has a major or critical one.
NoRevision == [number |-> 0, issues |-> {}, severe |-> FALSE]
Nothing == [c \in Clusters |-> NoRevision]
NoNotes == [i \in Issues |-> 0]

Revision == [number : Nat, issues : SUBSET Issues, severe : BOOLEAN]
Journals == [exists : BOOLEAN, sources : BOOLEAN, run : {None, Bare, Read}, proposal : Nat,
            approved : Nat, critic : [Clusters -> Revision], live : [Clusters -> Nat]]
Boundaries == {"none", "local", "remote"}

\* What the application asks of the services, and its Model.
Effects == [kind : {"connect", "sources", "preflight", "integrate", "taxonomy", "cluster", "regenerate", "compile", "verify"},
            project : Projects \cup {None}, allow : BOOLEAN, edited : BOOLEAN,
            cluster : Clusters \cup {0}, reasons : SUBSET Issues,
            proposal : Nat, revision : Nat, fresh : BOOLEAN]
Models == [screen : {"ai", "any"}, project : Projects \cup {None}, projects : SUBSET Projects,
           busy : BOOLEAN, pending : Effects \cup {None}, preflight : Boundaries \cup {None},
           remote : BOOLEAN, taxonomy : Nat, edited : BOOLEAN,
           clusters : [Clusters -> Revision], cursor : Nat, notes : [Issues -> Nat]]

ASSUME TerminalReviewAssumption ==
    /\ NumClusters \in Nat /\ MaxMade \in Nat
    /\ None \notin Projects /\ Cardinality({None, Bare, Read}) = 3
    /\ None \notin Effects /\ None \notin Models

Missing == [exists |-> FALSE, sources |-> FALSE, run |-> None, proposal |-> 0,
            approved |-> 0, critic |-> Nothing, live |-> [c \in Clusters |-> 0]]

\* A new run has no tasks and no approvals.
NewRun(q, run) == [Missing EXCEPT !.exists = TRUE, !.sources = q.sources, !.run = run]

Init ==
    /\ \E existing \in SUBSET Projects :
        project = [p \in Projects |-> IF p \in existing THEN [Missing EXCEPT !.exists = TRUE, !.sources = TRUE, !.run = Bare]
                                                        ELSE Missing]
    /\ boundary \in {"none", "local", "remote"}
    /\ made = 0
    /\ model = None /\ op = None /\ fresh = TRUE

-----------------------------------------------------------------------------
(* Screens. *)

Sealed(q) == q.approved # 0 /\ \A c \in Clusters : q.live[c] # 0

\* checkpoint() sends the curator where the project stands; of the screens only the
\* connection screen, for a project with sources, without a plan and without the
\* profiles it needs, is told from the others here.
Checkpoint(q) == IF q.sources /\ ~Sealed(q) /\ boundary' = "none" THEN "ai" ELSE "any"

\* Variant: what was acknowledged and written stays.
KeepReview(m) == m

\* reset_cluster_review
ResetReview(m) == [m EXCEPT !.notes = NoNotes]

\* Variant: only if the screen has none.
ShowFirstTaxonomy(m, q) == IF m.taxonomy = 0 THEN [m EXCEPT !.taxonomy = q.proposal] ELSE m

\* The newest proposal of the organizer, if the screen has another one.
ShowTaxonomy(m, q) ==
    IF q.proposal # 0 /\ m.taxonomy # q.proposal
    THEN [m EXCEPT !.taxonomy = q.proposal, !.edited = FALSE] ELSE m

\* completed_clusters(), if the screen has others.  Without a run there is an error
\* and the screen keeps what it has.
ShowClusters(m, q) ==
    IF q.run # None /\ m.clusters # q.critic THEN ResetReview([m EXCEPT !.clusters = q.critic]) ELSE m

\* refresh_project_state on the journal after the step; the checkpoint may fail.
Refreshed(m) ==
    IF m.project = None THEN m
    ELSE LET q == project'[m.project] IN
        ShowClusters(ShowTaxonomy([m EXCEPT !.remote = boundary' = "remote", !.screen = Checkpoint(q)], q), q)

Refresh(m) ==
    \/ model' = Refreshed(m) /\ fresh' = (m.project # None \/ fresh)
    \/ /\ m.project # None
       /\ model' = [m EXCEPT !.remote = boundary' = "remote"] /\ fresh' = FALSE

Fresh == [screen |-> "any", project |-> None, projects |-> {p \in Projects : project[p].exists},
          busy |-> FALSE, pending |-> None, preflight |-> None, remote |-> FALSE,
          taxonomy |-> 0, edited |-> FALSE,
          clusters |-> Nothing, cursor |-> 1, notes |-> NoNotes]

\* run: a single project is opened at once, several are offered.
Start ==
    /\ model = None
    /\ UNCHANGED <<journal, op>>
    /\ LET first == Fresh.projects IN
        IF Cardinality(first) = 1
        THEN Refresh([Fresh EXCEPT !.project = CHOOSE p \in first : TRUE])
        ELSE /\ model' = [Fresh EXCEPT !.screen = IF first = {} /\ boundary = "none" THEN "ai" ELSE "any"]
             /\ UNCHANGED fresh

\* Keys reach a screen if no dialog is open and no operation runs.  From every screen
\* but the connection screen a few keys lead to every other one.
At(screen) == model # None /\ ~model.busy /\ model.pending = None /\ (model.screen = "ai" <=> screen = "ai")

Quit ==
    /\ model # None /\ ~model.busy /\ model.pending = None
    /\ model' = None
    /\ UNCHANGED <<journal, op, fresh>>

\* navigate_screen: Tab goes around all screens, but the connection screen keeps it.
Navigate ==
    /\ At("workspace")
    /\ model' = [model EXCEPT !.screen = "ai"]
    /\ UNCHANGED <<journal, op, fresh>>

\* Enter on the list of projects: what the Model has of another project stays, as
\* far as the refresh finds nothing to put in its place.
ChooseProject ==
    /\ At("workspace")
    /\ UNCHANGED <<journal, op>>
    /\ \/ \E p \in model.projects : Refresh([model EXCEPT !.project = p])
       \/ model.projects = {} /\ model' = [model EXCEPT !.screen = "ai"] /\ UNCHANGED fresh

-----------------------------------------------------------------------------
(* Review. *)

\* The cluster under the cursor, in the list of those that are complete.
Listed == {c \in Clusters : model.clusters[c].number # 0}
UnderCursor == {c \in Listed : Cardinality({d \in Listed : d <= c}) = model.cursor}
Current == IF UnderCursor = {} THEN 0 ELSE CHOOSE c \in UnderCursor : TRUE
Shown == IF Current = 0 THEN NoRevision ELSE model.clusters[Current]

\* What an operation is started with; `proposal' and `revision' are on the screen.
Effect(kind) == [kind |-> kind, project |-> model.project, allow |-> FALSE, edited |-> FALSE, cluster |-> 0,
                 reasons |-> {}, proposal |-> model.taxonomy, revision |-> Shown.number, fresh |-> fresh]

\* submit.  Without a project the application ends with an error.
SubmitEffect(effect) ==
    /\ IF effect.project = None /\ effect.kind \notin {"sources", "connect"}
       THEN model' = None /\ UNCHANGED op
       ELSE op' = effect /\ model' = [model EXCEPT !.busy = TRUE]
    /\ UNCHANGED <<journal, fresh>>

\* What sends text is asked about first if a route is remote as far as the Model knows.
Ask(effect, remote) ==
    IF remote
    THEN /\ model' = [model EXCEPT !.pending = effect]
         /\ UNCHANGED <<journal, op, fresh>>
    ELSE SubmitEffect(effect)

HasRemoteRoute == model.remote \/ model.preflight = "remote"

\* A profile for all roles, or one for embeddings after it.
Connect == At("ai") /\ SubmitEffect(Effect("connect"))

SaveSources == At("vaults") /\ SubmitEffect(Effect("sources"))

EnterPreflight ==
    /\ At("preflight")
    /\ IF model.preflight = None THEN SubmitEffect(Effect("preflight"))
                                 ELSE Ask(Effect("integrate"), model.preflight = "remote")

\* Merging, splitting, moving, renaming; and writing a rationale, which counts as an
\* edit, is possible on an empty screen and needed for the approval of an edit.
EditTaxonomy ==
    /\ At("taxonomy")
    /\ model' = [model EXCEPT !.edited = TRUE]
    /\ UNCHANGED <<journal, op, fresh>>

ApproveTaxonomy ==
    /\ At("taxonomy")
    /\ Ask([Effect("taxonomy") EXCEPT !.edited = model.edited], HasRemoteRoute)

MoveCursor ==
    /\ At("clusters")
    /\ \E to \in {model.cursor - 1, model.cursor + 1} \cap 1..(IF Listed = {} THEN 1 ELSE Cardinality(Listed)) :
        model' = ResetReview([model EXCEPT !.cursor = to])
    /\ UNCHANGED <<journal, op, fresh>>

\* One issue of the shown revision is acknowledged (Space) and explained (W), or not
\* any more.  The note remembers what it was made about.
Annotate ==
    /\ At("clusters")
    /\ \E i \in Shown.issues : model' = [model EXCEPT !.notes[i] = IF @ # 0 THEN 0 ELSE Shown.number]
    /\ UNCHANGED <<journal, op, fresh>>

\* With some feedback.
RequestRegeneration ==
    /\ At("clusters") /\ Current # 0
    /\ Ask([Effect("regenerate") EXCEPT !.cluster = Current], HasRemoteRoute)

\* approve_current_cluster: no severe finding, each issue acknowledged and explained.
ApproveCluster ==
    /\ At("clusters") /\ Current # 0
    /\ ~Shown.severe
    /\ \A i \in Shown.issues : model.notes[i] # 0
    /\ SubmitEffect([Effect("cluster") EXCEPT !.cluster = Current, !.reasons = Shown.issues])

Compile == At("build") /\ SubmitEffect(Effect("compile"))
Verify == At("verify") /\ SubmitEffect(Effect("verify"))

\* The dialogs come before everything else.
AnswerConsent ==
    /\ model # None /\ model.pending # None
    /\ LET closed == [model EXCEPT !.pending = None] IN
        \/ model' = closed /\ UNCHANGED op
        \/ IF model.pending.project = None
           THEN model' = None /\ UNCHANGED op
           ELSE model' = [closed EXCEPT !.busy = TRUE] /\ op' = [model.pending EXCEPT !.allow = TRUE]
    /\ UNCHANGED <<journal, fresh>>


-----------------------------------------------------------------------------
(* What the services do with the journal of a project.  A result has the new  *)
(* journal, whether the operation ended well, and the number made so far.     *)

Result(q, ok, count) == [q |-> q, ok |-> ok, made |-> count]

\* begin_or_resume_run: the run goes on if the vaults have what it has read.
Begun(q) == {NewRun(q, Read)} \cup (IF q.run = Read THEN {q} ELSE {})

Qualities == {[issues |-> {}, severe |-> TRUE]} \cup [issues : SUBSET Issues, severe : {FALSE}]

\* The clusters up to one of them get a complete critic where they have none.
Todo(q, upto) == {c \in 1..upto : q.critic[c].number = 0}
Criticized(q, todo, count) ==
    {[q EXCEPT !.critic = [c \in Clusters |-> IF c \in todo
                           THEN [number |-> count + Cardinality(todo \cap 1..c), issues |-> quality[c].issues, severe |-> quality[c].severe]
                           ELSE q.critic[c]]] : quality \in [todo -> Qualities]}

\* execute: it may fail anywhere, and what was complete by then stays.  A remote
\* provider is not asked without consent.
ExecuteRun(r, allow, count) ==
    LET mayAsk == boundary = "local" \/ (boundary = "remote" /\ allow) IN
    {Result(r, FALSE, count)}
    \cup {Result([r EXCEPT !.proposal = count + 1], ok, count + 1) : ok \in {b \in BOOLEAN : mayAsk /\ r.proposal = 0}}
    \cup {Result(r, ok, count) : ok \in {b \in {TRUE} : r.proposal # 0 /\ r.approved = 0}}
    \cup UNION {{Result(s, upto = NumClusters, count + Cardinality(Todo(r, upto))) : s \in Criticized(r, Todo(r, upto), count)} :
                upto \in {c \in Clusters : r.approved # 0 /\ (mayAsk \/ Todo(r, c) = {})}}

Execute(q, allow, count) ==
    {Result(q, FALSE, count)} \cup UNION {ExecuteRun(r, allow, count) : r \in Begun(q)}

\* approve_taxonomy takes the newest proposal; another taxonomy than the approved
\* one has no critics yet.  Then execute.
TaxonomyApproved(q) ==
    LET count == IF op.edited THEN made + 1 ELSE made
        taxonomy == IF op.edited THEN count ELSE q.proposal
        a == IF taxonomy = q.approved THEN q
             ELSE [q EXCEPT !.approved = taxonomy, !.critic = Nothing, !.live = [c \in Clusters |-> 0]] IN
    {Result(q, FALSE, made)} \cup (IF q.run = None \/ q.proposal = 0 THEN {} ELSE Execute(a, op.allow, count))

\* approve_cluster takes the newest complete revision and compares the decision
\* with the issues of that.
ClusterApproved(q) ==
    LET r == q.critic[op.cluster] IN
    {Result(q, FALSE, made)}
    \cup (IF q.run # None /\ r.number # 0 /\ ~r.severe /\ r.issues \subseteq op.reasons
          THEN {Result([q EXCEPT !.live[op.cluster] = r.number], TRUE, made)} ELSE {})

\* request_cluster_regeneration supersedes the newest revision and its approval;
\* then execute.
Regenerated(q) ==
    {Result(q, FALSE, made)}
    \cup (IF q.run = None \/ q.critic[op.cluster].number = 0 THEN {}
          ELSE Execute([q EXCEPT !.critic[op.cluster] = NoRevision, !.live[op.cluster] = 0], op.allow, made))

\* set_ai_route: another route starts another run if there was work.
Routed(q) == {q} \cup (IF q.run = None \/ q = NewRun(q, Bare) THEN {} ELSE {NewRun(q, Bare)})

\* replace_sources: the same selection changes nothing.
Selected(q) ==
    {Result(q, FALSE, made), Result([NewRun(q, Bare) EXCEPT !.sources = TRUE], TRUE, made)}
    \cup {Result(q, ok, made) : ok \in {b \in {TRUE} : q.sources}}

Results(q) ==
    CASE op.kind = "sources"    -> Selected(q)
      [] op.kind = "preflight"  -> {Result(q, FALSE, made)}
                                   \cup {Result(r, ok, made) : r \in Begun(q), ok \in {b \in BOOLEAN : b => boundary # "none"}}
      [] op.kind = "integrate"  -> Execute(q, op.allow, made)
      [] op.kind = "taxonomy"   -> TaxonomyApproved(q)
      [] op.kind = "cluster"    -> ClusterApproved(q)
      [] op.kind = "regenerate" -> Regenerated(q)
      [] op.kind = "compile"    -> {Result(q, ok, made) : ok \in {b \in BOOLEAN : b => Sealed(q)}}
      [] op.kind = "verify"     -> {Result(q, ok, made) : ok \in BOOLEAN}

-----------------------------------------------------------------------------
(* The operation ends: WorkerFinished, and a refresh after a success.          *)

Done(m) == [m EXCEPT !.busy = FALSE]

\* Sources and profiles: what was made of the old ones is off the screen.
ClearWork(m) == [m EXCEPT !.preflight = None, !.taxonomy = 0, !.clusters = Nothing]

\* An error may send the curator to the connection screen.  A failed operation is
\* followed by no refresh.
Fail(m) ==
    /\ \E screen \in {model.screen, "ai"} : model' = [Done(m) EXCEPT !.screen = screen]
    /\ fresh' = (fresh /\ project' = project /\ boundary' = boundary)

FinishConnect ==
    /\ op # None /\ op.kind = "connect"
    /\ \E saved \in {boundary, "local", "remote"}, ok \in BOOLEAN :
        /\ ok => saved # "none"
        /\ boundary' = saved
        /\ IF ok
           THEN /\ \E q \in IF op.project = None THEN {None} ELSE Routed(project[op.project]) :
                    project' = IF q = None THEN project ELSE [project EXCEPT ![op.project] = q]
                /\ \E screen \in {"ai"} \cup (IF op.project = None THEN {"any"} ELSE {}) :
                    Refresh([ClearWork(Done(model)) EXCEPT !.screen = screen])
           ELSE UNCHANGED project /\ Fail(model)
    /\ op' = None /\ UNCHANGED made

\* Without a project one is created first, and may stay without sources.
FinishCreate ==
    /\ op # None /\ op.kind = "sources" /\ op.project = None
    /\ op' = None /\ UNCHANGED <<boundary, made>>
    /\ \/ UNCHANGED project /\ Fail(model)
       \/ \E p \in Projects, ok \in BOOLEAN :
            /\ ~project[p].exists
            /\ project' = [project EXCEPT ![p] = [Missing EXCEPT !.exists = TRUE, !.sources = ok, !.run = IF ok THEN Bare ELSE None]]
            /\ IF ok THEN Refresh([ClearWork(Done(model)) EXCEPT !.project = p]) ELSE Fail(model)

Finish ==
    /\ op # None /\ op.project # None /\ op.kind # "connect"
    /\ \E r \in Results(project[op.project]) :
        /\ r.made <= MaxMade
        /\ project' = [project EXCEPT ![op.project] = r.q]
        /\ made' = r.made
        /\ UNCHANGED boundary
        /\ CASE ~r.ok -> Fail(model)
             [] r.ok /\ op.kind = "preflight" -> model' = [Done(model) EXCEPT !.preflight = boundary] /\ UNCHANGED fresh
             [] r.ok /\ op.kind = "sources"   -> Refresh(ClearWork(Done(model)))
             [] OTHER -> Refresh(Done(model))
    /\ op' = None

Review ==
    \/ EditTaxonomy \/ ApproveTaxonomy
    \/ MoveCursor \/ Annotate \/ RequestRegeneration \/ ApproveCluster

Next ==
    \/ Start \/ Quit \/ Navigate \/ ChooseProject
    \/ Connect \/ SaveSources \/ EnterPreflight \/ Review \/ Compile \/ Verify
    \/ AnswerConsent
    \/ FinishConnect \/ FinishCreate \/ Finish

Spec == Init /\ [][Next]_vars

-----------------------------------------------------------------------------
TypeOK ==
    /\ project \in [Projects -> Journals]
    /\ boundary \in Boundaries /\ made \in Nat
    /\ model \in Models \cup {None} /\ op \in Effects \cup {None}
    /\ fresh \in BOOLEAN

\* What an operation approves is what the curator had on the screen: the taxonomy is
\* (an edit of) the proposal that was shown, the revision of a cluster the one that
\* was shown, whatever was opened, edited, regenerated or configured in between.
\* After an operation that failed halfway, or a refresh that failed, the screen may
\* be old until the next refresh (approve_taxonomy, approve_cluster).
ApprovedWasShown ==
    [][\A p \in Projects : project[p].exists /\ op # None /\ op.fresh =>
        LET old == project[p] new == project'[p] IN
        /\ new.approved \notin {0, old.approved} => op.proposal = old.proposal
        /\ \A c \in Clusters : new.live[c] \notin {0, old.live[c]} => op.revision = new.live[c]]_vars

\* The acknowledgements and rationales that approve a cluster were given for the
\* very revision on the screen, not for another cluster, another revision of it or
\* another project (reset_cluster_review).
NotesAreAboutShown ==
    model # None =>
        \A i \in Shown.issues : model.notes[i] \in {0, Shown.number}
=============================================================================
