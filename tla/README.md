# A formal model of OKC

OKC compiles a set of Obsidian vaults into one vault. It reads the sources into a corpus, has an AI
provider propose a taxonomy and one synthesis per cluster with a critic's report, lets a person
approve or send back each of them, seals a plan over the approvals, and publishes the output
directory. The Rust workspace has five crates: `okc-core` (formats, snapshots, plan, compilation),
`okc-ai` (providers), `okc-app` (project store, services, terminal worker), `okc` (command line and
terminal UI) and `okc-interop` (job scheduler of the Python and Node bindings).

Three things in it are hard. The first is the authority of a plan: who may change a project when, what
an approval still covers after something changed, what is left when a process dies between two writes,
what a curator was shown when something was approved, and what a caller may conclude from the state of
a job it cancelled. The second is what leaves the machine: text goes to providers whose profiles change
while an execution uses them. The third is the corpus: vaults are read while they are edited, and links
must lead where they led after files were renamed, merged and moved. These modules are about that.

Paths below are relative to `src/crates/`.

## 1. Inventory

| Component | State | Operations | Correct means |
|---|---|---|---|
| Project store (`okc-app/src/lib.rs`, `project_state.rs`) | `manifest.json`, the SQLite journal (runs, tasks, approvals, regenerations, plans, outputs), `project.lock`, objects | create, open, add/replace sources, set language/routes, begin or resume a run, record tasks and exchanges, approve, seal, query the plan, record an output | one writer; the offered plan rests on live approvals, made under the manifest of the project; nothing lost or revived by a crash |
| Integration service (`integration_service.rs`) | none of its own: opens the store for each call | checkpoint, approve taxonomy, regenerate, approve cluster, compile, verify | approvals and plan stay consistent across several commits |
| Integration execution (`integration_execution.rs`) | the run it resumes | preflight, embeddings, candidates, organizer, synthesis and critic of each cluster, seal | reuses complete work, never seals over what nobody approved |
| Core integration (`okc-core/src/integration.rs`) | output directory, staging directory | seal and validate a plan, compile, verify | an output appears whole or not at all |
| Provider profiles (`provider_service.rs`) | profile file, keychain | upsert, remove, client, test | the file and the keychain agree |
| Providers (`okc-ai`) | none that outlives a call; in it the attempts, the elapsed time and the rest of a delay | generate, embed: one exchange with retries, delays and limits | repeats only what may be repeated, ends within the budget, waits as asked, stops when cancelled |
| Job scheduler (`okc-interop`) | process-wide project reservations; per client a bounded queue and worker threads; per job a record (state, barrier, events, result) and a cancellation token | submit, work, cancel, take events, wait, drop | one mutation of a project at a time; the caller's view never goes back; every job ends |
| Terminal worker (`worker.rs`) | command slot, progress channel, retained completion, active flag, barrier, cancellation slot | submit, receive, cancel, drop | the UI never hangs, never loses a result, never mixes two operations |
| Terminal UI (`okc/src/tui.rs`) | the model of the screens, `busy` | reduce, render, effects | drives the worker as it expects |
| Workspace bootstrap, artifact service, command line, bindings | none that outlives a call | choose a project, inspect a pack, one call per command | |
| Corpus build of the core (`corpus.rs`, `snapshot.rs`, `source_io.rs`, `parse.rs`, `dedup.rs`, `plan.rs`) | sealed snapshots and the plan, in memory for one build; it reads vaults that other programs write | read and seal the sources, find duplicates, allocate paths, resolve and rewrite links, read rewritten notes again, validate the plan | nothing torn or foreign is sealed; links lead where they led; what cannot be done is refused, and nothing else is |
| Core: canonical form, identity, scratch database | none, or written and not read | functions on text and hashes | deterministic |

How they interact. The command line, the terminal UI and the bindings are *processes* that share a
project through the file system only: the lock file excludes writers, nothing excludes readers.
Inside a process, the UI thread and its worker share six cells, and the clients of the bindings share
one table of reservations. A service call opens a store (which reads the manifest), takes the lock,
makes one or several SQLite commits, and drops the lock. `execute` is the longest of them: it calls
the provider between its commits. `compile_latest` renames a directory and then commits. Callbacks
go from the work to its observer (`OperationControl`), which is how a job or the worker learns that
the publication starts.

Hard behaviours, each of which `PROJECT.json` lists at its line under `hazards`: the manifest read
before the lock; the journal and the manifest written one after the other; a lock file that outlives
its process; approval, revocation and sealing in separate commits; approvals compared before and read
again for sealing; runs resumed by a hash that does not cover everything the result depends on; a
cancellation against the announcement of a publication, twice (in `okc-interop` and in `worker.rs`);
bounded queues at their limit; a client dropped while its jobs run; results against progress in a
full channel; a screen that shows an older revision than the one approved; a profile edited between the
key of a task and its request; a secret stored before the file that names it; a vault saved while it
is read, and once more before it is read again; a provider that answers late, asks for a delay or never answers, against the deadline and
against a cancellation; a destination taken between the look at it and the rename, a stage that cannot
be removed or whose name is used again, and a power loss between any two steps of a publication.

## 2. Modules

| Module | Models | Order |
|---|---|---|
| `PlanAuthority` | abstract: decisions are in force until superseded, withdrawn or invalidated; a plan is sealed over decisions in force and offered only while they are | 1 |
| `ProjectJournal` | project store, integration service, integration execution, publication and export, for any number of processes; implements `PlanAuthority` | 2 |
| `ProjectJournal_proofs` | theorems | 3 |
| `JobScheduler` | the scheduler of the bindings | 4 |
| `JobScheduler_proofs` | theorems | 5 |
| `TuiWorker` | the worker and the event loop of the terminal UI | 6 |
| `Terminal_proofs` | theorems about `TuiWorker` and `TerminalReview` | 7 |
| `ProviderRetry` | one call of a provider, in time | 8 |
| `ProviderRetry_proofs` | theorems | 9 |
| `OutputSlots` | abstract: an output appears whole in one step, its name has one winner, answers are true, what was answered as done survives | 10 |
| `Publication` | compilation into a staging directory and its publication, by any number of compilers, with other programs, crashes and power loss; implements `OutputSlots` | 11 |
| `Publication_proofs` | theorems | 12 |
| `TaskExecution` | the tasks of executions one after the other, their keys, disclosure and recordings, beside an edited profile file and an unlocked status report | 13 |
| `TaskExecution_proofs` | theorems | 14 |
| `Profiles` | the profile file and the credential store under several editors | 15 |
| `Profiles_proofs` | theorems | 16 |
| `TerminalReview` | the curator in the terminal application: what is shown, annotated and approved | 17 |
| `CorpusPlan` | the plan of a corpus as functions of the sealed files: duplicates, paths, links, conflicts, operations, validation | 18 |
| `CorpusBuild` | the build around it: reading, sealing, planning and reading again, beside an editor | 19 |
| `CorpusBuild_proofs` | theorems about both | 20 |
| `MCProjectJournal`, `MCJobScheduler`, `MCPublication`, `MCTaskExecution`, `MCTerminalReview`, `MCCorpusBuild` | constants and symmetries for TLC | |

### ProjectJournal

A step is one durable write together with what its process computes before it. `pc[c]` is the stage
of the process's operation; `Unlocked` stages read, `Locked` stages hold the `ProjectLock`. `Fail`
is any early return with `?` at a stage, `Crash` the death of the process anywhere; both leave what
was written.

| In the model | In the code |
|---|---|
| `Open`, `handle` | `ProjectStore::open`: the manifest is read here |
| `AcquireWriterLock`, `AcquireLeavesFile`, `ReturnStore`, `ReturnService`, `RemoveOrphanLock` | `acquire_writer_lock` (`create_new`), its error paths after the file exists, `ProjectLock::drop`; an operator (outside the code) |
| `LockForChange`, `CommitInvalidation`, `CommitReplacement`, `SaveManifest` | `set_language`, `set_ai_route`, `replace_sources…`: journal first, manifest second |
| `BeginOrResumeRun` … `DropResponse`, `Seal` | `IntegrationService::execute` and what it calls; `preflight` is its first two steps |
| `ApproveTaxonomy`, `AppendRegeneration`, `RevokeApproval`, `ApproveCluster`, `SealIfComplete` | the review calls of `IntegrationService` |
| `CheckpointSees…`, `LockForCheckpoint` | `checkpoint()`: unlocked reads, then a seal under the lock |
| `SelectPlan`, `Publish`, `VerifyArtifact`, `RecordVerifiedOutput`, `Export` | `compile_latest`, `verify`, and `ProjectStore::compile` of the command line |
| a row of `runs` | what the queries on the tables of one `run_id` can return |

Abstractions. Hashes are the values they are hashes of, so equal hashes are equal values. The tasks
before the taxonomy (embeddings, candidates, organizer) are one task, whose key depends on the
profile's model; synthesis and critic of a cluster are one, whose key also holds the taxonomy and the
revision. A critic's content is its key and a verdict: `major` cannot be approved, `unsealable` can be
approved but not sealed, because sealing validates more than approving. A curator's decision has a
note to tell two approvals of the same content apart. `staleWriter` and `basis` are history. Setting a
value again to what it is takes the lock and writes nothing; that is the pair `AcquireWriterLock`,
`Fail` of another change and is not repeated.

### JobScheduler

A step is what a thread does under one lock. `stage[j]` says which thread has the job's item and
where that thread is; `record[j]`, `sequence[j]` and `cancelled[j]` are the shared job. `submit` is
three steps (reserve, offer to the channel, and on refusal release and fail), the worker loop one per
lock it takes: begin, the observer's call-backs, the look at token and barrier, release, finish.
`Reserve` and `RefuseBusy` take their request from all requests, so a run has every mix of reading,
mutating and compiling jobs. The work is reduced to what the scheduler sees of it: progress events,
looks at the token, the announcement of the publication, a result.

### TuiWorker

A step is one access of a thread to a shared cell. The completion mutex is held by the worker from
`LockCompletion` to `Deactivate` and by the UI in `submit`; the flags and the cancellation slot are
read and written without it, as in the code. The UI drains progress, takes the completion, and acts on
a key: submit when it shows no operation, cancel (three separate reads) when it shows one, or leave
(`Drop`, `SendShutdown`, `Join`). Its actions and its specification carry `Worker` in their names, and
the code's `None` is `Empty`, so that one module can extend it beside `TerminalReview`.

### ProviderRetry

A step is one look of `generate_structured` or `embed` at the token, at the clock or at the answer
(`send_with_retry`, `UreqTransport::post_json`, `cancellable_delay`). `now` is `started.elapsed()`
in ticks, several to a millisecond, because the code subtracts durations that are finer than the
milliseconds of its timeouts: what remains is rounded down to milliseconds, and up to one. `Tick` is
time: while the attempt has time left or a slice of a delay is not over it is time the code asked
for, all other time is `drift` (a thread that is not scheduled, a sleep or a timeout that ends late).
The provider may answer any status with any `Retry-After` at any moment, or never; the transport then
times out. The token is looked at after the headers, after the body and again by the caller of the
transport; as it never goes back these are one look. What the request says and what the answer holds
is left out: `Reject` and `Validate` are the checks before and after.

### Publication

A step is one durable effect of `compile_with_hook`: a file written and synchronized, the tree
synchronized, the rename, the parent synchronized. `at` is the directory of the outputs as processes
see it, `disk` what of it is certainly on disk; `tree[c]` is what compiler `c` wrote, `kept[c]` whether
the directories in it are synchronized, `stage[c]` the `TempDir` guard. `Refuse` and `CreateParent`
are the first look at the destination, `Fail` is an error inside the closure, `FailToPublish` an error
of the rename with the look at the destination after it, `Cleanup` and `CleanupFails` the disposition
of the stage. `Occupy` and `Tamper` are other programs; `PowerLoss` ends all running calls, leaves of
each name either state since the last synchronization (a rename is never found half done) and drops
the entries of unsynchronized trees.

The parent directory may be made on the way (`create_dir_all`). Nobody synchronizes the directory
above it, so a parent that is `fresh` may be lost as a whole, with outputs that were answered as done;
that is why `OutputSlots` has `settled`. ADR-0014 claims nothing for physical power loss; the
model takes synchronization to do what POSIX says.

Abstractions. A file is there or not, and right or altered: `absent` is also one that is incomplete.
The notes, stubs, plan and provenance are `ContentCount` files; manifest and checksums are written
last and are right only if what they list was. `Verify` compares with what the plan asks for, at one
moment: a program that changes files of a stage behind the verification is not in the model, as no
source claims protection from it. Nor is one that renames or removes foreign stages.

### TaskExecution

A step is one durable write of `IntegrationService::execute`, or one look at something that others
change: `Begin` reads the sources and the profiles its keys are computed from, `Open` is
`ProviderService::client`, which reads the profile file again, `Ask` sends a request and records the
exchange (or the response is dropped), `Seal` records the task as complete. `Register` finds a
definition by its key and reuses it. `EditProfile` and `EditSources` are other processes that need no
lock; `ReadRun`, `ReadTasks`, `ReadEvent` and `ReturnReport` are the queries of `integration_status`,
which holds no lock and no transaction. The `raced` mark of an exchange is history: the profile was
edited during the execution that asked, and then `KeyNamesProvider` promises nothing: the request goes to
the profile as edited, and what still holds of it is `DisclosureIsAuthorized`. Abstractions: text is the corpus it was taken from; what the
detectors find is a set of clusters of each content; the tasks of a stage are one, those of synthesis
and critic one for each cluster. `ProjectJournal` models several executions and processes, with less
of each; here the lock is held.

### Profiles

An edit is a process with the steps of `upsert_profile` or `remove_profile`: read the file, store a
secret, read the file again, replace it, delete the replaced secret. Each can fail, with the code's
rollback, and the process can die after each. A profile names any account or none: `os_keychain`
is free text, all profiles share one service, and nothing keeps two from naming one account, whose
secret goes when either of them is removed or replaced. `entrusted`, `clashed` and `leaked` are history.
A profile is entrusted when it was saved with a secret for an account that no other profile of the file
names, until an edit begins that names the profile or the account. Edits of one profile or account that
meet are promised nothing, because nothing coordinates them.

### TerminalReview

`model` is what the screens remember (`Model`): project, sources, preflight, the edited taxonomy with
the proposal it came from, the clusters shown with their annotations, a pending question, `busy`. The
keys are those of `reduce` that start an operation or change what one would be given; every
operation is one of `execute_effect` with the outcomes its service has, a failure halfway included,
and ends in `Finish`, which refreshes the screens after a success (a refresh can fail as well, after
which `fresh` is false). `op` holds what the curator had on the screen when the operation was started.
The worker of `TuiWorker` is what makes one operation run at a time; no other program
writes the projects, so an execution of another process between a look at a cluster and its approval is
not in this model.

### CorpusPlan and CorpusBuild

`CorpusPlan` has no variables. A path is a sequence of components (word, spelling, extension, tag), so
that letter case, Unicode composition, an appended `.md` and the suffix of an allocated path are told
apart; a note is a head with frontmatter and links and a tail with words, heading and blocks; an
identity is the value it is a hash of, and `Short(s, p, n)` the first `n` characters of the identity of
the file `p` of the source `s`, which may collide below `FullLength`. Allocation takes the files in
sorted order and is a fold over them (`AllocateAll`). `WithMd` appends `.md` to the whole name, as
`plan.rs` 2440–2448 does for every target that does not end in it: `pic.png` becomes the word `pic.png`
(`Joined("pic", ".", "png")`) with the extension `md`, and a name that is looked up is cut at its last dot,
which is its word alone. `Joined` and `Marks` are constants: what two texts joined are, and which of the
characters that matter to a reader of links stand in a text. A link has `open`, the characters that would
close what stands open before it in its line (backquotes, a bracket).
`Draft` composes the passes of `build_plan` in their order: `Owners` (representatives),
`Allocations`, `Resolutions`, `Escapes`, `Operation`, `ReviewConflicts`. `ValidPlan` is
`validate_integrity`, which looks at the finished plan only. `Split` reads a link as the parser does (the
references of a canvas are paths and nothing else) and `Render` writes it as the planner does; they are
not inverse (section 4). `SplitWiki` cuts at the first `^` and at the first `#` before it, in the path as
well, and `SplitMarkdown` takes a `^` that does not follow `#` for a part of the path; `whole` says whether
the parser finds the link as one. `IsText` holds of what a parser returned: a wiki link that was read from
a vault has none of these characters in its path, and only one that was written by `Render` can have.

In `CorpusBuild` the walk of a directory lists, then opens file by file; a read has a beginning and an
end with `metadata` at both, and an editor may save in place (two writes), replace by rename, remove or
link in between, with or without the file's time stamp moving. An archive is read in one step, because
it is one open file. The same walk is taken again for sources with notes to rewrite. `had` and
`coarse` are history. Abstractions: the block scanner and the frontmatter reader are what `Links`,
`Title` and `FragmentMatches` give; limits of numbers and sizes are one limit on files and one on
the structure of data (`Malformed`); similarity of texts is left out, and with it the conflicts of
near duplicates, which are reported and change nothing else.

## 3. Runs

| Run | Result | Bounds |
|---|---|---|
| `journal_project` | `TypeOK`, `SingleWriter`, `ManifestAuthority`, `VerifiedOutputIsPublished` hold, and `LockIsReleased` under `FairSpec` | two processes, one source set, two languages, a profile that switches between two models, one cluster, three runs, three exchanges, one output |
| `journal_review` | `SealNeverRefused`, `PlanUsesLatestCritic`, `OfferIsAuthority` hold; `AuthoritySpec` is implemented | one process, two source sets, two taxonomies of one and two clusters, critics that seal or not, two runs, two revisions, four exchanges, one model |
| `journal_stale_store` | `CurrentManifestAuthority` violated | two processes, two languages |
| `jobs` | `ProjectExclusive`, `ReleasedBeforeVisible`, `TooLateIsFinal`, `NewestEventTellsState` hold, and `EveryJobEnds` under `FairSpec` | two jobs, each a reading one or a compilation (a mutation is a compilation that announces nothing), two clients of one worker and a queue of one, one project, two retained events, up to three caused by progress and requests, events of one job read at any time |
| `worker_cells` | `IdleAccepts`, `BarrierIsOwn` hold, and `OperationFinishes`, `ShutdownEnds` under `FairSpec` | three operations, two retained events |
| `provider_retry` | `TypeOK`, `RetriesAreJustified`, `DeadlineIsKept`, `DelayIsKept`, `CancellationIsObserved` hold, and `EveryCallReturns` under `FairSpec` | budget of four milliseconds of two ticks, two retries, slices of two ticks, delays of none, one and five (of which three are kept), one accepted, one final and one retryable status, three ticks of drift |
| `publication` | `OnlyOwnTreesMove`, `StageIsAccountedFor` hold; `OutputSpec` is implemented | two compilers, two destinations, two names of stages, three files, one change of another program per tree |
| `task_execution` | `DisclosureIsAuthorized`, `WorkIsRecorded`, `ReportIsCurrent`, `KeyNamesProvider`, `CompleteIsFinal` hold | one cluster, a profile for the global roles and one for the cluster's, each local or remote, two contents of which one has a finding, two runs, four exchanges, two revisions, one edit |
| `profile_edits` | `SecretsAreThere`, `NothingIsLeftBehind` hold | two editors, two profiles, two accounts that either profile may name, four edits |
| `terminal_review` | `NotesAreAboutShown`, `ApprovedWasShown` hold | two projects, two clusters, one issue, three proposals and revisions |
| `corpus` | `FilesAreWhole`, `RewritesAreOfInspected`, `LinksSurvive`, `OwnPlanIsAccepted` hold | a directory and a tar archive: about 1,300 pairs of settled vaults of up to four notes, canvases, bases and attachments, among them notes and attachments whose paths differ in letter case alone, a note that has the name of a picture and one called `pic.png.md` beside `pic.png`, names with dots, `#`, `^` and backquotes under links of both syntaxes, and vaults that are edited twice while they are read |
| `corpus_namesake` | `OwnPathWins` violated | a note with one link to a picture, the picture, and another vault with one note that has the name of the picture as an alias |

Why the bounds suffice. Run 1 is the placeholder of the first source set and the work is in run 2, so the
three runs of `journal_project` let a configuration change invalidate work and an offered plan
(`CommitInvalidation` appends run 3) and then fail, or its process die, before `SaveManifest`, as well as
execute again after a change that came through. The two of `journal_review` hold the whole history of
decisions about one run; there a source set is replaced (`CommitReplacement`) before there is work, and
the theorems cover the invalidation of live decisions, and other processes between the commits of an
approval, a regeneration or a seal (`JournalImplementsAuthority`, `OffersAreAuthority`). `MaxRevision` = 2
gives a critic, a regeneration and its critic. `MaxExchanges` leaves room for the organizer, every
cluster and one repeated request. Lock-related properties need two processes: a third is
interchangeable with the second, and the theorems hold for any number. `MaxQueuedJobs` = 1 (64 in the
code) and `MaxEventQueue` = 2 (64) are the limits themselves, small so that they are reached;
`MaxSequence` bounds progress events and accepted cancellations of one job, `Watched` says whose caller
reads events. `MaxEvents` is the room of the progress channel (64), `MaxOperations` the operations
submitted; with three, one operation has a predecessor and a successor. `provider_retry` has the code's
two retries; two ticks make the smallest part of a millisecond, slices do not divide the longest delay,
one delay is longer than the longest, and the budget is large enough for both retries with their delays
and small enough to run out at any stage. In `publication`, two compilers meet at one destination or
publish next to each other, so that one synchronizes the stage or the rename of the other, and two
names of stages are enough for one to be used again; one content file stands for all, because only the
manifest, the checksums and the unplanned file are treated differently; `MaxTampered` = 1, since one
altered file is enough to be refused. In `task_execution` one edit of a profile can fall between any
two steps, and the first execution, the resumed one and the one of a new content are three stages of
the cache. Four edits in `profile_edits` give two profiles that name one account, the removal or replacement of
one, and an edit that gives the other a secret again. Three proposals in `terminal_review` give a taxonomy, a revision and the
newer revision that a screen may not show. In `corpus` the files are chosen so that every kind of
collision, conflict, refusal, resolution and operation occurs (letter case and composition, within and
across vaults, exact duplicates with other links, suffixes that collide in their first character), and
two edits are enough to undo a change between two readings. The theorems have none of these bounds.

Deadlock is checked in the journal's runs, where a process can always open and close a store, in
`publication`, where the power can always fail, and in `terminal_review`, where there is always a key
to press. It is off for the scheduler, the worker, the provider call, the executor, the editors of
profiles and the corpus build, which really stop: when all jobs of the instance have ended, when the
application is left, when the call has returned, and when the bounded number of runs, edits or
readings is done.

Symmetry is used where no property is a liveness property: projects in `terminal_review`, compilers,
destinations and stages in `publication` (whose temporal properties only speak of steps, and name none
of them).

Fairness. Journal: an operation that holds the lock goes on to its end or its error (it is a running
thread; a provider's timeouts bound each exchange), and an operator removes the lock of a dead
process, which is what the error message of `AppError::Locked` leaves to people; nothing is assumed
of processes without the lock. Scheduler: workers take items and go on, and the work of a job returns;
no caller and no client is assumed to do anything more. A worker's weak fairness is on the whole work
of a job, so a job may report progress until the bound of its events and must end then. Worker: its
thread goes on and its operation returns; the UI finishes the call it is in and its loop drains the
worker before each look at the keys (`tui.rs` 1239–1253), hence strong fairness of draining whatever
keys are pressed. Provider call: its thread runs, time passes, and the transport ends an attempt some
time after its timeout (`timeout_global`); nothing is assumed of the provider. The other runs state
safety only, and no fairness.

## 4. What the violations show, and what else was seen

* `journal_stale_store`. `execute` and the configuration calls take the lock with a store that was
  opened, and whose manifest was read, before. If another process changes the language in between, the
  run and the plan of the first belong to a manifest the project no longer has, and are offered.
  `ManifestAuthority` states what holds of writers whose handle was up to date.
* `corpus_namesake`. A link whose path names no note is looked up by the stem of its file name among
  the names, titles and aliases of the notes of all vaults (`plan.rs` 2448–2458), and only if that finds
  nothing among the attachments (2107). So `[](../pic.png)` with `pic.png` there in the vault of its note
  is rewritten to lead to a note of another vault that has "pic" as an alias, whereas ADR-0016 (lines 40
  to 51) promises the exact path first and the meaning of the own vault before a foreign homonym.
  `LinksSurvive` states what holds nevertheless: a link leads to what its author meant (`Meant`) or to one
  of the files the order of the search can take for it (`Mistaken`), which are none unless the path of the
  link is that of something else than a note, or its name has a dot and leads to no path.

Seen in the code while modelling, and not the subject of a run:

* A link of a note to a name that another vault has as well is ambiguous, since names (unlike paths)
  are looked up in all vaults (`plan.rs` 2449–2460); ADR-0016 has the meaning of the own vault win over
  a foreign homonym. An exact path is ambiguous too if another file of the vault differs only in case.
* Two attachments of one vault whose paths differ only in case: one of them is linked without a conflict,
  even if the other is at the exact path of the link
  (`docs/algorithms/stable/conflict-resolution-and-output-layout.md` line 109 has "no guessed winner").
  `LinksSurvive` has them among the `Mistaken`.
* A note `pic.png.md` beside `pic.png`, as programs that annotate pictures write it, is taken for the
  picture by the links of notes: `[](../pic.png)` finds no note at its path, then the note with `.md`
  appended (`plan.rs` 2440–2448), and attachments are not asked any more (2107). The sidecar is among the
  `Mistaken` too, and `corpus` has such a vault.
* `[[v1.2]]` with a note `v1.2.md` is found by the appended `.md` in the note's own folder; from another
  folder or vault the name that is looked up is "v1" (2449–2452), so it leads to a note called `v1`, or is left
  unresolved although the note exists.
* Wiki links are written without escapes (`plan.rs` 3421–3425) and read by splitting at `|`, `^` and `#` and
  ending at `]]` (`parse.rs` 903–917, 650–662); `#`, `^` and `]` are allowed in names (`snapshot.rs`
  1167–1185). A note `C#.md` with the alias `csharp` makes `[[csharp]]` be written `[[C#.md]]`, which is read
  with the heading ".md", and `validate_rewritten_markdown_links` (2890–2901) ends the build of the whole
  corpus in `PlanStale`; likewise a backquote in a name after an open one in the line of a link, in either
  syntax. `docs/algorithms/stable/conflict-resolution-and-output-layout.md` has such rewrites fail rather
  than invent escapes (line 95) and failed reparses stop the construction of a corpus (115), so this is as
  documented, but a single name does it. `OwnPlanIsAccepted` excludes vaults with such a link and such a
  name (`Unwritable`).
* A Markdown link to a block, `../a.md#^k`, whose target has another path in the output is written as
  `../a.md^k`; headings are percent-encoded when written and not decoded when read (`render_link_target`,
  `plan.rs` 3434). `validate_rewritten_markdown_links` sees that and refuses the plan, so one such link
  stops the build of the whole corpus, whereas
  `docs/algorithms/stable/markdown-canvas-and-link-normalization.md` line 73 promises that a heading or
  block suffix is preserved. `OwnPlanIsAccepted` excludes these links too (`WrittenOtherwise`).
* Two profiles may name one keychain account, and then removing or replacing one deletes the secret of
  both (`provider_service.rs` 300–306, 321–326), as does the rollback of a save that failed (294–299);
  ADR-0025 (lines 53 to 54) calls the account "the profile-scoped reference". `SecretsAreThere` makes no
  promise to profiles that share an account.
* An operation that fails halfway is followed by no refresh of the screens (`tui.rs` 1247), and opening a
  project keeps what is shown of the previous one until a refresh succeeds (1487–1543): this is the
  condition `fresh` in `ApprovedWasShown`.
* `PlanUsesLatestCritic` needs that the profile's model stays the same during a run
  (`journal_review` has one): the identity of a run covers corpus and routes, not the profile the
  routes name, so a resumed run can have newer critics than the plan that is still offered.
* Between `ensure_not_cancelled` and `observe(Publishing)`, and in the same window of the terminal
  worker, a cancellation is answered as requested and the operation completes. `TooLateIsFinal` says what
  the other answer is worth.

## 5. Theorems

All for any constants that satisfy the modules' named assumptions: limits are numbers, the names the
models use for "nothing" are not names of things, routes and clusters are functions of the right shape
(`JournalAssumption`, `ProfilesAssumption`, `TaskExecutionAssumption`, `SchedulerAssumption`,
`WorkerAssumption`, `TerminalReviewAssumption`, `RetryAssumption`, `PublicationAssumption`); vaults are
finite and their files have the shape of files (`VaultsAssumption`); paths are totally ordered
(`OrderAssumption`); whole identities differ and none is a prefix of another (`IdentityAssumption`); the
names the planner makes up hold no character at which a link is cut (`MarkAssumption`).
TLC evaluates each of them in the runs.

| Theorem | States | Argument |
|---|---|---|
| `LockIsExclusive` | `[]SingleWriter` | inductive with the range of `pc`: the lock names `c` exactly while `pc[c]` is a locked stage; every entry requires it absent, and only its holder, a crash or the removal of an orphan changes it |
| `TypesAreKept` | `[]TypeOK` | with `SingleWriter`, the stage's preconditions and `ClustersHaveTaxonomy`; only the lock's holder writes the journal, so what a stage relies on is still there |
| `VerifiedOutputsArePublished` | `[]VerifiedOutputIsPublished` | strengthened by `RecordsArePublished` and `RecordersSawIt`: an operation about to record has seen its plan on disk; publication replaces nothing |
| `OfferedPlanKnowsManifest` | `[]ManifestAuthority` | strengthened by `RowKnowsManifest` and its companions: as long as no stale writer took the lock, a locked operation's handle is the manifest, the newest run's work was done under it, or a change of manifest is between its two writes and the newest run has no work |
| `ProjectsAreExclusive` | `[]ProjectExclusive` | `ReservationInv`: a channel holds an item once and only queued ones, a reserved project has exactly one holder, and the holder keeps it from `submit` to release. Exclusion alone is not inductive: a second holder could release the first one's reservation |
| `ReleaseComesFirst` | `[]ReleasedBeforeVisible` | the same invariant, and `Visible`: a record is terminal only when its item is done |
| `IdleUiIsAccepted` | `[]IdleAccepts` | `WorkerInv`: an operation is in one place (the submitting call, the command slot, the thread, the retained completion), the active flag is up until it is retained, and the UI shows it until it takes the completion. That the flag is down is not inductive alone: it needs that the mutex, held from before `Retain` to `Deactivate`, keeps the UI from the completion meanwhile |
| `BarrierBelongsToItsOperation` | `[]BarrierIsOwn` | the same invariant: the barrier is only up inside the operation that closed it |
| `CellsKeepTheirTypes` | `[]TypeOK` of `ProviderRetry` | inductive: the rest of a delay is cut by at most itself, an attempt is counted only below `MaxRetries` |
| `OnlyJustifiedRetries` | `[]RetriesAreJustified` | with `Counted`: as many answers as attempts, all of them retryable, before an attempt; one more while it is judged |
| `CallIsInTime` | `[]DeadlineIsKept` | with `Timed`: from each grant on, the attempt's limit or the rest of the delay, added to the time, stays below the budget and the drift; needs that rounding adds less than a millisecond (`LimitFacts`) |
| `DelaysAreKept` | `[]DelayIsKept` | with `Waited`: what is left of the delay still reaches the earliest moment of the next request |
| `CancellationsAreObserved` | `[]CancellationIsObserved` | with `Observed`: a slice ends at most a slice from now, a late request was sent by a cancelled call |
| `PublicationImplementsSlots` | `OutputSpec` | `PlaceInv`: a tree has one name; a call before its stage is nowhere, from there to its cleanup its guard names its tree, after the rename its destination does; what is under a destination was published there, and the disk can only lack it. With it nothing torn is seen, the rename is `Put`, each return is `Tell`, and all other steps of a call are hidden |
| `WholeOrAbsent`, `DoneSurvives`, `GuardsAreOwn` | `[]OutputsAreWhole`, `[]DoneIsDurable`, `[]GuardIsOwn` | from `PlaceInv`. That the guard is own is not inductive alone: a tree under two names would let one call remove what another published |
| `NothingIsReplaced`, `StagesAreAccountedFor` | `OnlyOwnTreesMove`, `StageIsAccountedFor` | each step from a state of `PlaceInv` |
| `SealingIsNeverRefused` | `[]SealNeverRefused` | `SealingIsDue`: an execution under way to its sealing has compared every cluster it counts as done with a critic and an approval that are still those of its row, because the lock keeps every other writer out; at the sealing that is all clusters of the approved taxonomy |
| `OffersAreAuthority` | `[]OfferIsAuthority` | the plan row names the approvals it was sealed over; each later approval, regeneration or invalidation changes one of those the comparison reads |
| `JournalImplementsAuthority` | `AuthoritySpec` | step by step: one lemma for each durable write says which abstract step it is, and `StepDecides` that every other step, crashes and retries with outdated handles included, leaves decisions and plan alone |
| `PlansAreOfNewestRevision`, `PlansUseLatestCritic` | `[]PlanUsesNewestRevision`; `[]PlanUsesLatestCritic` for one model | `DecisionsInOrder`: no critic is of a later revision than the cluster is due, and an approval is of a critic of its cluster and run; a plan in force was approved at the due revision. With one model a revision has one critic; a second model may answer it again beside the plan |
| `TooLateStays` | `[]TooLateIsFinal` | `Barriers`: a barrier is up only from the announcement of the publication on, "too late" was answered behind it, and behind it the outcome is what the work returned: the overruling in `worker_loop` looks at the barrier as well as at the token |
| `EventsTellState` | `[]NewestEventTellsState` | `EventsTell`: numbers grow from what was taken along the queue up to the counter, and the last event, in the queue or taken, tells the state; what a full queue drops is never that one |
| `OnlyAuthorizedDisclosure`, `CompleteWorkIsRecorded`, `KeysNameProviders`, `CompleteStays` | the properties of the same names in `TaskExecution` | `ExecutionInv`: what each stage of an execution has at hand (`UnderWay`), which proposal a critic is about (`Proposed`), that a complete task was answered by a recorded exchange of its run (`Answered`), and how the profiles of an execution relate to the file and its edits (`Snapshot`). `CompleteWorkIsRecorded` is not inductive without the former two |
| `ReportsAreCurrent` | `[]ReportIsCurrent` | `ReportInv`: at each stage of a report, what was complete when it began is complete still (tasks are never taken back, `TasksStay`), and what it has read is of the run it named first |
| `TypeCorrect`, `SecretsStay`, `NothingStaysBehind` | `TypeOK`, `[]SecretsAreThere`, `[]NothingIsLeftBehind` of `Profiles` | `ProfilesInv`: as long as no two edits met, for each stage of an edit what the file and the keychain have of its accounts, that the account of an entrusted profile is named by no other profile and no edit of another (`Sole`), all in `Orderly`, and, if no step failed either, that every secret is named or about to be (`Accounted`). The first needs that the edits under way name different accounts (`Apart`); the second holds for shared accounts too |
| `NotesBelongToTheScreen`, `OnlyShownIsApproved` | `[]NotesAreAboutShown`, `ApprovedWasShown` | `ReviewInv`: one operation at a time; while `fresh`, the screen shows what the project has; an operation carries what was shown when it was started |
| `SealedFilesAreWhole` | `[]FilesAreWhole` | `ReadInv`: while a handle is open and its length and time stand, what it will return is what the file held when it was opened, or the file was written within a tick |
| `OnlyInspectedIsRewritten` | `[]RewritesAreOfInspected` | `RewriteInv`: the outputs so far are those of the sources already read again, each from data equal to what was sealed |
| `BuildableVaultsAreBuilt` | `[]OwnPlanIsAccepted` | `BuildInv`. Allocation never runs out (`AllocationsAreSound`: a suffix of full length is nobody's), representatives represent themselves, so every plan drafted of sound files is valid (`DraftIsValid`); rendered links read alike unless they are `WrittenOtherwise` or given a path that is `Unwritable` (`RewriteReadsAlike`), whose names are those of a sealed file or made up (`NamesAreMarked`), and `RecordOK` keeps the sealed files and their links on record (`had`); a file that is not as it was needs an edit |
| `LinksLeadWhereTheyLed` | `[]LinksSurvive` | from `BuildInv` and `RewriteInv`, for any finished plan. The way between two destinations leads from the one to the other (`RelativeLeadsThere`); a rewritten link is read with the path it was rendered with (`WrittenIsReadBack`, since finished notes read alike); what is considered for a link are the representatives of what is found by path, with `.md` appended or by name (`CandidatesAre`); what the search settles on is what the author meant or a duplicate of it, except where something else than a note is at the path or a name with a dot is looked up, and then it is one of the `Mistaken` (`LinkLeadsThere`, `ReferenceLeadsThere`); one file is written there (`OneTarget`) |

The folds and sorted sequences of `CorpusPlan` are reasoned about through sets of numbers with a least
member (`LeastExists`) instead of the library's induction theorems, which no prover here can
instantiate.

Every safety property that the passing runs check, the action properties and the two refinements among
them, is stated by one of these theorems.
All liveness is model-checked only (`LockIsReleased`, `EveryJobEnds`, `OperationFinishes`,
`ShutdownEnds`, `EveryCallReturns`): temporal reasoning under fairness is beyond the prover used here,
and so is `ENABLED`. `TypeOK` of `JobScheduler` is proved as to shapes (`Shape`, `Visible`), not as to
the bounds on lengths and threads; in the modules whose runs do not name it, `TypeOK` documents the
variables and serves the proofs.

## 6. Not modelled, and the plan

Not modelled at all: canonical serialization and identities, which are pure functions on text and
hashes; the similarity of texts behind near-duplicate conflicts and the resource estimate of a plan,
which change nothing else in it; the workspace database of the core, which is written and never read;
the workspace bootstrap and the artifact service, which read and keep nothing; the language bindings,
which forward; rendering and text entry of the terminal UI; formats of the five providers; the
central directory of ZIP files and platforms without `openat`; file permissions and managed-path checks;
power loss that reorders the durable writes of the journal.

Next, in this order:

1. Theorems about `CorpusPlan` on its own: that every sealed file is found where its representative is
   written, and nowhere two files of different content; that conflicts name all who answer to a name.
2. The near-duplicate conflicts, and a promise about links that says which of the `Mistaken` is taken.
