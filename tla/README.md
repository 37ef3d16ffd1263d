# setfork-core in TLA+

A model of the versioning core of setfork-core, of the calls on its
repositories and of the components around it, model-checked with TLC and proved
about with TLAPS.  Paths are those of the repository; line numbers are in
`PROJECT.json` (`map`), definition by definition.

setfork-core keeps step-by-step lists under version control.  Every list has a
bare git repository `<uuid>.git`, the **canon**, and a **read model** in
Postgres: `templates` (current version, title, ...), `template_versions` (one
row per version) and `steps`.  The rule is *git first*: a write is a commit on
`main`, then a tag `v<N>` on it, then one Postgres transaction.  Neither store
knows about the other's transactions, so any write can stop half way; the next
call that touches the list is meant to mend it.

## 1. Inventory

### Components

| component | source | state | operations | what makes it correct |
|---|---|---|---|---|
| Version sync | `git/version.rs`, `git/repo.rs`, `git/bundle.rs` | main, tags, `current_version`, version rows | `ensure_repo_by_id`, `sync_repo_with_db`, `align_by_counters`, `commit_web_version`, `bootstrap_bare`, `append_missing_versions` | the two stores agree at rest; a half-done write is finished once; nothing accepted is lost |
| Single point of `main` | `git/update.rs` | `refs/heads/main` | `update_main`, checks of the tree | compare-and-set, fast-forward only, no tree that the next writer could not carry on |
| Projection | `git/project.rs`, `services/git_core/mod.rs` | rows, tag of the tip | `project_pushed_commit`, `project_main_or_log` | a pushed or merged tip becomes exactly one version |
| Read model | `db/write.rs`, `db/versions.rs` | rows, steps, title | `add_version`, `update_meta`, `load_bundle_data` | numbers without gaps, versions immutable |
| Carry-over of marks | `db/carryover.rs` | marks of steps | `needs_human`, `danger`, image keys follow a block id over a push | a push loses no mark of a block it keeps |
| Pre-receive hook | `git/bundle.rs` | - | who may push what, reserved names, the tree's rules, `check-content` | one refused reference refuses the push; agrees with `update_main` on the commits it judges |
| GitCore service | `services/git_core/` | refs | `receive_pack`, `merge_branch`, `merge_resolved`, `commit_to_branch`, `update_branch`, `create/delete_branch`, `create_tag`, reads | no commit lost, no reserved name taken |
| List service | `services/list.rs` | - | `AddVersion`, `Create`, reads | answers say what happened; a list born with files keeps them |
| Repository guard | `git/repo.rs`, pools of `main.rs` | process mutex, Postgres advisory lock, two connection pools | `repo_guard` | one guarded writer per list over all instances; no deadlock over the pools |
| Magic pushes | `git/magic.rs` | `refs/for/<base>`, `u/<id>/<base>` | `snapshot`, `take_magic_pushes` | a proposal is credited to its pusher, no magic ref stays behind |
| Mirror and throttle | `throttle.rs`, `git/mirror.rs`, `services/git_core/mirror.rs`, `db/mirror.rs` | slots per list, last result | `coalesce`, `serialized`, `push_mirror_now` | an event that arrives during a push is not lost |
| Operator commands | `cli.rs` | - | `reproject`, `sync-repos`, `gc-repos`, dumps | never destroy what a live list needs |
| Write gate | `gate.rs`, `pushed_texts` of `git/project.rs`, `check_content` of `cli.rs` | - | questions to the application before a write and about what a push brings | every text and command is judged; fail closed |
| Rate limit | `ratelimit.rs` | a sliding window per method | `check` | the limit holds in every window |
| Collaboration, curation | `services/collab.rs`, `services/curation.rs` | issues, suggestions, stars | single transactions | numbers without gaps, counters equal rows |
| Canon format | `git/serialize.rs`, `git/canon.rs`, `blocks.rs` | - | list to files and back | files are a function of the rows; strict reading refuses what soft reading drops |
| Author's files | `git/authored.rs`, `git/bundle.rs`, `git/serialize.rs` | `scripts/`, `references/`, `assets/` of a tree | carry on, replace | no writer loses them |
| Names, actors, tags | `services/git_core/{names,actor}.rs`, `git/write.rs` | - | validation, reserved names | `v<N>` and `main` cannot be taken |
| Smart HTTP | `git/smart_http.rs` | - | runs `git receive-pack` / `upload-pack` | - |
| Reads | `git/history.rs`, `git/messages.rs`, `services/golden.rs`, `reason.rs` | none | history, texts | - |
| Process shell | `main.rs`, `config.rs`, `telemetry.rs`, `services/util.rs` | none of the domain | start-up, metrics | - |

### How they interact

A gRPC handler (or a CLI command) calls `ensure_repo`, which takes the list's
guard, builds or aligns the repository, and **releases the guard**.  A writing
handler takes the guard again and works: an edit aligns once more, opens a
transaction with the list's row locked, commits in git on a blocking thread,
writes the rows and commits the transaction; a push or a merge moves main on a
blocking thread and then projects the tip.  The operator's `reproject`
projects without the guard.  The mirror is told after a write and reads only.

### What is hard

* **Two stores, no common transaction.** A crash, a database error, a lost
  answer to COMMIT or a git error can fall between any two of: main, tag, rows,
  metadata, tag of the projection.
* **A gap without the guard** between `ensure` and the write.
* **Writers without the guard**: `reproject`, and the `spawn_blocking` closure
  of a handler that was dropped (client gone, deadline): guard and transaction
  go with the handler, the closure runs on.
* **Counters as evidence.** The alignment compares the highest `v<N>` tag with
  `current_version`; lost branches, lost tags and tags set by hand make these
  numbers lie.
* **Healing writes too**: it can duplicate a version, move a tag, or put stale
  files on top.
* **Waiting**: the guard is held while the row lock is awaited, and two pools
  of connections are drawn from in the course of one call.
* **Refs moved beside the guard**: branches and tags are made and deleted
  without it, and a dropped handler's closure moves refs after its guard went.
* **Twins**: the same rule in the shell hook and in Rust, the same text read
  softly and strictly, the same mark in three places.
* **Birth before COMMIT**: a list created with files has its directory before
  its row can be seen, and `gc-repos` runs beside the service.

The full list, line by line, is `hazards` in `PROJECT.json`.

## 2. Modules

| module | role |
|---|---|
| `VersionSync` | two writers of a list over git and Postgres: state, one action per step of the code, properties |
| `CanonLog` | the abstract specification of it: the canon only grows, versions are an append-only log, a version is published only with content already in the canon |
| `VersionSyncClaims` | a comment of the code that `VersionSync` refutes |
| `BranchOps` | the references of one list: pushes with hook and magic reference, branches, merges, single commits, resolved merges, release tags |
| `ListBirth` | `Create` with its repository, the rebuild of a lost one, `gc-repos` |
| `AuthoredFiles` | what a tree may contain, at the three doors that judge it, and who carries it on |
| `RepoGuard` | what the guard of `VersionSync` and `BranchOps` is made of: mutex, lock pool, advisory lock, main pool, several instances |
| `Collab` | tasks, proposals and stars: concurrent transactions at READ COMMITTED |
| `WriteGate` | which texts and commands of a push the application is asked about |
| `RateLimit` | the sliding window per method |
| `Marks` | `needs_human`, `danger`, `image_key` between Postgres, `list.json` and the editor |
| `CanonText` | soft and strict reading of one `list.json` |
| `MirrorThrottle` | the mirror of one list: `coalesce`, `serialized`, the push, its recorded outcome |
| `MCVersionSync`, `MCMirrorThrottle`, `MCBranchOps` | instances for TLC: model values, symmetry, a fairness assumption on readers |
| `MCContention` | `Collab` and `RepoGuard`, the two places where calls wait for each other |
| `MCServices` | `ListBirth`, `RateLimit`, `WriteGate`, `Marks`, `CanonText`, `AuthoredFiles` |
| `VersionSyncProofs`, `BranchOpsProofs`, `MirrorThrottleProofs`, `RepoGuardProofs`, `CollabProofs`, `ListBirthProofs`, `MarksProofs`, `ServicesProofs` | inductive invariants and theorems, for all values of the constants; `ServicesProofs` is about `RateLimit`, `CanonText`, `AuthoredFiles` and `WriteGate` |

Operators named `X_...` that stand before the `X` they alter are plausible bugs
the properties are tried against; no action uses them.

**How the modules relate.**  `VersionSync` is about *what* is on main and in
Postgres and knows one branch; `BranchOps` is about *which refs* move and knows
commits by ancestry, and of a projection only that it sets the next version
tag.  Both take the guard as one lock; `RepoGuard` is that lock, opened up.  The
other components touch the core at one point each (a question before a push, a
counter, a parse), and no interleaving with it changes what they compute: they
are checked side by side.  In `MCServices` and `MCContention` a variable `part`
picks one component per behaviour, so that their states add and do not multiply.
A handler that moved main calls `spawn_mirror` when it is done, and the mirror
only reads the repository: `MirrorThrottle` takes every move of a ref as a
`Write` that may come at any time.

### VersionSync: state and code

| variable | code |
|---|---|
| `current`, `rows`, `dbTitle` | `templates.current_version`, `template_versions` + `steps`, `templates.title` |
| `dir`, `main`, `tags` | `<uuid>.git`, `refs/heads/main`, `refs/tags/v<N>` |
| `guard`, `rowLock` | `repo_guard` (mutex and advisory lock as one), `select ... for update` |
| `pc`, `req`, `phase`, `job`, `saw`, `have`, `ver`, `retried` | the handler's place and locals |
| `orphan` | the handler was dropped, its blocking closure runs on |
| `reply`, `acked` | what clients were told |
| `calls`, `faults` | budgets of an instance |

A commit is its whole history (a sequence of entries), so "is an ancestor of"
is `IsPrefix` and two commits with the same content are one, as in git.  An
entry has the steps (`body`), the title and the version number its files were
generated for (0: not the bytes the service would generate).  `Canonical(v)`
is what the service would generate for version `v` **today**, with today's
title: that is what makes healing subtle.  `Junk` stands for a `list.json`
that does not parse or lacks `steps`: push and merge accept it, projection
skips it.

| action | code |
|---|---|
| `StartWeb`, `StartPush`, `StartMerge`, `StartRead`, `StartReproject` | `AddVersion`, `ReceivePack`, `MergeBranch`, every read's `ensure`, the CLI |
| `TakeGuard` | `repo_guard` |
| `EnsureMissing`, `EnsurePresent` | `ensure_repo_by_id` |
| `ReadCurrent`, `LookAtRefs`, `FindMainMissing` | `sync_repo_with_db` |
| `CountEqual`, `CountBehind`, `CountAhead` | `align_by_counters` |
| `SyncFails` | any error of those two |
| `BuildCommits`, `MoveMain`, `MoveRefused`, `SetTag`, `WriteDone`, `GitFails`, `TagFails` | one git write: `build_history`, `append_missing_versions`, `update_main`, a pack, a merge, restoring main |
| `ReadTip`, `InsertVersion`, `InsertFails`, `InsertUnanswered`, `UpdateMeta`, `TagVersion` | `project_pushed_commit` and its one retry |
| `BeginWeb`, `BeginFails`, `CommitWeb`, `CommitFails` | the transaction of `commit_web_version` |
| `Crash` | an instance dies with the calls it serves |
| `Cancel` | a dropped handler: at an await it ends, in a blocking closure it becomes an orphan |
| `Damage` | between calls the volume loses main, a tag or everything, or has a `v<N>` tag set by hand |

Each action is one step between two points where another actor can interfere:
a database transaction, a move of a ref, an await.

### BranchOps: state and code

A commit is a number; the graph knows its ancestors, the *work* its tree still
contains (the numbers of the commits whose contribution is there) and the work
its content took away unseen.  So "is merged", "was lost" and "was put over"
can be told apart without a single file.

| variable | code |
|---|---|
| `heads`, `authored`, `magic`, `vtag`, `release` | `refs/heads/main` and the drafts, `refs/heads/u/<actor>/main`, `refs/for/main`, `refs/tags/v<n>`, another tag |
| `guard`, `pc`, `req`, `saw` | the handler, its request, the tips it has read |
| `orphan`, `dropped` | a dropped handler's closure that goes on, and the kinds of call that met it |
| `credit`, `sent`, `kept`, `litter` | history: what a push was told to be its proposal, who sent what, what is owed to a draft, a magic reference a failure left behind |

| action | code |
|---|---|
| `Snapshot`, `SnapshotFails`, `Receive`, `HookRefuses` | `receive_pack`: `magic::snapshot`, the hook, `git receive-pack` |
| `Take`, `TakeFails` | `take_magic_pushes` and the comparison of main before and after |
| `Create*`, `Delete*`, `Tag*` | `create_branch`, `delete_branch`, `create_tag`, each a read and a write without the guard |
| `ReadTips`, `NothingToDo`, `WriteRefused` | the early returns and refusals of the guarded calls |
| `MergeSquash`, `MergeForward`, `MergeCommit` | `merge_branch` |
| `Resolve` | `merge_resolved`, `commit_resolved` |
| `UpdateForward`, `UpdateCommit`, `CommitList` | `update_branch`, `commit_to_branch` |
| `Project`, `Answer` | the projection and the end |
| `Crash`, `Cancel` | an instance dies; a handler is dropped and its closure runs on |

`sync_repo_with_db` before each call is left to `VersionSync`.

### The components around it

| module | variable | code | actions |
|---|---|---|---|
| `ListBirth` | `row`, `dir`, `birth`, `guarded`, `sweep` | the row of a list (or its open transaction), what its directory holds, `create`, the guard, `gc-repos` | `CreatePlain`; `TakeBirthGuard` to `Fixate` with its failures and `BirthCut`; `Rebuild`, `Pushed`, `DeleteList`; `ReadIds`, `Scan`, `Judge`, `RemoveDir`, `SweepEnds` |
| `AuthoredFiles` | `mainTree`, `draftTree`, `standing` | trees as functions from path to size, mode and kind; how the draft's tip stands to main's | `PushToMain`, `PushToDraft` (hook), `PushDraftToMain` (of the hook only what is asked of a tip), `WebEdit`, `WebReplace`, `MergeBranch`, `MergeResolvedTree` (`update_main`), `CreateBranch`, `CommitToDraft`, `UpdateBranch`, `DropDraft` (no door) |
| `RepoGuard` | `stage`, `session` | a handler's place in `repo_guard`, its session on the lock pool | `Arrive`, `EnterMutex`, `TakeSession`, `Granted`, `TakeMain`, `DropGuard`, `RolledBack`; `GiveUp`, `LoseSession`, `DieInstance` |
| `Collab` | `call`, `lock`, `docs`, `stars`, `count` | open transactions, advisory keys, rows, `stars_count` | one per statement of `open_issue`, `create_suggestion`, `toggle_star`; `Publish`, `Abort` |
| `WriteGate` | the history, `asking`, `answered` | commits with their texts, the questions still to ask | `AskWritable`, `ReadTexts`, `AskContent`, refusals, `BinaryMissing` |
| `RateLimit` | `windows`, `now` | a queue of instants per method | `Tick`, `Allow`, `Refuse` |
| `Marks` | `rows`, `canon`, `editor`, `saved` | blocks in Postgres, in main's `list.json`, what `merge_resolved` has read, a version whose rows are missing | `SaveVersion`, `SaveCut`, `HealTip`, `PushMain`, `ReadMarks`, `MergeResolved` |
| `CanonText` | `text`, `soft`, `strict` | raw blocks, what `parse_steps` keeps, what `parse_canon` objects to | `SoftRead`, `StrictRead` |

Some conventions.  In `RepoGuard` a session is named by its handler: dropping
the guard frees the mutex at once and the connection when its rollback is done,
and a handler dropped in the queue leaves its session there.  In `Collab` a
statement reads what is committed when it starts; what an open transaction wrote
makes others wait.  In `WriteGate` equal texts are one blob, and the history is
any small one.  In `Marks` one mark stands for three with the same rule, and ids
need not be distinct in a file.  In `AuthoredFiles` a path has a shape (script,
asset, a name git quotes, a name with a dot, legacy, foreign).  The hook judges
only commits that no reference reaches (`rev-list "$new" --not --all`), so the
module keeps whether the draft contains main (`ahead`), is main (`level`), is
contained in it (`behind`) or neither (`apart`): a draft that is ahead can be
pushed to main as it is, which brings no new commit.  There is one draft; a
commit of another draft, or one this draft held before, would come to main in
the same way.  `mainUnjudged` and `draftUnjudged` are history: the tree is a merge
of `update_branch` that has passed no door since.

### MirrorThrottle: state and code

| variable | code |
|---|---|
| `slot[i]` | `slots()` of an instance: no key (`free`), key with `false` (`idle`) or `true` (`pending`) |
| `gateMap[i]`, `gateOf[t]` | `gates()`, and the clone of the `Arc` a task has; `strong_count` is the number of clones |
| `pc`, `left` | the task's place; what is left of `sleep(window)` |
| `status`, `stale` | `mirror_error`; `mirror_synced_at < updated_at` |
| `configured` | what `load_mirror` finds |
| `behind`, `seen[t]` | the forge lacks today's refs; the refs `git push` read for `t` still are today's |
| `outcome` | `outcome` of `push_mirror_locked` |
| `untold`, `owed`, `latest`, `lost` | history, for the properties only |

A push sends the refs as git finds them, so of the history of the repository
only one bit matters, and writes may go on for ever without a bound.  `Window`
counts ticks; `left` is real state, so that a debounce can be told from a
throttle.

| action | code |
|---|---|
| `Write`, `Tell`, `Untold` | a handler moves a ref; `spawn_mirror` and `coalesce`; the handler is dropped in between |
| `Call` | `MirrorPush`, from the owner or the application's sweep |
| `Tick`, `Wake`, `Check` | the worker's loop: sleep, lower the flag, look again or give up the key |
| `Enter`, `Acquire`, `Leave`, `Clean` | `serialized`: clone the mutex, lock it, drop guard and clone, `GateCleanup` (its `Drop` runs after theirs) |
| `Load`, `ReadRefs`, `PushRefused`, `PushEnds`, `Record` | `push_mirror_locked` |
| `Drop` | a `MirrorPush` whose client went away: git is killed (`kill_on_drop`), guard, clone and entry go |
| `Crash` | an instance restarts: its maps and tasks are gone |

A write that makes a version moves `updated_at`; a release tag, or a push whose
projection fails, does not (`Writes`).  `updated_at` is really the start of the
writer's transaction; the model moves it together with main.

## 3. Runs

| run | instance | states | shows |
|---|---|---|---|
| `calls` | 2 of edit, push, merge; 2 titles; no fault | 140 K | `ReadModelMatchesCanon`, `EditLandsOnItsBase` |
| `faults` | 3 of edit, push, merge; 1 of crash, db, ack, git, tag | 1.5 M | `TypeOK`, `EditStartsAligned`, `TagNamesItsRow`, `AckedIsKept`, `TagsInOrder` |
| `heals` | 3 of edit, push; 1 of those or a lost main, tag, directory | 1.1 M | `HealableAtRest`, `TagsNeverMove` |
| `damage` | 2 of edit, push (also with generated files); 2 of lost main, tag, directory, foreign tag | 1.1 M | `RestoredMainIsOwn` |
| `unguarded` | 2 of all kinds; 1 of cancel, crash | 260 K | `HistoryHasNoGaps`, `VersionsImmutable`, `MainOnlyGrows`, `ImplementsCanonLog` |
| `live` | 2 of all kinds, 1 content; 1 of crash, db, ack, git, tag | 190 K | `EveryCallReturns`, `TipBecomesVersion` |
| `noise` | 1 push or edit, 1 crash | - | a comment's claim, refuted |
| `mirror` | no bound on writes, events and pushes, window of 1 tick; forge, db, drop, untold, crash, any number | 160 K | `PushesDoNotOverlap`, `OutcomesInOrder`, `ToldIsComing`, `GateMapIsClean`, `LagIsVisible`, `EveryEventIsPushed` |
| `branches` | 3 of the 8 calls, 2 at a time; main, one draft, 2 users and a nick; 1 of crash, git, cancel | 1.1 M | `CreditedIsOwn`, `MagicIsTransient`, `VersionTagsAreVersions`, `EveryMoveIsVersioned`, `PushedDraftIsKept`, `MainKeepsWork`, `StrictEditKeepsBranch` |
| `contention` | 3 clients, 2 lists that share a numbering key, 3 calls, 1 abort; 3 handlers on 2 instances, 2 lists that share an advisory key, 2 losses | 80 K | `NumberingIsSerial`, `StarsCounted`, `GuardExcludes`, `EveryCallEnds` |
| `services` | see below | 0.8 M | `DirectoriesMatchLists`, `AuthoredFilesAreSafe`, `PushIsJudged`, `LimitIsExact`, `MarksAgree`, `MarkIsKept`, `StrictMeansLossless` |
| `gc_birth` | 2 lists, 1 sweep, no fault | - | a comment's claim, refuted |

Deadlock is checked except in `contention`, `services` and `gc_birth`, where a
behaviour ends when its budget of calls, faults or ticks is spent.

**Bounds of `VersionSync`.** All its runs have two processes and two step
contents; `read` calls are not counted, so a heal may follow at any time.  Two
processes are enough for every pair of writers; a third would
wait for the guard.  The one place where unguarded writers meet, an orphan or
`reproject` against a guarded call, needs two.  `MaxVersion` is above what
`MaxCalls` calls with retries and heals can reach, so it never blocks a step:
6, and 9 where `reproject` may make a version of the same tip again.  Two
contents tell "the same steps" from "other steps"; where the title matters
there are two titles.  One fault suffices for each hazard listed; what two can
do is described below.

**Bounds of `BranchOps`.**  Most hazards need a call to read, another one to
write in between and a third to have made what is at stake: three calls, two at
a time, with which all seven mutants are found.  The list starts
with two versions and with or without a draft that left main after the first,
so that merges are true merges, fast-forwards and conflicts of content alike.
`MaxVersion` 5 is two versions and three moves; the last number is also the
`v<n>` a push may try to take.

**Bounds of `MirrorThrottle`.** Two background tasks, so that a second worker
for a taken slot would be possible, and one caller to race with it; two mutexes,
so that a second one could be made while the first is held.

**Bounds of `contention`.**  Three clients: two that hold something and one that
waits.  One list would not show what a shared key does.  The lock pool has two
connections and the main pool one: that is the proportion in which the two
pools made one (or `LOCK_POOL` not set, as in the CLI) let all handlers wait
for each other; `EveryCallEnds` finds that mutant.

**Bounds of `services`.**  Births: three lists (one to keep the sweep from
refusing an empty answer, two for it to judge), two faults, one sweep.  Rate:
limits 2 and 1, a window of 2 ticks, 7 instants.  Gate: three commits with
every history over them, three texts, portions of three bytes.  Marks: two
blocks, two ids, so that an id may occur twice.  Text: two blocks with a
reference each.  Trees: one path of each shape, a limit of two files and six
bytes, a plain file of 1 byte and an executable of 4, so that two files reach
both limits with and without their names, and a merge of two trees within the
limits goes beyond either.

**What properties set aside**, by a history variable or by name, because the
code does not promise it:

| property | excluded |
|---|---|
| `TipBecomesVersion` | a list without rows whose first version lost its projection: it reports a conflict for ever, as `current_version` is 1 by default and row 1 does not exist |
| `LagIsVisible` | what no state of the program can show: an event never told, a restart, a failed `load_mirror`, a failed record |
| `OutcomesInOrder` | several instances: gates live in a process |
| `CreditedIsOwn` | a push whose handler was dropped: its closure receives without the guard, and the next push is credited with the commit |
| `MagicIsTransient` | a magic reference left by a crash or a failing libgit2 (`litter`); the next push of a known actor clears it |
| `PushedDraftIsKept` | a dropped `update_branch` or push: the fast-forward of a draft is forced and may then go over a pushed tip |
| `EveryMoveIsVersioned` | a state with a fault; `VersionSync` heals it |
| `MainKeepsWork` | content a person put over a tip she had not seen |
| `DirectoriesMatchLists` | births that were open while a sweep looked (`raced`): the run `gc_birth` |
| `GuardExcludes` | between instances, sessions Postgres has dropped; the holder notices only when it ends |
| `MarkIsKept` | a version with an id twice: the later block's mark counts for both |
| `AuthoredFilesAreSafe` | the two kinds of tree on which the doors differ, section 4; a main that a push made of an unjudged merge of `update_branch`, until a door lets its next writer in: section 4 |
| `LimitIsExact` | several instances: each counts for itself |

**What the runs of `VersionSync` leave out.**  These are behaviours TLC shows,
and the reason why a property is not in a run:

* A push goes ahead after a failed alignment ("reads continue"), on a tip the
  database does not have yet: with a second fault the list stays in conflict,
  or a tag keeps naming another row.  Hence one fault in `faults` and `heals`.
* A merge that enters between another call's `ensure` and guard may move main
  past a tag whose rows were lost.  If its files project, tag `v(N+1)` moves to
  the merge; if not, the list is out of sync until somebody intervenes.  Hence
  no merges in `heals`.
* `reproject` acts on what it read without the guard: it can make the same tip
  a version twice.  So can a closure that outlives its handler.  Hence the tag
  properties are not in `unguarded`.
* A hand-made tag `v(N+1)` is overwritten when version N+1 comes.  Hence no
  `TagsNeverMove` in `damage`.

**Fairness.** `WF(Proceed(p))`: a handler that can go on does, as tokio's
threads and Postgres make progress; a fault is never fair.  `SF(TakeGuard(p))`:
the tokio mutex is fair and Postgres grants an advisory lock in order of
arrival, so a waiter that sees the guard free again and again gets it.
`TipBecomesVersion` further assumes that the list keeps being read
(`WF(StartRead(p1))`): the service heals only on touch, there is no background
task, and without a reader the property is false.  `live` has no symmetry.
For `mirror`, `WF(Step(t))`: timers fire, a push ends because it is killed after
a minute, the database answers; `SF(Acquire(t))`: a tokio mutex is handed on in
order of arrival.  Writes, events and faults are not fair.
For `contention`, weak fairness (`CollabFair`, `GuardFair`) of each client's and each handler's next step:
Postgres ends what nothing holds up and wakes who waits, pools serve waiters,
and work under the guard ends.  Weak fairness is enough, since each call asks a
bounded number of times; no timeout is needed for `EveryCallEnds`.

## 4. Where the code and its comments part

Two runs refute a sentence of the code:

| run | comment | what happens |
|---|---|---|
| `noise` | `git/project.rs:496`: a version put on top again is noise, not loss | a crash before `update_meta`: the alignment puts a commit with the old title over the renamed one |
| `gc_birth` | `cli.rs:175`: the list may be born meanwhile, so the base is asked again before a removal | the question sees committed rows only; a birth with files has its directory before COMMIT, so it can be removed and the client told of a list whose files are gone |

Other places met while modelling, which no run is spent on:

* `git/version.rs:338`, "after `Git` nothing is written": a tag that fails after
  main has moved answers `Git`; the commit stays and becomes a version later.
* `git/project.rs:443`, "on `Err` the version is not created": if the answer to
  COMMIT is lost, the retry makes a second version of the same commit.
* `services/list.rs:422`, "saving again heals by itself": an unprojectable merge
  in the gap leaves the tag behind main, and each further save is refused.
* `throttle.rs:45`: `mirror_synced_at` is the end of a push, not the reading of
  the refs, so a write in between looks sent, and a restart loses its event.  A
  release tag moves no `updated_at` at all.
* `git/bundle.rs:332` says the hook's rules are those of
  `update::authored_violation`.  The hook adds up contents only
  (`bundle.rs:352`), `update_main` names as well (`update.rs:101`): a tree pushed
  just under the limit can refuse every later web edit.  The hook's
  `ls-tree` prints some names in quotes, which match none of its patterns, while
  such a name can be saved from the web.
* `git/update.rs:61` says the hook has the same rules as `update_main`.  It has
  them, but asks them only of commits that no reference reaches
  (`bundle.rs:315`); of a tip that a branch already holds it asks `list.json`,
  the fast-forward and `check-content`.  So a draft and main, each within the
  limits, may be merged by `update_branch` into a tree beyond them, which no door
  judges, and `git push origin draft:main` puts it on main.  `update_main` then
  refuses every web edit that carries the files, until somebody pushes a commit
  with fewer or sends another set.  With `MainStaysWritable` as the invariant of
  `services` TLC shows it in five states: `PushToDraft`, `WebReplace`,
  `UpdateBranch`, `PushDraftToMain`.
* `services/git_core/mod.rs:368-370`: magic references are taken apart in the
  critical section that received them; a dropped push has left that section.  A
  failed snapshot counts as an empty one (`unwrap_or_default`).
* `mod.rs:823-828`: the fast-forward of `update_branch` is forced.
* `mod.rs:692` and `:875`: `merge_resolved` and `commit_to_branch` read the marks
  before the guard; `Marks` shows that no mark is lost by it while ids are
  distinct, since an absent field is filled in from the rows at projection.  A
  mark taken away in between may come back; no property is about that.
* `merge_resolved` has no expected tips, and keeps main's tree but for
  `list.json`: the draft's author files stay out although it is recorded as merged.
* `commit_to_branch` on a branch deleted meanwhile makes it again.
* A missing binary of the hook lets a push pass unjudged, on purpose
  (`WriteGate`, `BinaryMissing`).

## 5. Proofs

Each theorem holds for every value of the constants that satisfies the `ASSUME`s
of its module: the special values differ from the ordinary ones, kinds and
faults are those of the code, bounds are naturals.  A theorem that needs more
says so in its own `ASSUME`, named in the table.

| module | theorems | further hypothesis |
|---|---|---|
| `VersionSyncProofs` | `Invariance`, `TypeCorrect` (`TypeOK`), `NoGaps` (`HistoryHasNoGaps`), `Immutable` (`VersionsImmutable`), `OnlyGrows` (`MainOnlyGrows`), `EditsLand` (`EditLandsOnItsBase`) | |
| | `AckedKept` (`AckedIsKept`), `Refinement` (`ImplementsCanonLog`) | `MainIsKept` |
| | `AlignedStart` (`EditStartsAligned`), `RestoredIsOwn` (`RestoredMainIsOwn`) | `GuardIsKept` |
| | `TagsOrdered` (`TagsInOrder`) | `GuardIsKept`, `TagsAreOurs` |
| | `NameHolds`, `TagsName` (`TagNamesItsRow`) | `GuardIsKept`, `TagsAreOurs`, `FailsOnce` |
| | `MendHolds`, `Healable` (`HealableAtRest`), `TagsStay` (`TagsNeverMove`) | the same and `NoMerges` |
| | `ReadModelHolds` (`ReadModelMatchesCanon`) | `FaultFree` |
| `BranchOpsProofs` | `Invariance`, `MagicIsSeenInFlight` (`MagicIsTransient`), `TagsHold` (`VersionTagsAreVersions`), `DraftsHold` (`PushedDraftIsKept`), `StrictHolds` (`StrictEditKeepsBranch`), `MainKeeps` (`MainKeepsWork`) | |
| | `MovesAreVersioned` (`EveryMoveIsVersioned`) | numbers left |
| | `CreditHolds` (`CreditedIsOwn`) | `FailsOnce` |
| `MirrorThrottleProofs` | `Invariance`, `TypeCorrect`, `NoOverlap` (`PushesDoNotOverlap`), `MapIsClean` (`GateMapIsClean`), `NothingForgotten` (`ToldIsComing`) | |
| | `OutcomesOrdered` (`OutcomesInOrder`), `LagShows` (`LagIsVisible`) | `OneInstance` |
| `RepoGuardProofs` | `GuardInvariance`, `GuardIsExclusive` (`GuardExcludes`) | |
| `CollabProofs` | `CollabInvariance`, `NumbersAreSerial` (`NumberingIsSerial`), `CounterIsExact` (`StarsCounted`) | |
| `ListBirthProofs` | `BirthInvariance`, `DirectoriesAgree` (`DirectoriesMatchLists`) | |
| `MarksProofs` | `MarksInvariance`, `FileAndRowsAgree` (`MarksAgree`), `NoMarkIsLost` (`MarkIsKept`) | |
| `ServicesProofs` | `LimitHolds` (`LimitIsExact`), `ReadingsLossless` (`StrictMeansLossless`) | |
| | `FilesAreSafe` (`AuthoredFilesAreSafe`) | `PathsAreFinite` |
| | `PushesAreJudged` (`PushIsJudged`) | `TextsAreFinite` |

**The hypotheses**, and why each is needed:

* `MainIsKept`: the volume does not lose main (it may lose or gain tags).  A
  main rebuilt from Postgres has lost what was pushed and not yet projected, so
  neither the log of main nor what was acknowledged survives it in git.
* `GuardIsKept`: no handler is dropped and no operator runs `reproject`.  Both
  act in a repository without its guard; a tag can then move between what an
  alignment has read and what it does.  Crashes, failing statements, commits
  and tags, lost answers and damage are all allowed.
* `TagsAreOurs`: main is not lost and nobody sets a `v<N>` by hand.  A foreign
  tag may stand anywhere, and is part of no order.
* `FaultFree`: no fault, and no `reproject`.  The property is about the normal
  run: after a crash the read model is behind main until somebody touches the
  list, and `reproject` may publish a tip main has left.
* numbers left: the theorem says the property of the states in which the tag
  `v<MaxVersion>` is unset.  The program counts on, the model stops.
* `FailsOnce`: at most one fault in a behaviour.  For `VersionSync` it may be any
  of a crash, a query, a COMMIT, a git write, a tag, a lost answer, tag or
  directory; two are too many, as section 3 says: a push goes ahead after a
  failed alignment and moves main past what the first fault left.  For
  `BranchOps` git fails never or once.  A first failure may leave a proposal in
  `refs/for/main`; the snapshot of the next push sees it there and knows it for
  old.  If that snapshot fails too it counts as empty (`unwrap_or_default`), and
  the second push is credited with the first one's commit: TLC shows it with
  `MaxFaults` 2.
* `NoMerges`: a merge has no base that could be too old, so the one in section 3
  moves main past a tag that waits for its row, and then that tag does move.
* `OneInstance`: mutexes and slots live in one process.  With two instances both
  properties are false.
* `PathsAreFinite`, `TextsAreFinite`: a tree and a push have finitely many files.

**`VersionSync`.**  That numbers have no gaps depends
on a call that began a transaction long before it commits: `ver = current + 1`
has to stay true while other calls, some without the guard, run.  That main
only grows depends on the commit being built on the main the compare-and-set
will find.  `IInv` is `StoreType`, `HistoryHasNoGaps` and, for each call, four
parts:

* `Control`: which kind of job and which phase belong to each `pc`;
* `Contents`: a job writes only typed commits, and what is to be projected has
  steps, so that no junk gets into a row;
* `OnTop`: the tip of a git write extends the main it will be compared with;
* `Owns`: a web edit past `begin` that is not an orphan holds the row lock and
  `ver = current + 1`; hence nobody else inserts.

Each action has its lemma (`...Keeps`); actions that leave `current` and `rows`
alone share one argument (`FrameKeeps`, `StepKeeps`, `FinishKeeps`), `NextInv`
puts them together, and `RowsStep` carries the step property of rows.

Further invariants (the first in two halves) stand on `IInv`, each proved by
its own pass over the actions:

* `SaidInv`: an open transaction is about the version its client named, and an
  acknowledged row stays as it was told.  `GitFirstInv`: what a call will make a
  version of is on its way into main until main moves, and in main from then on.
  Together they are `AckedIsKept`; the second is also what the refinement needs,
  since `CanonLog` publishes only what its canon has.
* `GuardInv`: a call at work holds the guard, and at each step of the alignment
  what it has read of the counter and of the tags is still so.  From `begin` on
  that is `EditStartsAligned`.  At a restore it says that the chosen tip stands
  under the tag of a version.
* `OrderInv`: the tags stand on main in the order of their numbers, no entry and
  no tag is more than one above `current`, and the tags a job has yet to set
  (`Plain`) are above all set ones and stand on main in their turn, so a failure
  after any of them leaves an order.  `TagsInOrder` speaks of rest; this holds in
  every state.
* `NameInv`, with one fault.  A tag above the current version is there because
  an edit is between its tag and its COMMIT, or because the fault has happened
  (`Covered`); so a call that meets one while no edit is open knows that nothing
  more will fail.  A tag that names other steps than its row is the new
  version's own, and the projection that made the version is about to set it
  (`Amends`); that step can no longer be lost.  What jobs have in hand names
  the steps of the rows it stands for (`Naming`).
* `MendInv`, without merges.  If a tag stands above the current version, it is
  the next one's, on the tip of main (`Pending`), and every push that waits was
  made on an older main and will be refused (`Outdated`): the edit that set the
  tag moved main first, and a push that arrives later passes the alignment,
  which projects the tip, before it gets to its pack.  A move of main, an
  edit's transaction and a rebuild therefore all find the tags settled
  (`Mending`).  `HealableAtRest` is the first conjunct at rest; `TagsNeverMove`
  takes from it that `tag_version` finds its number free or on its own tip, and
  from `OrderInv` that every other tag set is above those that exist.
* `MatchInv`: whoever enters finds the stores in agreement (`Agree`), the
  alignment then has nothing to do but pass by a tip that cannot be projected,
  and a write carries, from the commit it builds to the tag it sets last, the
  entry Postgres has or is about to get (`Writes`).

**`BranchOps`.**  `IInv` is the types, where a call may be (`Control`), that the
commits it names exist (`Known`), and the graph: ancestors are older, and their
ancestors are ancestors (`Graph`).  Every step leaves the graph or adds one
commit on top of known ones (`Grows`), so what was an ancestor stays one; that is
the only lemma on commits that the rest needs.  On it stand, one per property:
`ProposalInv` (what is in `refs/for/main` and was not there when the push in
flight looked is that push's own), `TagInv` (the tags are those of the first `k`
versions), `MoveInv` (a main without its tag has a call under way that will set
it), `KeptInv` (a draft about to be forced has, in what its call read, all that
is owed to it), `StrictInv`.

`MainKeepsWork` is about what the trees contain.  `WorkInv` says it of the whole
graph: every commit stems from the list's first one, and holds the work of all
its ancestors but for what some content took away unseen (`Lost`).  A merge works
from a common ancestor, which exists because all commits share the first, and
what it drops one of the two sides had dropped before, so it is in `Lost`
already.  A resolved merge is the person's content, and may replace what either
parent had: `Resolve` records as lost the work of all parents.

**`MirrorThrottle`.**  *Mutexes*: a task has a clone exactly between
`Enter` and `Leave`, each clone is the mutex the map of its instance holds **now**,
no two instances share one, and an entry has somebody who will still run the
cleanup; so whoever locks it excludes all others, and an entry is removed only
when there is no clone.  *Slots*: a worker that lives has the slot and is the
only one of its instance, a taken slot has a worker; so when a worker finds the
flag down after its push, nothing can be owed.  *What is shown* (`LagInv`): a
mirror that lags is `Awaited` - somebody has yet to tell of the write, to read
the refs, to be told to look again, to send today's refs or to record an error -
or it is `Shown`, and then no push under way will hide it.

**`RepoGuard`.**  Two owners: `OneOwner`, the mutex of an instance and a list
belongs to one handler past it, and `OneHolder`, an advisory key to one session.
The first alone gives `OneInInstance`, also when Postgres drops a session; the
second `OneInRepo`.  `GuardTypeOK` ties a handler's session to its stage; without
it a step could find a session it does not own.

**`Collab`.**  `NumInv`: whoever has computed a row holds the key, so the row's
number is one more than the number of documents, and its base version is at
least every earlier base and at most the current version; a version published
meanwhile keeps that.  `StarHeldOnce`: a written star is as its call read it and
nobody else has written it, so each commit changes the set by one person and the
counter by one (`Counted`, with `FiniteSetTheorems`).  `GREATEST(..., 0)` never
acts.

**`ListBirth`.**  `ListInv` says what row, directory and debt are at each step of
a birth, `SweepInv` that what the sweep is about to remove belongs to no list
and to no birth it did not meet: after the question the list can only have been
over and gone, as identifiers are never used again.

**`Marks`.**  `CanonIsObeyed` is inductive with the types of rows, file and
carried marks; the step theorem needs one lemma on `Projected`, that a mark
found by its id is carried where the file is silent, which holds for distinct
ids only.

**`ServicesProofs`.**  These four components compute with loops, which the
models write as recursive functions.  The library's induction rules take an
operator as a parameter and cannot be used; instead `LeastExists` (a non-empty
set of numbers has a least element, from the well-foundedness of the naturals)
and `Upwards` (a set of numbers with 0 and all successors is everything) are
proved once, and `LoopRuns` gives a recursive function its equation.

* `RateLimit`: `QueueIsHistory`, what is in a queue from an instant on is exactly
  what passed from that instant on, for every start not yet out of the window.
  Pruning keeps it, hence the queue's length is the number of calls in the window.
* `CanonText`: `TextInv` says what each reading of a text is; with no issue every
  place is a kept one, and the loop over all places lists them all in order.
* `AuthoredFiles`: a branch that is not marked as unjudged holds a tree good for
  both doors at once (`GoodMain`, `GoodDraft`); the draft is needed because a push
  or a fast-forward hands its tree to main as it is.  Sums over a subset with
  names left out are smaller (`SumsCompare`), so a tree one door measures fits the
  other, and a carried tree is as good as its parent (`CarriedIsGood`).
* `WriteGate`: a text of the pushed history is fresh or main has it already
  (`HistoryIsBrought`, by a least counterexample), the texts can be listed in the order the code sorts
  them in, no portion is over the limit unless it is a single text, and the
  portions together are all of them (`PortionsAreGood`); `GateInv` then says that
  what was answered and what is still to be asked are all the push brings.

Every listed property was checked with TLC on the instance of its run before it
was proved.

**Model-checked only**: liveness (`EveryCallReturns`, `TipBecomesVersion`,
`EveryEventIsPushed`, `EveryCallEnds`), which is out of the prover's reach.
The run `heals` also lets the volume lose main, which `Healable` and `TagsStay`
exclude: a main that is put back on an older tag needs the order of the tags
without the fact that they all stand on main.

## 6. Not modelled, and why

* Texts and the bytes of `list.json`, the readme, the schema's messages,
  `SKILL.md`: pure; the models use that files are a function of rows and title.
  `parse_steps` keeps blank subtasks which `proj_step_row` drops; subtasks are
  left out of `CanonText`.
* `history.rs`, `messages.rs`, `golden.rs`, `reason.rs`, reads of issues, lists
  and trees: they change nothing.
* `main.rs`, `config.rs`, `telemetry.rs`: start-up, health, metrics.
* Comments, statuses of tasks and proposals, watches, and the metadata calls of
  lists: single statements without a read before them.  Metadata other than the
  title behaves like the title.  Proposed blocks carry no id
  (`proposed_json`): their marks are the application's.
* Cancellation during COMMIT is one of the outcomes of the faults `db` (rolled
  back) and `ack` (committed, unanswered).
* Pushes straight to `u/<id>/main`, magic references for another base than
  main (the hook admits only `refs/for/main`), and pushes to the branches of a
  deleted list.
* Content of drafts: it is judged when it is pushed or merged to main; a merge asks
  only whether the list may be written.
* Of the mirror: the access check (a dry run), encryption of the token, the count
  of failures in a row, a panic inside a push (it would keep the slot taken), a
  change of the settings while the system runs, two instances.
* Of the operator's commands: checks and dumps, which read; `sync-repos`, which is
  an `ensure` per list.

## 7. Plan

1. `VersionSync`, `CanonLog` and proofs - done.
2. `MirrorThrottle` and proofs - done.  Left: settings that change, several
   instances.
3. `RepoGuard`, `BranchOps`, `ListBirth`, `AuthoredFiles`, `Collab`,
   `WriteGate`, `RateLimit`, `Marks`, `CanonText`, and proofs of all of them - done.
4. Theorems to come: `Healable` and `TagsStay` with a main that may be lost.
5. Models to come: proposals accepted into a list, two instances of the mirror,
   a drafts' view of the write gate.
