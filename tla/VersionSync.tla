---------------------------- MODULE VersionSync ----------------------------
(***************************************************************************)
(* How one list's canon (a bare git repository) and its read model (rows   *)
(* of Postgres) are kept in step: src/git/version.rs, git/repo.rs,         *)
(* git/bundle.rs, git/project.rs, db/write.rs and the handlers of          *)
(* services/ that call them.                                               *)
(*                                                                         *)
(* A commit is its whole first-parent history, oldest entry first, so that *)
(* "is an ancestor of" is IsPrefix and a missing ref is NoRef.  Two        *)
(* commits with the same history are one commit: git identity is content.  *)
(* An entry is one commit's own payload: the steps of its list.json        *)
(* (body), the title, and the version number its files were generated for  *)
(* (0 when they are not the bytes the service would generate).             *)
(***************************************************************************)
EXTENDS Integers, Sequences, FiniteSets, FiniteSetsExt, SequencesExt

CONSTANTS
    Procs,          \* requests in flight: gRPC handlers and CLI commands
    Bodies,         \* what the steps of a list may be
    Titles,         \* what its title may be
    Junk,           \* a pushed list.json that does not parse or lacks its steps
    NoRow,          \* no template_versions row
    Nobody,         \* no holder of a lock
    Kinds,          \* the calls a run explores
    Faults,         \* the faults a run explores
    JunkFrom,       \* the calls, of push and merge, that may bring Junk to main
    PushedNumbers,  \* offsets from current_version a pushed list.json may carry
    MaxVersion,     \* bound on version numbers
    MaxCalls,       \* bound on calls that write
    MaxFaults       \* bound on injected faults

AllKinds  == {"web", "push", "merge", "read", "reproject"}
AllFaults == {"crash", "cancel", "db", "ack", "git", "tag",
              "loseMain", "loseTag", "loseDir", "foreignTag"}

ASSUME DataAssumption ==
    /\ Junk \notin Bodies
    /\ NoRow \notin Bodies
    /\ NoRow # Junk
    /\ Nobody \notin Procs
    /\ Kinds \subseteq AllKinds
    /\ Faults \subseteq AllFaults
    /\ JunkFrom \subseteq {"push", "merge"}
    /\ PushedNumbers \subseteq {0, 1}
ASSUME BoundAssumption ==
    /\ MaxVersion \in Nat \ {0}
    /\ MaxCalls \in Nat
    /\ MaxFaults \in Nat

VARIABLES
    \* Postgres
    current,    \* templates.current_version
    rows,       \* version -> steps of its template_versions row, or NoRow
    dbTitle,    \* templates.title
    \* the bare repository
    dir,        \* <uuid>.git exists
    main,       \* refs/heads/main, NoRef when absent
    tags,       \* version -> refs/tags/v<version>, NoRef when absent
    \* locks
    guard,      \* holder of repo_guard (process mutex and advisory lock)
    rowLock,    \* holder of the list's row, taken "for update"
    \* one call of each process
    pc,         \* the next step
    req,        \* the request being served
    phase,      \* "ensure" inside ensure_repo_by_id, "work" after it
    saw,        \* current_version as the alignment read it
    have,       \* highest v<n> tag as the alignment read it
    job,        \* git write in hand
    ver,        \* version number this call is writing
    retried,    \* the one retry of a projection is spent
    orphan,     \* the handler is gone, its spawn_blocking closure is not
    reply,      \* how the last call ended
    \* bookkeeping
    acked,      \* versions a client was told of, with their steps
    calls, faults

db     == <<current, rows, dbTitle>>
repo   == <<dir, main, tags>>
locks  == <<guard, rowLock>>
local  == <<req, phase, saw, have, job, ver, retried, orphan>>
budget == <<calls, faults>>
vars   == <<db, repo, locks, pc, local, reply, acked, budget>>

-----------------------------------------------------------------------------
(* Types *)

Versions == 1..MaxVersion
Entry    == [body : Bodies \cup {Junk}, title : Titles, ver : 0..MaxVersion]
Commit   == Seq(Entry)
NoRef    == <<>>

Request ==
    [kind  : AllKinds,
     entry : Entry,          \* the commit the client asks for
     want  : 0..MaxVersion,  \* expected_version, 0 when the client sends none
     base  : Commit]         \* the main a push was made on

SomeEntry == [body |-> Junk, title |-> CHOOSE t \in Titles : TRUE, ver |-> 0]
NoRequest == [kind |-> "read", entry |-> SomeEntry, want |-> 0, base |-> NoRef]

Modes == {"none", "bootstrap", "rebuild", "append", "restore",
          "web", "push", "merge", "project"}
Job ==
    [mode   : Modes,
     todo   : Commit,      \* commits to put on top of parent
     parent : Commit,      \* where main stood when the write began
     tip    : Commit,      \* where it is to go, or the tip being projected
     tags   : Seq([ver : Versions, at : Commit])]   \* tags still to be set
Work(mode, todo) ==
    [mode |-> mode, todo |-> todo, parent |-> NoRef, tip |-> NoRef, tags |-> <<>>]
NoJob == Work("none", <<>>)

Steps == {"idle", "lock", "ensure", "sync", "look", "count", "build", "move",
          "tag", "read", "insert", "meta", "mark", "begin", "commit"}
Replies == {"none", "ok", "unversioned", "conflict", "outOfSync",
            "git", "db", "lost", "gone"}

-----------------------------------------------------------------------------
(* Reading the two stores *)

Tip(c) == c[Len(c)]

\* bundle::max_tag_in
MaxTag == Max({0} \cup {v \in Versions : tags[v] # NoRef})

\* The files of version v as version_files generates them today: the row's
\* steps under the list's current title.
Canonical(v) == [body |-> rows[v], title |-> dbTitle, ver |-> v]

\* A list may predate its first row: current_version is then the column's
\* default, 1, and row 1 never exists.
FirstRow == IF rows[1] = NoRow THEN 2 ELSE 1

\* db::load_bundle_data, versions above v only
StoredAbove(v) ==
    LET low == IF v + 1 < FirstRow THEN FirstRow - 1 ELSE v
    IN  [i \in 1..(current - low) |-> Canonical(low + i)]

\* bundle::tail_commits: the versions already are the last commits of c
InTail(c, todo) == IsSuffix(todo, c)

\* The tags that name the last Len(todo) commits of c.
TagsFor(c, todo) ==
    LET below == Len(c) - Len(todo)
    IN  [i \in 1..Len(todo) |->
            [ver |-> todo[i].ver, at |-> SubSeq(c, 1, below + i)]]

\* version::tag_on_tip, where an unreadable ref counts as being in place
TagOnTip(v) == \/ v \notin Versions
               \/ tags[v] = NoRef
               \/ main = NoRef
               \/ tags[v] = main

\* Mutant: a list.json that does not parse is projected.
Projectable_Any(c) == c # NoRef

\* project_pushed_commit finds steps to project
Projectable(c) == c # NoRef /\ Tip(c).body # Junk

-----------------------------------------------------------------------------
(* Control.  Each operator says all of what happens to pc, the locks, the  *)
(* local state of p and its answer.                                        *)

Goto(p, step) == pc' = [pc EXCEPT ![p] = step]

Freed(p, lock) == IF lock = p THEN Nobody ELSE lock

\* The next step, with everything p knows and holds kept.
Step(p, step) == Goto(p, step) /\ UNCHANGED <<locks, local, reply>>

\* A git write is handed to a blocking thread.
Hand(p, step, write) ==
    /\ Goto(p, step)
    /\ job' = [job EXCEPT ![p] = write]
    /\ UNCHANGED <<locks, req, phase, saw, have, ver, retried, orphan, reply>>

\* The locals of p are dropped.
Forget(p) ==
    /\ req' = [req EXCEPT ![p] = NoRequest]
    /\ phase' = [phase EXCEPT ![p] = "ensure"]
    /\ saw' = [saw EXCEPT ![p] = 0]
    /\ have' = [have EXCEPT ![p] = 0]
    /\ job' = [job EXCEPT ![p] = NoJob]
    /\ ver' = [ver EXCEPT ![p] = 0]
    /\ retried' = [retried EXCEPT ![p] = FALSE]
    /\ orphan' = [orphan EXCEPT ![p] = FALSE]

\* The call ends: its locks and locals are dropped, the client is answered.
Finish(p, answer) ==
    /\ Goto(p, "idle")
    /\ reply' = [reply EXCEPT ![p] = answer]
    /\ guard' = Freed(p, guard)
    /\ rowLock' = Freed(p, rowLock)
    /\ Forget(p)

\* ensure_repo_by_id returns and its guard goes out of scope.
LeaveEnsure(p) ==
    IF req[p].kind = "read"
    THEN Finish(p, "ok")
    ELSE /\ Goto(p, IF req[p].kind = "reproject" THEN "read" ELSE "lock")
         /\ phase' = [phase EXCEPT ![p] = "work"]
         /\ guard' = Freed(p, guard)
         /\ UNCHANGED <<rowLock, req, saw, have, job, ver, retried, orphan, reply>>

\* The alignment ends.  ensure_repo_by_id ignores how, commit_web_version
\* goes on only when the stores agree.
LeaveSync(p, outcome) ==
    IF phase[p] = "ensure" THEN LeaveEnsure(p)
    ELSE IF outcome = "ok" THEN Step(p, "begin") ELSE Finish(p, outcome)

\* The projection in hand is the alignment's, not the call's own.
Aligning(p) == phase[p] = "ensure" \/ req[p].kind = "web"

Fault(kind) == /\ kind \in Faults
               /\ faults < MaxFaults
               /\ faults' = faults + 1
               /\ UNCHANGED calls

NoFault == UNCHANGED budget

-----------------------------------------------------------------------------
(* Initial states: a list as services/list.rs Create leaves it without     *)
(* authored files, known to Postgres only, or one that has no row yet.     *)

Init ==
    /\ current = 1
    /\ \E first \in Bodies \cup {NoRow} :
            rows = [v \in Versions |-> IF v = 1 THEN first ELSE NoRow]
    /\ dbTitle \in Titles
    /\ dir = FALSE
    /\ main = NoRef
    /\ tags = [v \in Versions |-> NoRef]
    /\ guard = Nobody
    /\ rowLock = Nobody
    /\ pc = [p \in Procs |-> "idle"]
    /\ req = [p \in Procs |-> NoRequest]
    /\ phase = [p \in Procs |-> "ensure"]
    /\ saw = [p \in Procs |-> 0]
    /\ have = [p \in Procs |-> 0]
    /\ job = [p \in Procs |-> NoJob]
    /\ ver = [p \in Procs |-> 0]
    /\ retried = [p \in Procs |-> FALSE]
    /\ orphan = [p \in Procs |-> FALSE]
    /\ reply = [p \in Procs |-> "none"]
    /\ acked = [v \in Versions |-> NoRow]
    /\ calls = 0
    /\ faults = 0

-----------------------------------------------------------------------------
(* A call arrives *)

Start(p, kind, entry, want, base) ==
    /\ pc[p] = "idle"
    /\ kind \in Kinds
    /\ Goto(p, "lock")
    /\ req' = [req EXCEPT ![p] = [kind |-> kind, entry |-> entry,
                                  want |-> want, base |-> base]]
    /\ reply' = [reply EXCEPT ![p] = "none"]
    /\ UNCHANGED <<db, repo, locks, phase, saw, have, job, ver, retried, orphan,
                   acked, faults>>

\* What a call may bring to main.
Brought(kind) == Bodies \cup {b \in {Junk} : kind \in JunkFrom}

Writing == calls < MaxCalls /\ calls' = calls + 1

\* ListWrite.AddVersion: an edit, made by a client that read the current
\* version and may or may not say so (expected_version, 0 when unset).
StartWeb(p) ==
    \E body \in Bodies, title \in Titles, want \in {0, current} :
        /\ Writing
        /\ Start(p, "web", [body |-> body, title |-> title, ver |-> 0], want, NoRef)

\* GitCore.ReceivePack: one commit on top of the main the client fetched.
StartPush(p) ==
    \E body \in Brought("push"), title \in Titles, n \in PushedNumbers :
        /\ Writing
        /\ current + n <= MaxVersion
        /\ Start(p, "push",
                 [body |-> body, title |-> title,
                  ver |-> IF n = 0 THEN 0 ELSE current + n],
                 0, main)

\* GitCore.MergeBranch: a branch whose merge gives these files.
StartMerge(p) ==
    \E body \in Brought("merge"), title \in Titles :
        /\ Writing
        /\ Start(p, "merge", [body |-> body, title |-> title, ver |-> 0], 0, NoRef)

\* Any reader: every read RPC enters through ensure_repo.
StartRead(p) ==
    Start(p, "read", SomeEntry, 0, NoRef) /\ UNCHANGED calls

\* The operator's reproject command.
StartReproject(p) ==
    Writing /\ Start(p, "reproject", SomeEntry, 0, NoRef)

\* repo::repo_guard
TakeGuard(p) ==
    /\ pc[p] = "lock"
    /\ guard = Nobody
    /\ guard' = p
    /\ IF phase[p] = "ensure" THEN Goto(p, "ensure") /\ UNCHANGED job
       ELSE IF req[p].kind = "web" THEN Goto(p, "sync") /\ UNCHANGED job
       ELSE /\ Goto(p, "build")
            /\ job' = [job EXCEPT ![p] = Work(req[p].kind, <<req[p].entry>>)]
    /\ UNCHANGED <<db, repo, rowLock, req, phase, saw, have, ver, retried, orphan,
                   reply, acked, budget>>

-----------------------------------------------------------------------------
(* repo::ensure_repo_by_id *)

\* No directory: the whole history is built from Postgres, or an empty
\* repository when the list has no row yet.
EnsureMissing(p) ==
    /\ pc[p] = "ensure" /\ ~dir
    /\ dir' = TRUE
    /\ IF StoredAbove(0) = <<>> THEN LeaveEnsure(p)
       ELSE Hand(p, "build", Work("bootstrap", StoredAbove(0)))
    /\ NoFault
    /\ UNCHANGED <<db, main, tags, acked>>

\* Mutant: a repository that exists is not aligned.
EnsurePresent_NoSync(p) ==
    pc[p] = "ensure" /\ dir /\ LeaveEnsure(p) /\ NoFault /\ UNCHANGED <<db, repo, acked>>

EnsurePresent(p) ==
    /\ pc[p] = "ensure" /\ dir
    /\ Step(p, "sync")
    /\ NoFault
    /\ UNCHANGED <<db, repo, acked>>

-----------------------------------------------------------------------------
(* version::sync_repo_with_db, under the guard *)

Rebuild(p) == Hand(p, "build", Work("rebuild", StoredAbove(0)))

\* current_version is read; a directory that is gone is built from Postgres.
ReadCurrent(p) ==
    /\ pc[p] = "sync"
    /\ IF dir
       THEN /\ saw' = [saw EXCEPT ![p] = current]
            /\ Goto(p, "look")
            /\ UNCHANGED <<dir, locks, req, phase, have, job, ver, retried, orphan, reply>>
       ELSE IF StoredAbove(0) = <<>>
            THEN LeaveSync(p, "ok") /\ UNCHANGED dir
            ELSE Rebuild(p) /\ dir' = TRUE
    /\ NoFault
    /\ UNCHANGED <<db, main, tags, acked>>

\* bundle::refs_state
LookAtRefs(p) ==
    /\ pc[p] = "look" /\ main # NoRef
    /\ have' = [have EXCEPT ![p] = MaxTag]
    /\ Goto(p, "count")
    /\ NoFault
    /\ UNCHANGED <<db, repo, locks, req, phase, saw, job, ver, retried, orphan, reply, acked>>

\* Mutant: the highest tag is taken, whoever set it.
FindMainMissing_Highest(p) ==
    /\ pc[p] = "look" /\ main = NoRef /\ MaxTag > 0
    /\ Goto(p, "move")
    /\ job' = [job EXCEPT ![p] = [NoJob EXCEPT !.mode = "restore", !.tip = tags[MaxTag]]]
    /\ have' = [have EXCEPT ![p] = MaxTag]
    /\ NoFault
    /\ UNCHANGED <<locks, req, phase, saw, ver, retried, orphan, reply, db, repo, acked>>

\* Mutant: a missing main is always rebuilt from Postgres.
FindMainMissing_Rebuilt(p) ==
    /\ pc[p] = "look" /\ main = NoRef
    /\ IF StoredAbove(0) # <<>> THEN Rebuild(p) ELSE LeaveSync(p, "ok")
    /\ NoFault
    /\ UNCHANGED <<db, repo, acked>>

\* main is missing: back to the tag of the version Postgres knows, never to
\* a higher one; from Postgres when there is no version tag at all.
FindMainMissing(p) ==
    /\ pc[p] = "look" /\ main = NoRef
    /\ LET restored == IF MaxTag < saw[p] THEN MaxTag ELSE saw[p]
       IN  IF restored > 0 /\ tags[restored] # NoRef
           THEN /\ Goto(p, "move")
                /\ job' = [job EXCEPT ![p] =
                              [NoJob EXCEPT !.mode = "restore", !.tip = tags[restored]]]
                /\ have' = [have EXCEPT ![p] = MaxTag]
                /\ UNCHANGED <<locks, req, phase, saw, ver, retried, orphan, reply>>
           ELSE IF MaxTag = 0 /\ StoredAbove(0) # <<>>
           THEN Rebuild(p)
           ELSE /\ Goto(p, "count")
                /\ have' = [have EXCEPT ![p] = MaxTag]
                /\ UNCHANGED <<locks, req, phase, saw, job, ver, retried, orphan, reply>>
    /\ NoFault
    /\ UNCHANGED <<db, repo, acked>>

\* Mutant: equal counters are taken for agreement.
CountEqual_Blind(p) ==
    /\ pc[p] = "count" /\ have[p] = saw[p]
    /\ LeaveSync(p, "ok")
    /\ NoFault
    /\ UNCHANGED <<db, repo, acked>>

\* align_by_counters, have = current: main may still be ahead of its tag.
CountEqual(p) ==
    /\ pc[p] = "count" /\ have[p] = saw[p]
    /\ IF saw[p] > 0 /\ ~TagOnTip(saw[p])
       THEN Step(p, "read")
       ELSE LeaveSync(p, "ok")
    /\ NoFault
    /\ UNCHANGED <<db, repo, acked>>

\* align_by_counters, have < current: the versions git lacks are appended.
CountBehind(p) ==
    /\ pc[p] = "count" /\ have[p] < saw[p]
    /\ IF StoredAbove(have[p]) # <<>>
       THEN Hand(p, "build", Work("append", StoredAbove(have[p])))
       ELSE LeaveSync(p, IF have[p] = 0 /\ main = NoRef THEN "ok" ELSE "outOfSync")
    /\ NoFault
    /\ UNCHANGED <<db, repo, acked>>

\* align_by_counters, have > current: the tail of an interrupted write, or a
\* tag that names no version.
CountAhead(p) ==
    /\ pc[p] = "count" /\ have[p] > saw[p]
    /\ IF have[p] = saw[p] + 1 /\ TagOnTip(have[p])
       THEN Step(p, "read")
       ELSE LeaveSync(p, "outOfSync")
    /\ NoFault
    /\ UNCHANGED <<db, repo, acked>>

\* Any query or blocking read of the alignment fails.
SyncFails(p) ==
    /\ pc[p] \in {"sync", "look", "count"}
    /\ Fault("db")
    /\ LeaveSync(p, "db")
    /\ UNCHANGED <<db, repo, acked>>

-----------------------------------------------------------------------------
(* Git writes, on a blocking thread that outlives its handler *)

\* The closure of a handler that is gone just ends; otherwise its result is
\* awaited and the call goes on.
JobDone(p) ==
    IF orphan[p] THEN Finish(p, reply[p])
    ELSE CASE job[p].mode = "bootstrap"           -> LeaveEnsure(p)
           [] job[p].mode \in {"rebuild", "append"} -> LeaveSync(p, "ok")
           [] job[p].mode = "restore"             -> Step(p, "count")
           [] job[p].mode = "web"                 -> Step(p, "commit")
           [] job[p].mode \in {"push", "merge"}   -> Step(p, "read")

JobFailed(p) ==
    IF orphan[p] THEN Finish(p, reply[p])
    ELSE IF job[p].mode \in {"rebuild", "append", "restore"}
         THEN LeaveSync(p, "db")
         ELSE Finish(p, "git")

\* The commits are made: build_history up to update_main, the tail check of
\* append_missing_versions, the pack of a push, the merge commit.
BuildCommits(p) ==
    /\ pc[p] = "build"
    /\ LET mode == job[p].mode
           todo == job[p].todo
           base == CASE mode \in {"bootstrap", "rebuild"} -> NoRef
                     [] mode = "push"                     -> req[p].base
                     [] OTHER                             -> main
       IN  IF mode = "merge" /\ main = NoRef THEN JobFailed(p)
           ELSE IF mode = "append" /\ InTail(main, todo)
           THEN Hand(p, "tag", [job[p] EXCEPT !.tags = TagsFor(main, todo)])
           ELSE Hand(p, "move",
                     [job[p] EXCEPT
                        !.parent = IF mode = "push" THEN main ELSE base,
                        !.tip    = base \o todo,
                        !.tags   = IF mode \in {"push", "merge"} THEN <<>>
                                   ELSE TagsFor(base \o todo, todo)])
    /\ NoFault
    /\ UNCHANGED <<db, repo, acked>>

\* Where main has to stand for the write to be taken: where the writer read
\* it, or, for a push, where the client says it was.
Expected(p) == IF job[p].mode = "push" THEN req[p].base ELSE job[p].parent

\* Mutant: main is set without comparing.
MoveMain_Forced(p) ==
    /\ pc[p] = "move"
    /\ main' = job[p].tip
    /\ Step(p, "tag")
    /\ NoFault
    /\ UNCHANGED <<db, dir, tags, acked>>

\* update::update_main and git receive-pack: compare and set.
MoveMain(p) ==
    /\ pc[p] = "move" /\ main = Expected(p)
    /\ main' = job[p].tip
    /\ Step(p, "tag")
    /\ NoFault
    /\ UNCHANGED <<db, dir, tags, acked>>

\* The write is refused.  A push is answered all the same, and projected if
\* main is not where it was before the pack.
MoveRefused(p) ==
    /\ pc[p] = "move" /\ main # Expected(p)
    /\ IF job[p].mode = "push" /\ ~orphan[p]
       THEN IF main \in {NoRef, job[p].parent}
            THEN Finish(p, "unversioned") ELSE Step(p, "read")
       ELSE JobFailed(p)
    /\ NoFault
    /\ UNCHANGED <<db, repo, acked>>

\* One forced lightweight tag after another.
SetTag(p) ==
    /\ pc[p] = "tag" /\ job[p].tags # <<>>
    /\ LET next == Head(job[p].tags)
       IN  tags' = [tags EXCEPT ![next.ver] = next.at]
    /\ Hand(p, "tag", [job[p] EXCEPT !.tags = Tail(job[p].tags)])
    /\ NoFault
    /\ UNCHANGED <<db, dir, main, acked>>

WriteDone(p) ==
    /\ pc[p] = "tag" /\ job[p].tags = <<>>
    /\ JobDone(p)
    /\ NoFault
    /\ UNCHANGED <<db, repo, acked>>

\* git2, the disk or receive-pack fails before main moves ...
GitFails(p) ==
    /\ pc[p] \in {"build", "move"}
    /\ Fault("git")
    /\ JobFailed(p)
    /\ UNCHANGED <<db, repo, acked>>

\* ... or after it: at a tag, or at take_magic_pushes for a push.
TagFails(p) ==
    /\ pc[p] = "tag"
    /\ job[p].tags # <<>> \/ job[p].mode = "push"
    /\ Fault("tag")
    /\ JobFailed(p)
    /\ UNCHANGED <<db, repo, acked>>

-----------------------------------------------------------------------------
(* project::project_pushed_commit, from the alignment, from a push or a    *)
(* merge (project_main_or_log, one retry) or from reproject (no guard)     *)

\* A version was made of the tip.
Projected(p) ==
    IF Aligning(p) THEN LeaveSync(p, "ok") ELSE Finish(p, "ok")

\* Mutant: an empty projection is retried until it gives a version.
NothingToProject_Insists(p) == Step(p, "read")

NothingToProject(p) ==
    IF Aligning(p)
    THEN LeaveSync(p, IF have[p] = saw[p] THEN "ok" ELSE "outOfSync")
    ELSE Finish(p, "unversioned")

ProjectionFailed(p) ==
    IF Aligning(p) THEN LeaveSync(p, "db")
    ELSE IF req[p].kind = "reproject" THEN Finish(p, "db")
    ELSE IF retried[p] THEN Finish(p, "unversioned")
    ELSE /\ Goto(p, "read")
         /\ retried' = [retried EXCEPT ![p] = TRUE]
         /\ UNCHANGED <<locks, req, phase, saw, have, job, ver, orphan, reply>>

\* read_tip
ReadTip(p) ==
    /\ pc[p] = "read"
    /\ IF Projectable(main)
       THEN Hand(p, "insert", [NoJob EXCEPT !.mode = "project", !.tip = main])
       ELSE NothingToProject(p)
    /\ NoFault
    /\ UNCHANGED <<db, repo, acked>>

\* Mutant: the bump of current_version is forgotten.
NewRow_NoBump(body) ==
    rows' = [rows EXCEPT ![current + 1] = body] /\ UNCHANGED current

NewRow(body) ==
    /\ rows' = [rows EXCEPT ![current + 1] = body]
    /\ current' = current + 1

\* Mutant: the number returned is the one before the bump.
InsertVersion_OldNumber(p) ==
    /\ pc[p] = "insert" /\ rowLock = Nobody /\ current < MaxVersion
    /\ NewRow(Tip(job[p].tip).body)
    /\ ver' = [ver EXCEPT ![p] = current]
    /\ Goto(p, "meta")
    /\ NoFault
    /\ UNCHANGED <<dbTitle, repo, locks, req, phase, saw, have, job, retried, orphan,
                   reply, acked>>

\* add_version_rows: number, row, steps and current_version in one
\* transaction that waits for the row lock.
InsertVersion(p) ==
    /\ pc[p] = "insert" /\ rowLock = Nobody /\ current < MaxVersion
    /\ NewRow(Tip(job[p].tip).body)
    /\ ver' = [ver EXCEPT ![p] = current + 1]
    /\ Goto(p, "meta")
    /\ NoFault
    /\ UNCHANGED <<dbTitle, repo, locks, req, phase, saw, have, job, retried, orphan,
                   reply, acked>>

InsertFails(p) ==
    /\ pc[p] = "insert"
    /\ Fault("db")
    /\ ProjectionFailed(p)
    /\ UNCHANGED <<db, repo, acked>>

\* The transaction commits and the answer to COMMIT is lost.
InsertUnanswered(p) ==
    /\ pc[p] = "insert" /\ rowLock = Nobody /\ current < MaxVersion
    /\ Fault("ack")
    /\ NewRow(Tip(job[p].tip).body)
    /\ ProjectionFailed(p)
    /\ UNCHANGED <<dbTitle, repo, acked>>

\* Mutant: the pushed title is not stored.
UpdateMeta_Dropped(p) ==
    pc[p] = "meta" /\ Step(p, "mark") /\ NoFault /\ UNCHANGED <<db, repo, acked>>

\* db::update_meta; a failure is logged and nothing else.
UpdateMeta(p) ==
    /\ pc[p] = "meta"
    /\ \/ /\ rowLock = Nobody
          /\ dbTitle' = Tip(job[p].tip).title
          /\ NoFault
       \/ /\ Fault("db")
          /\ UNCHANGED dbTitle
    /\ Step(p, "mark")
    /\ UNCHANGED <<current, rows, repo, acked>>

\* tag_version and the end of the projection.  The client of a push or a
\* merge learns the number; a failed tag is logged and nothing else.
TagVersion(p) ==
    /\ pc[p] = "mark"
    /\ \/ /\ tags' = [tags EXCEPT ![ver[p]] = job[p].tip]
          /\ NoFault
       \/ /\ Fault("tag")
          /\ UNCHANGED tags
    /\ IF orphan[p] THEN Finish(p, reply[p]) /\ UNCHANGED acked
       ELSE /\ Projected(p)
            /\ acked' = IF Aligning(p) THEN acked
                        ELSE [acked EXCEPT ![ver[p]] = Tip(job[p].tip).body]
    /\ UNCHANGED <<db, dir, main>>

-----------------------------------------------------------------------------
(* version::commit_web_version after its precondition *)

\* Mutant: expected_version is not compared.
BeginWeb_Unchecked(p) ==
    /\ pc[p] = "begin" /\ rowLock = Nobody /\ current < MaxVersion
    /\ rowLock' = p
    /\ ver' = [ver EXCEPT ![p] = current + 1]
    /\ job' = [job EXCEPT ![p] =
                  Work("web", <<[req[p].entry EXCEPT !.ver = current + 1]>>)]
    /\ Goto(p, "build")
    /\ NoFault
    /\ UNCHANGED <<guard, req, phase, saw, have, retried, orphan, reply,
                   db, repo, acked>>

\* Mutant: the rows are written before the commit.
BeginWeb_RowsFirst(p) ==
    /\ pc[p] = "begin" /\ rowLock = Nobody /\ current < MaxVersion
    /\ rowLock' = p
    /\ ver' = [ver EXCEPT ![p] = current + 1]
    /\ Goto(p, "commit")
    /\ NoFault
    /\ UNCHANGED <<guard, req, phase, saw, have, job, retried, orphan, reply,
                   db, repo, acked>>

\* Mutant: the list's row is read without "for update".
BeginWeb_NoRowLock(p) ==
    /\ pc[p] = "begin" /\ current < MaxVersion
    /\ req[p].want \in {0, current}
    /\ ver' = [ver EXCEPT ![p] = current + 1]
    /\ job' = [job EXCEPT ![p] =
                  Work("web", <<[req[p].entry EXCEPT !.ver = current + 1]>>)]
    /\ Goto(p, "build")
    /\ NoFault
    /\ UNCHANGED <<locks, req, phase, saw, have, retried, orphan, reply,
                   db, repo, acked>>

\* The row is locked, the expected version compared, the number taken.
BeginWeb(p) ==
    /\ pc[p] = "begin" /\ rowLock = Nobody
    /\ IF req[p].want \notin {0, current}
       THEN Finish(p, "conflict")
       ELSE /\ current < MaxVersion
            /\ rowLock' = p
            /\ ver' = [ver EXCEPT ![p] = current + 1]
            /\ job' = [job EXCEPT ![p] =
                          Work("web", <<[req[p].entry EXCEPT !.ver = current + 1]>>)]
            /\ Goto(p, "build")
            /\ UNCHANGED <<guard, req, phase, saw, have, retried, orphan, reply>>
    /\ NoFault
    /\ UNCHANGED <<db, repo, acked>>

BeginFails(p) ==
    /\ pc[p] = "begin"
    /\ Fault("db")
    /\ Finish(p, "db")
    /\ UNCHANGED <<db, repo, acked>>

NewVersion(p) ==
    /\ rows' = [rows EXCEPT ![ver[p]] = req[p].entry.body]
    /\ current' = ver[p]
    /\ dbTitle' = req[p].entry.title

\* Steps, current_version, COMMIT.
CommitWeb(p) ==
    /\ pc[p] = "commit"
    /\ NewVersion(p)
    /\ acked' = [acked EXCEPT ![ver[p]] = req[p].entry.body]
    /\ Finish(p, "ok")
    /\ NoFault
    /\ UNCHANGED repo

\* ProjectionLost: the commit is in git, the rows are not; or they are, and
\* the answer to COMMIT was lost.
CommitFails(p) ==
    /\ pc[p] = "commit"
    /\ \/ Fault("db") /\ UNCHANGED db
       \/ Fault("ack") /\ NewVersion(p)
    /\ Finish(p, "lost")
    /\ UNCHANGED <<repo, acked>>

-----------------------------------------------------------------------------
(* Faults *)

\* A core instance dies with the requests it serves: Postgres drops their
\* locks and transactions.
Crash ==
    \E gone \in SUBSET {p \in Procs : pc[p] # "idle"} :
        /\ gone # {}
        /\ Fault("crash")
        /\ guard' = IF guard \in gone THEN Nobody ELSE guard
        /\ rowLock' = IF rowLock \in gone THEN Nobody ELSE rowLock
        /\ pc' = [p \in Procs |-> IF p \in gone THEN "idle" ELSE pc[p]]
        /\ reply' = [p \in Procs |-> IF p \in gone THEN "gone" ELSE reply[p]]
        /\ req' = [p \in Procs |-> IF p \in gone THEN NoRequest ELSE req[p]]
        /\ phase' = [p \in Procs |-> IF p \in gone THEN "ensure" ELSE phase[p]]
        /\ saw' = [p \in Procs |-> IF p \in gone THEN 0 ELSE saw[p]]
        /\ have' = [p \in Procs |-> IF p \in gone THEN 0 ELSE have[p]]
        /\ job' = [p \in Procs |-> IF p \in gone THEN NoJob ELSE job[p]]
        /\ ver' = [p \in Procs |-> IF p \in gone THEN 0 ELSE ver[p]]
        /\ retried' = [p \in Procs |-> IF p \in gone THEN FALSE ELSE retried[p]]
        /\ orphan' = [p \in Procs |-> IF p \in gone THEN FALSE ELSE orphan[p]]
        /\ UNCHANGED <<db, repo, acked>>

\* The client hangs up or its deadline passes: the handler is dropped where
\* it waits.  A closure already given to spawn_blocking runs on without the
\* guard and without the transaction.
Blocking == {"build", "move", "tag", "mark"}

Cancel(p) ==
    /\ pc[p] # "idle" /\ ~orphan[p] /\ req[p].kind # "reproject"
    /\ Fault("cancel")
    /\ IF pc[p] \in Blocking
       THEN /\ orphan' = [orphan EXCEPT ![p] = TRUE]
            /\ reply' = [reply EXCEPT ![p] = "gone"]
            /\ guard' = Freed(p, guard)
            /\ rowLock' = Freed(p, rowLock)
            /\ UNCHANGED <<pc, req, phase, saw, have, job, ver, retried>>
       ELSE Finish(p, "gone")
    /\ UNCHANGED <<db, repo, acked>>

\* The volume is damaged, partly restored, or carries a v<n> tag set by
\* hand before the name was reserved.  It happens between calls.
Quiet == \A p \in Procs : pc[p] = "idle"

LoseMain == /\ main # NoRef /\ Fault("loseMain")
            /\ main' = NoRef
            /\ UNCHANGED <<dir, tags>>

LoseTag == \E v \in Versions :
            /\ tags[v] # NoRef /\ Fault("loseTag")
            /\ tags' = [tags EXCEPT ![v] = NoRef]
            /\ UNCHANGED <<dir, main>>

LoseDir == /\ dir /\ Fault("loseDir")
           /\ dir' = FALSE
           /\ main' = NoRef
           /\ tags' = [v \in Versions |-> NoRef]

ForeignTag == \E v \in Versions, n \in 1..Len(main) :
            /\ v > current /\ tags[v] = NoRef /\ Fault("foreignTag")
            /\ tags' = [tags EXCEPT ![v] = SubSeq(main, 1, n)]
            /\ UNCHANGED <<dir, main>>

Damage ==
    /\ Quiet
    /\ LoseMain \/ LoseTag \/ LoseDir \/ ForeignTag
    /\ UNCHANGED <<db, locks, pc, local, reply, acked>>

-----------------------------------------------------------------------------
(* The specification *)

Arrive(p) == StartWeb(p) \/ StartPush(p) \/ StartMerge(p) \/ StartRead(p)
             \/ StartReproject(p)

Ensure(p)  == EnsureMissing(p) \/ EnsurePresent(p)
Align(p)   == ReadCurrent(p) \/ LookAtRefs(p) \/ FindMainMissing(p)
              \/ CountEqual(p) \/ CountBehind(p) \/ CountAhead(p) \/ SyncFails(p)
GitWrite(p) == BuildCommits(p) \/ MoveMain(p) \/ MoveRefused(p) \/ SetTag(p) \/ WriteDone(p)
               \/ GitFails(p) \/ TagFails(p)
Project(p) == ReadTip(p) \/ InsertVersion(p) \/ InsertFails(p)
              \/ InsertUnanswered(p) \/ UpdateMeta(p) \/ TagVersion(p)
WebTail(p) == BeginWeb(p) \/ BeginFails(p) \/ CommitWeb(p) \/ CommitFails(p)

\* A call under way takes its next step.
Proceed(p) == Ensure(p) \/ Align(p) \/ GitWrite(p) \/ Project(p) \/ WebTail(p)

Next ==
    \/ \E p \in Procs : Arrive(p) \/ TakeGuard(p) \/ Proceed(p) \/ Cancel(p)
    \/ Crash
    \/ Damage

Spec == Init /\ [][Next]_vars

\* Threads and connections make progress; the guard is a fair tokio mutex
\* over an advisory lock Postgres grants in order of arrival.
Fairness == \A p \in Procs : WF_vars(Proceed(p)) /\ SF_vars(TakeGuard(p))

FairSpec == Spec /\ Fairness

-----------------------------------------------------------------------------
(* Properties *)

\* The type invariant: the two stores with the bookkeeping, and the calls.
StoreType ==
    /\ current \in Versions
    /\ rows \in [Versions -> Bodies \cup {NoRow}]
    /\ dbTitle \in Titles
    /\ dir \in BOOLEAN
    /\ main \in Commit
    /\ tags \in [Versions -> Commit]
    /\ acked \in [Versions -> Bodies \cup {NoRow}]
    /\ calls \in 0..MaxCalls
    /\ faults \in 0..MaxFaults

CallType ==
    /\ guard \in Procs \cup {Nobody}
    /\ rowLock \in Procs \cup {Nobody}
    /\ pc \in [Procs -> Steps]
    /\ req \in [Procs -> Request]
    /\ phase \in [Procs -> {"ensure", "work"}]
    /\ saw \in [Procs -> 0..MaxVersion]
    /\ have \in [Procs -> 0..MaxVersion]
    /\ job \in [Procs -> Job]
    /\ ver \in [Procs -> 0..MaxVersion]
    /\ retried \in [Procs -> BOOLEAN]
    /\ orphan \in [Procs -> BOOLEAN]
    /\ reply \in [Procs -> Replies]

TypeOK == StoreType /\ CallType

\* A version that exists is never rewritten or renumbered, and numbers only
\* grow, whoever writes: the web edit's open transaction, a projection, an
\* unguarded reproject.
VersionsImmutable ==
    [][/\ current <= current'
       /\ \A v \in Versions : rows[v] # NoRow => rows'[v] = rows[v]]_<<current, rows>>

\* The numbers of a list's versions have no gap and end at current_version.
HistoryHasNoGaps ==
    \A v \in Versions : rows[v] # NoRow <=> FirstRow <= v /\ v <= current

\* No write throws away a commit of main: not a write that lost its guard,
\* not a heal, not two writers that read the same tip.
MainOnlyGrows == [][main' # NoRef => IsPrefix(main, main')]_main

\* An edit that names the version it was made on is committed only on top of
\* that version, whatever was projected since it was checked.
EditLandsOnItsBase ==
    [][\A p \in Procs :
          pc[p] = "commit" /\ current' # current /\ req[p].kind = "web"
          /\ pc'[p] = "idle" =>
             req[p].want \in {0, current}]_<<current, pc>>

Unguarded(q) == orphan[q] \/ (pc[q] # "idle" /\ req[q].kind = "reproject")

\* The precondition of a web edit does its job: when the transaction begins,
\* main stands on the tag of the current version, unless its tip cannot be
\* projected, so that the new version leaves no accepted push unversioned.
EditStartsAligned ==
    \A p \in Procs :
        pc[p] = "begin" /\ (\A q \in Procs : ~Unguarded(q)) =>
            TagOnTip(current) \/ ~Projectable(main)

\* At rest and with no failure behind, Postgres shows the tip of main: its
\* steps as the current version, its title, its tag.  A tip that cannot be
\* projected is the one exception.
ReadModelMatchesCanon ==
    Quiet /\ Projectable(main) =>
        /\ MaxTag = current
        /\ tags[current] = main
        /\ rows[current] = Tip(main).body
        /\ dbTitle = Tip(main).title

\* A main that was lost comes back on a version of ours or is built from
\* Postgres; never on a tag above current_version, which may name anything.
RestoredMainIsOwn ==
    [][\A p \in Procs :
          pc[p] = "move" /\ job[p].mode = "restore" /\ main' # main =>
             \E v \in 1..current : tags[v] = main']_main

\* At rest, the commit a version tag names carries the steps Postgres has
\* for that version.
TagNamesItsRow ==
    Quiet => \A v \in Versions :
        v <= current /\ tags[v] # NoRef /\ rows[v] # NoRow =>
            Tip(tags[v]).body = rows[v]

\* At rest, the tags of the versions Postgres knows stand on main in the
\* order of their numbers.
TagsInOrder ==
    Quiet => \A w \in 1..current : tags[w] # NoRef =>
        /\ main # NoRef => IsPrefix(tags[w], main)
        /\ \A v \in 1..w : IsPrefix(tags[v], tags[w])

\* A version tag that is set keeps naming the same commit: no heal, edit or
\* projection moves it to another one.
TagsNeverMove ==
    [][\A v \in Versions :
          tags[v] # NoRef => tags'[v] \in {tags[v], NoRef}]_tags

\* At rest, the next touch can mend what a failure left: no tag stands above
\* the current version except on an unprojected tip of main.
HealableAtRest ==
    Quiet => \/ MaxTag <= current
             \/ MaxTag = current + 1 /\ tags[MaxTag] = main /\ Projectable(main)

\* What a client was told was saved is what Postgres serves, and, at rest,
\* is in the history of main.
AckedIsKept ==
    \A v \in Versions : acked[v] # NoRow =>
        /\ rows[v] = acked[v]
        /\ Quiet /\ main # NoRef => \E n \in 1..Len(main) : main[n].body = acked[v]

\* Every call is answered: no lock is kept for ever and nobody waits in a
\* circle for the guard and the row lock.
EveryCallReturns ==
    \A p \in Procs : pc[p] # "idle" ~> pc[p] = "idle"

Settled ==
    /\ MaxTag = current
    /\ tags[current] = main
    /\ rows[current] = Tip(main).body

\* A projectable tip of main becomes a version, if the list is ever read
\* again once failures stop.  A list whose very first version was lost is
\* the exception: sync reports it as a conflict, for an operator.
TipBecomesVersion ==
    Projectable(main) /\ rows[current] # NoRow ~> Settled \/ ~Projectable(main)

-----------------------------------------------------------------------------
(* The abstract specification that the runs with an intact volume implement *)

Log == INSTANCE CanonLog WITH
    Contents <- Bodies \cup {Junk},
    canon    <- [n \in 1..Len(main) |-> main[n].body],
    log      <- [n \in 1..(current - FirstRow + 1) |-> rows[FirstRow + n - 1]]

\* Refinement: every step of the code is a step of CanonLog or leaves canon
\* and log alone.
ImplementsCanonLog == Log!Spec
=============================================================================
