----------------------------- MODULE ListBirth -----------------------------
(***************************************************************************)
(* The birth and the end of a list's repository: Create with and without   *)
(* the author's files (src/services/list.rs), the rebuild of a missing     *)
(* directory from Postgres (src/git/repo.rs) and the operator's gc-repos   *)
(* (src/cli.rs), which compares the volume with the database and runs      *)
(* beside the service, without the repository's guard.                     *)
(*                                                                         *)
(* A directory holds "rows" (what Postgres can give back), "files" (the    *)
(* author's files of version 1) and "push" (what was pushed later); the    *)
(* last two exist nowhere else.  Definitions carry the component's name    *)
(* because MCServices checks several components side by side.              *)
(***************************************************************************)
EXTENDS Integers, FiniteSets

CONSTANTS
    Lists,        \* identifiers of lists, each created at most once (a fresh uuid)
    BirthFaults,  \* the faults a run explores
    MaxBirthFaults, MaxSweeps

ASSUME BirthAssumption ==
    /\ BirthFaults \subseteq {"git", "commit", "ack", "crash", "cancel"}
    /\ MaxBirthFaults \in Nat /\ MaxSweeps \in Nat

VARIABLES
    row,        \* the list in Postgres, "open" in a transaction not committed yet
    dir,        \* what its directory holds; NoDir when there is none
    birth,      \* the handler of Create
    answer,     \* what its client was told
    guarded,    \* repo_guard is held
    sweep,      \* gc-repos: its step, the ids it read, the directories to judge,
                \* and those that belong to nobody for good
    owed,       \* contents a client was promised, and no fault took back
    raced,      \* births that were open while a sweep looked at their directory
    bfaults, sweeps

birthVars == <<row, dir, birth, answer, guarded, sweep, owed, raced, bfaults, sweeps>>

NoDir    == {"none"}

NoSweep  == [at |-> "off", live |-> {}, todo |-> {}, next |-> {}, due |-> {}]

BirthInit ==
    /\ row = [l \in Lists |-> "none"]
    /\ dir = [l \in Lists |-> NoDir]
    /\ birth = [l \in Lists |-> "new"]
    /\ answer = [l \in Lists |-> "none"]
    /\ guarded = [l \in Lists |-> FALSE]
    /\ sweep = NoSweep
    /\ owed = [l \in Lists |-> {}]
    /\ raced = {}
    /\ bfaults = 0 /\ sweeps = 0

Fails(f) == f \in BirthFaults /\ bfaults < MaxBirthFaults /\ bfaults' = bfaults + 1

-----------------------------------------------------------------------------
(* Create *)

\* Without files: one transaction, and the repository comes with the first touch.
CreatePlain(l) ==
    /\ birth[l] = "new"
    /\ birth' = [birth EXCEPT ![l] = "over"]
    /\ row' = [row EXCEPT ![l] = "there"]
    /\ answer' = [answer EXCEPT ![l] = "ok"]
    /\ UNCHANGED <<dir, guarded, sweep, owed, raced, bfaults, sweeps>>

\* With files: the guard first, then the transaction.
TakeBirthGuard(l) ==
    /\ birth[l] = "new" /\ ~guarded[l]
    /\ guarded' = [guarded EXCEPT ![l] = TRUE]
    /\ birth' = [birth EXCEPT ![l] = "guard"]
    /\ UNCHANGED <<row, dir, answer, sweep, owed, raced, bfaults, sweeps>>
InsertRow(l) ==
    /\ birth[l] = "guard"
    /\ row' = [row EXCEPT ![l] = "open"]
    /\ birth' = [birth EXCEPT ![l] = "git"]
    /\ UNCHANGED <<dir, answer, guarded, sweep, owed, raced, bfaults, sweeps>>
InitWithVersion(l) ==
    /\ birth[l] = "git"
    /\ dir' = [dir EXCEPT ![l] = {"rows", "files"}]
    /\ birth' = [birth EXCEPT ![l] = "fixate"]
    /\ UNCHANGED <<row, answer, guarded, sweep, owed, raced, bfaults, sweeps>>

Over(l, r, a) ==
    /\ birth' = [birth EXCEPT ![l] = "over"]
    /\ row' = [row EXCEPT ![l] = r]
    /\ answer' = [answer EXCEPT ![l] = a]
    /\ guarded' = [guarded EXCEPT ![l] = FALSE]
    /\ UNCHANGED <<sweep, raced, sweeps>>

\* A failure of git rolls the transaction back and removes what it has written.
InitFails(l) ==
    /\ birth[l] = "git" /\ Fails("git")
    /\ dir' = [dir EXCEPT ![l] = NoDir]
    /\ Over(l, "none", "failed")
    /\ UNCHANGED owed

Fixate(l) ==
    /\ birth[l] = "fixate"
    /\ owed' = [owed EXCEPT ![l] = {"files"}]
    /\ Over(l, "there", "ok")
    /\ UNCHANGED <<dir, bfaults>>
\* The database refuses COMMIT; the directory is left for gc-repos.
FixateFails(l) ==
    /\ birth[l] = "fixate" /\ Fails("commit")
    /\ Over(l, "none", "unknown")
    /\ UNCHANGED <<dir, owed>>
\* COMMIT takes effect and its answer is lost: the handler cannot tell, and
\* leaves the directory.
FixateUnanswered(l) ==
    /\ birth[l] = "fixate" /\ Fails("ack")
    /\ owed' = [owed EXCEPT ![l] = {"files"}]
    /\ Over(l, "there", "unknown")
    /\ UNCHANGED dir

\* The process dies, or the handler is dropped: the transaction is rolled back.
\* A closure that was writing goes on after a drop; nobody waits for its end.
BirthCut(l) ==
    /\ birth[l] \in {"guard", "git", "fixate"}
    /\ \/ Fails("crash") /\ UNCHANGED dir
       \/ Fails("cancel") /\ dir' = [dir EXCEPT ![l] = IF birth[l] = "git" THEN {"rows", "files"}
                                                      ELSE dir[l]]
    /\ Over(l, "none", "unknown")
    /\ UNCHANGED owed

-----------------------------------------------------------------------------
(* The list's life *)

\* ensure_repo_by_id on a list without a directory: everything from Postgres.
Rebuild(l) ==
    /\ row[l] = "there" /\ ~guarded[l] /\ dir[l] = NoDir
    /\ dir' = [dir EXCEPT ![l] = {"rows"}]
    /\ UNCHANGED <<row, birth, answer, guarded, sweep, owed, raced, bfaults, sweeps>>

Pushed(l) ==
    /\ row[l] = "there" /\ ~guarded[l] /\ dir[l] # NoDir /\ "push" \notin dir[l]
    /\ dir' = [dir EXCEPT ![l] = @ \cup {"push"}]
    /\ owed' = [owed EXCEPT ![l] = @ \cup {"push"}]
    /\ UNCHANGED <<row, birth, answer, guarded, sweep, raced, bfaults, sweeps>>

\* The application deletes the list; the core never does.
DeleteList(l) ==
    /\ row[l] = "there"
    /\ row' = [row EXCEPT ![l] = "none"]
    /\ owed' = [owed EXCEPT ![l] = {}]
    /\ UNCHANGED <<dir, birth, answer, guarded, sweep, raced, bfaults, sweeps>>

-----------------------------------------------------------------------------
(* gc-repos --apply *)

Committed == {l \in Lists : row[l] = "there"}

ReadIds ==
    /\ sweep.at = "off" /\ sweeps < MaxSweeps
    /\ sweeps' = sweeps + 1
    /\ sweep' = [NoSweep EXCEPT !.at = "ids", !.live = Committed]
    /\ UNCHANGED <<row, dir, birth, answer, guarded, owed, raced, bfaults>>

\* An empty answer means the wrong database.
Refused(live) == live = {}

\* orphan_repo_dirs
Orphans == {l \in Lists : dir[l] # NoDir} \ sweep.live
Scan ==
    /\ sweep.at = "ids"
    /\ sweep' = IF Refused(sweep.live) THEN NoSweep
                ELSE [sweep EXCEPT !.at = "judge", !.todo = Orphans,
                         !.due = {l \in Orphans : row[l] = "none" /\ birth[l] = "over"}]
    /\ UNCHANGED <<row, dir, birth, answer, guarded, owed, raced, bfaults, sweeps>>

\* Ask again before each removal: the list may have been born meanwhile.
StillGone_Unasked(l) == TRUE                                            \* mutant
StillGone(l) == row[l] # "there"

Judge(l) ==
    /\ sweep.at = "judge" /\ sweep.next = {} /\ l \in sweep.todo
    /\ sweep' = [sweep EXCEPT !.todo = @ \ {l}, !.next = IF StillGone(l) THEN {l} ELSE {}]
    /\ raced' = IF birth[l] \in {"guard", "git", "fixate"} THEN raced \cup {l} ELSE raced
    /\ UNCHANGED <<row, dir, birth, answer, guarded, owed, bfaults, sweeps>>
RemoveDir(l) ==
    /\ l \in sweep.next
    /\ dir' = [dir EXCEPT ![l] = NoDir]
    /\ sweep' = [sweep EXCEPT !.next = {}]
    /\ UNCHANGED <<row, birth, answer, guarded, owed, raced, bfaults, sweeps>>
SweepEnds ==
    /\ sweep.at = "judge" /\ sweep.next = {} /\ sweep.todo = {}
    /\ sweep' = NoSweep
    /\ UNCHANGED <<row, dir, birth, answer, guarded, owed, raced, bfaults, sweeps>>

BirthNext ==
    \/ \E l \in Lists :
        \/ CreatePlain(l) \/ TakeBirthGuard(l) \/ InsertRow(l) \/ InitWithVersion(l)
        \/ InitFails(l) \/ Fixate(l) \/ FixateFails(l) \/ FixateUnanswered(l) \/ BirthCut(l)
        \/ Rebuild(l) \/ Pushed(l) \/ DeleteList(l) \/ Judge(l) \/ RemoveDir(l)
    \/ ReadIds \/ Scan \/ SweepEnds

BirthSpec == BirthInit /\ [][BirthNext]_birthVars

-----------------------------------------------------------------------------
(* Properties *)

\* A list keeps what exists only in its repository, its author's files and
\* what was pushed, whatever the sweep removes and whichever answers are lost.
\* list.rs and cli.rs claim it of every list: the sweep compares each
\* directory with the database before it removes it.
ContentIsKept == \A l \in Lists : row[l] = "there" => owed[l] \subseteq dir[l]

\* It holds for every list whose birth was not open when the sweep asked.
SweepSparesLists == \A l \in Lists \ raced : row[l] = "there" => owed[l] \subseteq dir[l]

\* A birth that git refused leaves nothing, neither a row nor a directory: the
\* directory would be taken for the list's repository.
FailedBirthLeavesNothing ==
    \A l \in Lists : answer[l] = "failed" => row[l] = "none" /\ dir[l] = NoDir

\* A finished sweep has removed every directory that could belong to nobody any
\* more when it looked, also when other lists appeared on its way.
SweepIsComplete ==
    [][(sweep.at = "judge" /\ sweep'.at = "off") => \A l \in sweep.due : dir[l] = NoDir]_birthVars

\* Directories and lists agree: no list loses what only its directory holds,
\* no directory without a list stays or is born of a failed call.
DirectoriesMatchLists ==
    [](SweepSparesLists /\ FailedBirthLeavesNothing) /\ SweepIsComplete
=============================================================================
