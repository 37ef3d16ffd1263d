-------------------------------- MODULE Collab --------------------------------
(***************************************************************************)
(* Concurrent writers of a list's tasks, proposals and stars               *)
(* (src/services/collab.rs, src/services/curation.rs): transactions of     *)
(* Postgres at READ COMMITTED, where every statement reads what is         *)
(* committed when it starts, and a row another open transaction wrote      *)
(* makes the statement wait for that transaction's end.                    *)
(*                                                                         *)
(* Numbers are handed out under an advisory lock whose key is cut from the *)
(* list's uuid (KeyOf: two lists may share a key); a star moves its list's *)
(* counter in the same transaction.                                        *)
(***************************************************************************)
EXTENDS Integers, FiniteSets

CONSTANTS
    Clients,      \* handlers
    Boards,       \* lists
    Keys,         \* keys of the advisory lock
    KeyOf,        \* numbering_key: the key of each list
    Fans,         \* people who put stars
    Free,         \* nobody: the holder of a lock nobody holds
    Asks,         \* what clients ask for: <<kind, list, person>>
    MaxAsks,      \* calls a run makes
    MaxAborts,    \* transactions that end without a commit
    MaxCurrent    \* versions of a list

ASSUME CollabAssumption ==
    /\ KeyOf \in [Boards -> Keys]
    /\ Free \notin Clients
    /\ MaxAsks \in Nat /\ MaxAborts \in Nat /\ MaxCurrent \in Nat

Sorts == {"issue", "suggestion"}
Kinds == Sorts \cup {"star"}

ASSUME AsksAssumption == Asks \subseteq Kinds \X Boards \X Fans

VARIABLES
    call,         \* each client: where its handler is, and its transaction
    lock,         \* holder of each advisory key
    docs,         \* documents of a list: pairs of number and base version
    current,      \* templates.current_version, 1 by default
    stars,        \* the stars table: pairs of person and list
    count,        \* templates.stars_count
    asked, aborts

collabVars == <<call, lock, docs, current, stars, count, asked, aborts>>

\* at: the statement that comes next.  no and base: the row a numbered insert
\* carries.  had: the star toggle_star read.  rows: rows_affected of its write,
\* which holds the star's row; board: it holds the list's row.
Idle == [at |-> "idle", no |-> 0, base |-> 0, had |-> FALSE, rows |-> 0, board |-> FALSE]

CollabInit ==
    /\ call = [c \in Clients |-> [ask |-> Free, tx |-> Idle]]
    /\ lock = [k \in Keys |-> Free]
    /\ docs = [b \in Boards |-> [s \in Sorts |-> {}]]
    /\ current = [b \in Boards |-> 1]
    /\ stars = {}
    /\ count = [b \in Boards |-> 0]
    /\ asked = 0 /\ aborts = 0

-----------------------------------------------------------------------------
At(c)    == call[c].tx.at
Kind(c)  == call[c].ask[1]
Board(c) == call[c].ask[2]
Star(c)  == <<call[c].ask[3], call[c].ask[2]>>
Busy     == {c \in Clients : At(c) # "idle"}
Set(c, tx) == call' = [call EXCEPT ![c].tx = tx]

EndedTx(c) == [call EXCEPT ![c] = [ask |-> Free, tx |-> Idle]]
Released(c) == [k \in Keys |-> IF lock[k] = c THEN Free ELSE lock[k]]

Numbers(b, s) == {d.no : d \in docs[b][s]}

\* coalesce(max(number), 0) + 1
Highest(S) == CHOOSE n \in S \cup {0} : \A m \in S : m <= n
NextNumber(c) == Highest(Numbers(Board(c), Kind(c))) + 1

\* coalesce(current_version, 1); the column is never null
BaseVersion(c) == current[Board(c)]

\* begin
Ask(c, ask) ==
    /\ At(c) = "idle" /\ asked < MaxAsks
    /\ asked' = asked + 1
    /\ call' = [call EXCEPT ![c] =
           [ask |-> ask,
            tx |-> [Idle EXCEPT !.at = IF ask[1] = "star" THEN "read" ELSE "lock"]]]
    /\ UNCHANGED <<lock, docs, current, stars, count, aborts>>

\* pg_advisory_xact_lock: held to the end of the transaction.
LockIsFree_Always(c) == TRUE                                            \* mutant
LockIsFree(c) == lock[KeyOf[Board(c)]] = Free
TakeNumbering(c) ==
    /\ At(c) = "lock" /\ LockIsFree(c)
    /\ lock' = [lock EXCEPT ![KeyOf[Board(c)]] = c]
    /\ Set(c, [call[c].tx EXCEPT !.at = "number"])
    /\ UNCHANGED <<docs, current, stars, count, asked, aborts>>

\* The INSERT computes its row from what is committed now, then enters the
\* unique index (list, number).
ComputeRow(c) ==
    /\ At(c) = "number"
    /\ Set(c, [call[c].tx EXCEPT !.at = "insert", !.no = NextNumber(c),
                   !.base = IF Kind(c) = "suggestion" THEN BaseVersion(c) ELSE 0])
    /\ UNCHANGED <<lock, docs, current, stars, count, asked, aborts>>

Rivals(c) == {d \in Clients \ {c} :
                /\ At(d) = "commit" /\ Kind(d) = Kind(c)
                /\ Board(d) = Board(c) /\ call[d].tx.no = call[c].tx.no}
IndexClash(c) == call[c].tx.no \in Numbers(Board(c), Kind(c))

EnterIndex(c) ==
    /\ At(c) = "insert" /\ Rivals(c) = {} /\ ~IndexClash(c)
    /\ Set(c, [call[c].tx EXCEPT !.at = "commit"])
    /\ UNCHANGED <<lock, docs, current, stars, count, asked, aborts>>

CommitRow(c) ==
    /\ At(c) = "commit" /\ Kind(c) \in Sorts
    /\ docs' = [docs EXCEPT ![Board(c)][Kind(c)] =
                    @ \cup {[no |-> call[c].tx.no, base |-> call[c].tx.base]}]
    /\ lock' = Released(c)
    /\ call' = EndedTx(c)
    /\ UNCHANGED <<current, stars, count, asked, aborts>>

\* add_version of the list commits.
Publish(b) ==
    /\ current[b] < MaxCurrent
    /\ current' = [current EXCEPT ![b] = @ + 1]
    /\ UNCHANGED <<call, lock, docs, stars, count, asked, aborts>>

-----------------------------------------------------------------------------
(* toggle_star *)

ReadStar(c) ==
    /\ At(c) = "read"
    /\ Set(c, [call[c].tx EXCEPT !.at = "write", !.had = Star(c) \in stars])
    /\ UNCHANGED <<lock, docs, current, stars, count, asked, aborts>>

\* Somebody's uncommitted insert or delete of the same star.
StarHeld(c) == \E d \in Clients \ {c} : /\ call[d].tx.rows > 0 /\ Star(d) = Star(c)

\* What the write affects: nothing when another call came first.
RowsAffected(c) == IF call[c].tx.had = (Star(c) \in stars) THEN 1 ELSE 0

\* Only rows that were really written move the counter.
Moves_AsRead(c) == TRUE                                                 \* mutant
Moves(c) == RowsAffected(c) > 0

\* An insert waits for any open change of its key; a delete only for a star it
\* can see.
WriteStar(c) ==
    /\ At(c) = "write"
    /\ StarHeld(c) => (call[c].tx.had /\ Star(c) \notin stars)
    /\ Set(c, [call[c].tx EXCEPT !.at = IF Moves(c) THEN "count" ELSE "commit",
                   !.rows = RowsAffected(c)])
    /\ UNCHANGED <<lock, docs, current, stars, count, asked, aborts>>

\* update templates set stars_count: the list's row is held to the end.
BoardHeld(c) == \E d \in Clients \ {c} : call[d].tx.board /\ Board(d) = Board(c)
MoveCount(c) ==
    /\ At(c) = "count" /\ ~BoardHeld(c)
    /\ Set(c, [call[c].tx EXCEPT !.at = "commit", !.board = TRUE])
    /\ UNCHANGED <<lock, docs, current, stars, count, asked, aborts>>

\* GREATEST(stars_count - 1, 0)
Lowered(n) == IF n = 0 THEN 0 ELSE n - 1
CommitStar(c) ==
    /\ At(c) = "commit" /\ Kind(c) = "star"
    /\ stars' = IF call[c].tx.rows = 0 THEN stars
                ELSE IF call[c].tx.had THEN stars \ {Star(c)} ELSE stars \cup {Star(c)}
    /\ count' = IF ~call[c].tx.board THEN count
                ELSE [count EXCEPT ![Board(c)] = IF call[c].tx.had THEN Lowered(@) ELSE @ + 1]
    /\ call' = EndedTx(c)
    /\ UNCHANGED <<lock, docs, current, asked, aborts>>

-----------------------------------------------------------------------------
\* The process dies, the handler is dropped or a statement fails: rolled back.
Abort(c) ==
    /\ c \in Busy /\ aborts < MaxAborts
    /\ aborts' = aborts + 1
    /\ lock' = Released(c)
    /\ call' = EndedTx(c)
    /\ UNCHANGED <<docs, current, stars, count, asked>>

ClientStep(c) ==
    \/ TakeNumbering(c) \/ ComputeRow(c) \/ EnterIndex(c) \/ CommitRow(c)
    \/ ReadStar(c) \/ WriteStar(c) \/ MoveCount(c) \/ CommitStar(c)

CollabNext ==
    \/ \E c \in Clients : ClientStep(c) \/ Abort(c) \/ \E a \in Asks : Ask(c, a)
    \/ \E b \in Boards : Publish(b)

CollabSpec == CollabInit /\ [][CollabNext]_collabVars

\* Postgres ends what nothing holds up, and a waiting statement is woken.
CollabFair == \A c \in Clients : WF_collabVars(ClientStep(c))

-----------------------------------------------------------------------------
(* Properties *)

\* The numbers of a list's tasks are 1, 2, ... without a gap or a repetition,
\* and those of its proposals too, whatever is rolled back (open_issue and
\* create_suggestion number their rows separately).
NumbersDense ==
    \A b \in Boards, s \in Sorts :
        /\ Numbers(b, s) = 1..Cardinality(docs[b][s])
        /\ \A d, e \in docs[b][s] : d.no = e.no => d = e

\* No call is refused for a number another call took: the tests' eight calls at
\* once all succeed (collab.rs: half of them used to fail).
NoNumberClash ==
    \A c \in Clients : At(c) = "insert" => Rivals(c) = {} /\ ~IndexClash(c)

\* A later proposal never starts from an earlier version: number order and
\* base_version order agree, also when versions appear while calls wait.
BasesInOrder ==
    \A b \in Boards : \A d, e \in docs[b]["suggestion"] : d.no < e.no => d.base <= e.base

\* Numbering of tasks and proposals is as if calls came one after another.
NumberingIsSerial == NumbersDense /\ NoNumberClash /\ BasesInOrder

\* stars_count is the number of stars, also after one person's simultaneous
\* presses (curation.rs: one row used to be counted four times).
StarsOf(b) == {s \in stars : s[2] = b}
StarsCounted == \A b \in Boards : count[b] = Cardinality(StarsOf(b))

\* Every call ends: no two transactions wait for each other's rows or keys.
EveryAskEnds == \A c \in Clients : c \in Busy ~> c \notin Busy
=============================================================================
