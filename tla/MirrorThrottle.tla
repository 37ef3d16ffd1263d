--------------------------- MODULE MirrorThrottle ---------------------------
(***************************************************************************)
(* The mirror of one list: throttle.rs (coalesce, serialized),             *)
(* services/git_core/mirror.rs, the run of git push in git/mirror.rs and   *)
(* the status in db/mirror.rs.                                             *)
(*                                                                         *)
(* A push always sends the refs as they are when git reads them, so what   *)
(* matters of a state of the repository is one bit: is it still today's    *)
(* (seen, behind).  Writes may therefore go on for ever.                   *)
(***************************************************************************)
EXTENDS Integers, FiniteSets

CONSTANTS
    Insts,      \* core instances; slots and gates live in a process's memory
    Workers,    \* background tasks coalesce may spawn
    Callers,    \* MirrorPush RPCs
    Home,       \* the instance a task runs on
    Gates,      \* identities of the mutexes serialized creates
    None,       \* no gate
    Writes,     \* "version": main and a version with updated_at; "ref": a release
                \* tag, or a main whose projection failed
    Window,     \* SETFORK_MIRROR_THROTTLE_SEC, in ticks
    Faults      \* the faults a run explores

Tasks == Workers \cup Callers

ASSUME TaskAssumption ==
    /\ Workers \cap Callers = {}
    /\ Home \in [Tasks -> Insts]
    /\ None \notin Gates \cup Tasks
    /\ Writes \subseteq {"version", "ref"}
    /\ Window \in Nat
    /\ Faults \subseteq {"forge", "db", "drop", "untold", "crash"}

VARIABLES
    \* the list and its mirror
    behind,     \* the forge does not have today's main and tags
    configured, \* a URL and a token are stored
    status,     \* mirror_error: "ok" when null
    stale,      \* mirror_synced_at < updated_at
    \* the memory of each instance
    slot,       \* slots(): no key, or whether an event came meanwhile
    gateMap,    \* gates(): the mutex of this list
    \* tasks
    pc,
    left,       \* what is left of the window
    gateOf,     \* the clone of the mutex a task holds or waits for
    seen,       \* the refs git read for it still are today's
    outcome,
    \* history
    untold,     \* a handler of the instance wrote and has not called spawn_mirror
    owed,       \* spawn_mirror was called and no push started since
    latest,     \* the task whose push ended last
    lost        \* an event, or what came of its push, went unreported since the
                \* mirror was last up to date

list  == <<behind, configured, status, stale>>
maps  == <<slot, gateMap>>
tasks == <<pc, left, gateOf, seen, outcome>>
ghost == <<untold, owed, latest, lost>>
vars  == <<list, maps, tasks, ghost>>

Inside == {"load", "push", "sent", "record"}    \* under the gate
Steps  == {"off", "asleep", "ask", "queued", "check", "clean"} \cup Inside

Init ==
    /\ behind = FALSE
    /\ configured \in BOOLEAN
    /\ status = "ok"
    /\ stale = FALSE
    /\ slot = [i \in Insts |-> "free"]
    /\ gateMap = [i \in Insts |-> None]
    /\ pc = [t \in Tasks |-> "off"]
    /\ left = [t \in Tasks |-> 0]
    /\ gateOf = [t \in Tasks |-> None]
    /\ seen = [t \in Tasks |-> FALSE]
    /\ outcome = [t \in Tasks |-> "ok"]
    /\ untold = [i \in Insts |-> FALSE]
    /\ owed = [i \in Insts |-> FALSE]
    /\ latest = None
    /\ lost = FALSE

Goto(t, step) == pc' = [pc EXCEPT ![t] = step]

-----------------------------------------------------------------------------
(* Events *)

\* A handler moves main or a tag.
Write(i) ==
    /\ behind' = TRUE
    /\ \E kind \in Writes : stale' = (kind = "version" \/ stale)
    /\ seen' = [t \in Tasks |-> FALSE]
    /\ untold' = [untold EXCEPT ![i] = TRUE]
    /\ UNCHANGED <<configured, status, maps, pc, left, gateOf, outcome, owed, latest, lost>>

\* Mutant: a new event restarts the window (debounce).
Tell_Debounce(i) ==
    /\ untold[i]
    /\ untold' = [untold EXCEPT ![i] = FALSE]
    /\ owed' = [owed EXCEPT ![i] = TRUE]
    /\ IF slot[i] # "free"
       THEN /\ slot' = [slot EXCEPT ![i] = "pending"]
            /\ left' = [t \in Tasks |-> IF pc[t] = "asleep" THEN Window ELSE left[t]]
            /\ UNCHANGED pc
       ELSE \E t \in Workers :
                /\ pc[t] = "off" /\ Home[t] = i
                /\ slot' = [slot EXCEPT ![i] = "idle"]
                /\ Goto(t, "asleep")
                /\ left' = [left EXCEPT ![t] = Window]
    /\ UNCHANGED <<list, gateMap, gateOf, seen, outcome, latest, lost>>

\* spawn_mirror, coalesce: the worker that has the slot is told, or a worker
\* is spawned for it.
Tell(i) ==
    /\ untold[i]
    /\ untold' = [untold EXCEPT ![i] = FALSE]
    /\ owed' = [owed EXCEPT ![i] = TRUE]
    /\ IF slot[i] # "free"
       THEN slot' = [slot EXCEPT ![i] = "pending"] /\ UNCHANGED <<pc, left>>
       ELSE \E t \in Workers :
                /\ pc[t] = "off" /\ Home[t] = i
                /\ slot' = [slot EXCEPT ![i] = "idle"]
                /\ Goto(t, "asleep")
                /\ left' = [left EXCEPT ![t] = Window]
    /\ UNCHANGED <<list, gateMap, gateOf, seen, outcome, latest, lost>>

\* The handler is dropped between its commit and spawn_mirror.
Untold(i) ==
    /\ "untold" \in Faults /\ untold[i]
    /\ untold' = [untold EXCEPT ![i] = FALSE]
    /\ lost' = TRUE
    /\ UNCHANGED <<list, maps, tasks, owed, latest>>

\* The owner, or the application's sweep of mirrors, asks for a push now.
Call(t) ==
    /\ t \in Callers /\ pc[t] = "off"
    /\ Goto(t, "ask")
    /\ UNCHANGED <<list, maps, left, gateOf, seen, outcome, ghost>>

-----------------------------------------------------------------------------
(* coalesce: the loop of a worker *)

Tick(t) ==
    /\ pc[t] = "asleep" /\ left[t] > 0
    /\ left' = [left EXCEPT ![t] = @ - 1]
    /\ UNCHANGED <<list, maps, pc, gateOf, seen, outcome, ghost>>

\* The flag is lowered before the run.
Wake(t) ==
    /\ pc[t] = "asleep" /\ left[t] = 0
    /\ slot' = [slot EXCEPT ![Home[t]] = "idle"]
    /\ Goto(t, "ask")
    /\ UNCHANGED <<list, gateMap, left, gateOf, seen, outcome, ghost>>

\* Mutant: the flag is not looked at again.
Check_Forgets(t) ==
    /\ pc[t] = "check"
    /\ slot' = [slot EXCEPT ![Home[t]] = "free"]
    /\ Goto(t, "off")
    /\ UNCHANGED <<list, gateMap, left, gateOf, seen, outcome, ghost>>

\* Another turn, or the slot is given up under the same lock.
Check(t) ==
    /\ pc[t] = "check"
    /\ IF slot[Home[t]] = "pending"
       THEN /\ Goto(t, "asleep")
            /\ left' = [left EXCEPT ![t] = Window]
            /\ UNCHANGED slot
       ELSE /\ Goto(t, "off")
            /\ slot' = [slot EXCEPT ![Home[t]] = "free"]
            /\ UNCHANGED left
    /\ UNCHANGED <<list, gateMap, gateOf, seen, outcome, ghost>>

-----------------------------------------------------------------------------
(* serialized: one push of a list at a time *)

Clones(g) == {t \in Tasks : gateOf[t] = g}

\* The mutex is cloned from the map, or made.
Enter(t) ==
    /\ pc[t] = "ask"
    /\ \E g \in Gates :
        /\ IF gateMap[Home[t]] = None
           THEN Clones(g) = {} /\ (\A i \in Insts : gateMap[i] # g)
           ELSE g = gateMap[Home[t]]
        /\ gateMap' = [gateMap EXCEPT ![Home[t]] = g]
        /\ gateOf' = [gateOf EXCEPT ![t] = g]
    /\ Goto(t, "queued")
    /\ UNCHANGED <<list, slot, left, seen, outcome, ghost>>

\* Mutant: nobody waits.
Acquire_Unserialized(t) ==
    /\ pc[t] = "queued"
    /\ Goto(t, "load")
    /\ UNCHANGED <<list, maps, left, gateOf, seen, outcome, ghost>>

Acquire(t) ==
    /\ pc[t] = "queued"
    /\ \A u \in Clones(gateOf[t]) : pc[u] \notin Inside
    /\ Goto(t, "load")
    /\ UNCHANGED <<list, maps, left, gateOf, seen, outcome, ghost>>

\* The locals of the push go, the mutex is unlocked and the clone dropped ...
Leave(t) ==
    /\ Goto(t, "clean")
    /\ seen' = [seen EXCEPT ![t] = FALSE]
    /\ outcome' = [outcome EXCEPT ![t] = "ok"]
    /\ gateOf' = [gateOf EXCEPT ![t] = None]
    /\ UNCHANGED <<maps, left>>

\* Where a task goes when its push is over.
AfterPush(t) == IF t \in Workers THEN "check" ELSE "off"

\* Mutant: the entry is removed though others hold its mutex.
Clean_Always(t) ==
    /\ pc[t] = "clean"
    /\ gateMap' = [gateMap EXCEPT ![Home[t]] = None]
    /\ Goto(t, AfterPush(t))
    /\ UNCHANGED <<list, slot, left, gateOf, seen, outcome, ghost>>

\* Mutant: the cleaner counts the clone of the very call it belongs to.
Clean_Never(t) ==
    /\ pc[t] = "clean"
    /\ Goto(t, AfterPush(t))
    /\ UNCHANGED <<list, maps, left, gateOf, seen, outcome, ghost>>

\* ... and GateCleanup removes the entry nobody else uses.
Clean(t) ==
    /\ pc[t] = "clean"
    /\ gateMap' = [gateMap EXCEPT
                      ![Home[t]] = IF Clones(@) = {} THEN None ELSE @]
    /\ Goto(t, AfterPush(t))
    /\ UNCHANGED <<list, slot, left, gateOf, seen, outcome, ghost>>

-----------------------------------------------------------------------------
(* push_mirror_locked *)

\* The run a worker was woken for is spent, whatever comes of it.
Spent(t) == owed' = IF t \in Workers THEN [owed EXCEPT ![Home[t]] = FALSE] ELSE owed

\* load_mirror.  No mirror: done.  A failed query is returned and recorded
\* nowhere.
Load(t) ==
    /\ pc[t] = "load"
    /\ \/ /\ configured
          /\ Goto(t, "push")
          /\ UNCHANGED <<maps, left, gateOf, seen, outcome, owed, lost>>
       \/ ~configured /\ Leave(t) /\ Spent(t) /\ UNCHANGED lost
       \/ "db" \in Faults /\ Leave(t) /\ Spent(t) /\ lost' = TRUE
    /\ UNCHANGED <<list, untold, latest>>

\* git push reads the refs.
ReadRefs(t) ==
    /\ pc[t] = "push"
    /\ Goto(t, "sent")
    /\ seen' = [seen EXCEPT ![t] = TRUE]
    /\ owed' = [i \in Insts |-> FALSE]
    /\ UNCHANGED <<list, maps, left, gateOf, outcome, untold, latest, lost>>

\* No secret, no token, a bad URL, git does not start.
PushRefused(t) ==
    /\ pc[t] = "push" /\ "forge" \in Faults
    /\ Goto(t, "record")
    /\ outcome' = [outcome EXCEPT ![t] = "error"]
    /\ Spent(t)
    /\ latest' = t
    /\ UNCHANGED <<list, maps, left, gateOf, seen, untold, lost>>

\* The forge takes the refs, or fails, or times out after it took them.
PushEnds(t) ==
    /\ pc[t] = "sent"
    /\ \/ /\ behind' = ~seen[t]
          /\ outcome' = [outcome EXCEPT ![t] = "ok"]
       \/ /\ "forge" \in Faults
          /\ behind' \in {behind, ~seen[t]}
          /\ outcome' = [outcome EXCEPT ![t] = "error"]
    /\ Goto(t, "record")
    /\ latest' = t
    /\ seen' = [seen EXCEPT ![t] = FALSE]
    /\ lost' = (lost /\ behind')
    /\ UNCHANGED <<configured, status, stale, maps, left, gateOf, untold, owed>>

\* Mutant: only successes are recorded.
Record_Success(t) ==
    /\ pc[t] = "record"
    /\ status' = IF outcome[t] = "ok" THEN "ok" ELSE status
    /\ stale' = FALSE
    /\ Leave(t)
    /\ UNCHANGED <<behind, configured, ghost>>

\* record_mirror_result; a failure to record is logged and nothing else.
Record(t) ==
    /\ pc[t] = "record"
    /\ \/ status' = outcome[t] /\ stale' = FALSE /\ UNCHANGED lost
       \/ "db" \in Faults /\ UNCHANGED <<status, stale>> /\ lost' = behind
    /\ Leave(t)
    /\ UNCHANGED <<behind, configured, untold, owed, latest>>

-----------------------------------------------------------------------------
(* Faults *)

\* The client hangs up or its deadline passes; git is killed, perhaps after
\* the forge took the refs, and Postgres may have the UPDATE already.
Drop(t) ==
    /\ "drop" \in Faults /\ t \in Callers
    /\ \/ /\ pc[t] = "ask"
          /\ Goto(t, "off")
          /\ UNCHANGED <<list, maps, left, gateOf, seen, outcome>>
       \/ /\ pc[t] \in {"queued"} \cup Inside
          /\ behind' \in {behind} \cup {~seen[u] : u \in {t} \cap {u \in Tasks : pc[u] = "sent"}}
          /\ \/ UNCHANGED <<status, stale>>
             \/ pc[t] = "record" /\ status' = outcome[t] /\ stale' = FALSE
          /\ Leave(t)
          /\ UNCHANGED configured
    /\ UNCHANGED ghost

\* An instance restarts; the children it leaves may still reach the forge.
Crash(i) ==
    /\ "crash" \in Faults
    /\ behind' \in {behind} \cup {~seen[t] : t \in {u \in Tasks : Home[u] = i /\ pc[u] = "sent"}}
    /\ slot' = [slot EXCEPT ![i] = "free"]
    /\ gateMap' = [gateMap EXCEPT ![i] = None]
    /\ pc' = [t \in Tasks |-> IF Home[t] = i THEN "off" ELSE pc[t]]
    /\ gateOf' = [t \in Tasks |-> IF Home[t] = i THEN None ELSE gateOf[t]]
    /\ seen' = [t \in Tasks |-> Home[t] # i /\ seen[t]]
    /\ outcome' = [t \in Tasks |-> IF Home[t] = i THEN "ok" ELSE outcome[t]]
    /\ untold' = [untold EXCEPT ![i] = FALSE]
    /\ owed' = [owed EXCEPT ![i] = FALSE]
    /\ lost' = TRUE
    /\ UNCHANGED <<configured, status, stale, left, latest>>

-----------------------------------------------------------------------------

Turn(t)  == Tick(t) \/ Wake(t) \/ Check(t)
Push(t)  == Load(t) \/ ReadRefs(t) \/ PushRefused(t) \/ PushEnds(t) \/ Record(t)
Step(t)  == Turn(t) \/ Enter(t) \/ Clean(t) \/ Push(t)

Next ==
    \/ \E i \in Insts : Write(i) \/ Tell(i) \/ Untold(i) \/ Crash(i)
    \/ \E t \in Tasks : Call(t) \/ Step(t) \/ Acquire(t) \/ Drop(t)

Spec == Init /\ [][Next]_vars

\* Timers fire, git push ends (it is killed after a minute), the database
\* answers; a tokio mutex is handed on in order of arrival.
Fairness == \A t \in Tasks : WF_vars(Step(t)) /\ SF_vars(Acquire(t))

FairSpec == Spec /\ Fairness

-----------------------------------------------------------------------------
(* Properties *)

TypeOK ==
    /\ behind \in BOOLEAN /\ configured \in BOOLEAN /\ stale \in BOOLEAN
    /\ status \in {"ok", "error"}
    /\ slot \in [Insts -> {"free", "idle", "pending"}]
    /\ gateMap \in [Insts -> Gates \cup {None}]
    /\ pc \in [Tasks -> Steps]
    /\ left \in [Tasks -> 0..Window]
    /\ gateOf \in [Tasks -> Gates \cup {None}]
    /\ seen \in [Tasks -> BOOLEAN]
    /\ outcome \in [Tasks -> {"ok", "error"}]
    /\ untold \in [Insts -> BOOLEAN]
    /\ owed \in [Insts -> BOOLEAN]
    /\ latest \in Tasks \cup {None}
    /\ lost \in BOOLEAN

\* serialized: of the pushes an instance makes for a list, background and
\* manual, one at a time is under way, though callers are dropped at any
\* point and the mutex leaves the map when nobody uses it.
PushesDoNotOverlap ==
    \A t, u \in Tasks :
        pc[t] \in Inside /\ pc[u] \in Inside /\ Home[t] = Home[u] => t = u

\* The outcome a task is about to record is that of the push that ended
\* last: an old failure is not recorded over a newer success.
OutcomesInOrder ==
    \A t \in Tasks : pc[t] = "record" => latest = t

\* Before git reads the refs again for it.
Coming == {"asleep", "ask", "queued", "load", "push"}

\* coalesce: an event it was told of is never forgotten; the slot is marked,
\* or a worker has yet to read the refs.
ToldIsComing ==
    \A i \in Insts : owed[i] =>
        \/ \E t \in Workers : Home[t] = i /\ pc[t] \in Coming
        \/ slot[i] = "pending" /\ \E t \in Workers : Home[t] = i /\ pc[t] # "off"

\* The map of mutexes does not keep an entry nobody uses, after a push that
\* ran to its end or one whose caller went away.
GateMapIsClean ==
    \A i \in Insts :
        (\A t \in Tasks : Home[t] = i => pc[t] \in {"off", "asleep", "ask", "check"})
            => gateMap[i] = None

\* Nothing is under way for the mirror.
Rest == (\A t \in Tasks : pc[t] = "off") /\ (\A i \in Insts : ~untold[i])

\* "No silent degradation": unless an event or an outcome was lost, a mirror
\* that lags while nothing is under way shows an error, or a synchronisation
\* older than the last edit.
LagIsVisible ==
    Rest /\ configured /\ behind /\ ~lost => status = "error" \/ stale

\* A throttle and not a debounce: every event is followed by a push, though
\* events never pause.
EveryEventIsPushed ==
    \A i \in Insts : owed[i] ~> ~owed[i]
=============================================================================
