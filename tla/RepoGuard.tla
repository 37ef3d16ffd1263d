------------------------------- MODULE RepoGuard -------------------------------
(***************************************************************************)
(* The guard of a list's repository (repo_guard in src/git/repo.rs): a     *)
(* mutex inside the process, then a connection of the pool kept for locks  *)
(* (src/db/mod.rs), then Postgres's advisory lock for the other instances. *)
(* Under it the handler works with connections of the main pool.           *)
(*                                                                         *)
(* A handler is one call, so a session is named by its handler.  Dropping  *)
(* the guard frees the mutex at once and the session only when its         *)
(* rollback is done; a handler dropped while its session still waits for   *)
(* the advisory lock leaves that session in the queue.                     *)
(***************************************************************************)
EXTENDS Integers, FiniteSets

CONSTANTS
    Handlers, Instances, Repos,
    Home,          \* the instance of each handler
    AdvisoryKeys,
    AdvisoryKey,   \* advisory_key: two lists may share one
    LockPoolMax,   \* connections of an instance's lock pool
    MainPoolMax,   \* connections of its main pool
    MaxLosses      \* connections and instances a run loses, waits it gives up

ASSUME GuardAssumption ==
    /\ Home \in [Handlers -> Instances]
    /\ AdvisoryKey \in [Repos -> AdvisoryKeys]
    /\ LockPoolMax \in Nat \ {0} /\ MainPoolMax \in Nat \ {0} /\ MaxLosses \in Nat

VARIABLES
    stage,     \* where each handler is
    wants,     \* the repository it wants; set by its call
    session,   \* its session on the lock pool: "none", "wait", "held", or "lost"
    losses

guardVars == <<stage, wants, session, losses>>

Stages == {"new", "mutex", "pool", "key", "in", "work", "over"}

GuardInit ==
    /\ stage = [h \in Handlers |-> "new"]
    /\ wants \in [Handlers -> Repos]
    /\ session = [h \in Handlers |-> "none"]
    /\ losses = 0

Inside == {h \in Handlers : stage[h] \in {"in", "work"}}

\* The in-process mutex belongs to the handlers past it.
MutexFree(h) ==
    \A g \in Handlers : (Home[g] = Home[h] /\ wants[g] = wants[h])
                          => stage[g] \notin {"pool", "key", "in", "work"}

Sessions(i) == {g \in Handlers : Home[g] = i /\ session[g] \in {"wait", "held"}}
PoolFree(h) == Cardinality(Sessions(Home[h])) < LockPoolMax

SameKey(h) == {g \in Handlers \ {h} : AdvisoryKey[wants[g]] = AdvisoryKey[wants[h]]}
KeyFree_Local(h) ==                                                     \* mutant
    \A g \in SameKey(h) : Home[g] = Home[h] => session[g] # "held"
KeyFree(h) == \A g \in SameKey(h) : session[g] # "held"

MainUsed_OnePool(i) ==                                                  \* mutant
    Sessions(i) \cup {g \in Handlers : Home[g] = i /\ stage[g] = "work"}
MainUsed(i) == {g \in Handlers : Home[g] = i /\ stage[g] = "work"}
MainFree(h) == Cardinality(MainUsed(Home[h])) < MainPoolMax

Step(h, s, x) ==
    /\ stage' = [stage EXCEPT ![h] = s]
    /\ session' = [session EXCEPT ![h] = x]
    /\ UNCHANGED wants

Arrive(h)     == stage[h] = "new" /\ Step(h, "mutex", "none") /\ UNCHANGED losses
EnterMutex(h) == stage[h] = "mutex" /\ MutexFree(h) /\ Step(h, "pool", "none") /\ UNCHANGED losses
TakeSession(h) == stage[h] = "pool" /\ PoolFree(h) /\ Step(h, "key", "wait") /\ UNCHANGED losses

\* pg_advisory_xact_lock is granted; whoever was dropped meanwhile rolls back.
Granted(h) ==
    /\ session[h] = "wait" /\ KeyFree(h)
    /\ IF stage[h] = "key" THEN Step(h, "in", "held") ELSE Step(h, stage[h], "none")
    /\ UNCHANGED losses

TakeMain(h) == stage[h] = "in" /\ MainFree(h) /\ Step(h, "work", session[h]) /\ UNCHANGED losses
\* The guard is dropped: the mutex is free, the rollback is still to come.
DropGuard(h) == stage[h] = "work" /\ Step(h, "over", session[h]) /\ UNCHANGED losses
RolledBack(h) ==
    /\ stage[h] = "over" /\ session[h] \in {"held", "lost"}
    /\ Step(h, "over", "none")
    /\ UNCHANGED losses

Loses == losses < MaxLosses /\ losses' = losses + 1

\* acquire_timeout, a failing begin or query, or the caller goes away.
GiveUp(h) ==
    /\ stage[h] \in {"mutex", "pool", "key", "in"}
    /\ Loses
    /\ Step(h, "over", session[h])

\* Postgres loses a session and frees its lock; the handler does not notice
\* until it drops the guard.
LoseSession(h) ==
    /\ stage[h] \in {"in", "work"} /\ session[h] = "held" /\ Loses
    /\ Step(h, stage[h], "lost")

\* An instance dies with everything it runs; Postgres ends its sessions later.
DieInstance(i) ==
    /\ Loses
    /\ \E h \in Handlers : Home[h] = i /\ stage[h] \notin {"new", "over"}
    /\ stage' = [h \in Handlers |-> IF Home[h] = i /\ stage[h] # "new" THEN "over" ELSE stage[h]]
    /\ UNCHANGED <<wants, session>>

GuardStep(h) ==
    \/ Arrive(h) \/ EnterMutex(h) \/ TakeSession(h) \/ Granted(h)
    \/ TakeMain(h) \/ DropGuard(h) \/ RolledBack(h)

GuardNext ==
    \/ \E h \in Handlers : GuardStep(h) \/ GiveUp(h) \/ LoseSession(h)
    \/ \E i \in Instances : DieInstance(i)

GuardSpec == GuardInit /\ [][GuardNext]_guardVars

\* Every handler is polled, pools and Postgres serve those who wait, and work
\* under the guard ends.  No timeout is needed for what follows.
GuardFair == \A h \in Handlers : WF_guardVars(GuardStep(h))

-----------------------------------------------------------------------------
(* Properties *)

\* A handler waits or works with the session its stage calls for.
GuardTypeOK ==
    /\ stage \in [Handlers -> Stages] /\ wants \in [Handlers -> Repos]
    /\ session \in [Handlers -> {"none", "wait", "held", "lost"}]
    /\ losses \in Nat
    /\ \A h \in Handlers :
         /\ stage[h] \in {"new", "mutex", "pool"} => session[h] = "none"
         /\ stage[h] = "key" => session[h] = "wait"
         /\ stage[h] \in {"in", "work"} => session[h] \in {"held", "lost"}

\* One handler works in a repository at a time, over all instances, while
\* Postgres keeps their sessions (repo.rs: the mutex alone was not enough).
OneInRepo ==
    \A g, h \in Inside : (g # h /\ wants[g] = wants[h]) => "lost" \in {session[g], session[h]}

\* Within one instance it is so even when Postgres has dropped the session.
OneInInstance ==
    \A g, h \in Inside : (g # h /\ wants[g] = wants[h]) => Home[g] # Home[h]

\* The guard excludes, over instances and within one.
GuardExcludes == OneInRepo /\ OneInInstance

\* Every call ends: handlers holding a lock connection wait only for the main
\* pool, and nobody in the main pool waits for a lock (db/mod.rs: one pool for
\* both was emptied by pushes).
EveryGuardEnds == \A h \in Handlers : stage[h] = "mutex" ~> stage[h] = "over"

\* Every connection taken for a lock comes back to its pool.
SessionsComeBack == \A h \in Handlers : session[h] # "none" ~> session[h] = "none"
=============================================================================
