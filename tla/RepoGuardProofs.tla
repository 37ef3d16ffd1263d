--------------------------- MODULE RepoGuardProofs ---------------------------
(***************************************************************************)
(* The guard excludes, for any number of handlers, instances, lists and    *)
(* connections, and any choice of lists that share an advisory key.        *)
(***************************************************************************)
EXTENDS RepoGuard, TLAPS

PastMutex == {"pool", "key", "in", "work"}

\* The mutex of an instance and a list has one owner.
OneOwner ==
    \A g, h \in Handlers :
        (g # h /\ Home[g] = Home[h] /\ wants[g] = wants[h])
          => ~(stage[g] \in PastMutex /\ stage[h] \in PastMutex)

\* Postgres grants an advisory key to one session.
OneHolder ==
    \A g, h \in Handlers :
        (g # h /\ AdvisoryKey[wants[g]] = AdvisoryKey[wants[h]])
          => ~(session[g] = "held" /\ session[h] = "held")

GuardInv == GuardTypeOK /\ OneOwner /\ OneHolder

-----------------------------------------------------------------------------
(* Exclusion follows from the two owners. *)
LEMMA InvExcludes == GuardInv => GuardExcludes
<1> SUFFICES ASSUME GuardInv PROVE GuardExcludes
  OBVIOUS
<1> USE DEF GuardInv, GuardTypeOK, Inside
<1>1. OneInRepo
  <2> SUFFICES ASSUME NEW g \in Inside, NEW h \in Inside, g # h, wants[g] = wants[h]
               PROVE  "lost" \in {session[g], session[h]}
    BY DEF OneInRepo
  <2>1. ~(session[g] = "held" /\ session[h] = "held")
    BY DEF OneHolder
  <2> QED
    BY <2>1
<1>2. OneInInstance
  BY DEF OneInInstance, OneOwner, PastMutex
<1> QED
  BY <1>1, <1>2 DEF GuardExcludes

LEMMA InvInit == GuardInit => GuardInv
BY GuardAssumption
   DEF GuardInit, GuardInv, GuardTypeOK, OneOwner, OneHolder, PastMutex, Stages

(* A step of one handler keeps both owners unless it enters the mutex or    *)
(* is granted the key, and those two look first.                            *)
LEMMA StepKeeps ==
  ASSUME GuardInv, NEW h \in Handlers, NEW s \in Stages,
         NEW x \in {"none", "wait", "held", "lost"},
         Step(h, s, x), losses' \in Nat,
         s \in {"new", "mutex", "pool"} => x = "none",
         s = "key" => x = "wait",
         s \in {"in", "work"} => x \in {"held", "lost"},
         s \in PastMutex => (stage[h] \in PastMutex \/ MutexFree(h)),
         x = "held" => (session[h] = "held" \/ KeyFree(h))
  PROVE  GuardInv'
<1> USE DEF GuardInv, GuardTypeOK, Step
<1>1. GuardTypeOK'
  OBVIOUS
<1>2. OneOwner'
  <2> SUFFICES ASSUME NEW f \in Handlers, NEW g \in Handlers, f # g, Home[f] = Home[g],
                      wants'[f] = wants'[g],
                      stage'[f] \in PastMutex, stage'[g] \in PastMutex
               PROVE  FALSE
    BY DEF OneOwner
  <2>1. CASE h \notin {f, g}
    BY <2>1 DEF OneOwner
  <2>2. CASE stage[h] \in PastMutex /\ h \in {f, g}
    BY <2>2 DEF OneOwner
  <2>3. CASE MutexFree(h) /\ h \in {f, g}
    BY <2>3 DEF MutexFree, PastMutex
  <2> QED
    BY <2>1, <2>2, <2>3
<1>3. OneHolder'
  <2> SUFFICES ASSUME NEW f \in Handlers, NEW g \in Handlers, f # g,
                      AdvisoryKey[wants'[f]] = AdvisoryKey[wants'[g]],
                      session'[f] = "held", session'[g] = "held"
               PROVE  FALSE
    BY DEF OneHolder
  <2>1. CASE h \notin {f, g}
    BY <2>1 DEF OneHolder
  <2>2. CASE session[h] = "held" /\ h \in {f, g}
    BY <2>2 DEF OneHolder
  <2>3. CASE KeyFree(h) /\ h \in {f, g}
    BY <2>3 DEF KeyFree, SameKey
  <2> QED
    BY <2>1, <2>2, <2>3
<1> QED
  BY <1>1, <1>2, <1>3

LEMMA InvNext == GuardInv /\ [GuardNext]_guardVars => GuardInv'
<1> SUFFICES ASSUME GuardInv, [GuardNext]_guardVars PROVE GuardInv'
  OBVIOUS
<1>0. \A h \in Handlers : stage[h] \in Stages /\ session[h] \in {"none", "wait", "held", "lost"}
  BY DEF GuardInv, GuardTypeOK
<1>1. ASSUME NEW h \in Handlers, GuardStep(h) PROVE GuardInv'
  <2> USE <1>0 DEF GuardInv, GuardTypeOK, Stages, PastMutex
  <2>1. CASE Arrive(h)
    BY <2>1, StepKeeps DEF Arrive
  <2>2. CASE EnterMutex(h)
    BY <2>2, StepKeeps DEF EnterMutex
  <2>3. CASE TakeSession(h)
    BY <2>3, StepKeeps DEF TakeSession
  <2>4. CASE Granted(h)
    <3>1. CASE stage[h] = "key"
      BY <2>4, <3>1, StepKeeps DEF Granted
    <3>2. CASE stage[h] # "key"
      <4>1. stage[h] = "over"
        BY <2>4, <3>2 DEF Granted
      <4> QED
        BY <2>4, <3>2, <4>1, StepKeeps DEF Granted
    <3> QED
      BY <3>1, <3>2
  <2>5. CASE TakeMain(h)
    BY <2>5, StepKeeps DEF TakeMain
  <2>6. CASE DropGuard(h)
    BY <2>6, StepKeeps DEF DropGuard
  <2>7. CASE RolledBack(h)
    BY <2>7, StepKeeps DEF RolledBack
  <2> QED
    BY <1>1, <2>1, <2>2, <2>3, <2>4, <2>5, <2>6, <2>7 DEF GuardStep
<1>2. ASSUME NEW h \in Handlers, GiveUp(h) PROVE GuardInv'
  BY <1>0, <1>2, StepKeeps DEF GiveUp, Loses, GuardInv, GuardTypeOK, Stages, PastMutex
<1>3. ASSUME NEW h \in Handlers, LoseSession(h) PROVE GuardInv'
  BY <1>0, <1>3, StepKeeps DEF LoseSession, Loses, GuardInv, GuardTypeOK, Stages, PastMutex
<1>4. ASSUME NEW i \in Instances, DieInstance(i) PROVE GuardInv'
  <2> USE <1>4 DEF DieInstance, Loses, GuardInv, GuardTypeOK
  <2>1. GuardTypeOK'
    BY DEF Stages
  <2>2. OneOwner'
    BY DEF OneOwner, PastMutex
  <2>3. OneHolder'
    BY DEF OneHolder
  <2> QED
    BY <2>1, <2>2, <2>3
<1>5. CASE UNCHANGED guardVars
  BY <1>5 DEF guardVars, GuardInv, GuardTypeOK, OneOwner, OneHolder
<1> QED
  BY <1>1, <1>2, <1>3, <1>4, <1>5 DEF GuardNext

-----------------------------------------------------------------------------
(* Handlers' stages and sessions agree, one owner per mutex, one per key.   *)
THEOREM GuardInvariance == GuardSpec => []GuardInv
BY InvInit, InvNext, PTL DEF GuardSpec

(* repo_guard: one handler works in a repository at a time over all        *)
(* instances while Postgres keeps their sessions, and within an instance   *)
(* always; whatever is dropped, lost or killed, and whichever lists share  *)
(* an advisory key.                                                        *)
THEOREM GuardIsExclusive == GuardSpec => []GuardExcludes
BY GuardInvariance, InvExcludes, PTL
=============================================================================
