------------------------ MODULE MirrorThrottleProofs ------------------------
(***************************************************************************)
(* What MirrorThrottle promises for any number of instances, workers and   *)
(* callers, under every fault: the types, one push at a time, no mutex     *)
(* left behind and no event forgotten; and, for a single instance, that    *)
(* outcomes are recorded in their order and that a mirror that lags shows. *)
(***************************************************************************)
EXTENDS MirrorThrottle, TLAPS

\* The steps in which a task has a clone of the mutex.
Cloned == {"queued"} \cup Inside

\* Clones come from the map, and no two instances share a mutex.
ClonesAreOfTheMap ==
    /\ \A t \in Tasks : (gateOf[t] # None) <=> (pc[t] \in Cloned)
    /\ \A t \in Tasks : gateOf[t] # None => gateMap[Home[t]] = gateOf[t]
    /\ \A i, j \in Insts : gateMap[i] = gateMap[j] /\ gateMap[i] # None => i = j

\* An entry has a user who will clean it up.
EntriesAreUsed ==
    \A i \in Insts : gateMap[i] # None =>
        \E t \in Tasks : Home[t] = i /\ pc[t] \in Cloned \cup {"clean"}

\* A worker that lives has the slot, and it is the only one.
SlotIsItsWorker ==
    /\ \A t \in Callers : pc[t] \notin {"asleep", "check"}
    /\ \A t \in Workers : pc[t] # "off" => slot[Home[t]] # "free"
    /\ \A t, u \in Workers :
        pc[t] # "off" /\ pc[u] # "off" /\ Home[t] = Home[u] => t = u

\* A slot that is taken has a worker.
SlotHasWorker ==
    \A i \in Insts : slot[i] # "free" => \E t \in Workers : Home[t] = i /\ pc[t] # "off"

GateInv == ClonesAreOfTheMap /\ EntriesAreUsed /\ PushesDoNotOverlap
SlotInv == SlotIsItsWorker /\ SlotHasWorker /\ ToldIsComing
IInv == TypeOK /\ GateInv /\ SlotInv

-----------------------------------------------------------------------------

\* Init establishes the invariant.
LEMMA InitIInv == Init => IInv
<1> SUFFICES ASSUME Init PROVE IInv OBVIOUS
<1> USE TaskAssumption DEF Init
<1>1. TypeOK
  <2>1. behind \in BOOLEAN /\ configured \in BOOLEAN /\ stale \in BOOLEAN /\ lost \in BOOLEAN
    BY Zenon
  <2>2. pc \in [Tasks -> Steps] /\ left \in [Tasks -> 0..Window]
    BY DEF Steps
  <2>3. seen \in [Tasks -> BOOLEAN] /\ untold \in [Insts -> BOOLEAN] /\ owed \in [Insts -> BOOLEAN]
    OBVIOUS
  <2> QED BY <2>1, <2>2, <2>3 DEF TypeOK
<1>2. GateInv
  BY DEF GateInv, ClonesAreOfTheMap, EntriesAreUsed, PushesDoNotOverlap,
         Cloned, Inside, Tasks
<1>3. SlotInv BY DEF SlotInv, SlotIsItsWorker, SlotHasWorker, ToldIsComing, Tasks
<1> QED BY <1>1, <1>2, <1>3 DEF IInv

\* Every step keeps the types.
LEMMA TypeStep == TypeOK /\ [Next]_vars => TypeOK'
<1> SUFFICES ASSUME TypeOK, [Next]_vars PROVE TypeOK' OBVIOUS
<1> USE TaskAssumption DEF TypeOK, Steps, Inside, Goto
<1>0. CASE UNCHANGED vars
  BY <1>0 DEF vars, list, maps, tasks, ghost
<1>1. ASSUME NEW i \in Insts, Write(i) \/ Tell(i) \/ Untold(i) \/ Crash(i)
      PROVE TypeOK'
  <2>1. CASE Write(i) BY <2>1 DEF Write, maps
  <2>2. CASE Tell(i) BY <2>2 DEF Tell, list, Tasks
  <2>3. CASE Untold(i) BY <2>3 DEF Untold, list, maps, tasks
  <2>4. CASE Crash(i) BY <2>4 DEF Crash
  <2> QED BY <1>1, <2>1, <2>2, <2>3, <2>4
<1>2. ASSUME NEW t \in Tasks, Call(t) \/ Turn(t) \/ Enter(t) \/ Acquire(t) \/ Clean(t)
      PROVE TypeOK'
  <2>1. CASE Call(t) BY <2>1 DEF Call, list, maps, ghost
  <2>2. CASE Turn(t) BY <2>2 DEF Turn, Tick, Wake, Check, list, maps, ghost
  <2>3. CASE Enter(t) BY <2>3 DEF Enter, list, ghost
  <2>4. CASE Acquire(t) BY <2>4 DEF Acquire, list, maps, ghost
  <2>5. CASE Clean(t) BY <2>5 DEF Clean, AfterPush, list, ghost
  <2> QED BY <1>2, <2>1, <2>2, <2>3, <2>4, <2>5
<1>3. ASSUME NEW t \in Tasks, Push(t) \/ Drop(t)
      PROVE TypeOK'
  <2>1. CASE Load(t)
    <3>1. UNCHANGED <<list, untold, latest>> BY <2>1 DEF Load
    <3>2. CASE /\ Goto(t, "push")
               /\ UNCHANGED <<maps, left, gateOf, seen, outcome, owed, lost>>
      BY <3>1, <3>2 DEF list, maps
    <3>3. CASE Leave(t) /\ Spent(t) /\ lost' = lost
      BY <3>1, <3>3 DEF Leave, Spent, list, maps
    <3>4. CASE Leave(t) /\ Spent(t) /\ lost' = TRUE
      BY <3>1, <3>4 DEF Leave, Spent, list, maps
    <3> QED BY <2>1, <3>2, <3>3, <3>4 DEF Load
  <2>2. CASE ReadRefs(t) BY <2>2 DEF ReadRefs, list, maps
  <2>3. CASE PushRefused(t) BY <2>3 DEF PushRefused, Spent, list, maps
  <2>4. CASE PushEnds(t) BY <2>4, ZenonT(60) DEF PushEnds, maps
  <2>5. CASE Record(t) BY <2>5 DEF Record, Leave, maps
  <2>6. CASE Drop(t)
    <3>1. UNCHANGED ghost BY <2>6 DEF Drop
    <3>2. CASE Goto(t, "off") /\ UNCHANGED <<list, maps, left, gateOf, seen, outcome>>
      BY <3>1, <3>2 DEF list, maps, ghost
    <3>3. CASE Leave(t) /\ configured' = configured
      <4>1. behind' \in BOOLEAN
        <5>1. behind' \in {behind} \cup {~seen[u] : u \in {t} \cap {u \in Tasks : pc[u] = "sent"}}
           \/ behind' = behind
          BY <2>6 DEF Drop, list
        <5> QED BY <5>1
      <4>2. status' \in {"ok", "error"} /\ stale' \in BOOLEAN
        <5>1. \/ status' = status /\ stale' = stale
              \/ status' = outcome[t] /\ stale' = FALSE
          BY <2>6 DEF Drop, list
        <5> QED BY <5>1
      <4> QED BY <3>1, <3>3, <4>1, <4>2 DEF Leave, maps, ghost
    <3> QED BY <2>6, <3>2, <3>3 DEF Drop
  <2> QED BY <1>3, <2>1, <2>2, <2>3, <2>4, <2>5, <2>6 DEF Push
<1> QED BY <1>0, <1>1, <1>2, <1>3 DEF Next, Step

-----------------------------------------------------------------------------
(* The mutexes *)

\* A step that neither takes nor drops a clone keeps what is said of them.
LEMMA GateQuiet ==
    ASSUME TypeOK, GateInv, gateMap' = gateMap, gateOf' = gateOf,
           \A u \in Tasks :
               \/ pc'[u] = pc[u]
               \/ pc[u] \in Inside /\ pc'[u] \in Inside
               \/ pc[u] \notin Cloned \cup {"clean"} /\ pc'[u] \notin Cloned
    PROVE  GateInv'
<1>1. \A u \in Tasks : /\ pc'[u] \in Inside <=> pc[u] \in Inside
                       /\ pc'[u] \in Cloned <=> pc[u] \in Cloned
                       /\ pc[u] = "clean" => pc'[u] = "clean"
  BY DEF Cloned, Inside
<1>2. ClonesAreOfTheMap' BY <1>1 DEF GateInv, ClonesAreOfTheMap
<1>3. EntriesAreUsed' BY <1>1 DEF GateInv, EntriesAreUsed
<1>4. PushesDoNotOverlap' BY <1>1 DEF GateInv, PushesDoNotOverlap
<1> QED BY <1>2, <1>3, <1>4 DEF GateInv

\* So does a task that drops its clone: it is about to clean up.
LEMMA GateLeave ==
    ASSUME TypeOK, GateInv, NEW t \in Tasks, pc[t] \in Cloned,
           Goto(t, "clean"), gateMap' = gateMap,
           gateOf' = [gateOf EXCEPT ![t] = None]
    PROVE  GateInv'
<1> USE DEF TypeOK, Goto
<1>1. \A u \in Tasks : u # t => pc'[u] = pc[u] /\ gateOf'[u] = gateOf[u]
  OBVIOUS
<1>2. pc'[t] = "clean" /\ gateOf'[t] = None OBVIOUS
<1>3. "clean" \notin Cloned BY DEF Cloned, Inside
<1>4. ClonesAreOfTheMap' BY <1>1, <1>2, <1>3 DEF GateInv, ClonesAreOfTheMap
<1>5. EntriesAreUsed'
  <2> SUFFICES ASSUME NEW i \in Insts, gateMap[i] # None
               PROVE  \E u \in Tasks : Home[u] = i /\ pc'[u] \in Cloned \cup {"clean"}
    BY DEF EntriesAreUsed
  <2>1. PICK u \in Tasks : Home[u] = i /\ pc[u] \in Cloned \cup {"clean"}
    BY DEF GateInv, EntriesAreUsed
  <2> QED BY <1>1, <1>2, <2>1
<1>6. PushesDoNotOverlap'
  BY <1>1, <1>2, <1>3 DEF GateInv, PushesDoNotOverlap, Cloned
<1> QED BY <1>4, <1>5, <1>6 DEF GateInv

\* The mutex a task clones is the one its instance hands to everybody.
LEMMA GateEnter ==
    ASSUME TypeOK, GateInv, NEW t \in Tasks, Enter(t)
    PROVE  GateInv'
<1> USE TaskAssumption DEF TypeOK, Goto
<1>1. PICK g \in Gates :
        /\ IF gateMap[Home[t]] = None
           THEN Clones(g) = {} /\ (\A i \in Insts : gateMap[i] # g)
           ELSE g = gateMap[Home[t]]
        /\ gateMap' = [gateMap EXCEPT ![Home[t]] = g]
        /\ gateOf' = [gateOf EXCEPT ![t] = g]
  BY DEF Enter
<1>2. pc[t] = "ask" /\ pc' = [pc EXCEPT ![t] = "queued"] BY DEF Enter
<1>3. g # None /\ Home[t] \in Insts OBVIOUS
<1>4. "queued" \in Cloned /\ "ask" \notin Cloned /\ "queued" \notin Inside
  BY DEF Cloned, Inside
<1>5. \A u \in Tasks : u # t => pc'[u] = pc[u] /\ gateOf'[u] = gateOf[u]
  BY <1>1, <1>2
<1>6. \A i \in Insts : i # Home[t] => gateMap'[i] = gateMap[i]
  BY <1>1
<1>7. pc'[t] = "queued" /\ gateOf'[t] = g /\ gateMap'[Home[t]] = g
  BY <1>1, <1>2, <1>3
<1>8. ClonesAreOfTheMap'
  <2>1. \A u \in Tasks : (gateOf'[u] # None) <=> (pc'[u] \in Cloned)
    BY <1>3, <1>4, <1>5, <1>7 DEF GateInv, ClonesAreOfTheMap
  <2>2. ASSUME NEW u \in Tasks, gateOf'[u] # None
        PROVE  gateMap'[Home[u]] = gateOf'[u]
    <3>1. CASE u = t BY <1>7, <3>1
    <3>2. CASE u # t
      <4>1. gateMap[Home[u]] = gateOf[u] /\ gateOf[u] # None
        BY <1>5, <2>2, <3>2 DEF GateInv, ClonesAreOfTheMap
      <4>2. Home[u] = Home[t] => g = gateMap[Home[t]] BY <1>1, <4>1
      <4> QED BY <1>5, <1>6, <1>7, <3>2, <4>1, <4>2
    <3> QED BY <3>1, <3>2
  <2>3. ASSUME NEW i \in Insts, NEW j \in Insts, gateMap'[i] = gateMap'[j], gateMap'[i] # None
        PROVE  i = j
    BY <1>1, <1>6, <1>7, <2>3 DEF GateInv, ClonesAreOfTheMap
  <2> QED BY <2>1, <2>2, <2>3 DEF ClonesAreOfTheMap
<1>9. EntriesAreUsed'
  <2> SUFFICES ASSUME NEW i \in Insts, gateMap'[i] # None
               PROVE  \E u \in Tasks : Home[u] = i /\ pc'[u] \in Cloned \cup {"clean"}
    BY DEF EntriesAreUsed
  <2>1. CASE i = Home[t] BY <1>4, <1>7, <2>1
  <2>2. CASE i # Home[t]
    <3>1. PICK u \in Tasks : Home[u] = i /\ pc[u] \in Cloned \cup {"clean"}
      BY <1>6, <2>2 DEF GateInv, EntriesAreUsed
    <3> QED BY <1>5, <2>2, <3>1
  <2> QED BY <2>1, <2>2
<1>10. PushesDoNotOverlap'
  BY <1>4, <1>5, <1>7 DEF GateInv, PushesDoNotOverlap
<1> QED BY <1>8, <1>9, <1>10 DEF GateInv

\* Whoever gets the mutex is alone with it.
LEMMA GateAcquire ==
    ASSUME TypeOK, GateInv, NEW t \in Tasks, Acquire(t)
    PROVE  GateInv'
<1> USE DEF TypeOK, Goto
<1>1. /\ pc[t] = "queued" /\ pc' = [pc EXCEPT ![t] = "load"]
      /\ gateMap' = gateMap /\ gateOf' = gateOf
      /\ \A u \in Clones(gateOf[t]) : pc[u] \notin Inside
  BY DEF Acquire, maps
<1>2. \A u \in Tasks : pc'[u] \in Cloned <=> pc[u] \in Cloned
  BY <1>1 DEF Cloned, Inside
<1>3. \A u \in Tasks : pc[u] = "clean" => pc'[u] = "clean" BY <1>1
<1>4. ClonesAreOfTheMap' BY <1>1, <1>2 DEF GateInv, ClonesAreOfTheMap
<1>5. EntriesAreUsed' BY <1>1, <1>2, <1>3 DEF GateInv, EntriesAreUsed
<1>6. ASSUME NEW u \in Tasks, pc[u] \in Inside, Home[u] = Home[t] PROVE FALSE
  <2>1. gateOf[u] # None /\ gateOf[t] # None
    BY <1>1, <1>6 DEF GateInv, ClonesAreOfTheMap, Cloned
  <2>2. gateOf[u] = gateOf[t]
    BY <1>6, <2>1 DEF GateInv, ClonesAreOfTheMap
  <2> QED BY <1>1, <1>6, <2>2 DEF Clones
<1>7. PushesDoNotOverlap'
  BY <1>1, <1>6 DEF GateInv, PushesDoNotOverlap
<1> QED BY <1>4, <1>5, <1>7 DEF GateInv

\* An entry leaves the map only when nobody has its mutex.
LEMMA GateClean ==
    ASSUME TypeOK, GateInv, NEW t \in Tasks, Clean(t)
    PROVE  GateInv'
<1> USE TaskAssumption DEF TypeOK, Goto
<1> DEFINE h == Home[t]
           m == gateMap[h]
<1>1. /\ pc[t] = "clean" /\ pc' = [pc EXCEPT ![t] = AfterPush(t)] /\ gateOf' = gateOf
      /\ gateMap' = [gateMap EXCEPT ![h] = IF Clones(m) = {} THEN None ELSE m]
  BY DEF Clean
<1>2. h \in Insts OBVIOUS
<1>3. AfterPush(t) \notin Cloned /\ "clean" \notin Cloned BY DEF AfterPush, Cloned, Inside
<1>4. \A u \in Tasks : /\ pc'[u] \in Cloned <=> pc[u] \in Cloned
                       /\ pc'[u] \in Inside => pc[u] \in Inside
                       /\ u # t => pc'[u] = pc[u]
  BY <1>1, <1>3 DEF Cloned
<1>5. \A i \in Insts : \/ gateMap'[i] = gateMap[i]
                       \/ i = h /\ gateMap'[i] = None
  BY <1>1, <1>2
<1>6. Clones(m) # {} => gateMap' = gateMap BY <1>1, <1>2
<1>7. ClonesAreOfTheMap'
  <2>1. ASSUME NEW u \in Tasks, gateOf[u] # None PROVE gateMap'[Home[u]] = gateOf[u]
    <3>1. gateMap[Home[u]] = gateOf[u] BY <2>1 DEF GateInv, ClonesAreOfTheMap
    <3>2. Home[u] = h => u \in Clones(m) BY <3>1 DEF Clones
    <3> QED BY <1>5, <1>6, <3>1, <3>2
  <2>2. \A i, j \in Insts : gateMap'[i] = gateMap'[j] /\ gateMap'[i] # None => i = j
    BY <1>5 DEF GateInv, ClonesAreOfTheMap
  <2>3. \A u \in Tasks : (gateOf'[u] # None) <=> (pc'[u] \in Cloned)
    BY <1>1, <1>4 DEF GateInv, ClonesAreOfTheMap
  <2> QED BY <1>1, <2>1, <2>2, <2>3 DEF ClonesAreOfTheMap
<1>8. EntriesAreUsed'
  <2> SUFFICES ASSUME NEW i \in Insts, gateMap'[i] # None
               PROVE  \E u \in Tasks : Home[u] = i /\ pc'[u] \in Cloned \cup {"clean"}
    BY DEF EntriesAreUsed
  <2>1. CASE i = h
    <3>1. PICK u \in Tasks : gateOf[u] = m
      BY <1>1, <1>2, <2>1 DEF Clones
    <3>2. m # None BY <1>5, <2>1
    <3>3. gateMap[Home[u]] = m /\ pc[u] \in Cloned
      BY <3>1, <3>2 DEF GateInv, ClonesAreOfTheMap
    <3>4. Home[u] = h
      BY <1>2, <3>2, <3>3 DEF GateInv, ClonesAreOfTheMap
    <3> QED BY <1>4, <2>1, <3>3, <3>4
  <2>2. CASE i # h
    <3>1. PICK u \in Tasks : Home[u] = i /\ pc[u] \in Cloned \cup {"clean"}
      BY <1>5, <2>2 DEF GateInv, EntriesAreUsed
    <3> QED BY <1>4, <2>2, <3>1
  <2> QED BY <2>1, <2>2
<1>9. PushesDoNotOverlap' BY <1>4 DEF GateInv, PushesDoNotOverlap
<1> QED BY <1>7, <1>8, <1>9 DEF GateInv

\* A restarted instance forgets its tasks and its mutex together.
LEMMA GateCrash ==
    ASSUME TypeOK, GateInv, NEW k \in Insts, Crash(k)
    PROVE  GateInv'
<1> USE TaskAssumption DEF TypeOK
<1>1. /\ gateMap' = [gateMap EXCEPT ![k] = None]
      /\ pc' = [t \in Tasks |-> IF Home[t] = k THEN "off" ELSE pc[t]]
      /\ gateOf' = [t \in Tasks |-> IF Home[t] = k THEN None ELSE gateOf[t]]
  BY DEF Crash
<1>2. "off" \notin Cloned BY DEF Cloned, Inside
<1>3. \A u \in Tasks : /\ Home[u] = k => pc'[u] = "off" /\ gateOf'[u] = None
                       /\ Home[u] # k => pc'[u] = pc[u] /\ gateOf'[u] = gateOf[u]
  BY <1>1
<1>4. gateMap'[k] = None /\ \A i \in Insts : i # k => gateMap'[i] = gateMap[i]
  BY <1>1
<1>5. ClonesAreOfTheMap'
  BY <1>2, <1>3, <1>4 DEF GateInv, ClonesAreOfTheMap
<1>6. EntriesAreUsed'
  BY <1>3, <1>4 DEF GateInv, EntriesAreUsed
<1>7. PushesDoNotOverlap'
  BY <1>2, <1>3 DEF GateInv, PushesDoNotOverlap, Cloned
<1> QED BY <1>5, <1>6, <1>7 DEF GateInv

\* Every step keeps what is said of the mutexes.
LEMMA GateStep ==
    ASSUME TypeOK, GateInv, [Next]_vars
    PROVE  GateInv'
<1> USE TaskAssumption DEF TypeOK
<1>0. CASE UNCHANGED vars
  BY <1>0, GateQuiet DEF vars, maps, tasks
<1>1. ASSUME NEW i \in Insts, Write(i) \/ Tell(i) \/ Untold(i) \/ Crash(i)
      PROVE GateInv'
  <2>1. CASE Write(i) BY <2>1, GateQuiet DEF Write, maps
  <2>2. CASE Tell(i)
    <3>1. \A u \in Tasks :
            \/ pc'[u] = pc[u]
            \/ pc[u] = "off" /\ pc'[u] = "asleep"
      BY <2>2 DEF Tell, Goto, Tasks
    <3> QED BY <2>2, <3>1, GateQuiet DEF Tell, Cloned, Inside
  <2>3. CASE Untold(i) BY <2>3, GateQuiet DEF Untold, maps, tasks
  <2>4. CASE Crash(i) BY <2>4, GateCrash
  <2> QED BY <1>1, <2>1, <2>2, <2>3, <2>4
<1>2. ASSUME NEW t \in Tasks, Call(t) \/ Turn(t) \/ Enter(t) \/ Acquire(t) \/ Clean(t)
      PROVE GateInv'
  <2>1. CASE Call(t)
    BY <2>1, GateQuiet DEF Call, Goto, maps, Cloned, Inside
  <2>2. CASE Turn(t)
    BY <2>2, GateQuiet DEF Turn, Tick, Wake, Check, Goto, maps, Cloned, Inside
  <2>3. CASE Enter(t) BY <2>3, GateEnter
  <2>4. CASE Acquire(t) BY <2>4, GateAcquire
  <2>5. CASE Clean(t) BY <2>5, GateClean
  <2> QED BY <1>2, <2>1, <2>2, <2>3, <2>4, <2>5
<1>3. ASSUME NEW t \in Tasks, Push(t) \/ Drop(t)
      PROVE GateInv'
  <2>1. CASE Load(t)
    <3>1. CASE Leave(t) BY <2>1, <3>1, GateLeave DEF Load, Leave, maps, Cloned, Inside
    <3>2. CASE Goto(t, "push") /\ UNCHANGED <<gateMap, gateOf>>
      BY <2>1, <3>2, GateQuiet DEF Load, Goto, Inside
    <3> QED BY <2>1, <3>1, <3>2 DEF Load, maps
  <2>2. CASE ReadRefs(t)
    BY <2>2, GateQuiet DEF ReadRefs, Goto, maps, Inside
  <2>3. CASE PushRefused(t)
    BY <2>3, GateQuiet DEF PushRefused, Goto, maps, Inside
  <2>4. CASE PushEnds(t)
    BY <2>4, GateQuiet DEF PushEnds, Goto, maps, Inside
  <2>5. CASE Record(t)
    BY <2>5, GateLeave DEF Record, Leave, maps, Cloned, Inside
  <2>6. CASE Drop(t)
    <3>1. CASE pc[t] = "ask" /\ Goto(t, "off") /\ UNCHANGED <<maps, gateOf>>
      BY <3>1, GateQuiet DEF Goto, maps, Cloned, Inside
    <3>2. CASE pc[t] \in Cloned /\ Leave(t)
      BY <3>2, GateLeave DEF Leave, maps
    <3> QED BY <2>6, <3>1, <3>2 DEF Drop, Cloned
  <2> QED BY <1>3, <2>1, <2>2, <2>3, <2>4, <2>5, <2>6 DEF Push
<1> QED BY <1>0, <1>1, <1>2, <1>3 DEF Next, Step

-----------------------------------------------------------------------------
(* The slots *)

\* A step that leaves the slots alone, starts and ends no worker and takes
\* none of them past the reading of the refs without settling what is owed.
LEMMA SlotQuiet ==
    ASSUME TypeOK, SlotInv, slot' = slot,
           \A u \in Callers : pc'[u] = pc[u] \/ pc'[u] \notin {"asleep", "check"},
           \A u \in Workers : (pc'[u] = "off") <=> (pc[u] = "off"),
           \A u \in Workers : pc[u] \in Coming => pc'[u] \in Coming \/ ~owed'[Home[u]],
           \A i \in Insts : owed'[i] => owed[i]
    PROVE  SlotInv'
<1>1. SlotIsItsWorker' BY DEF SlotInv, SlotIsItsWorker
<1>2. SlotHasWorker' BY DEF SlotInv, SlotHasWorker
<1>3. ToldIsComing' BY DEF SlotInv, ToldIsComing
<1> QED BY <1>1, <1>2, <1>3 DEF SlotInv

\* An event finds the worker of the slot, or gets one of its own.
LEMMA SlotTell ==
    ASSUME TypeOK, SlotInv, NEW i \in Insts, Tell(i)
    PROVE  SlotInv'
<1> USE TaskAssumption DEF TypeOK, Goto, Tasks
<1>1. owed' = [owed EXCEPT ![i] = TRUE] BY DEF Tell
<1>2. CASE slot[i] # "free"
  <2>1. slot' = [slot EXCEPT ![i] = "pending"] /\ pc' = pc BY <1>2 DEF Tell
  <2>2. SlotIsItsWorker' BY <2>1 DEF SlotInv, SlotIsItsWorker
  <2>3. \E t \in Workers : Home[t] = i /\ pc[t] # "off"
    BY <1>2 DEF SlotInv, SlotHasWorker
  <2>4. ToldIsComing' BY <1>1, <2>1, <2>3 DEF SlotInv, ToldIsComing
  <2>5. SlotHasWorker' BY <2>1, <2>3 DEF SlotInv, SlotHasWorker
  <2> QED BY <2>2, <2>4, <2>5 DEF SlotInv
<1>3. CASE slot[i] = "free"
  <2>1. PICK t \in Workers :
          /\ pc[t] = "off" /\ Home[t] = i
          /\ slot' = [slot EXCEPT ![i] = "idle"]
          /\ pc' = [pc EXCEPT ![t] = "asleep"]
    BY <1>3 DEF Tell
  <2>2. \A u \in Workers : Home[u] = i => pc[u] = "off"
    BY <1>3 DEF SlotInv, SlotIsItsWorker
  <2>3. pc'[t] = "asleep" /\ \A u \in Tasks : u # t => pc'[u] = pc[u]
    BY <2>1
  <2>4. slot'[i] = "idle" /\ \A j \in Insts : j # i => slot'[j] = slot[j]
    BY <2>1
  <2>5. SlotIsItsWorker'
    BY <2>1, <2>2, <2>3, <2>4 DEF SlotInv, SlotIsItsWorker
  <2>6. ToldIsComing'
    BY <1>1, <2>1, <2>2, <2>3, <2>4 DEF SlotInv, ToldIsComing, Coming
  <2>7. SlotHasWorker'
    BY <2>1, <2>3, <2>4 DEF SlotInv, SlotHasWorker
  <2> QED BY <2>5, <2>6, <2>7 DEF SlotInv
<1> QED BY <1>2, <1>3

\* The flag may be lowered: the worker that lowers it has yet to read the refs.
LEMMA SlotWake ==
    ASSUME TypeOK, SlotInv, NEW t \in Tasks, Wake(t)
    PROVE  SlotInv'
<1> USE TaskAssumption DEF TypeOK, Goto, Tasks
<1>1. /\ pc[t] = "asleep" /\ pc' = [pc EXCEPT ![t] = "ask"] /\ owed' = owed
      /\ slot' = [slot EXCEPT ![Home[t]] = "idle"]
  BY DEF Wake, ghost
<1>2. t \in Workers BY <1>1 DEF SlotInv, SlotIsItsWorker
<1>3. pc'[t] = "ask" /\ \A u \in Tasks : u # t => pc'[u] = pc[u] BY <1>1
<1>4. slot'[Home[t]] = "idle" /\ \A i \in Insts : i # Home[t] => slot'[i] = slot[i]
  BY <1>1
<1>5. SlotIsItsWorker' BY <1>1, <1>2, <1>3, <1>4 DEF SlotInv, SlotIsItsWorker
<1>6. ToldIsComing'
  BY <1>1, <1>2, <1>3, <1>4 DEF SlotInv, ToldIsComing, Coming
<1>7. SlotHasWorker' BY <1>1, <1>2, <1>3, <1>4 DEF SlotInv, SlotHasWorker
<1> QED BY <1>5, <1>6, <1>7 DEF SlotInv

\* The slot may be given up: its worker is the only one, it is past its push,
\* and the flag is down, so nothing is owed.
LEMMA SlotCheck ==
    ASSUME TypeOK, SlotInv, NEW t \in Tasks, Check(t)
    PROVE  SlotInv'
<1> USE TaskAssumption DEF TypeOK, Goto, Tasks
<1>1. pc[t] = "check" /\ owed' = owed BY DEF Check, ghost
<1>2. t \in Workers BY <1>1 DEF SlotInv, SlotIsItsWorker
<1>3. CASE slot[Home[t]] = "pending"
  <2>1. pc' = [pc EXCEPT ![t] = "asleep"] /\ slot' = slot BY <1>3 DEF Check
  <2> QED BY <1>1, <1>2, <2>1, SlotQuiet DEF Coming
<1>4. CASE slot[Home[t]] # "pending"
  <2>1. pc' = [pc EXCEPT ![t] = "off"] /\ slot' = [slot EXCEPT ![Home[t]] = "free"]
    BY <1>4 DEF Check
  <2>2. pc'[t] = "off" /\ \A u \in Tasks : u # t => pc'[u] = pc[u] BY <2>1
  <2>3. \A i \in Insts : i # Home[t] => slot'[i] = slot[i] BY <2>1
  <2>4. \A u \in Workers : pc[u] # "off" /\ Home[u] = Home[t] => u = t
    BY <1>1, <1>2 DEF SlotInv, SlotIsItsWorker
  <2>5. ~owed[Home[t]]
    BY <1>1, <1>2, <1>4, <2>4 DEF SlotInv, ToldIsComing, Coming
  <2>6. SlotIsItsWorker'
    BY <2>2, <2>3, <2>4 DEF SlotInv, SlotIsItsWorker
  <2>7. ToldIsComing'
    BY <1>1, <2>2, <2>3, <2>5 DEF SlotInv, ToldIsComing
  <2>8. SlotHasWorker'
    BY <2>1, <2>2, <2>3 DEF SlotInv, SlotHasWorker
  <2> QED BY <2>6, <2>7, <2>8 DEF SlotInv
<1> QED BY <1>3, <1>4

\* A restarted instance forgets its slot and its worker together.
LEMMA SlotCrash ==
    ASSUME TypeOK, SlotInv, NEW k \in Insts, Crash(k)
    PROVE  SlotInv'
<1> USE TaskAssumption DEF TypeOK, Tasks
<1>1. /\ slot' = [slot EXCEPT ![k] = "free"]
      /\ pc' = [t \in Tasks |-> IF Home[t] = k THEN "off" ELSE pc[t]]
      /\ owed' = [owed EXCEPT ![k] = FALSE]
  BY DEF Crash
<1>2. \A u \in Tasks : /\ Home[u] = k => pc'[u] = "off"
                       /\ Home[u] # k => pc'[u] = pc[u]
  BY <1>1
<1>3. slot'[k] = "free" /\ \A i \in Insts : i # k => slot'[i] = slot[i] BY <1>1
<1>4. SlotIsItsWorker' BY <1>2, <1>3 DEF SlotInv, SlotIsItsWorker
<1>5. ToldIsComing' BY <1>1, <1>2, <1>3 DEF SlotInv, ToldIsComing
<1>6. SlotHasWorker' BY <1>2, <1>3 DEF SlotInv, SlotHasWorker
<1> QED BY <1>4, <1>5, <1>6 DEF SlotInv

\* Every step keeps what is said of the slots.
LEMMA SlotStep ==
    ASSUME TypeOK, SlotInv, [Next]_vars
    PROVE  SlotInv'
<1> USE TaskAssumption DEF TypeOK, Goto, Tasks, Coming
<1>0. CASE UNCHANGED vars
  BY <1>0, SlotQuiet DEF vars, maps, tasks, ghost
<1>1. ASSUME NEW i \in Insts, Write(i) \/ Tell(i) \/ Untold(i) \/ Crash(i)
      PROVE SlotInv'
  <2>1. CASE Write(i) BY <2>1, SlotQuiet DEF Write, maps
  <2>2. CASE Tell(i) BY <2>2, SlotTell
  <2>3. CASE Untold(i) BY <2>3, SlotQuiet DEF Untold, maps, tasks
  <2>4. CASE Crash(i) BY <2>4, SlotCrash
  <2> QED BY <1>1, <2>1, <2>2, <2>3, <2>4
<1>2. ASSUME NEW t \in Tasks, Call(t) \/ Turn(t) \/ Enter(t) \/ Acquire(t) \/ Clean(t)
      PROVE SlotInv'
  <2>1. CASE Call(t) BY <2>1, SlotQuiet DEF Call, maps, ghost
  <2>2. CASE Tick(t) BY <2>2, SlotQuiet DEF Tick, maps, ghost
  <2>3. CASE Wake(t) BY <2>3, SlotWake
  <2>4. CASE Check(t) BY <2>4, SlotCheck
  <2>5. CASE Enter(t) BY <2>5, SlotQuiet DEF Enter, ghost
  <2>6. CASE Acquire(t) BY <2>6, SlotQuiet DEF Acquire, maps, ghost
  <2>7. CASE Clean(t) BY <2>7, SlotQuiet DEF Clean, AfterPush, ghost
  <2> QED BY <1>2, <2>1, <2>2, <2>3, <2>4, <2>5, <2>6, <2>7 DEF Turn
<1>3. ASSUME NEW t \in Tasks, Push(t) \/ Drop(t)
      PROVE SlotInv'
  <2>1. CASE Load(t) BY <2>1, SlotQuiet DEF Load, Leave, Spent, maps
  <2>2. CASE ReadRefs(t) BY <2>2, SlotQuiet DEF ReadRefs, maps
  <2>3. CASE PushRefused(t) BY <2>3, SlotQuiet DEF PushRefused, Spent, maps
  <2>4. CASE PushEnds(t) BY <2>4, SlotQuiet DEF PushEnds, maps
  <2>5. CASE Record(t) BY <2>5, SlotQuiet DEF Record, Leave, maps
  <2>6. CASE Drop(t) BY <2>6, SlotQuiet DEF Drop, Leave, Inside, maps, ghost
  <2> QED BY <1>3, <2>1, <2>2, <2>3, <2>4, <2>5, <2>6 DEF Push
<1> QED BY <1>0, <1>1, <1>2, <1>3 DEF Next, Step

-----------------------------------------------------------------------------
(* Theorems *)

\* The invariant holds in every reachable state.
THEOREM Invariance == Spec => []IInv
<1>1. IInv /\ [Next]_vars => IInv'
  BY TypeStep, GateStep, SlotStep DEF IInv
<1> QED BY InitIInv, <1>1, PTL DEF Spec

\* Slots, mutexes and tasks keep their types.
THEOREM TypeCorrect == Spec => []TypeOK
<1>1. IInv => TypeOK BY DEF IInv
<1> QED BY Invariance, <1>1, PTL

\* serialized: whoever is dropped and whenever entries leave the map, an
\* instance has at most one push of the list under way.
THEOREM NoOverlap == Spec => []PushesDoNotOverlap
<1>1. IInv => PushesDoNotOverlap BY DEF IInv, GateInv
<1> QED BY Invariance, <1>1, PTL

\* GateCleanup: a mutex nobody uses is not in the map.
THEOREM MapIsClean == Spec => []GateMapIsClean
<1>1. IInv => GateMapIsClean
  BY DEF IInv, GateInv, EntriesAreUsed, GateMapIsClean, Cloned, Inside
<1> QED BY Invariance, <1>1, PTL

\* coalesce: an event it was told of is on its way to a push.
THEOREM NothingForgotten == Spec => []ToldIsComing
<1>1. IInv => ToldIsComing BY DEF IInv, SlotInv
<1> QED BY Invariance, <1>1, PTL
-----------------------------------------------------------------------------
(* What is recorded *)

\* The core is one process, as it is deployed: the mutexes and the slots are in
\* its memory, and what another instance sends at the same time they cannot see.
OneInstance == \A i, j \in Insts : i = j

\* A push by itself.
LEMMA AloneInside ==
    ASSUME OneInstance, TypeOK, GateInv, NEW t \in Tasks, NEW u \in Tasks,
           pc[t] \in Inside, pc[u] \in Inside
    PROVE  t = u
<1>1. Home[t] = Home[u] BY TaskAssumption DEF OneInstance
<1> QED BY <1>1 DEF GateInv, PushesDoNotOverlap

\* An outcome comes to be recorded only at the end of its push.
LEMMA ComesToRecord ==
    ASSUME TypeOK, [Next]_vars, NEW t \in Tasks, pc'[t] = "record"
    PROVE  \/ pc[t] = "record" /\ outcome'[t] = outcome[t]
           \/ PushRefused(t) \/ PushEnds(t)
<1> USE TaskAssumption DEF TypeOK, Goto
<1>0. CASE UNCHANGED vars BY <1>0 DEF vars, tasks
<1>1. ASSUME NEW i \in Insts, Write(i) \/ Tell(i) \/ Untold(i) \/ Crash(i)
      PROVE pc[t] = "record" /\ outcome'[t] = outcome[t]
  <2>1. CASE Write(i) BY <2>1 DEF Write
  <2>2. CASE Tell(i) BY <2>2 DEF Tell, Tasks
  <2>3. CASE Untold(i) BY <2>3 DEF Untold, tasks
  <2>4. CASE Crash(i) BY <2>4 DEF Crash
  <2> QED BY <1>1, <2>1, <2>2, <2>3, <2>4
<1>2. ASSUME NEW u \in Tasks, Call(u) \/ Turn(u) \/ Enter(u) \/ Acquire(u) \/ Clean(u)
      PROVE pc[t] = "record" /\ outcome'[t] = outcome[t]
  BY <1>2 DEF Call, Turn, Tick, Wake, Check, Enter, Acquire, Clean, AfterPush
<1>3. ASSUME NEW u \in Tasks, Load(u) \/ ReadRefs(u) \/ Record(u) \/ Drop(u)
      PROVE pc[t] = "record" /\ outcome'[t] = outcome[t]
  <2>1. CASE Load(u) BY <2>1 DEF Load, Leave
  <2>2. CASE ReadRefs(u) BY <2>2 DEF ReadRefs
  <2>3. CASE Record(u) BY <2>3 DEF Record, Leave
  <2>4. CASE Drop(u) BY <2>4 DEF Drop, Leave
  <2> QED BY <1>3, <2>1, <2>2, <2>3, <2>4
<1>4. ASSUME NEW u \in Tasks, u # t, PushRefused(u) \/ PushEnds(u)
      PROVE pc[t] = "record" /\ outcome'[t] = outcome[t]
  BY <1>4 DEF PushRefused, PushEnds
<1> QED BY <1>0, <1>1, <1>2, <1>3, <1>4 DEF Next, Step, Push

\* The task about to record is the one whose push ended last.
LEMMA OrderStep ==
    ASSUME OneInstance, IInv, OutcomesInOrder, [Next]_vars
    PROVE  OutcomesInOrder'
<1> SUFFICES ASSUME NEW t \in Tasks, pc'[t] = "record" PROVE latest' = t
  BY DEF OutcomesInOrder
<1>1. TypeOK /\ GateInv BY DEF IInv
<1>2. CASE PushRefused(t) \/ PushEnds(t) BY <1>2 DEF PushRefused, PushEnds
<1>3. CASE pc[t] = "record" /\ ~(PushRefused(t) \/ PushEnds(t))
  <2>1. latest = t BY <1>3 DEF OutcomesInOrder
  <2>2. ASSUME NEW u \in Tasks, PushRefused(u) \/ PushEnds(u) PROVE FALSE
    <3>1. pc[u] \in {"push", "sent"} BY <2>2 DEF PushRefused, PushEnds
    <3>2. u = t BY <1>1, <1>3, <3>1, AloneInside DEF Inside
    <3> QED BY <1>3, <3>1, <3>2
  <2>3. latest' = latest
    BY <2>2 DEF Next, Step, Turn, Push, Write, Tell, Untold, Crash, Call, Tick, Wake, Check,
       Enter, Acquire, Clean, Load, ReadRefs, Record, Drop, vars, ghost
  <2> QED BY <2>1, <2>3
<1> QED BY <1>1, <1>2, <1>3, ComesToRecord

\* serialized: what is recorded is what became of the push that ended last, for
\* any number of workers and callers of one instance and under every fault.
THEOREM OutcomesOrdered == ASSUME OneInstance PROVE Spec => []OutcomesInOrder
<1>1. Init => OutcomesInOrder BY DEF Init, OutcomesInOrder
<1>2. IInv /\ [Next]_vars => IInv'
  BY TypeStep, GateStep, SlotStep DEF IInv
<1>3. IInv /\ OutcomesInOrder /\ [Next]_vars => OutcomesInOrder' BY OrderStep
<1> QED BY InitIInv, <1>1, <1>2, <1>3, PTL DEF Spec

-----------------------------------------------------------------------------
(* What is shown *)

\* A mirror that lags has a push on its way: a handler has yet to tell of its
\* write, a worker has yet to read the refs, or was told while it pushed, or it
\* sends today's refs, or it is about to record that it failed.
Awaited ==
    \/ \E i \in Insts : untold[i]
    \/ \E t \in Workers :
         \/ pc[t] \in Coming
         \/ pc[t] # "off" /\ slot[Home[t]] = "pending"
         \/ pc[t] = "sent" /\ seen[t]
         \/ pc[t] = "record" /\ outcome[t] = "error"

\* It shows, and no push under way will hide it.
Shown ==
    /\ status = "error" \/ stale
    /\ \A t \in Tasks : /\ pc[t] = "sent" => seen[t]
                        /\ pc[t] = "record" => outcome[t] = "error"

LagInv ==
    /\ \A t \in Tasks : pc[t] = "sent" /\ ~seen[t] => behind
    /\ configured /\ behind /\ ~lost => Awaited \/ Shown

\* A push on its way stays on its way when no worker gives its turn up.
LEMMA AwaitedStays ==
    ASSUME TypeOK, Awaited, untold' = untold, slot' = slot,
           \A t \in Workers :
               \/ pc'[t] = pc[t] /\ seen'[t] = seen[t] /\ outcome'[t] = outcome[t]
               \/ pc[t] \in Coming /\ pc'[t] \in Coming
               \/ pc[t] \in {"clean", "check"} /\ pc'[t] # "off"
    PROVE  Awaited'
<1>1. CASE \E i \in Insts : untold[i] BY <1>1 DEF Awaited
<1>2. ASSUME NEW t \in Workers,
             \/ pc[t] \in Coming
             \/ pc[t] # "off" /\ slot[Home[t]] = "pending"
             \/ pc[t] = "sent" /\ seen[t]
             \/ pc[t] = "record" /\ outcome[t] = "error"
      PROVE Awaited'
  <2> SUFFICES \/ pc'[t] \in Coming
               \/ pc'[t] # "off" /\ slot'[Home[t]] = "pending"
               \/ pc'[t] = "sent" /\ seen'[t]
               \/ pc'[t] = "record" /\ outcome'[t] = "error"
    BY DEF Awaited
  <2> QED BY <1>2 DEF Coming
<1> QED BY <1>1, <1>2 DEF Awaited

\* Steps that touch neither the list nor the end of a push.
LEMMA LagQuiet ==
    ASSUME TypeOK, LagInv, list' = list, lost' = lost, untold' = untold, slot' = slot,
           seen' = seen, outcome' = outcome,
           \A t \in Tasks : pc'[t] = pc[t] \/ pc'[t] \notin {"sent", "record"},
           \A t \in Workers :
               \/ pc'[t] = pc[t]
               \/ pc[t] \in Coming /\ pc'[t] \in Coming
               \/ pc[t] \in {"clean", "check"} /\ pc'[t] # "off"
    PROVE  LagInv'
<1>1. behind' = behind /\ configured' = configured /\ status' = status /\ stale' = stale
  BY DEF list
<1>2. Awaited => Awaited' BY AwaitedStays
<1>3. Shown => Shown' BY <1>1 DEF Shown
<1> QED BY <1>1, <1>2, <1>3 DEF LagInv

\* What is on its way when nothing but a task under the gate is looked at.
LEMMA AwaitedElsewhere ==
    ASSUME OneInstance, TypeOK, GateInv, Awaited, NEW t \in Tasks, pc[t] \in {"sent", "record"},
           t \in Workers => ~(pc[t] = "sent" /\ seen[t]) /\ ~(pc[t] = "record" /\ outcome[t] = "error"),
           untold' = untold, slot' = slot, pc'[t] # "off",
           \A u \in Tasks : u # t => pc'[u] = pc[u]
    PROVE  Awaited'
<1>1. CASE \E i \in Insts : untold[i] BY <1>1 DEF Awaited
<1>2. ASSUME NEW u \in Workers,
             \/ pc[u] \in Coming
             \/ pc[u] # "off" /\ slot[Home[u]] = "pending"
             \/ pc[u] = "sent" /\ seen[u]
             \/ pc[u] = "record" /\ outcome[u] = "error"
      PROVE Awaited'
  <2>1. u \in Tasks BY DEF Tasks
  <2>2. pc[u] \in Inside => u = t BY <2>1, AloneInside DEF Inside
  <2>3. \/ pc'[u] \in Coming
        \/ pc'[u] # "off" /\ slot'[Home[u]] = "pending"
    BY <1>2, <2>1, <2>2 DEF Inside, Coming
  <2> QED BY <2>3 DEF Awaited
<1> QED BY <1>1, <1>2 DEF Awaited

\* coalesce: an event has a worker that has yet to read the refs, or that will
\* look at the flag; it gives the slot up only with the flag down.
LEMMA LagWorker ==
    ASSUME OneInstance, IInv, LagInv, NEW i \in Insts, NEW t \in Tasks,
           Tell(i) \/ Wake(t) \/ Check(t)
    PROVE  LagInv'
<1> USE TaskAssumption DEF Goto
<1>0. TypeOK /\ SlotInv BY DEF IInv
<1>1. list' = list /\ lost' = lost /\ seen' = seen /\ outcome' = outcome
  BY DEF Tell, Wake, Check, ghost
<1>2. \A u \in Tasks : pc'[u] = pc[u] \/ pc'[u] \notin {"sent", "record"}
  BY <1>0 DEF Tell, Wake, Check, TypeOK, Tasks
<1>3. /\ \A u \in Tasks : pc'[u] = "sent" /\ ~seen'[u] => behind'
      /\ Shown => Shown'
  BY <1>1, <1>2 DEF LagInv, Shown, list
<1>4. SUFFICES Awaited => Awaited' BY <1>1, <1>3 DEF LagInv, list
<1>5. CASE Tell(i)
  <2>1. CASE slot[i] # "free"
    <3>1. PICK u \in Workers : Home[u] = i /\ pc[u] # "off"
      BY <1>0, <2>1 DEF SlotInv, SlotHasWorker
    <3>2. pc'[u] # "off" /\ slot'[Home[u]] = "pending"
      BY <1>0, <1>5, <2>1, <3>1 DEF Tell, TypeOK
    <3> QED BY <3>2 DEF Awaited
  <2>2. CASE slot[i] = "free"
    <3>1. PICK u \in Workers : pc'[u] = "asleep"
      BY <1>0, <1>5, <2>2 DEF Tell, TypeOK, Tasks
    <3> QED BY <3>1 DEF Awaited, Coming
  <2> QED BY <2>1, <2>2
<1>6. CASE Wake(t)
  <2>1. t \in Workers /\ pc'[t] = "ask"
    BY <1>0, <1>6 DEF Wake, TypeOK, SlotInv, SlotIsItsWorker, Tasks
  <2> QED BY <2>1 DEF Awaited, Coming
<1>7. CASE Check(t)
  <2>1. t \in Workers /\ pc[t] = "check" /\ untold' = untold
    BY <1>0, <1>7 DEF Check, SlotInv, SlotIsItsWorker, Tasks, ghost
  <2>2. CASE slot[Home[t]] = "pending"
    <3>1. pc'[t] = "asleep" BY <1>0, <1>7, <2>2 DEF Check, TypeOK
    <3> QED BY <2>1, <3>1 DEF Awaited, Coming
  <2>3. CASE slot[Home[t]] # "pending"
    <3>1. \A u \in Workers : pc[u] # "off" => u = t
      BY <1>0, <2>1 DEF SlotInv, SlotIsItsWorker, OneInstance, Tasks
    <3>2. Awaited => \E j \in Insts : untold[j]
      BY <2>1, <2>3, <3>1 DEF Awaited, Coming
    <3> QED BY <2>1, <3>2 DEF Awaited
  <2> QED BY <2>2, <2>3
<1> QED BY <1>5, <1>6, <1>7

\* A push reads the refs, or does not come so far.
LEMMA LagRead ==
    ASSUME OneInstance, IInv, LagInv, NEW t \in Tasks,
           Load(t) \/ ReadRefs(t) \/ PushRefused(t)
    PROVE  LagInv'
<1> USE TaskAssumption DEF Goto
<1>0. TypeOK BY DEF IInv
<1>1. list' = list /\ untold' = untold BY DEF Load, ReadRefs, PushRefused
<1>2. behind' = behind /\ configured' = configured /\ status' = status /\ stale' = stale
  BY <1>1 DEF list
<1>3. CASE Load(t)
  <2>1. CASE configured /\ Goto(t, "push")
             /\ UNCHANGED <<maps, left, gateOf, seen, outcome, owed, lost>>
    BY <1>0, <1>1, <1>3, <2>1, LagQuiet DEF Load, maps, Tasks, Coming, TypeOK
  <2>2. CASE Leave(t) /\ (~configured \/ lost')
    <3>1. \A u \in Tasks : pc'[u] = "sent" => pc[u] = "sent" /\ seen'[u] = seen[u]
      BY <1>0, <2>2 DEF Leave, TypeOK
    <3> QED BY <1>2, <2>2, <3>1 DEF LagInv
  <2> QED BY <1>3, <2>1, <2>2 DEF Load
<1>4. CASE ReadRefs(t)
  <2>1. /\ pc[t] = "push" /\ pc'[t] = "sent" /\ seen'[t] = TRUE
        /\ \A u \in Tasks : u # t => pc'[u] = pc[u] /\ seen'[u] = seen[u]
        /\ outcome' = outcome /\ lost' = lost /\ slot' = slot
    BY <1>0, <1>4 DEF ReadRefs, TypeOK, maps
  <2>2. CASE t \in Workers
    <3>1. Awaited' BY <2>1, <2>2 DEF Awaited
    <3> QED BY <1>2, <2>1, <3>1 DEF LagInv
  <2>3. CASE t \notin Workers
    <3>1. Awaited => Awaited' BY <1>0, <1>1, <2>1, <2>3, AwaitedStays DEF Tasks
    <3>2. Shown => Shown' BY <1>2, <2>1 DEF Shown
    <3> QED BY <1>2, <2>1, <3>1, <3>2 DEF LagInv
  <2> QED BY <2>2, <2>3
<1>5. CASE PushRefused(t)
  <2>1. /\ pc'[t] = "record" /\ outcome'[t] = "error"
        /\ \A u \in Tasks : u # t => pc'[u] = pc[u] /\ outcome'[u] = outcome[u]
        /\ seen' = seen /\ lost' = lost /\ slot' = slot
    BY <1>0, <1>5 DEF PushRefused, TypeOK, maps
  <2>2. CASE t \in Workers
    <3>1. Awaited' BY <2>1, <2>2 DEF Awaited
    <3> QED BY <1>2, <2>1, <3>1 DEF LagInv
  <2>3. CASE t \notin Workers
    <3>1. Awaited => Awaited' BY <1>0, <1>1, <2>1, <2>3, AwaitedStays DEF Tasks
    <3>2. Shown => Shown' BY <1>2, <2>1 DEF Shown
    <3> QED BY <1>2, <2>1, <3>1, <3>2 DEF LagInv
  <2> QED BY <2>2, <2>3
<1> QED BY <1>3, <1>4, <1>5

\* The push ends: with today's refs the mirror is up to date; with older ones
\* it lagged before, and what was on its way then was not this push.
LEMMA LagEnds ==
    ASSUME OneInstance, IInv, LagInv, NEW t \in Tasks, PushEnds(t)
    PROVE  LagInv'
<1> USE TaskAssumption
<1>0. TypeOK /\ GateInv BY DEF IInv
<1>1. /\ pc[t] = "sent" /\ pc'[t] = "record"
      /\ \A u \in Tasks : u # t => pc'[u] = pc[u] /\ seen'[u] = seen[u] /\ outcome'[u] = outcome[u]
      /\ status' = status /\ stale' = stale /\ configured' = configured
      /\ slot' = slot /\ untold' = untold /\ lost' = (lost /\ behind')
  BY <1>0 DEF PushEnds, Goto, TypeOK, maps
<1>2. \A u \in Tasks : u # t => pc'[u] \notin {"sent", "record"}
  BY <1>0, <1>1, AloneInside DEF Inside
<1>3. behind' => behind BY <1>1 DEF PushEnds, LagInv
<1>4. SUFFICES ASSUME configured, behind', ~lost' PROVE Awaited' \/ Shown'
  BY <1>1, <1>2 DEF LagInv
<1>5. Awaited \/ Shown BY <1>1, <1>3, <1>4 DEF LagInv
<1>6. CASE outcome'[t] = "error"
  <2>1. CASE t \in Workers BY <1>1, <1>6, <2>1 DEF Awaited
  <2>2. CASE t \notin Workers
    <3>1. Awaited => Awaited' BY <1>0, <1>1, <2>2, AwaitedElsewhere
    <3>2. Shown => Shown' BY <1>1, <1>2, <1>6 DEF Shown
    <3> QED BY <1>5, <3>1, <3>2
  <2> QED BY <2>1, <2>2
<1>7. CASE outcome'[t] # "error"
  <2>1. behind' = ~seen[t] BY <1>0, <1>7 DEF PushEnds, TypeOK
  <2>2. ~seen[t] BY <1>4, <2>1
  <2>3. Awaited BY <1>1, <1>5, <2>2 DEF Shown
  <2> QED BY <1>0, <1>1, <2>2, <2>3, AwaitedElsewhere
<1> QED BY <1>6, <1>7

\* A failure that is recorded shows; a success that is recorded over a lag
\* leaves what was on its way.
LEMMA LagRecord ==
    ASSUME OneInstance, IInv, LagInv, NEW t \in Tasks, Record(t)
    PROVE  LagInv'
<1> USE TaskAssumption
<1>0. TypeOK /\ GateInv BY DEF IInv
<1>1. /\ pc[t] = "record" /\ pc'[t] = "clean"
      /\ \A u \in Tasks : u # t => pc'[u] = pc[u] /\ seen'[u] = seen[u] /\ outcome'[u] = outcome[u]
      /\ behind' = behind /\ configured' = configured
      /\ slot' = slot /\ untold' = untold
  BY <1>0 DEF Record, Leave, Goto, TypeOK, maps
<1>2. \A u \in Tasks : pc'[u] \notin {"sent", "record"}
  BY <1>0, <1>1, AloneInside DEF Inside
<1>3. CASE status' = outcome[t] /\ stale' = FALSE /\ lost' = lost
  <2>1. CASE outcome[t] = "error"
    <3>1. Shown' BY <1>2, <1>3, <2>1 DEF Shown
    <3> QED BY <1>2, <3>1 DEF LagInv
  <2>2. CASE outcome[t] # "error"
    <3>1. ~Shown BY <1>1, <2>2 DEF Shown
    <3>2. Awaited => Awaited' BY <1>0, <1>1, <2>2, AwaitedElsewhere
    <3> QED BY <1>1, <1>2, <1>3, <3>1, <3>2 DEF LagInv
  <2> QED BY <2>1, <2>2
<1>4. CASE lost' = behind BY <1>1, <1>2, <1>4 DEF LagInv
<1> QED BY <1>3, <1>4 DEF Record

\* A caller that goes away takes no worker with it.
LEMMA LagDrop ==
    ASSUME OneInstance, IInv, LagInv, NEW t \in Tasks, Drop(t)
    PROVE  LagInv'
<1> USE TaskAssumption
<1>0. TypeOK /\ GateInv BY DEF IInv
<1>1. /\ t \notin Workers /\ configured' = configured /\ slot' = slot /\ UNCHANGED ghost
      /\ \A u \in Tasks : u # t => pc'[u] = pc[u] /\ seen'[u] = seen[u] /\ outcome'[u] = outcome[u]
      /\ pc'[t] \notin {"sent", "record"}
  BY <1>0 DEF Drop, Leave, Goto, TypeOK, maps, list
<1>2. Awaited => Awaited' BY <1>0, <1>1, AwaitedStays DEF Tasks, ghost
<1>3. behind' => behind BY DEF Drop, LagInv, list
<1>4. behind' = behind \/ pc[t] = "sent" BY DEF Drop, list
<1>5. \A u \in Tasks : pc'[u] = "sent" /\ ~seen'[u] => behind'
  BY <1>0, <1>1, <1>4, AloneInside DEF LagInv, Inside
<1>6. \/ status' = status /\ stale' = stale
      \/ pc[t] = "record" /\ status' = outcome[t]
  BY DEF Drop, list
<1>7. Shown => Shown' BY <1>1, <1>6 DEF Shown
<1> QED BY <1>1, <1>2, <1>3, <1>5, <1>7 DEF LagInv, ghost

\* Every step keeps it.
LEMMA LagStep ==
    ASSUME OneInstance, IInv, LagInv, [Next]_vars
    PROVE  LagInv'
<1> USE TaskAssumption DEF Goto
<1>0. TypeOK /\ SlotInv BY DEF IInv
<1>1. CASE UNCHANGED vars
  BY <1>0, <1>1, LagQuiet DEF vars, maps, tasks, ghost
<1>2. ASSUME NEW i \in Insts, Write(i) \/ Tell(i) \/ Untold(i) \/ Crash(i)
      PROVE LagInv'
  <2>1. CASE Write(i)
    <3>1. untold'[i] = TRUE BY <1>0, <2>1 DEF Write, TypeOK
    <3> QED BY <2>1, <3>1 DEF Write, LagInv, Awaited
  <2>2. CASE Tell(i)
    <3>1. PICK t \in Tasks : TRUE
      BY <1>0, <2>2 DEF Tell, SlotInv, SlotHasWorker, Tasks
    <3> QED BY <2>2, LagWorker
  <2>3. CASE Untold(i) BY <2>3 DEF Untold, LagInv, list, tasks
  <2>4. CASE Crash(i)
    <3>1. \A u \in Tasks : pc'[u] = "off" BY <2>4 DEF Crash, OneInstance
    <3> QED BY <2>4, <3>1 DEF Crash, LagInv
  <2> QED BY <1>2, <2>1, <2>2, <2>3, <2>4
<1>3. ASSUME NEW t \in Tasks, Call(t) \/ Turn(t) \/ Enter(t) \/ Acquire(t) \/ Clean(t)
      PROVE LagInv'
  <2>1. CASE Call(t)
    BY <1>0, <2>1, LagQuiet DEF Call, maps, ghost, TypeOK
  <2>2. CASE Tick(t) BY <1>0, <2>2, LagQuiet DEF Tick, maps, ghost
  <2>3. CASE Wake(t) \/ Check(t) BY <2>3, LagWorker
  <2>4. CASE Enter(t)
    BY <1>0, <2>4, LagQuiet DEF Enter, ghost, TypeOK, Coming, Tasks
  <2>5. CASE Acquire(t)
    BY <1>0, <2>5, LagQuiet DEF Acquire, maps, ghost, TypeOK, Coming, Tasks
  <2>6. CASE Clean(t)
    BY <1>0, <2>6, LagQuiet DEF Clean, AfterPush, ghost, TypeOK, Tasks
  <2> QED BY <1>3, <2>1, <2>2, <2>3, <2>4, <2>5, <2>6 DEF Turn
<1>4. ASSUME NEW t \in Tasks, Push(t) \/ Drop(t) PROVE LagInv'
  BY <1>4, LagRead, LagEnds, LagRecord, LagDrop DEF Push
<1> QED BY <1>1, <1>2, <1>3, <1>4 DEF Next, Step

\* "No silent degradation": unless an event or an outcome was lost, a mirror
\* that lags at rest shows it, for any number of workers and callers.
THEOREM LagShows == ASSUME OneInstance PROVE Spec => []LagIsVisible
<1>1. Init => LagInv BY DEF Init, LagInv
<1>2. IInv /\ [Next]_vars => IInv'
  BY TypeStep, GateStep, SlotStep DEF IInv
<1>3. IInv /\ LagInv /\ [Next]_vars => LagInv' BY LagStep
<1>4. LagInv => LagIsVisible
  BY DEF LagInv, LagIsVisible, Rest, Awaited, Shown, Coming, Tasks
<1> QED BY InitIInv, <1>1, <1>2, <1>3, <1>4, PTL DEF Spec

=============================================================================
