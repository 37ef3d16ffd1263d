--------------------------- MODULE ListBirthProofs ---------------------------
(***************************************************************************)
(* Directories and lists agree for any number of lists, faults and sweeps. *)
(***************************************************************************)
EXTENDS ListBirth, TLAPS

Open == {"guard", "git", "fixate"}

BirthType ==
    /\ row \in [Lists -> {"none", "open", "there"}]
    /\ dir \in [Lists -> SUBSET {"none", "rows", "files", "push"}]
    /\ birth \in [Lists -> {"new", "over"} \cup Open]
    /\ answer \in [Lists -> {"none", "ok", "failed", "unknown"}]
    /\ owed \in [Lists -> SUBSET {"files", "push"}]
    /\ sweep \in [at : {"off", "ids", "judge"}, live : SUBSET Lists, todo : SUBSET Lists,
                  next : SUBSET Lists, due : SUBSET Lists]

\* What is known of a list by the step of its birth, and of a finished one.
ListInv(l) ==
    /\ birth[l] \in {"new", "guard"} => row[l] = "none"
    /\ birth[l] \in {"git", "fixate"} => row[l] = "open"
    /\ birth[l] = "over" => row[l] \in {"none", "there"}
    /\ birth[l] \in {"new", "guard", "git"} => dir[l] = NoDir
    /\ birth[l] # "over" => owed[l] = {}
    /\ answer[l] = "failed" => birth[l] = "over" /\ row[l] = "none" /\ dir[l] = NoDir
    /\ l \notin raced => /\ birth[l] = "fixate" => dir[l] = {"rows", "files"}
                         /\ row[l] = "there" => owed[l] \subseteq dir[l]

\* What the sweep is about to remove belongs to no list and to no birth it did
\* not meet, and what it has to remove is still on its way.
SweepInv(l) ==
    /\ l \in sweep.todo \cup sweep.next => birth[l] \in {"fixate", "over"}
    /\ l \in sweep.next \ raced => birth[l] = "over" /\ row[l] = "none"
    /\ sweep.at # "judge" => l \notin sweep.todo \cup sweep.next
    /\ (sweep.at = "judge" /\ l \in sweep.due) =>
         /\ birth[l] = "over" /\ row[l] = "none"
         /\ l \in sweep.todo \cup sweep.next \/ dir[l] = NoDir
    /\ l \in sweep.next => sweep.next = {l}

BirthInv == BirthType /\ \A l \in Lists : ListInv(l) /\ SweepInv(l)

-----------------------------------------------------------------------------
LEMMA BirthInvInit == BirthInit => BirthInv
BY DEF BirthInit, BirthInv, BirthType, ListInv, SweepInv, NoDir, NoSweep, Open

LEMMA InvSpares == BirthInv => SweepSparesLists /\ FailedBirthLeavesNothing
BY DEF BirthInv, ListInv, SweepSparesLists, FailedBirthLeavesNothing

(* Create, from its guard to its end. *)
LEMMA CreateKeeps ==
  ASSUME BirthInv, NEW l \in Lists,
         \/ CreatePlain(l) \/ TakeBirthGuard(l) \/ InsertRow(l) \/ InitWithVersion(l)
         \/ InitFails(l) \/ Fixate(l) \/ FixateFails(l) \/ FixateUnanswered(l) \/ BirthCut(l)
  PROVE  BirthInv'
<1> USE DEF BirthInv, BirthType, NoDir, Open
<1>0. sweep' = sweep /\ raced' = raced
  BY DEF CreatePlain, TakeBirthGuard, InsertRow, InitWithVersion, InitFails, Fixate, FixateFails,
         FixateUnanswered, BirthCut, Over
<1>1. ASSUME CreatePlain(l) \/ TakeBirthGuard(l) \/ InsertRow(l) PROVE BirthInv'
  BY <1>0, <1>1 DEF CreatePlain, TakeBirthGuard, InsertRow, ListInv, SweepInv
<1>2. ASSUME InitWithVersion(l) \/ InitFails(l) PROVE BirthInv'
  BY SMTT(60), <1>0, <1>2 DEF InitWithVersion, InitFails, Over, ListInv, SweepInv
<1>3. ASSUME Fixate(l) \/ FixateFails(l) \/ FixateUnanswered(l) PROVE BirthInv'
  BY <1>0, <1>3 DEF Fixate, FixateFails, FixateUnanswered, Over, ListInv, SweepInv
<1>4. ASSUME BirthCut(l) PROVE BirthInv'
  BY <1>0, <1>4 DEF BirthCut, Over, ListInv, SweepInv
<1> QED
  BY <1>1, <1>2, <1>3, <1>4

(* The life of a list that is there. *)
LEMMA LifeKeeps ==
  ASSUME BirthInv, NEW l \in Lists, Rebuild(l) \/ Pushed(l) \/ DeleteList(l)
  PROVE  BirthInv'
<1> USE DEF BirthInv, BirthType, NoDir, Open
<1>1. ASSUME Rebuild(l) PROVE BirthInv'
  BY <1>1 DEF Rebuild, ListInv, SweepInv
<1>2. ASSUME Pushed(l) PROVE BirthInv'
  BY <1>2 DEF Pushed, ListInv, SweepInv
<1>3. ASSUME DeleteList(l) PROVE BirthInv'
  BY <1>3 DEF DeleteList, ListInv, SweepInv
<1> QED
  BY <1>1, <1>2, <1>3

(* The sweep: a directory it saw has a birth that reached it, and a birth   *)
(* that is over without a list never makes one.                             *)
LEMMA SweepKeeps ==
  ASSUME BirthInv,
         ReadIds \/ Scan \/ SweepEnds \/ \E l \in Lists : Judge(l) \/ RemoveDir(l)
  PROVE  BirthInv'
<1> USE DEF BirthInv, BirthType, NoDir, Open
<1>1. ASSUME ReadIds PROVE BirthInv'
  BY <1>1, ZenonT(60) DEF ReadIds, NoSweep, Committed, ListInv, SweepInv
<1>2. ASSUME Scan PROVE BirthInv'
  <2> DEFINE due == {l \in Orphans : row[l] = "none" /\ birth[l] = "over"}
  <2>1. /\ row' = row /\ dir' = dir /\ birth' = birth /\ answer' = answer /\ owed' = owed
        /\ raced' = raced
    BY <1>2 DEF Scan
  <2>2. \/ sweep' = NoSweep
        \/ sweep' = [sweep EXCEPT !.at = "judge", !.todo = Orphans, !.due = due]
    BY <1>2 DEF Scan
  <2>3. Orphans \subseteq Lists /\ due \subseteq Lists BY DEF Orphans
  <2> HIDE DEF due
  <2>4. sweep \in [at : {"off", "ids", "judge"}, live : SUBSET Lists, todo : SUBSET Lists,
                   next : SUBSET Lists, due : SUBSET Lists]
    OBVIOUS
  <2>5. /\ sweep'.next = sweep.next \/ sweep'.next = {}
        /\ sweep'.todo \subseteq Orphans
        /\ sweep'.at = "judge" => sweep'.due = due /\ sweep'.todo = Orphans
        /\ sweep'.at # "judge" => sweep'.todo = {} /\ sweep'.next = {}
    <3> HIDE DEF BirthInv, BirthType
    <3>1. CASE sweep' = NoSweep BY <3>1 DEF NoSweep
    <3>2. CASE sweep' = [sweep EXCEPT !.at = "judge", !.todo = Orphans, !.due = due]
      BY <2>4, <3>2
    <3> QED BY <2>2, <3>1, <3>2
  <2>6. BirthType'
    <3>1. sweep' \in [at : {"off", "ids", "judge"}, live : SUBSET Lists, todo : SUBSET Lists,
                      next : SUBSET Lists, due : SUBSET Lists]
      <4> HIDE DEF BirthInv, BirthType
      <4>1. CASE sweep' = NoSweep BY <4>1 DEF NoSweep
      <4>2. CASE sweep' = [sweep EXCEPT !.at = "judge", !.todo = Orphans, !.due = due]
        BY <2>3, <2>4, <4>2
      <4> QED BY <2>2, <4>1, <4>2
    <3> QED BY <2>1, <3>1
  <2>7. ASSUME NEW l \in Lists PROVE ListInv(l)' /\ SweepInv(l)'
    <3>1. ListInv(l)' BY <2>1 DEF ListInv
    <3>2. l \in Orphans => dir[l] # NoDir BY DEF Orphans
    <3>3. l \in due => l \in Orphans /\ row[l] = "none" /\ birth[l] = "over" BY DEF due
    <3>4. l \in Orphans => birth[l] \in {"fixate", "over"} BY <3>2 DEF ListInv
    <3> HIDE DEF BirthInv
    <3>5. SweepInv(l) BY DEF BirthInv
    <3>6. SweepInv(l)' BY <2>1, <2>5, <3>3, <3>4, <3>5 DEF SweepInv
    <3> QED BY <3>1, <3>6
  <2> QED BY <2>6, <2>7
<1>3. ASSUME NEW l \in Lists, Judge(l) PROVE BirthInv'
  <2>1. /\ row' = row /\ dir' = dir /\ birth' = birth /\ answer' = answer /\ owed' = owed
        /\ raced' = IF birth[l] \in Open THEN raced \cup {l} ELSE raced
        /\ l \in sweep.todo /\ sweep.next = {} /\ sweep.at = "judge"
    BY <1>3 DEF Judge
  <2>2. BirthType' BY ZenonT(60), <1>3, <2>1 DEF Judge
  <2>3. /\ sweep'.todo = sweep.todo \ {l} /\ sweep'.at = "judge" /\ sweep'.due = sweep.due
        /\ sweep'.next = (IF row[l] # "there" THEN {l} ELSE {})
    BY <1>3, <2>1 DEF Judge, StillGone
  <2>4. ASSUME NEW k \in Lists PROVE ListInv(k)' /\ SweepInv(k)'
    <3>1. ListInv(k) /\ SweepInv(k) /\ SweepInv(l) /\ ListInv(l) OBVIOUS
    <3> HIDE DEF BirthInv
    <3>2. raced \subseteq raced' BY <2>1
    <3>3. ListInv(k)' BY <2>1, <3>1, <3>2 DEF ListInv
    <3>4. CASE k = l
      <4>1. birth[l] \in {"fixate", "over"} BY <2>1, <3>1 DEF SweepInv
      <4>2. birth[l] = "over" \/ l \in raced' BY <2>1, <4>1
      <4>3. birth[l] = "over" => row[l] \in {"none", "there"} BY <3>1 DEF ListInv
      <4> QED BY <2>1, <2>3, <3>1, <3>3, <3>4, <4>1, <4>2, <4>3 DEF SweepInv
    <3>5. CASE k # l BY <2>1, <2>3, <3>1, <3>3, <3>5 DEF SweepInv
    <3> QED BY <3>4, <3>5
  <2> QED BY <2>2, <2>4
<1>4. ASSUME NEW l \in Lists, RemoveDir(l) PROVE BirthInv'
  BY SMTT(60), <1>4 DEF RemoveDir, ListInv, SweepInv
<1>5. ASSUME SweepEnds PROVE BirthInv'
  BY <1>5 DEF SweepEnds, NoSweep, ListInv, SweepInv
<1> QED
  BY <1>1, <1>2, <1>3, <1>4, <1>5

LEMMA BirthInvNext == BirthInv /\ [BirthNext]_birthVars => BirthInv'
<1>1. ASSUME BirthInv, UNCHANGED birthVars PROVE BirthInv'
  BY <1>1 DEF birthVars, BirthInv, BirthType, ListInv, SweepInv
<1> QED
  BY <1>1, CreateKeeps, LifeKeeps, SweepKeeps DEF BirthNext

(* Only a sweep that has nothing left ends, and what was due is gone.       *)
LEMMA EndIsComplete ==
  BirthInv /\ [BirthNext]_birthVars
    => ((sweep.at = "judge" /\ sweep'.at = "off") => \A l \in sweep.due : dir[l] = NoDir)
<1> SUFFICES ASSUME BirthInv, [BirthNext]_birthVars, sweep.at = "judge", sweep'.at = "off",
                    NEW l \in sweep.due
             PROVE  dir[l] = NoDir
  OBVIOUS
<1>1. SweepEnds
  BY ZenonT(60) DEF BirthNext, birthVars, BirthInv, BirthType, CreatePlain, TakeBirthGuard, InsertRow,
         InitWithVersion, InitFails, Fixate, FixateFails, FixateUnanswered, BirthCut, Over,
         Rebuild, Pushed, DeleteList, ReadIds, Scan, Judge, RemoveDir
<1> QED
  BY <1>1 DEF SweepEnds, BirthInv, BirthType, SweepInv

-----------------------------------------------------------------------------
(* What is known of each list at each step of its birth and of a sweep.     *)
THEOREM BirthInvariance == BirthSpec => []BirthInv
BY BirthInvInit, BirthInvNext, PTL DEF BirthSpec

(* Create and gc-repos: whatever fails, is cut off or loses its answer, a   *)
(* list whose birth the sweep did not meet keeps what only its directory    *)
(* holds, a failed birth leaves nothing, and a finished sweep has removed   *)
(* what belonged to nobody.                                                 *)
THEOREM DirectoriesAgree == BirthSpec => DirectoriesMatchLists
<1>1. BirthInv /\ [BirthNext]_birthVars
        => [(sweep.at = "judge" /\ sweep'.at = "off") => \A l \in sweep.due : dir[l] = NoDir]_birthVars
  BY EndIsComplete
<1> QED
  BY <1>1, BirthInvariance, InvSpares, PTL DEF BirthSpec, DirectoriesMatchLists, SweepIsComplete
=============================================================================
