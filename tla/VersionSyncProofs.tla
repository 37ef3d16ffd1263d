------------------------- MODULE VersionSyncProofs -------------------------
(***************************************************************************)
(* Proofs about VersionSync, for every set of processes, contents and      *)
(* bounds and under every fault of the model.                              *)
(***************************************************************************)
EXTENDS VersionSync, SequenceTheorems, WellFoundedInduction, TLAPS

-----------------------------------------------------------------------------
(* The inductive invariant *)

\* What a call is doing agrees with what it was asked and with how far it is.
Control(q) ==
    /\ pc[q] = "idle" => phase[q] = "ensure"
    /\ pc[q] = "lock" /\ phase[q] = "work" => req[q].kind \in {"web", "push", "merge"}
    /\ pc[q] = "ensure" => phase[q] = "ensure"
    /\ pc[q] \in {"sync", "look", "count"} => Aligning(q)
    /\ pc[q] \in {"begin", "commit"} => req[q].kind = "web"
    /\ pc[q] \in {"build", "move", "tag"} =>
          /\ job[q].mode \notin {"none", "project"}
          /\ job[q].mode = "web" => req[q].kind = "web"
          /\ job[q].mode \in {"rebuild", "append", "restore"} => Aligning(q)

Numbered(c) == \A i \in 1..Len(c) : c[i].ver \in Versions

\* An edit has steps, and so has a tip that is being projected; the commits
\* the service makes itself carry the number of a version.
Contents(q) ==
    /\ req[q].kind = "web" => req[q].entry.body \in Bodies
    /\ pc[q] = "build" /\ job[q].mode \notin {"push", "merge"} => Numbered(job[q].todo)
    /\ pc[q] \in {"insert", "meta", "mark"} => Projectable(job[q].tip)

\* A git write in hand puts commits on top of where main is expected.
OnTop(q) == pc[q] = "move" => IsPrefix(Expected(q), job[q].tip)

\* A web edit whose transaction is open owns the list's row, and the number
\* it took is still the next one.
Open(q) == \/ pc[q] = "commit"
           \/ pc[q] \in {"build", "move", "tag"} /\ job[q].mode = "web" /\ ~orphan[q]
Owns(q) == Open(q) => rowLock = q /\ ver[q] = current + 1 /\ current < MaxVersion

CallInv(q) == Control(q) /\ Contents(q) /\ OnTop(q) /\ Owns(q)
CallsInv == CallType /\ \A q \in Procs : CallInv(q)

IInv == StoreType /\ HistoryHasNoGaps /\ CallsInv

-----------------------------------------------------------------------------
(* Data *)

\* A non-empty set of numbers up to a bound has a greatest element: what
\* max_tag_in computes is the number of a tag.
LEMMA MaxExists ==
  ASSUME NEW N \in Nat, NEW S \in SUBSET (0..N), S # {}
  PROVE  Max(S) \in S /\ \A y \in S : Max(S) >= y
PROOF
  <1> DEFINE T == {N - x : x \in S}
  <1>1. T \subseteq Nat /\ T # {}
    <2>1. \A x \in S : x \in 0..N
      OBVIOUS
    <2>2. \A x \in S : N - x \in Nat
      BY <2>1
    <2>3. PICK x \in S : TRUE
      OBVIOUS
    <2>4. N - x \in T
      OBVIOUS
    <2> QED
      BY <2>2, <2>4
  <1>2. PICK m \in T : \A y \in T : ~(<<y, m>> \in OpToRel(<, Nat))
    BY ONLY <1>1, NatLessThanWellFounded, WFMin, Zenon
  <1>3. \A y \in T : ~(y < m)
    BY <1>1, <1>2 DEF OpToRel
  <1>4. PICK x \in S : m = N - x
    OBVIOUS
  <1>5. \A y \in S : x >= y
    BY <1>3, <1>4
  <1> HIDE DEF T
  <1>6. QED
    BY <1>5 DEF Max

\* The highest version tag is a version, or 0.
LEMMA MaxTagType ==
  ASSUME StoreType
  PROVE  MaxTag \in 0..MaxVersion
PROOF
  <1> DEFINE S == {0} \cup {v \in Versions : tags[v] # NoRef}
  <1>1. MaxVersion \in Nat /\ S \in SUBSET (0..MaxVersion) /\ S # {}
    BY BoundAssumption DEF Versions
  <1>2. Max(S) \in S
    BY ONLY <1>1, MaxExists
  <1>3. QED
    BY <1>1, <1>2 DEF MaxTag

\* A function on 1..n is a sequence, for any n.
LEMMA RangeIsSeq ==
  ASSUME NEW S, NEW n \in Int, NEW f \in [1..n -> S]
  PROVE  f \in Seq(S) /\ Len(f) = IF n < 0 THEN 0 ELSE n
PROOF
  <1>1. CASE n >= 0
    <2>1. n \in Nat /\ DOMAIN f = 1..n
      BY <1>1
    <2>2. f \in Seq(S)
      BY <2>1, SeqDef
    <2>3. QED
      BY <2>1, <2>2, LenProperties
  <1>2. CASE n < 0
    <2>1. 1..n = 1..0 /\ 0 \in Nat
      BY <1>2
    <2>2. f \in Seq(S) /\ DOMAIN f = 1..0
      BY <2>1, SeqDef
    <2>3. QED
      BY <1>2, <2>2, LenProperties
  <1>3. QED
    BY <1>1, <1>2

\* What load_bundle_data reads for the heal: a version for every number asked
\* for, each with its steps.
LEMMA StoredType ==
  ASSUME StoreType, HistoryHasNoGaps, NEW v \in 0..MaxVersion
  PROVE  StoredAbove(v) \in Commit /\ Numbered(StoredAbove(v))
PROOF
  <1> DEFINE low == IF v + 1 < FirstRow THEN FirstRow - 1 ELSE v
  <1> DEFINE n == current - low
  <1> DEFINE f == [i \in 1..n |-> Canonical(low + i)]
  <1>1. FirstRow \in {1, 2} /\ low \in Nat /\ low + 1 >= FirstRow /\ n \in Int
        /\ current \in 1..MaxVersion
    BY BoundAssumption DEF FirstRow, StoreType, Versions
  <1>2. ASSUME NEW i \in 1..n
        PROVE  low + i \in Versions /\ Canonical(low + i) \in Entry
               /\ Canonical(low + i).ver = low + i
    <2>1. low + i \in Versions /\ FirstRow <= low + i /\ low + i <= current
      BY <1>1, <1>2, BoundAssumption DEF Versions
    <2>2. rows[low + i] \in Bodies
      BY <2>1 DEF HistoryHasNoGaps, StoreType
    <2>3. QED
      BY <2>1, <2>2 DEF Canonical, Entry, StoreType, Versions
  <1>3. f \in [1..n -> Entry]
    BY <1>2
  <1>4. \A i \in 1..n : f[i].ver \in Versions
    BY <1>2
  <1> HIDE DEF low, n, f
  <1>5. f \in Seq(Entry) /\ Len(f) = IF n < 0 THEN 0 ELSE n
    BY ONLY <1>1, <1>3, RangeIsSeq
  <1>6. Numbered(f)
    BY <1>1, <1>4, <1>5 DEF Numbered
  <1>7. QED
    BY <1>5, <1>6 DEF StoredAbove, low, n, f, Commit

\* The tags of a write name commits of its history by versions.
LEMMA TagsForType ==
  ASSUME NEW c \in Commit, NEW todo \in Commit, Numbered(todo)
  PROVE  TagsFor(c, todo) \in Seq([ver : Versions, at : Commit])
PROOF
  <1> DEFINE below == Len(c) - Len(todo)
  <1> DEFINE f == [i \in 1..Len(todo) |->
                      [ver |-> todo[i].ver, at |-> SubSeq(c, 1, below + i)]]
  <1>1. Len(c) \in Nat /\ Len(todo) \in Nat /\ below \in Int
    BY LenProperties DEF Commit
  <1>2. ASSUME NEW i \in 1..Len(todo)
        PROVE  SubSeq(c, 1, below + i) \in Commit
    <2>1. below + i <= Len(c) /\ below + i \in Int
      BY <1>1
    <2>2. CASE below + i >= 1
      BY <1>1, <2>1, <2>2, SubSeqProperties DEF Commit
    <2>3. CASE below + i < 1
      <3>1. SubSeq(c, 1, below + i) = << >>
        BY <1>1, <2>1, <2>3, SubSeqEmpty DEF Commit
      <3>2. QED
        BY <3>1, EmptySeq DEF Commit
    <2>4. QED
      BY <2>1, <2>2, <2>3
  <1>3. f \in [1..Len(todo) -> [ver : Versions, at : Commit]]
    BY <1>2 DEF Numbered
  <1> HIDE DEF f
  <1>4. QED
    BY <1>1, <1>3, RangeIsSeq DEF TagsFor, f

\* Commits put on top of a history keep it as a prefix.
LEMMA OnTopOfBase ==
  ASSUME NEW c \in Commit, NEW todo \in Commit
  PROVE  c \o todo \in Commit /\ IsPrefix(c, c \o todo)
PROOF
  <1>1. c \o todo \in Commit /\ Len(c \o todo) = Len(c) + Len(todo)
        /\ Len(c) \in Nat /\ Len(todo) \in Nat
    BY ConcatProperties, LenProperties DEF Commit
  <1>2. SubSeq(c \o todo, 1, Len(c)) = c
    BY SubSeqOfConcat1, SubSeqFull, <1>1 DEF Commit
  <1>3. SubSeq(c, 1, Len(c)) = c
    BY SubSeqFull DEF Commit
  <1>4. QED
    BY <1>1, <1>2, <1>3 DEF IsPrefix

\* Every history starts from nothing.
LEMMA OnTopOfNothing ==
  ASSUME NEW c \in Commit
  PROVE  IsPrefix(NoRef, c)
PROOF
  <1>1. Len(c) \in Nat /\ SubSeq(c, 1, 0) = << >> /\ SubSeq(NoRef, 1, 0) = << >>
    BY LenProperties, SubSeqEmpty, EmptySeq DEF Commit, NoRef
  <1>2. QED
    BY <1>1 DEF IsPrefix, NoRef

\* A tip with steps has an entry whose body is steps.
LEMMA TipOfProjectable ==
  ASSUME NEW c \in Commit, Projectable(c)
  PROVE  Tip(c) \in Entry /\ Tip(c).body \in Bodies /\ Tip(c).title \in Titles
PROOF
  <1>1. Len(c) \in 1..Len(c) /\ Len(c) \in Nat
    BY LenProperties, EmptySeq DEF Projectable, NoRef, Commit
  <1>2. Tip(c) \in Entry
    BY <1>1, ElementOfSeq DEF Commit, Tip
  <1>3. QED
    BY <1>2 DEF Projectable, Entry

\* The constants the calls start from have their types.
LEMMA NothingType ==
  ASSUME Titles # {}
  PROVE  NoRequest \in Request /\ NoJob \in Job /\ NoRef \in Commit
PROOF
  <1>1. NoRef \in Commit
    BY EmptySeq DEF NoRef, Commit
  <1>2. SomeEntry \in Entry
    BY BoundAssumption DEF SomeEntry, Entry
  <1>3. NoRequest \in Request
    BY <1>1, <1>2, BoundAssumption DEF NoRequest, Request, AllKinds
  <1>4. << >> \in Seq([ver : Versions, at : Commit]) /\ << >> \in Commit
    BY EmptySeq DEF Commit
  <1>5. NoJob \in Job
    BY <1>1, <1>4 DEF NoJob, Work, Job, Modes
  <1>6. QED
    BY <1>1, <1>3, <1>5

-----------------------------------------------------------------------------
(* Control: what each ending of a step leaves *)

\* A step of p leaves the other calls as they are, does not take the list's
\* row from one of them, and moves current_version only while none of them
\* has its transaction open.
Frame(p) ==
    \A q \in Procs \ {p} :
        /\ pc'[q] = pc[q] /\ req'[q] = req[q] /\ phase'[q] = phase[q]
        /\ job'[q] = job[q] /\ ver'[q] = ver[q] /\ orphan'[q] = orphan[q]
        /\ rowLock = q => rowLock' = q
        /\ Open(q) => current' = current

\* Only the call that took the step has to be looked at.
LEMMA FrameKeeps ==
  ASSUME NEW p \in Procs, CallsInv, CallType', Frame(p), CallInv(p)'
  PROVE  CallsInv'
PROOF
  <1>1. ASSUME NEW q \in Procs, q # p
        PROVE  CallInv(q)'
    <2>1. CallInv(q)
      BY DEF CallsInv
    <2>2. /\ pc'[q] = pc[q] /\ req'[q] = req[q] /\ phase'[q] = phase[q]
          /\ job'[q] = job[q] /\ ver'[q] = ver[q] /\ orphan'[q] = orphan[q]
          /\ rowLock = q => rowLock' = q
          /\ Open(q) => current' = current
      BY <1>1 DEF Frame
    <2>3. Control(q)'
      BY <2>1, <2>2 DEF CallInv, Control, Aligning
    <2>4. Contents(q)'
      BY <2>1, <2>2 DEF CallInv, Contents, Projectable, Numbered, Tip
    <2>5. OnTop(q)'
      BY <2>1, <2>2 DEF CallInv, OnTop, Expected
    <2>6. Owns(q)'
      BY <2>1, <2>2 DEF CallInv, Owns, Open
    <2>7. QED
      BY <2>3, <2>4, <2>5, <2>6 DEF CallInv
  <1>2. QED
    BY <1>1 DEF CallsInv

\* Nobody else's transaction is open.
Alone(p) == \A q \in Procs \ {p} : ~Open(q)

\* A call that ends leaves nothing behind.
LEMMA FinishKeeps ==
  ASSUME NEW p \in Procs, NEW answer \in Replies, Titles # {}, CallsInv,
         Finish(p, answer), current' = current \/ Alone(p)
  PROVE  CallsInv'
PROOF
  <1>1. NoRequest \in Request /\ NoJob \in Job
    BY NothingType
  <1>2. CallType'
    BY <1>1, BoundAssumption
       DEF CallsInv, CallType, Finish, Forget, Goto, Freed, Steps
  <1>3. Frame(p)
    BY DEF CallsInv, CallType, Finish, Forget, Goto, Freed, Frame, Alone
  <1>4. pc'[p] = "idle" /\ phase'[p] = "ensure" /\ req'[p] = NoRequest
    BY DEF CallsInv, CallType, Finish, Forget, Goto
  <1>5. CallInv(p)'
    BY <1>4 DEF CallInv, Control, Contents, OnTop, Owns, Open, NoRequest
  <1>6. QED
    BY <1>2, <1>3, <1>5, FrameKeeps

\* A call that only moves on to a step that makes no demands.
LEMMA StepKeeps ==
  ASSUME NEW p \in Procs, CallsInv, current' = current \/ Alone(p),
         NEW step \in {"sync", "count", "read", "begin", "mark"},
         step \in {"sync", "count"} => Aligning(p),
         step = "begin" => req[p].kind = "web",
         step = "mark" => pc[p] = "meta",
         Step(p, step)
  PROVE  CallsInv'
PROOF
  <1>1. CallType'
    BY DEF CallsInv, CallType, Step, Goto, Steps, locks, local
  <1>2. Frame(p)
    BY DEF CallsInv, CallType, Step, Goto, locks, local, Frame, Alone
  <1>3. /\ pc'[p] = step /\ req' = req /\ phase' = phase /\ job' = job
        /\ CallInv(p)
    BY DEF CallsInv, CallType, Step, Goto, local
  <1>4. CallInv(p)'
    BY <1>3 DEF CallInv, Control, Contents, OnTop, Owns, Open, Aligning, Projectable, Tip
  <1>5. QED
    BY <1>1, <1>2, <1>4, FrameKeeps

\* ensure_repo_by_id returns.
LEMMA LeaveEnsureKeeps ==
  ASSUME NEW p \in Procs, Titles # {}, CallsInv, LeaveEnsure(p),
         current' = current \/ Alone(p)
  PROVE  CallsInv'
PROOF
  <1>1. CASE req[p].kind = "read"
    <2>1. Finish(p, "ok") /\ "ok" \in Replies
      BY <1>1 DEF LeaveEnsure, Replies
    <2>2. QED
      BY <2>1, FinishKeeps
  <1>2. CASE req[p].kind # "read"
    <2>1. CallType'
      BY <1>2 DEF CallsInv, CallType, LeaveEnsure, Goto, Freed, Steps
    <2>2. Frame(p)
      BY <1>2 DEF CallsInv, CallType, LeaveEnsure, Goto, Frame, Alone
    <2>3. /\ pc'[p] = IF req[p].kind = "reproject" THEN "read" ELSE "lock"
          /\ phase'[p] = "work" /\ req' = req /\ req[p].kind \in AllKinds /\ CallInv(p)
      BY <1>2 DEF CallsInv, CallType, LeaveEnsure, Goto, Request
    <2>4. CallInv(p)'
      BY <1>2, <2>3 DEF CallInv, Control, Contents, OnTop, Owns, Open, AllKinds
    <2>5. QED
      BY <2>1, <2>2, <2>4, FrameKeeps
  <1>3. QED
    BY <1>1, <1>2

\* The alignment ends.
LEMMA LeaveSyncKeeps ==
  ASSUME NEW p \in Procs, NEW outcome \in Replies, Titles # {}, CallsInv,
         Aligning(p), LeaveSync(p, outcome), current' = current \/ Alone(p)
  PROVE  CallsInv'
PROOF
  <1>1. CASE phase[p] = "ensure"
    BY <1>1, LeaveEnsureKeeps DEF LeaveSync
  <1>2. CASE phase[p] # "ensure" /\ outcome = "ok"
    <2>1. Step(p, "begin") /\ req[p].kind = "web"
      BY <1>2 DEF LeaveSync, Aligning
    <2>2. QED
      BY <2>1, StepKeeps
  <1>3. CASE phase[p] # "ensure" /\ outcome # "ok"
    BY <1>3, FinishKeeps DEF LeaveSync
  <1>4. QED
    BY <1>1, <1>2, <1>3

\* A git write ends: its closure is alone, or the call goes on, and an edit
\* goes on with the row it owns.
LEMMA JobDoneKeeps ==
  ASSUME NEW p \in Procs, Titles # {}, CallsInv, pc[p] = "tag", JobDone(p),
         current' = current
  PROVE  CallsInv'
PROOF
  <1>1. CASE orphan[p]
    <2>1. Finish(p, reply[p]) /\ reply[p] \in Replies
      BY <1>1 DEF JobDone, CallsInv, CallType
    <2>2. QED
      BY <2>1, FinishKeeps
  <1>2. CASE ~orphan[p]
    <2>1. /\ job[p].mode \in Modes /\ job[p].mode \notin {"none", "project"}
          /\ job[p].mode = "web" => req[p].kind = "web"
          /\ job[p].mode \in {"rebuild", "append", "restore"} => Aligning(p)
      BY DEF CallsInv, CallType, Job, CallInv, Control
    <2>2. CASE job[p].mode = "bootstrap"
      BY <1>2, <2>2, LeaveEnsureKeeps DEF JobDone
    <2>3. CASE job[p].mode \in {"rebuild", "append"}
      <3>1. LeaveSync(p, "ok") /\ "ok" \in Replies /\ Aligning(p)
        BY <1>2, <2>1, <2>3 DEF JobDone, Replies
      <3>2. QED
        BY <3>1, LeaveSyncKeeps
    <2>4. CASE job[p].mode = "restore"
      <3>1. Step(p, "count") /\ Aligning(p)
        BY <1>2, <2>1, <2>4 DEF JobDone
      <3>2. QED
        BY <3>1, StepKeeps
    <2>5. CASE job[p].mode = "web"
      <3>1. Step(p, "commit") /\ CallInv(p)
        BY <1>2, <2>5 DEF JobDone, CallsInv
      <3>2. CallType' /\ Frame(p)
        BY <3>1 DEF CallsInv, CallType, Step, Goto, Steps, locks, local, Frame
      <3>3. /\ pc'[p] = "commit" /\ req' = req /\ rowLock' = rowLock /\ ver' = ver
        BY <3>1 DEF CallsInv, CallType, Step, Goto, local, locks
      <3>4. Open(p)
        BY <1>2, <2>5 DEF Open
      <3>5. CallInv(p)'
        BY <2>1, <2>5, <3>1, <3>3, <3>4 DEF CallInv, Control, Contents, OnTop, Owns, Open
      <3>6. QED
        BY <3>2, <3>5, FrameKeeps
    <2>6. CASE job[p].mode \in {"push", "merge"}
      <3>1. Step(p, "read")
        BY <1>2, <2>6 DEF JobDone
      <3>2. QED
        BY <3>1, StepKeeps
    <2>7. QED
      BY <2>1, <2>2, <2>3, <2>4, <2>5, <2>6 DEF Modes
  <1>3. QED
    BY <1>1, <1>2

\* A git write fails.
LEMMA JobFailedKeeps ==
  ASSUME NEW p \in Procs, Titles # {}, CallsInv, pc[p] \in {"build", "move", "tag"},
         JobFailed(p), current' = current
  PROVE  CallsInv'
PROOF
  <1>1. CASE orphan[p]
    <2>1. Finish(p, reply[p]) /\ reply[p] \in Replies
      BY <1>1 DEF JobFailed, CallsInv, CallType
    <2>2. QED
      BY <2>1, FinishKeeps
  <1>2. CASE ~orphan[p] /\ job[p].mode \in {"rebuild", "append", "restore"}
    <2>1. LeaveSync(p, "db") /\ Aligning(p) /\ "db" \in Replies
      BY <1>2 DEF JobFailed, CallsInv, CallInv, Control, Replies
    <2>2. QED
      BY <2>1, LeaveSyncKeeps
  <1>3. CASE ~orphan[p] /\ job[p].mode \notin {"rebuild", "append", "restore"}
    <2>1. Finish(p, "git") /\ "git" \in Replies
      BY <1>3 DEF JobFailed, Replies
    <2>2. QED
      BY <2>1, FinishKeeps
  <1>4. QED
    BY <1>1, <1>2, <1>3

\* A projection ends: with a version, with nothing to project, or failing.
LEMMA ProjectedKeeps ==
  ASSUME NEW p \in Procs, Titles # {}, CallsInv, current' = current \/ Alone(p),
         Projected(p) \/ NothingToProject(p) \/ ProjectionFailed(p)
  PROVE  CallsInv'
PROOF
  <1>1. \A a \in {"ok", "unversioned", "outOfSync", "db"} : a \in Replies
    BY DEF Replies
  <1>2. CASE Aligning(p)
    <2>1. PICK a \in {"ok", "unversioned", "outOfSync", "db"} : LeaveSync(p, a)
      BY <1>2 DEF Projected, NothingToProject, ProjectionFailed
    <2>2. QED
      BY <1>1, <1>2, <2>1, LeaveSyncKeeps
  <1>3. CASE ~Aligning(p) /\ \E a \in {"ok", "unversioned", "db"} : Finish(p, a)
    BY <1>1, <1>3, FinishKeeps
  <1>4. CASE /\ Goto(p, "read") /\ retried' = [retried EXCEPT ![p] = TRUE]
             /\ UNCHANGED <<locks, req, phase, saw, have, job, ver, orphan, reply>>
    <2>1. CallType' /\ Frame(p)
      BY <1>4 DEF CallsInv, CallType, Goto, Steps, locks, Frame, Alone
    <2>2. pc'[p] = "read" /\ req' = req /\ CallInv(p)
      BY <1>4 DEF CallsInv, CallType, Goto
    <2>3. CallInv(p)'
      BY <2>2 DEF CallInv, Control, Contents, OnTop, Owns, Open
    <2>4. QED
      BY <2>1, <2>3, FrameKeeps
  <1>5. QED
    BY <1>2, <1>3, <1>4 DEF Projected, NothingToProject, ProjectionFailed

\* A git write is taken up, or goes from one step to the next.
LEMMA HandKeeps ==
  ASSUME NEW p \in Procs, CallsInv, current' = current,
         NEW write \in Job, NEW step \in {"build", "move", "tag"},
         write.mode \notin {"none", "project"},
         write.mode = "web" => req[p].kind = "web" /\ (Open(p) \/ orphan[p]),
         write.mode \in {"rebuild", "append", "restore"} => Aligning(p),
         step = "build" /\ write.mode \notin {"push", "merge"} => Numbered(write.todo),
         step = "move" =>
            IsPrefix(IF write.mode = "push" THEN req[p].base ELSE write.parent, write.tip),
         Hand(p, step, write)
  PROVE  CallsInv'
PROOF
  <1>1. CallType'
    BY DEF CallsInv, CallType, Hand, Goto, Steps, locks
  <1>2. Frame(p)
    BY DEF CallsInv, CallType, Hand, Goto, locks, Frame
  <1>3. /\ pc'[p] = step /\ req' = req /\ phase' = phase /\ job'[p] = write
        /\ rowLock' = rowLock /\ ver' = ver /\ orphan' = orphan /\ CallInv(p)
    BY DEF CallsInv, CallType, Hand, Goto, locks
  <1>4. CallInv(p)'
    BY <1>3 DEF CallInv, Control, Contents, OnTop, Owns, Open, Aligning, Expected, Numbered
  <1>5. QED
    BY <1>1, <1>2, <1>4, FrameKeeps

-----------------------------------------------------------------------------
(* The stores *)

\* A step that touches neither store keeps what is known of them.
LEMMA StoresKept ==
  ASSUME StoreType, HistoryHasNoGaps, UNCHANGED <<db, repo, acked>>,
         NoFault \/ \E kind \in AllFaults : Fault(kind)
  PROVE  StoreType' /\ HistoryHasNoGaps'
PROOF
  <1>1. calls' \in 0..MaxCalls /\ faults' \in 0..MaxFaults
    BY BoundAssumption DEF StoreType, NoFault, Fault, budget
  <1>2. QED
    BY <1>1 DEF StoreType, HistoryHasNoGaps, FirstRow, db, repo

\* A new version takes the next number, and no other row changes.
LEMMA NextRowKept ==
  ASSUME StoreType, HistoryHasNoGaps, current < MaxVersion, NEW body \in Bodies,
         rows' = [rows EXCEPT ![current + 1] = body], current' = current + 1
  PROVE  /\ rows' \in [Versions -> Bodies \cup {NoRow}]
         /\ current' \in Versions
         /\ HistoryHasNoGaps'
         /\ \A v \in Versions : rows[v] # NoRow => rows'[v] = rows[v]
PROOF
  <1>1. /\ current \in 1..MaxVersion /\ MaxVersion \in Nat
        /\ rows \in [Versions -> Bodies \cup {NoRow}]
    BY BoundAssumption DEF StoreType, Versions
  <1>2. rows' \in [Versions -> Bodies \cup {NoRow}] /\ current' \in Versions
    BY <1>1 DEF Versions
  <1>3. rows[current + 1] = NoRow
    BY <1>1 DEF HistoryHasNoGaps, Versions
  <1>4. FirstRow' = FirstRow /\ FirstRow \in 1..2 /\ FirstRow <= current + 1
    BY <1>1 DEF FirstRow, Versions
  <1>5. HistoryHasNoGaps'
    BY <1>1, <1>4, DataAssumption DEF HistoryHasNoGaps, Versions
  <1>6. QED
    BY <1>2, <1>3, <1>5, <1>1 DEF Versions

\* A git write that is made from a mode and a list of commits has its type.
LEMMA WorkType ==
  ASSUME NEW mode \in Modes, NEW todo \in Commit
  PROVE  Work(mode, todo) \in Job /\ Work(mode, todo).mode = mode
         /\ Work(mode, todo).todo = todo
PROOF
  <1>1. NoRef \in Commit /\ << >> \in Seq([ver : Versions, at : Commit])
    BY EmptySeq DEF NoRef, Commit
  <1>2. QED
    BY <1>1 DEF Work, Job

-----------------------------------------------------------------------------
(* The steps *)

\* The initial states.
LEMMA InitInv == Init => IInv
PROOF
  <1> SUFFICES ASSUME Init PROVE IInv
    OBVIOUS
  <1>1. Titles # {} /\ MaxVersion \in Nat \ {0} /\ MaxCalls \in Nat /\ MaxFaults \in Nat
    BY BoundAssumption DEF Init
  <1>2. NoRequest \in Request /\ NoJob \in Job /\ NoRef \in Commit
    BY <1>1, NothingType
  <1>3. StoreType
    <2>1. rows \in [Versions -> Bodies \cup {NoRow}]
      BY DEF Init
    <2>2. tags \in [Versions -> Commit] /\ acked \in [Versions -> Bodies \cup {NoRow}]
      BY <1>2 DEF Init
    <2>3. /\ current = 1 /\ dbTitle \in Titles /\ dir = FALSE /\ main = NoRef
          /\ calls = 0 /\ faults = 0
      BY DEF Init
    <2>4. current \in Versions /\ calls \in 0..MaxCalls /\ faults \in 0..MaxFaults
      BY <1>1, <2>3 DEF Versions
    <2>5. QED
      BY <1>2, <2>1, <2>2, <2>3, <2>4 DEF StoreType
  <1>4. HistoryHasNoGaps
    BY <1>1 DEF Init, HistoryHasNoGaps, FirstRow, Versions
  <1>5. CallType
    BY <1>1, <1>2 DEF Init, CallType, Steps, Replies
  <1>6. ASSUME NEW q \in Procs PROVE CallInv(q)
    BY DEF Init, CallInv, Control, Contents, OnTop, Owns, Open, NoRequest
  <1>7. QED
    BY <1>3, <1>4, <1>5, <1>6 DEF IInv, CallsInv

\* A call that arrives finds nothing left of the one before.
LEMMA ArriveKeeps ==
  ASSUME IInv, NEW p \in Procs, Arrive(p)
  PROVE  IInv'
PROOF
  <1>1. /\ StoreType /\ HistoryHasNoGaps /\ CallsInv /\ current \in 0..MaxVersion
        /\ MaxVersion \in Nat
    BY BoundAssumption DEF IInv, StoreType, Versions
  <1>2. PICK kind \in AllKinds, entry \in Entry, want \in 0..MaxVersion, base \in Commit :
            /\ Start(p, kind, entry, want, base)
            /\ kind = "web" => entry.body \in Bodies
            /\ Writing \/ UNCHANGED calls
    <2>1. NoRef \in Commit /\ 0 \in 0..MaxVersion /\ main \in Commit
      BY <1>1, EmptySeq DEF NoRef, Commit, StoreType
    <2>2. SomeEntry \in Entry
      BY <1>1 DEF SomeEntry, Entry, StoreType
    <2>3. CASE StartWeb(p)
      BY <1>1, <2>1, <2>3 DEF StartWeb, AllKinds, Entry
    <2>4. CASE StartPush(p)
      <3>1. PICK body \in Brought("push"), title \in Titles, n \in PushedNumbers :
              /\ Writing
              /\ current + n <= MaxVersion
              /\ Start(p, "push",
                       [body |-> body, title |-> title,
                        ver |-> IF n = 0 THEN 0 ELSE current + n], 0, main)
        BY <2>4 DEF StartPush
      <3>2. body \in Bodies \cup {Junk} /\ n \in {0, 1}
        BY DataAssumption DEF Brought
      <3>3. [body |-> body, title |-> title,
             ver |-> IF n = 0 THEN 0 ELSE current + n] \in Entry
        BY <1>1, <3>1, <3>2 DEF Entry
      <3>4. QED
        BY <2>1, <3>1, <3>3 DEF AllKinds
    <2>5. CASE StartMerge(p)
      <3>1. PICK body \in Brought("merge"), title \in Titles :
              /\ Writing
              /\ Start(p, "merge", [body |-> body, title |-> title, ver |-> 0], 0, NoRef)
        BY <2>5 DEF StartMerge
      <3>2. [body |-> body, title |-> title, ver |-> 0] \in Entry
        BY <1>1 DEF Brought, Entry
      <3>3. QED
        BY <2>1, <3>1, <3>2 DEF AllKinds
    <2>6. CASE StartRead(p) \/ StartReproject(p)
      BY <2>1, <2>2, <2>6 DEF StartRead, StartReproject, AllKinds
    <2>7. QED
      BY <2>3, <2>4, <2>5, <2>6 DEF Arrive
  <1>3. StoreType' /\ HistoryHasNoGaps'
    <2>1. calls' \in 0..MaxCalls /\ faults' = faults /\ UNCHANGED <<db, repo, acked>>
      BY <1>1, <1>2, BoundAssumption DEF Writing, Start, StoreType
    <2>2. QED
      BY <1>1, <2>1 DEF StoreType, HistoryHasNoGaps, FirstRow, db, repo
  <1>4. CallType'
    BY <1>1, <1>2 DEF CallsInv, CallType, Start, Goto, Steps, Replies, Request, locks
  <1>5. Frame(p)
    BY <1>1, <1>2 DEF CallsInv, CallType, Start, Goto, locks, Frame, db
  <1>6. CallInv(p)'
    <2>1. /\ pc[p] = "idle" /\ pc'[p] = "lock" /\ req'[p].kind = kind
          /\ req'[p].entry = entry /\ phase' = phase /\ CallInv(p)
      BY <1>1, <1>2 DEF CallsInv, CallType, Start, Goto
    <2>2. QED
      BY <1>2, <2>1 DEF CallInv, Control, Contents, OnTop, Owns, Open
  <1>7. QED
    BY <1>1, <1>3, <1>4, <1>5, <1>6, FrameKeeps DEF IInv

\* The guard is taken.
LEMMA TakeGuardKeeps ==
  ASSUME IInv, NEW p \in Procs, TakeGuard(p)
  PROVE  IInv'
PROOF
  <1>1. StoreType /\ HistoryHasNoGaps /\ CallsInv /\ CallInv(p)
    BY DEF IInv, CallsInv
  <1>2. StoreType' /\ HistoryHasNoGaps'
    BY <1>1, StoresKept DEF TakeGuard, NoFault
  <1>3. req[p].entry \in Entry /\ <<req[p].entry>> \in Commit
    BY <1>1 DEF CallsInv, CallType, Request, Commit
  <1>4. pc[p] = "lock" /\ CallType
    BY <1>1 DEF TakeGuard, CallsInv
  <1>5. phase[p] # "ensure" => phase[p] = "work" /\ req[p].kind \in {"web", "push", "merge"}
    BY <1>1, <1>4 DEF CallInv, Control, CallType
  <1>6. ASSUME phase[p] # "ensure", req[p].kind # "web"
        PROVE  /\ Work(req[p].kind, <<req[p].entry>>) \in Job
               /\ Work(req[p].kind, <<req[p].entry>>).mode \in {"push", "merge"}
    BY <1>3, <1>5, <1>6, WorkType DEF Modes
  <1>7. CallType'
    BY <1>4, <1>6 DEF CallType, TakeGuard, Goto, Steps
  <1>8. Frame(p)
    BY <1>4 DEF CallType, TakeGuard, Goto, Frame, db
  <1>9. CallInv(p)'
    <2>1. /\ req' = req /\ phase' = phase
          /\ pc'[p] = IF phase[p] = "ensure" THEN "ensure"
                      ELSE IF req[p].kind = "web" THEN "sync" ELSE "build"
          /\ pc'[p] = "build" => job'[p] = Work(req[p].kind, <<req[p].entry>>)
      BY <1>4 DEF CallType, TakeGuard, Goto
    <2>2. QED
      BY <1>1, <1>6, <2>1 DEF CallInv, Control, Contents, OnTop, Owns, Open, Aligning
  <1>10. QED
    BY <1>1, <1>2, <1>7, <1>8, <1>9, FrameKeeps DEF IInv

\* ensure_repo_by_id.
LEMMA EnsureKeeps ==
  ASSUME IInv, NEW p \in Procs, Ensure(p)
  PROVE  IInv'
PROOF
  <1>1. StoreType /\ HistoryHasNoGaps /\ CallsInv /\ CallInv(p) /\ Titles # {}
    BY DEF IInv, CallsInv, StoreType
  <1>2. CASE EnsureMissing(p)
    <2>1. StoreType' /\ HistoryHasNoGaps' /\ current' = current
      BY <1>1, <1>2 DEF EnsureMissing, NoFault, StoreType, HistoryHasNoGaps, FirstRow,
                        db, budget
    <2>2. CallsInv'
      <3>1. CASE LeaveEnsure(p)
        BY <1>1, <2>1, <3>1, LeaveEnsureKeeps
      <3>2. CASE Hand(p, "build", Work("bootstrap", StoredAbove(0)))
        <4>1. StoredAbove(0) \in Commit /\ Numbered(StoredAbove(0))
          BY <1>1, BoundAssumption, StoredType
        <4>2. /\ Work("bootstrap", StoredAbove(0)) \in Job
              /\ Work("bootstrap", StoredAbove(0)).mode = "bootstrap"
              /\ Work("bootstrap", StoredAbove(0)).todo = StoredAbove(0)
          BY <4>1, WorkType DEF Modes
        <4>3. QED
          BY <1>1, <2>1, <3>2, <4>1, <4>2, HandKeeps
      <3>3. QED
        BY <1>2, <3>1, <3>2 DEF EnsureMissing
    <2>3. QED
      BY <2>1, <2>2 DEF IInv
  <1>3. CASE EnsurePresent(p)
    <2>1. StoreType' /\ HistoryHasNoGaps' /\ current' = current
      BY <1>1, <1>3, StoresKept DEF EnsurePresent, db
    <2>2. pc[p] = "ensure" /\ Step(p, "sync") /\ CallType
      BY <1>1, <1>3 DEF EnsurePresent, CallsInv
    <2>3. Aligning(p)
      BY <1>1, <2>2 DEF CallInv, Control, Aligning
    <2>4. QED
      BY <1>1, <2>1, <2>2, <2>3, StepKeeps DEF IInv
  <1>4. QED
    BY <1>2, <1>3 DEF Ensure

\* sync_repo_with_db.
LEMMA AlignKeeps ==
  ASSUME IInv, NEW p \in Procs, Align(p)
  PROVE  IInv'
PROOF
  <1>1. StoreType /\ HistoryHasNoGaps /\ CallsInv /\ CallInv(p) /\ Titles # {}
        /\ CallType /\ MaxVersion \in Nat
    BY BoundAssumption DEF IInv, CallsInv, StoreType
  <1>2. Aligning(p) /\ "ok" \in Replies /\ "outOfSync" \in Replies /\ "db" \in Replies
    BY <1>1 DEF Align, ReadCurrent, LookAtRefs, FindMainMissing, CountEqual, CountBehind,
                CountAhead, SyncFails, CallInv, Control, Replies
  <1>3. /\ UNCHANGED <<current, rows, dbTitle, main, tags, acked>>
        /\ dir' \in BOOLEAN /\ calls' \in 0..MaxCalls /\ faults' \in 0..MaxFaults
    <2>1. UNCHANGED <<current, rows, dbTitle, main, tags, acked>>
      BY DEF Align, ReadCurrent, LookAtRefs, FindMainMissing, CountEqual, CountBehind,
             CountAhead, SyncFails, db, repo
    <2>2. dir' \in {dir, TRUE}
      BY DEF Align, ReadCurrent, LookAtRefs, FindMainMissing, CountEqual, CountBehind,
             CountAhead, SyncFails, repo
    <2>3. NoFault \/ Fault("db")
      BY DEF Align, ReadCurrent, LookAtRefs, FindMainMissing, CountEqual, CountBehind,
             CountAhead, SyncFails
    <2>4. calls' \in 0..MaxCalls /\ faults' \in 0..MaxFaults
      BY <1>1, <2>3, BoundAssumption DEF NoFault, Fault, budget, StoreType
    <2>5. QED
      BY <1>1, <2>1, <2>2, <2>4 DEF StoreType
  <1>4. StoreType' /\ HistoryHasNoGaps'
    BY <1>1, <1>3 DEF StoreType, HistoryHasNoGaps, FirstRow
  <1>5. ASSUME \E a \in Replies : LeaveSync(p, a)
        PROVE  CallsInv'
    BY <1>1, <1>2, <1>3, <1>5, LeaveSyncKeeps
  <1>6. ASSUME NEW mode \in {"rebuild", "append"}, NEW v \in 0..MaxVersion,
               Hand(p, "build", Work(mode, StoredAbove(v)))
        PROVE  CallsInv'
    <2>1. StoredAbove(v) \in Commit /\ Numbered(StoredAbove(v))
      BY <1>1, StoredType
    <2>2. /\ Work(mode, StoredAbove(v)) \in Job
          /\ Work(mode, StoredAbove(v)).mode = mode
          /\ Work(mode, StoredAbove(v)).todo = StoredAbove(v)
      BY <2>1, WorkType DEF Modes
    <2>3. QED
      BY <1>1, <1>2, <1>3, <1>6, <2>1, <2>2, HandKeeps
  <1>7. ASSUME Goto(p, "look") \/ Goto(p, "count"),
               CallType', UNCHANGED <<locks, req, phase, job, ver, orphan>>
        PROVE  CallsInv'
    <2>1. Frame(p)
      BY <1>1, <1>3, <1>7 DEF CallType, Goto, locks, Frame
    <2>2. pc'[p] \in {"look", "count"} /\ req' = req /\ phase' = phase
      BY <1>1, <1>7 DEF CallType, Goto
    <2>3. CallInv(p)'
      BY <1>1, <1>2, <2>2 DEF CallInv, Control, Contents, OnTop, Owns, Open, Aligning
    <2>4. QED
      BY <1>1, <1>7, <2>1, <2>3, FrameKeeps
  <1>8. MaxTag \in 0..MaxVersion
    BY <1>1, MaxTagType
  <1>9. CallsInv'
    <2>1. CASE ReadCurrent(p)
      <3>1. CASE dir
        <4>1. /\ saw' = [saw EXCEPT ![p] = current] /\ Goto(p, "look")
              /\ UNCHANGED <<locks, req, phase, have, job, ver, retried, orphan, reply>>
          BY <2>1, <3>1 DEF ReadCurrent
        <4>2. current \in 0..MaxVersion
          BY <1>1 DEF StoreType, Versions
        <4>3. CallType'
          BY <1>1, <4>1, <4>2 DEF CallType, Goto, Steps, locks
        <4>4. QED
          BY <1>7, <4>1, <4>3
      <3>2. CASE ~dir
        BY <1>1, <1>2, <1>5, <1>6, <2>1, <3>2 DEF ReadCurrent, Rebuild
      <3>3. QED
        BY <3>1, <3>2
    <2>2. CASE LookAtRefs(p)
      BY <1>1, <1>7, <1>8, <2>2 DEF LookAtRefs, CallType, Goto, Steps, locks
    <2>3. CASE FindMainMissing(p)
      <3> DEFINE restored == IF MaxTag < saw[p] THEN MaxTag ELSE saw[p]
      <3> DEFINE write == [NoJob EXCEPT !.mode = "restore", !.tip = tags[restored]]
      <3>1. CASE restored > 0 /\ tags[restored] # NoRef
        <4>1. /\ Goto(p, "move") /\ job' = [job EXCEPT ![p] = write]
              /\ have' = [have EXCEPT ![p] = MaxTag]
              /\ UNCHANGED <<locks, req, phase, saw, ver, retried, orphan, reply>>
          BY <2>3, <3>1 DEF FindMainMissing
        <4>2. restored \in Versions
          BY <1>1, <1>8, <3>1 DEF CallType, Versions
        <4>3. tags[restored] \in Commit
          BY <1>1, <4>2 DEF StoreType
        <4> HIDE DEF restored
        <4>4. /\ write \in Job /\ write.mode = "restore" /\ write.parent = NoRef
              /\ write.tip = tags[restored]
          BY <1>1, <4>3, NothingType DEF Job, Modes, NoJob, Work
        <4> HIDE DEF write
        <4>5. CallType' /\ Frame(p)
          BY <1>1, <1>3, <1>8, <4>1, <4>4 DEF CallType, Goto, Steps, locks, Frame
        <4>6. IsPrefix(NoRef, write.tip)
          BY <4>3, <4>4, OnTopOfNothing
        <4>7. /\ pc'[p] = "move" /\ job'[p] = write /\ req' = req /\ phase' = phase
          BY <1>1, <4>1 DEF CallType, Goto
        <4>8. CallInv(p)'
          BY <1>1, <1>2, <4>4, <4>6, <4>7
             DEF CallInv, Control, Contents, OnTop, Owns, Open, Aligning, Expected
        <4>9. QED
          BY <1>1, <4>5, <4>8, FrameKeeps
      <3>2. CASE ~(restored > 0 /\ tags[restored] # NoRef) /\ MaxTag = 0 /\ StoredAbove(0) # <<>>
        <4>1. Rebuild(p)
          BY <2>3, <3>2 DEF FindMainMissing
        <4>2. QED
          BY <1>1, <1>6, <4>1 DEF Rebuild
      <3>3. CASE /\ ~(restored > 0 /\ tags[restored] # NoRef)
                 /\ ~(MaxTag = 0 /\ StoredAbove(0) # <<>>)
        <4>1. /\ Goto(p, "count")
              /\ have' = [have EXCEPT ![p] = MaxTag]
              /\ UNCHANGED <<locks, req, phase, saw, job, ver, retried, orphan, reply>>
          BY <2>3, <3>3 DEF FindMainMissing
        <4>2. QED
          BY <1>1, <1>7, <1>8, <4>1 DEF CallType, Goto, Steps, locks
      <3>4. QED
        BY <3>1, <3>2, <3>3
    <2>4. CASE CountEqual(p)
      <3>1. CASE Step(p, "read")
        BY <1>1, <1>3, <3>1, StepKeeps
      <3>2. QED
        BY <1>2, <1>5, <2>4, <3>1 DEF CountEqual
    <2>5. CASE CountBehind(p)
      <3>1. have[p] \in 0..MaxVersion
        BY <1>1 DEF CallType
      <3>2. QED
        BY <1>2, <1>5, <1>6, <2>5, <3>1 DEF CountBehind
    <2>6. CASE CountAhead(p)
      <3>1. CASE Step(p, "read")
        BY <1>1, <1>3, <3>1, StepKeeps
      <3>2. QED
        BY <1>2, <1>5, <2>6, <3>1 DEF CountAhead
    <2>7. CASE SyncFails(p)
      BY <1>2, <1>5, <2>7 DEF SyncFails
    <2>8. QED
      BY <2>1, <2>2, <2>3, <2>4, <2>5, <2>6, <2>7 DEF Align
  <1>10. QED
    BY <1>4, <1>9 DEF IInv

\* The git writes: build_history, update_main, the tags.
LEMMA GitWriteKeeps ==
  ASSUME IInv, NEW p \in Procs, GitWrite(p)
  PROVE  IInv'
PROOF
  <1>1. /\ StoreType /\ HistoryHasNoGaps /\ CallsInv /\ CallInv(p) /\ Titles # {}
        /\ CallType /\ job[p] \in Job /\ req[p] \in Request /\ main \in Commit
    BY DEF IInv, CallsInv, StoreType, CallType
  <1>2. /\ pc[p] \in {"build", "move", "tag"}
        /\ job[p].mode \notin {"none", "project"}
        /\ job[p].mode = "web" => req[p].kind = "web"
        /\ job[p].mode \in {"rebuild", "append", "restore"} => Aligning(p)
    BY <1>1 DEF GitWrite, BuildCommits, MoveMain, MoveRefused, SetTag, WriteDone, GitFails,
                TagFails, CallInv, Control
  <1>3. UNCHANGED <<current, rows, dbTitle, dir, acked>>
    BY DEF GitWrite, BuildCommits, MoveMain, MoveRefused, SetTag, WriteDone, GitFails,
           TagFails, db, repo
  <1>4. calls' \in 0..MaxCalls /\ faults' \in 0..MaxFaults
    <2>1. NoFault \/ Fault("git") \/ Fault("tag")
      BY DEF GitWrite, BuildCommits, MoveMain, MoveRefused, SetTag, WriteDone, GitFails,
             TagFails
    <2>2. QED
      BY <1>1, <2>1, BoundAssumption DEF NoFault, Fault, budget, StoreType
  <1>5. ASSUME main' \in Commit, tags' \in [Versions -> Commit], CallsInv'
        PROVE  IInv'
    BY <1>1, <1>3, <1>4, <1>5 DEF IInv, StoreType, HistoryHasNoGaps, FirstRow
  <1>6. ASSUME UNCHANGED <<main, tags>>, CallsInv'
        PROVE  IInv'
    BY <1>1, <1>5, <1>6 DEF StoreType
  <1>7. job[p].todo \in Commit /\ job[p].parent \in Commit /\ job[p].tip \in Commit
        /\ job[p].tags \in Seq([ver : Versions, at : Commit]) /\ req[p].base \in Commit
        /\ job[p].mode \in Modes
    BY <1>1 DEF Job, Request
  <1>8. CASE BuildCommits(p)
    <2> DEFINE mode == job[p].mode
    <2> DEFINE todo == job[p].todo
    <2> DEFINE base == CASE mode \in {"bootstrap", "rebuild"} -> NoRef
                         [] mode = "push"                     -> req[p].base
                         [] OTHER                             -> main
    <2>1. base \in Commit
      BY <1>1, <1>7, EmptySeq DEF NoRef, Commit
    <2>2. pc[p] = "build" /\ UNCHANGED <<main, tags>>
      BY <1>8 DEF BuildCommits, repo
    <2>3. mode \notin {"push", "merge"} => Numbered(todo)
      BY <1>1, <2>2 DEF CallInv, Contents
    <2>4. base \o todo \in Commit /\ IsPrefix(base, base \o todo)
      BY <1>7, <2>1, OnTopOfBase
    <2>5. CASE JobFailed(p)
      BY <1>1, <1>2, <1>3, <1>6, <2>2, <2>5, JobFailedKeeps
    <2>6. CASE /\ mode = "append"
               /\ Hand(p, "tag", [job[p] EXCEPT !.tags = TagsFor(main, todo)])
      <3>1. TagsFor(main, todo) \in Seq([ver : Versions, at : Commit])
        BY <1>1, <1>7, <2>3, <2>6, TagsForType
      <3> DEFINE write == [job[p] EXCEPT !.tags = TagsFor(main, todo)]
      <3>2. write \in Job /\ write.mode = "append"
        BY <1>1, <2>6, <3>1 DEF Job
      <3> HIDE DEF write
      <3>3. Hand(p, "tag", write)
        BY <2>6 DEF write
      <3>4. CallsInv'
        BY <1>1, <1>2, <1>3, <2>6, <3>2, <3>3, HandKeeps
      <3>5. QED
        BY <1>6, <2>2, <3>4
    <2>7. CASE Hand(p, "move",
                    [job[p] EXCEPT
                       !.parent = IF mode = "push" THEN main ELSE base,
                       !.tip    = base \o todo,
                       !.tags   = IF mode \in {"push", "merge"} THEN <<>>
                                  ELSE TagsFor(base \o todo, todo)])
      <3> DEFINE names == IF mode \in {"push", "merge"} THEN <<>>
                          ELSE TagsFor(base \o todo, todo)
      <3> DEFINE write == [job[p] EXCEPT
                             !.parent = IF mode = "push" THEN main ELSE base,
                             !.tip    = base \o todo,
                             !.tags   = names]
      <3>1. names \in Seq([ver : Versions, at : Commit])
        <4>1. CASE mode \in {"push", "merge"}
          BY <4>1, EmptySeq
        <4>2. CASE mode \notin {"push", "merge"}
          BY <1>7, <2>3, <2>4, <4>2, TagsForType
        <4>3. QED
          BY <4>1, <4>2
      <3>2. Hand(p, "move", write)
        BY <2>7
      <3>3. mode = "push" => base = req[p].base
        OBVIOUS
      <3> HIDE DEF names, base
      <3>4. /\ write \in Job /\ write.mode = mode /\ write.tip = base \o todo
            /\ write.parent = IF mode = "push" THEN main ELSE base
        BY <1>1, <2>1, <2>4, <3>1 DEF Job
      <3> HIDE DEF write
      <3>5. IsPrefix(IF write.mode = "push" THEN req[p].base ELSE write.parent, write.tip)
        BY <2>4, <3>3, <3>4
      <3>6. mode = "web" => Open(p) \/ orphan[p]
        BY <2>2 DEF Open
      <3>7. CallsInv'
        BY <1>1, <1>2, <1>3, <3>2, <3>4, <3>5, <3>6, HandKeeps
      <3>8. QED
        BY <1>6, <2>2, <3>7
    <2>8. QED
      BY <1>8, <2>5, <2>6, <2>7 DEF BuildCommits
  <1>9. CASE MoveMain(p)
    <2>1. main' = job[p].tip /\ tags' = tags /\ Step(p, "tag")
      BY <1>9 DEF MoveMain
    <2>2. Hand(p, "tag", job[p])
      BY <1>1, <2>1 DEF Hand, Step, Goto, CallType, local
    <2>3. CallsInv'
      BY <1>1, <1>2, <1>3, <2>2, HandKeeps DEF Open
    <2>4. QED
      BY <1>1, <1>5, <1>7, <2>1, <2>3 DEF StoreType
  <1>10. CASE MoveRefused(p)
    <2>1. UNCHANGED <<main, tags>> /\ pc[p] = "move" /\ "unversioned" \in Replies
      BY <1>10 DEF MoveRefused, repo, Replies
    <2>2. CASE JobFailed(p)
      BY <1>1, <1>2, <1>3, <1>6, <2>1, <2>2, JobFailedKeeps
    <2>3. CASE Finish(p, "unversioned")
      BY <1>1, <1>3, <1>6, <2>1, <2>3, FinishKeeps
    <2>4. CASE Step(p, "read")
      BY <1>1, <1>3, <1>6, <2>1, <2>4, StepKeeps
    <2>5. QED
      BY <1>10, <2>2, <2>3, <2>4 DEF MoveRefused
  <1>11. CASE SetTag(p)
    <2> DEFINE next == Head(job[p].tags)
    <2> DEFINE write == [job[p] EXCEPT !.tags = Tail(job[p].tags)]
    <2>1. /\ job[p].tags # << >> /\ tags' = [tags EXCEPT ![next.ver] = next.at]
          /\ main' = main /\ Hand(p, "tag", write) /\ pc[p] = "tag"
      BY <1>11 DEF SetTag
    <2>2. next \in [ver : Versions, at : Commit]
          /\ Tail(job[p].tags) \in Seq([ver : Versions, at : Commit])
      BY <1>7, <2>1, HeadTailProperties
    <2>3. tags' \in [Versions -> Commit]
      BY <1>1, <2>1, <2>2 DEF StoreType
    <2>4. write \in Job /\ write.mode = job[p].mode
      BY <1>1, <2>2 DEF Job
    <2> HIDE DEF write
    <2>5. CallsInv'
      BY <1>1, <1>2, <1>3, <2>1, <2>4, HandKeeps DEF Open
    <2>6. QED
      BY <1>1, <1>5, <2>1, <2>3, <2>5
  <1>12. CASE WriteDone(p)
    BY <1>1, <1>3, <1>6, <1>12, JobDoneKeeps DEF WriteDone, repo
  <1>13. CASE GitFails(p) \/ TagFails(p)
    BY <1>1, <1>2, <1>3, <1>6, <1>13, JobFailedKeeps DEF GitFails, TagFails, repo
  <1>14. QED
    BY <1>8, <1>9, <1>10, <1>11, <1>12, <1>13 DEF GitWrite

\* While nobody holds the row, nobody's transaction is open.
LEMMA FreeRow ==
  ASSUME CallsInv, NEW p \in Procs, rowLock = Nobody
  PROVE  Alone(p)
PROOF
  BY DataAssumption DEF CallsInv, CallInv, Owns, Alone

\* project_pushed_commit.
LEMMA ProjectKeeps ==
  ASSUME IInv, NEW p \in Procs, Project(p)
  PROVE  IInv'
PROOF
  <1>1. /\ StoreType /\ HistoryHasNoGaps /\ CallsInv /\ CallInv(p) /\ Titles # {}
        /\ CallType /\ job[p] \in Job /\ main \in Commit /\ job[p].tip \in Commit
    BY DEF IInv, CallsInv, StoreType, CallType, Job
  <1>2. calls' \in 0..MaxCalls /\ faults' \in 0..MaxFaults
    <2>1. NoFault \/ \E kind \in {"db", "ack", "tag"} : Fault(kind)
      BY DEF Project, ReadTip, InsertVersion, InsertFails, InsertUnanswered, UpdateMeta,
             TagVersion
    <2>2. QED
      BY <1>1, <2>1, BoundAssumption DEF NoFault, Fault, budget, StoreType
  <1>3. ASSUME UNCHANGED <<db, repo, acked>>, CallsInv'
        PROVE  IInv'
    BY <1>1, <1>2, <1>3 DEF IInv, StoreType, HistoryHasNoGaps, FirstRow, db, repo
  <1>4. pc[p] \in {"insert", "meta", "mark"} =>
          Tip(job[p].tip).body \in Bodies /\ Tip(job[p].tip).title \in Titles
    BY <1>1, TipOfProjectable DEF CallInv, Contents
  <1>5. CASE ReadTip(p)
    <2>1. UNCHANGED <<db, repo, acked>> /\ current' = current
      BY <1>5 DEF ReadTip, db
    <2>2. CASE NothingToProject(p)
      BY <1>1, <1>3, <2>1, <2>2, ProjectedKeeps
    <2>3. CASE /\ Projectable(main)
               /\ Hand(p, "insert", [NoJob EXCEPT !.mode = "project", !.tip = main])
      <3> DEFINE write == [NoJob EXCEPT !.mode = "project", !.tip = main]
      <3>1. write \in Job /\ write.tip = main
        BY <1>1, NothingType DEF Job, Modes, NoJob, Work
      <3>2. Hand(p, "insert", write)
        BY <2>3
      <3> HIDE DEF write
      <3>3. CallType' /\ Frame(p)
        BY <1>1, <2>1, <3>1, <3>2 DEF CallType, Hand, Goto, Steps, locks, Frame
      <3>4. pc'[p] = "insert" /\ job'[p] = write /\ req' = req
        BY <1>1, <3>2 DEF CallType, Hand, Goto
      <3>5. Projectable(job[p].tip)'
        BY <2>3, <3>1, <3>4 DEF Projectable, Tip
      <3>6. CallInv(p)'
        BY <1>1, <3>4, <3>5 DEF CallInv, Control, Contents, OnTop, Owns, Open
      <3>7. QED
        BY <1>1, <1>3, <2>1, <3>3, <3>6, FrameKeeps
    <2>4. QED
      BY <1>5, <2>2, <2>3 DEF ReadTip
  <1>6. ASSUME pc[p] = "insert", rowLock = Nobody, current < MaxVersion,
               NewRow(Tip(job[p].tip).body), UNCHANGED <<dbTitle, repo, acked>>
        PROVE  /\ StoreType' /\ HistoryHasNoGaps' /\ Alone(p)
               /\ current' = current + 1 /\ current' \in Versions
    <2>1. /\ rows' \in [Versions -> Bodies \cup {NoRow}] /\ current' \in Versions
          /\ HistoryHasNoGaps' /\ current' = current + 1
      BY <1>1, <1>4, <1>6, NextRowKept DEF NewRow
    <2>2. QED
      BY <1>1, <1>2, <1>6, <2>1, FreeRow DEF StoreType, repo
  <1>7. CASE InsertVersion(p)
    <2>1. /\ pc[p] = "insert" /\ Goto(p, "meta") /\ ver' = [ver EXCEPT ![p] = current + 1]
          /\ UNCHANGED <<locks, req, phase, saw, have, job, retried, orphan, reply>>
          /\ StoreType' /\ HistoryHasNoGaps' /\ Alone(p) /\ current + 1 \in Versions
      BY <1>6, <1>7 DEF InsertVersion
    <2>2. CallType' /\ Frame(p)
      BY <1>1, <2>1 DEF CallType, Goto, Steps, locks, Frame, Alone, Versions
    <2>3. pc'[p] = "meta" /\ job' = job /\ req' = req
      BY <1>1, <2>1 DEF CallType, Goto
    <2>4. CallInv(p)'
      BY <1>1, <2>1, <2>3 DEF CallInv, Control, Contents, OnTop, Owns, Open, Projectable, Tip
    <2>5. QED
      BY <1>1, <2>1, <2>2, <2>4, FrameKeeps DEF IInv
  <1>8. CASE InsertFails(p)
    BY <1>1, <1>3, <1>8, ProjectedKeeps DEF InsertFails, db
  <1>9. CASE InsertUnanswered(p)
    <2>1. StoreType' /\ HistoryHasNoGaps' /\ Alone(p) /\ ProjectionFailed(p)
      BY <1>6, <1>9 DEF InsertUnanswered
    <2>2. QED
      BY <1>1, <2>1, ProjectedKeeps DEF IInv
  <1>10. CASE UpdateMeta(p)
    <2>1. /\ pc[p] = "meta" /\ Step(p, "mark") /\ dbTitle' \in Titles
          /\ UNCHANGED <<current, rows, dir, main, tags, acked>>
      BY <1>1, <1>4, <1>10 DEF UpdateMeta, repo, StoreType
    <2>2. CallsInv'
      BY <1>1, <2>1, StepKeeps
    <2>3. QED
      BY <1>1, <1>2, <2>1, <2>2 DEF IInv, StoreType, HistoryHasNoGaps, FirstRow
  <1>11. CASE TagVersion(p)
    <2>1. /\ tags' \in [Versions -> Commit]
          /\ acked' \in [Versions -> Bodies \cup {NoRow}]
      BY <1>1, <1>4, <1>11 DEF TagVersion, StoreType
    <2>2. UNCHANGED <<current, rows, dbTitle, dir, main>>
      BY <1>11 DEF TagVersion, db
    <2>3. CallsInv'
      <3>1. CASE orphan[p]
        <4>1. Finish(p, reply[p]) /\ reply[p] \in Replies
          BY <1>1, <1>11, <3>1 DEF TagVersion, CallType
        <4>2. QED
          BY <1>1, <2>2, <4>1, FinishKeeps
      <3>2. CASE ~orphan[p]
        BY <1>1, <1>11, <2>2, <3>2, ProjectedKeeps DEF TagVersion
      <3>3. QED
        BY <3>1, <3>2
    <2>4. QED
      BY <1>1, <1>2, <2>1, <2>2, <2>3 DEF IInv, StoreType, HistoryHasNoGaps, FirstRow
  <1>12. QED
    BY <1>5, <1>7, <1>8, <1>9, <1>10, <1>11 DEF Project

\* commit_web_version after its precondition.
LEMMA WebTailKeeps ==
  ASSUME IInv, NEW p \in Procs, WebTail(p)
  PROVE  IInv'
PROOF
  <1>1. /\ StoreType /\ HistoryHasNoGaps /\ CallsInv /\ CallInv(p) /\ Titles # {}
        /\ CallType /\ req[p].entry \in Entry /\ req[p].kind = "web"
        /\ req[p].entry.body \in Bodies /\ req[p].entry.title \in Titles
    <2>1. req[p].kind = "web" /\ req[p].entry.body \in Bodies
      BY DEF IInv, CallsInv, WebTail, BeginWeb, BeginFails, CommitWeb, CommitFails,
             CallInv, Control, Contents
    <2>2. QED
      BY <2>1 DEF IInv, CallsInv, StoreType, CallType, Request, Entry
  <1>2. calls' \in 0..MaxCalls /\ faults' \in 0..MaxFaults
    <2>1. NoFault \/ Fault("db") \/ Fault("ack")
      BY DEF WebTail, BeginWeb, BeginFails, CommitWeb, CommitFails
    <2>2. QED
      BY <1>1, <2>1, BoundAssumption DEF NoFault, Fault, budget, StoreType
  <1>3. ASSUME UNCHANGED <<db, repo, acked>>, CallsInv'
        PROVE  IInv'
    BY <1>1, <1>2, <1>3 DEF IInv, StoreType, HistoryHasNoGaps, FirstRow, db, repo
  <1>4. \A a \in {"ok", "conflict", "db", "lost"} : a \in Replies
    BY DEF Replies
  <1>5. ASSUME UNCHANGED <<db, repo, acked>>, NEW a \in {"conflict", "db", "lost"},
               Finish(p, a)
        PROVE  IInv'
    BY <1>1, <1>3, <1>4, <1>5, FinishKeeps DEF db
  <1>6. CASE BeginWeb(p) /\ req[p].want \in {0, current}
    <2> DEFINE entry == [req[p].entry EXCEPT !.ver = current + 1]
    <2> DEFINE write == Work("web", <<entry>>)
    <2>1. /\ rowLock = Nobody /\ current < MaxVersion /\ rowLock' = p
          /\ ver' = [ver EXCEPT ![p] = current + 1]
          /\ job' = [job EXCEPT ![p] = write] /\ Goto(p, "build")
          /\ UNCHANGED <<guard, req, phase, saw, have, retried, orphan, reply>>
          /\ UNCHANGED <<db, repo, acked>>
      BY <1>6 DEF BeginWeb
    <2>2. current + 1 \in Versions
      BY <1>1, <2>1, BoundAssumption DEF StoreType, Versions
    <2>3. entry \in Entry /\ entry.ver = current + 1
      BY <1>1, <2>2 DEF Entry, Versions
    <2> HIDE DEF entry
    <2>4. <<entry>> \in Commit /\ Numbered(<<entry>>)
      BY <2>2, <2>3 DEF Commit, Numbered
    <2>5. write \in Job /\ write.mode = "web" /\ write.todo = <<entry>>
      BY <2>4, WorkType DEF Modes
    <2> HIDE DEF write
    <2>6. CallType'
      BY <1>1, <2>1, <2>2, <2>5 DEF CallType, Goto, Steps, Versions
    <2>7. Frame(p)
      BY <1>1, <2>1, DataAssumption DEF CallType, Goto, Frame, db
    <2>8. /\ pc'[p] = "build" /\ job'[p] = write /\ req' = req /\ rowLock' = p
          /\ ver'[p] = current + 1 /\ current' = current
      BY <1>1, <2>1 DEF CallType, Goto, db
    <2>9. CallInv(p)'
      BY <1>1, <2>1, <2>4, <2>5, <2>8
         DEF CallInv, Control, Contents, OnTop, Owns, Open, Numbered
    <2>10. QED
      BY <1>1, <1>3, <2>1, <2>6, <2>7, <2>9, FrameKeeps
  <1>7. CASE BeginWeb(p) /\ req[p].want \notin {0, current}
    BY <1>5, <1>7 DEF BeginWeb
  <1>8. CASE BeginFails(p)
    BY <1>5, <1>8 DEF BeginFails
  <1>9. ASSUME pc[p] = "commit", NewVersion(p)
        PROVE  /\ Alone(p) /\ HistoryHasNoGaps' /\ current' \in Versions
               /\ rows' \in [Versions -> Bodies \cup {NoRow}] /\ dbTitle' \in Titles
    <2>1. rowLock = p /\ ver[p] = current + 1 /\ current < MaxVersion
      BY <1>1, <1>9 DEF CallInv, Owns, Open
    <2>2. Alone(p)
      BY <1>1, <2>1 DEF CallsInv, CallInv, Owns, Alone
    <2>3. /\ rows' = [rows EXCEPT ![current + 1] = req[p].entry.body]
          /\ current' = current + 1 /\ dbTitle' = req[p].entry.title
      BY <1>9, <2>1 DEF NewVersion
    <2>4. QED
      BY <1>1, <2>1, <2>2, <2>3, NextRowKept
  <1>10. CASE CommitWeb(p)
    <2>1. /\ pc[p] = "commit" /\ NewVersion(p) /\ Finish(p, "ok")
          /\ acked' = [acked EXCEPT ![ver[p]] = req[p].entry.body]
          /\ UNCHANGED <<dir, main, tags>>
      BY <1>10 DEF CommitWeb, repo
    <2>2. CallsInv'
      BY <1>1, <1>4, <1>9, <2>1, FinishKeeps
    <2>3. QED
      BY <1>1, <1>2, <1>9, <2>1, <2>2 DEF IInv, StoreType
  <1>11. CASE CommitFails(p) /\ UNCHANGED db
    BY <1>5, <1>11 DEF CommitFails
  <1>12. CASE CommitFails(p) /\ NewVersion(p)
    <2>1. /\ pc[p] = "commit" /\ Finish(p, "lost") /\ UNCHANGED <<dir, main, tags, acked>>
      BY <1>12 DEF CommitFails, repo
    <2>2. CallsInv'
      BY <1>1, <1>4, <1>9, <1>12, <2>1, FinishKeeps
    <2>3. QED
      BY <1>1, <1>2, <1>9, <1>12, <2>1, <2>2 DEF IInv, StoreType
  <1>13. QED
    BY <1>6, <1>7, <1>8, <1>10, <1>11, <1>12 DEF WebTail, CommitFails

\* A handler is dropped: its closure, if it has one, runs on without the row.
LEMMA CancelKeeps ==
  ASSUME IInv, NEW p \in Procs, Cancel(p)
  PROVE  IInv'
PROOF
  <1>1. /\ StoreType /\ HistoryHasNoGaps /\ CallsInv /\ CallInv(p) /\ Titles # {}
        /\ CallType /\ "gone" \in Replies
    BY DEF IInv, CallsInv, StoreType, Replies
  <1>2. UNCHANGED <<db, repo, acked>> /\ Fault("cancel") /\ current' = current
    BY DEF Cancel, db
  <1>3. StoreType' /\ HistoryHasNoGaps'
    BY <1>1, <1>2, StoresKept DEF AllFaults
  <1>4. CASE pc[p] \in Blocking
    <2>1. /\ orphan' = [orphan EXCEPT ![p] = TRUE]
          /\ reply' = [reply EXCEPT ![p] = "gone"]
          /\ guard' = Freed(p, guard) /\ rowLock' = Freed(p, rowLock)
          /\ UNCHANGED <<pc, req, phase, saw, have, job, ver, retried>>
      BY <1>4 DEF Cancel
    <2>2. CallType' /\ Frame(p)
      BY <1>1, <1>2, <2>1 DEF CallType, Freed, Frame
    <2>3. orphan'[p] /\ pc[p] # "commit"
      BY <1>1, <1>4, <2>1 DEF CallType, Blocking
    <2>4. CallInv(p)'
      BY <1>1, <2>1, <2>3 DEF CallInv, Control, Contents, OnTop, Owns, Open, Aligning,
                              Expected, Projectable, Tip, Numbered
    <2>5. QED
      BY <1>1, <1>3, <2>2, <2>4, FrameKeeps DEF IInv
  <1>5. CASE pc[p] \notin Blocking
    <2>1. Finish(p, "gone")
      BY <1>5 DEF Cancel
    <2>2. QED
      BY <1>1, <1>2, <1>3, <2>1, FinishKeeps DEF IInv
  <1>6. QED
    BY <1>4, <1>5

\* An instance dies with its calls.
LEMMA CrashKeeps ==
  ASSUME IInv, Crash
  PROVE  IInv'
PROOF
  <1>1. /\ StoreType /\ HistoryHasNoGaps /\ CallsInv /\ Titles # {} /\ CallType
    BY DEF IInv, CallsInv, StoreType
  <1>2. NoRequest \in Request /\ NoJob \in Job /\ 0 \in 0..MaxVersion
    BY <1>1, NothingType, BoundAssumption
  <1>3. PICK gone \in SUBSET {p \in Procs : pc[p] # "idle"} :
        /\ Fault("crash")
        /\ guard' = IF guard \in gone THEN Nobody ELSE guard
        /\ rowLock' = IF rowLock \in gone THEN Nobody ELSE rowLock
        /\ pc' = [p \in Procs |-> IF p \in gone THEN "idle" ELSE pc[p]]
        /\ reply' = [p \in Procs |-> IF p \in gone THEN "gone" ELSE reply[p]]
        /\ req' = [p \in Procs |-> IF p \in gone THEN NoRequest ELSE req[p]]
        /\ phase' = [p \in Procs |-> IF p \in gone THEN "ensure" ELSE phase[p]]
        /\ saw' = [p \in Procs |-> IF p \in gone THEN 0 ELSE saw[p]]
        /\ have' = [p \in Procs |-> IF p \in gone THEN 0 ELSE have[p]]
        /\ job' = [p \in Procs |-> IF p \in gone THEN NoJob ELSE job[p]]
        /\ ver' = [p \in Procs |-> IF p \in gone THEN 0 ELSE ver[p]]
        /\ retried' = [p \in Procs |-> IF p \in gone THEN FALSE ELSE retried[p]]
        /\ orphan' = [p \in Procs |-> IF p \in gone THEN FALSE ELSE orphan[p]]
        /\ UNCHANGED <<db, repo, acked>>
    BY DEF Crash
  <1>4. StoreType' /\ HistoryHasNoGaps' /\ current' = current
    BY <1>1, <1>3, StoresKept DEF AllFaults, db
  <1>5. CallType'
    <2>1. guard' \in Procs \cup {Nobody} /\ rowLock' \in Procs \cup {Nobody}
      BY <1>1, <1>3 DEF CallType
    <2>2. pc' \in [Procs -> Steps] /\ reply' \in [Procs -> Replies]
      BY <1>1, <1>3 DEF CallType, Steps, Replies
    <2>3. req' \in [Procs -> Request] /\ job' \in [Procs -> Job]
      BY <1>1, <1>2, <1>3 DEF CallType
    <2>4. phase' \in [Procs -> {"ensure", "work"}]
      BY <1>1, <1>3 DEF CallType
    <2>5. /\ saw' \in [Procs -> 0..MaxVersion] /\ have' \in [Procs -> 0..MaxVersion]
          /\ ver' \in [Procs -> 0..MaxVersion]
      BY <1>1, <1>2, <1>3 DEF CallType
    <2>6. retried' \in [Procs -> BOOLEAN] /\ orphan' \in [Procs -> BOOLEAN]
      BY <1>1, <1>3 DEF CallType
    <2>7. QED
      BY <2>1, <2>2, <2>3, <2>4, <2>5, <2>6 DEF CallType
  <1>6. ASSUME NEW q \in Procs PROVE CallInv(q)'
    <2>1. CASE q \in gone
      <3>1. pc'[q] = "idle" /\ phase'[q] = "ensure" /\ req'[q] = NoRequest
        BY <1>3, <2>1
      <3>2. QED
        BY <3>1 DEF CallInv, Control, Contents, OnTop, Owns, Open, NoRequest
    <2>2. CASE q \notin gone
      <3>1. /\ pc'[q] = pc[q] /\ req'[q] = req[q] /\ phase'[q] = phase[q]
            /\ job'[q] = job[q] /\ ver'[q] = ver[q] /\ orphan'[q] = orphan[q]
            /\ rowLock = q => rowLock' = q
        BY <1>3, <2>2
      <3>2. CallInv(q)
        BY <1>1 DEF CallsInv
      <3>3. Control(q)' /\ OnTop(q)'
        BY <3>1, <3>2 DEF CallInv, Control, OnTop, Aligning, Expected
      <3>4. Contents(q)'
        BY <3>1, <3>2 DEF CallInv, Contents, Projectable, Tip, Numbered
      <3>5. Owns(q)'
        BY <1>4, <3>1, <3>2 DEF CallInv, Owns, Open
      <3>6. QED
        BY <3>3, <3>4, <3>5 DEF CallInv
    <2>3. QED
      BY <2>1, <2>2
  <1>7. QED
    BY <1>4, <1>5, <1>6 DEF IInv, CallsInv

\* The volume is damaged between calls.
LEMMA DamageKeeps ==
  ASSUME IInv, Damage
  PROVE  IInv' /\ (main' = main \/ main' = NoRef)
PROOF
  <1>1. StoreType /\ HistoryHasNoGaps /\ CallsInv
    BY DEF IInv
  <1>2. UNCHANGED <<db, locks, pc, local, reply, acked>>
    BY DEF Damage
  <1>3. NoRef \in Commit
    BY EmptySeq DEF NoRef, Commit
  <1>4. ASSUME NEW n \in 1..Len(main)
        PROVE  SubSeq(main, 1, n) \in Commit
    BY <1>1, SubSeqProperties, ElementOfSeq, LenProperties DEF StoreType, Commit
  <1>5. main' \in {main, NoRef} /\ dir' \in BOOLEAN /\ tags' \in [Versions -> Commit]
    BY <1>1, <1>3, <1>4 DEF Damage, LoseMain, LoseTag, LoseDir, ForeignTag, StoreType
  <1>6. calls' \in 0..MaxCalls /\ faults' \in 0..MaxFaults
    <2>1. \E kind \in AllFaults : Fault(kind)
      BY DEF Damage, LoseMain, LoseTag, LoseDir, ForeignTag, AllFaults
    <2>2. QED
      BY <1>1, <2>1, BoundAssumption DEF Fault, StoreType
  <1>7. StoreType' /\ HistoryHasNoGaps'
    BY <1>1, <1>2, <1>3, <1>5, <1>6 DEF StoreType, HistoryHasNoGaps, FirstRow, db
  <1>8. CallsInv'
    BY <1>1, <1>2 DEF CallsInv, CallType, CallInv, Control, Contents, OnTop, Owns, Open,
                      Aligning, Expected, Projectable, Tip, Numbered, db, locks, local
  <1>9. QED
    BY <1>5, <1>7, <1>8 DEF IInv

\* Every step keeps the invariant.
LEMMA NextInv ==
  ASSUME IInv, [Next]_vars
  PROVE  IInv'
PROOF
  <1>1. CASE UNCHANGED vars
    <2>1. UNCHANGED <<db, repo, locks, pc, local, reply, acked, budget>>
      BY <1>1 DEF vars
    <2>2. UNCHANGED <<current, rows, dbTitle, dir, main, tags, guard, rowLock, pc, req,
                      phase, saw, have, job, ver, retried, orphan, reply, acked, calls,
                      faults>>
      BY <2>1 DEF db, repo, locks, local, budget
    <2>3. StoreType' /\ HistoryHasNoGaps'
      BY <2>2 DEF IInv, StoreType, HistoryHasNoGaps, FirstRow
    <2>4. CallsInv'
      BY <2>2 DEF IInv, CallsInv, CallType, CallInv, Control, Contents, OnTop, Owns, Open,
                  Aligning, Expected, Projectable, Tip, Numbered
    <2>5. QED
      BY <2>3, <2>4 DEF IInv
  <1>2. ASSUME NEW p \in Procs, Proceed(p)
        PROVE  IInv'
    BY <1>2, EnsureKeeps, AlignKeeps, GitWriteKeeps, ProjectKeeps, WebTailKeeps DEF Proceed
  <1>3. QED
    BY <1>1, <1>2, ArriveKeeps, TakeGuardKeeps, CancelKeeps, CrashKeeps, DamageKeeps DEF Next

\* The invariant holds throughout.
THEOREM Invariance == Spec => []IInv
PROOF
  <1>1. Init => IInv
    BY InitInv
  <1>2. IInv /\ [Next]_vars => IInv'
    BY NextInv
  <1>3. QED
    BY <1>1, <1>2, PTL DEF Spec

\* Type correctness: above all, no projection, edit or heal ever puts into
\* template_versions, or tells a client of, anything but the steps of a list.
THEOREM TypeCorrect == Spec => []TypeOK
PROOF
  <1>1. IInv => TypeOK
    BY DEF IInv, CallsInv, TypeOK
  <1>2. QED
    BY <1>1, Invariance, PTL

\* The version numbers of a list run without a gap up to current_version,
\* whichever of its three writers, guarded or not, took the last one.
THEOREM NoGaps == Spec => []HistoryHasNoGaps
PROOF
  <1>1. IInv => HistoryHasNoGaps
    BY DEF IInv
  <1>2. QED
    BY <1>1, Invariance, PTL

-----------------------------------------------------------------------------
(* What a step may never do *)

\* The version after current_version is added, and the repository is left alone.
VersionAdded(body) ==
    /\ current < MaxVersion /\ current' = current + 1
    /\ rows' = [rows EXCEPT ![current + 1] = body]
    /\ UNCHANGED repo

\* The steps a call is about to make a version of.
Wants(q, body) == \/ pc[q] = "insert" /\ body = Tip(job[q].tip).body
                  \/ pc[q] = "commit" /\ body = req[q].entry.body

\* The only step that touches the rows is the one that adds the next version.
LEMMA RowsStep ==
  ASSUME IInv, [Next]_vars
  PROVE  \/ UNCHANGED <<current, rows>>
         \/ \E body \in Bodies, p \in Procs : VersionAdded(body) /\ Wants(p, body)
PROOF
  <1>1. ASSUME NEW p \in Procs, Project(p)
        PROVE  \/ UNCHANGED <<current, rows>>
               \/ \E body \in Bodies : VersionAdded(body) /\ Wants(p, body)
    <2>1. CASE InsertVersion(p) \/ InsertUnanswered(p)
      <3>1. /\ pc[p] = "insert" /\ current < MaxVersion /\ NewRow(Tip(job[p].tip).body)
            /\ UNCHANGED repo
        BY <2>1 DEF InsertVersion, InsertUnanswered
      <3>2. job[p].tip \in Commit /\ Projectable(job[p].tip)
        BY <3>1 DEF IInv, CallsInv, CallType, Job, CallInv, Contents
      <3>3. Tip(job[p].tip).body \in Bodies
        BY <3>2, TipOfProjectable
      <3>4. QED
        BY <3>1, <3>3 DEF NewRow, VersionAdded, Wants
    <2>2. CASE ~(InsertVersion(p) \/ InsertUnanswered(p))
      BY <1>1, <2>2 DEF Project, ReadTip, InsertFails, UpdateMeta, TagVersion, db
    <2>3. QED
      BY <2>1, <2>2
  <1>2. ASSUME NEW p \in Procs, WebTail(p)
        PROVE  \/ UNCHANGED <<current, rows>>
               \/ \E body \in Bodies : VersionAdded(body) /\ Wants(p, body)
    <2>1. CASE pc[p] = "commit" /\ NewVersion(p)
      <3>1. ver[p] = current + 1 /\ current < MaxVersion /\ req[p].entry.body \in Bodies
        BY <2>1 DEF IInv, CallsInv, CallInv, Owns, Open, Control, Contents
      <3>2. UNCHANGED repo
        BY <1>2 DEF WebTail, BeginWeb, BeginFails, CommitWeb, CommitFails
      <3>3. QED
        BY <1>2, <2>1, <3>1, <3>2 DEF NewVersion, VersionAdded, Wants
    <2>2. CASE ~(pc[p] = "commit" /\ NewVersion(p))
      BY <1>2, <2>2 DEF WebTail, BeginWeb, BeginFails, CommitWeb, CommitFails, db
    <2>3. QED
      BY <2>1, <2>2
  <1>3. ASSUME NEW p \in Procs, Arrive(p) \/ TakeGuard(p) \/ Cancel(p)
        PROVE  UNCHANGED <<current, rows>>
    BY <1>3 DEF Arrive, StartWeb, StartPush, StartMerge, StartRead, StartReproject, Start,
                TakeGuard, Cancel, db
  <1>4. ASSUME NEW p \in Procs, Ensure(p) \/ Align(p) \/ GitWrite(p)
        PROVE  UNCHANGED <<current, rows>>
    <2>1. CASE Ensure(p)
      BY <2>1 DEF Ensure, EnsureMissing, EnsurePresent, db
    <2>2. CASE Align(p)
      BY <2>2 DEF Align, ReadCurrent, LookAtRefs, FindMainMissing, CountEqual, CountBehind,
                  CountAhead, SyncFails, db
    <2>3. CASE GitWrite(p)
      BY <2>3 DEF GitWrite, BuildCommits, MoveMain, MoveRefused, SetTag, WriteDone, GitFails,
                  TagFails, db
    <2>4. QED
      BY <1>4, <2>1, <2>2, <2>3
  <1>5. CASE Crash \/ Damage
    BY <1>5 DEF Crash, Damage, db
  <1>6. CASE UNCHANGED vars
    BY <1>6 DEF vars, db
  <1>7. QED
    BY <1>1, <1>2, <1>3, <1>4, <1>5, <1>6 DEF Next, Proceed

\* A version that exists is never rewritten, renumbered or taken back, by a
\* web edit, a push, a merge, a heal or an unguarded reproject, under any
\* failure the model has.
THEOREM Immutable == Spec => VersionsImmutable
PROOF
  <1>1. ASSUME IInv, [Next]_vars
        PROVE  [/\ current <= current'
                /\ \A v \in Versions : rows[v] # NoRow => rows'[v] = rows[v]
               ]_<<current, rows>>
    <2>1. CASE UNCHANGED <<current, rows>>
      BY <2>1
    <2>2. CASE \E body \in Bodies : VersionAdded(body)
      <3>1. StoreType /\ HistoryHasNoGaps
        BY <1>1 DEF IInv
      <3>2. \A v \in Versions : rows[v] # NoRow => rows'[v] = rows[v]
        BY <2>2, <3>1, NextRowKept DEF VersionAdded
      <3>3. current <= current'
        BY <2>2, <3>1, BoundAssumption DEF StoreType, Versions, VersionAdded
      <3>4. QED
        BY <3>2, <3>3
    <2>3. QED
      BY <1>1, <2>1, <2>2, RowsStep
  <1>2. QED
    BY <1>1, Invariance, PTL DEF Spec, VersionsImmutable

\* main stays where it is or moves to a descendant, unless the volume loses it.
LEMMA MainStep ==
  ASSUME IInv, [Next]_vars
  PROVE  \/ main' = main
         \/ IsPrefix(main, main')
         \/ (LoseMain \/ LoseDir) /\ main' = NoRef
PROOF
  <1>1. ASSUME NEW p \in Procs, MoveMain(p)
        PROVE  IsPrefix(main, main')
    BY <1>1 DEF MoveMain, IInv, CallsInv, CallInv, OnTop
  <1>2. ASSUME NEW p \in Procs, GitWrite(p), ~MoveMain(p)
        PROVE  main' = main
    BY <1>2 DEF GitWrite, BuildCommits, MoveRefused, SetTag, WriteDone, GitFails,
                TagFails, repo
  <1>3. ASSUME NEW p \in Procs, Project(p) \/ WebTail(p) \/ Ensure(p)
        PROVE  main' = main
    <2>1. CASE Project(p)
      BY <2>1 DEF Project, ReadTip, InsertVersion, InsertFails, InsertUnanswered,
                  UpdateMeta, TagVersion, repo
    <2>2. CASE WebTail(p)
      BY <2>2 DEF WebTail, BeginWeb, BeginFails, CommitWeb, CommitFails, repo
    <2>3. CASE Ensure(p)
      BY <2>3 DEF Ensure, EnsureMissing, EnsurePresent, repo
    <2>4. QED
      BY <1>3, <2>1, <2>2, <2>3
  <1>4. ASSUME NEW p \in Procs, Align(p)
        PROVE  main' = main
    BY <1>4 DEF Align, ReadCurrent, LookAtRefs, FindMainMissing, CountEqual, CountBehind,
                CountAhead, SyncFails, repo
  <1>5. ASSUME NEW p \in Procs, Arrive(p) \/ TakeGuard(p) \/ Cancel(p)
        PROVE  main' = main
    BY <1>5 DEF Arrive, StartWeb, StartPush, StartMerge, StartRead, StartReproject, Start,
                TakeGuard, Cancel, repo
  <1>6. CASE Crash \/ UNCHANGED vars
    BY <1>6 DEF Crash, vars, repo
  <1>7. CASE Damage
    BY <1>7 DEF Damage, LoseMain, LoseTag, LoseDir, ForeignTag
  <1>8. QED
    BY <1>1, <1>2, <1>3, <1>4, <1>5, <1>6, <1>7 DEF Next, Proceed

\* main moves only forward: whatever writers lose their guard, read the same
\* tip or heal at the same time, a commit on main stays in its history, unless
\* the volume itself loses the branch.
THEOREM OnlyGrows == Spec => MainOnlyGrows
PROOF
  <1>1. ASSUME IInv, [Next]_vars
        PROVE  [main' # NoRef => IsPrefix(main, main')]_main
    BY <1>1, MainStep
  <1>2. QED
    BY <1>1, Invariance, PTL DEF Spec, MainOnlyGrows

-----------------------------------------------------------------------------
(* Whose state a step touches *)

\* The state of a call that the invariants below speak of.
Same(q) ==
    /\ pc'[q] = pc[q] /\ req'[q] = req[q] /\ phase'[q] = phase[q] /\ saw'[q] = saw[q]
    /\ have'[q] = have[q] /\ job'[q] = job[q] /\ ver'[q] = ver[q] /\ orphan'[q] = orphan[q]
OnlyOf(p) == \A q \in Procs \ {p} : Same(q)

\* However a step of a call ends, it ends for this call only.
LEMMA EndingTouchesOne ==
  ASSUME CallType, NEW p \in Procs
  PROVE  /\ \A a : Finish(p, a) => OnlyOf(p)
         /\ \A s : Step(p, s) => OnlyOf(p)
         /\ \A s, w : Hand(p, s, w) => OnlyOf(p)
         /\ \A a : LeaveSync(p, a) => OnlyOf(p)
         /\ LeaveEnsure(p) => OnlyOf(p)
         /\ job[p].mode \in Modes \ {"none", "project"} /\ JobDone(p) => OnlyOf(p)
         /\ JobFailed(p) => OnlyOf(p)
         /\ Projected(p) \/ NothingToProject(p) \/ ProjectionFailed(p) => OnlyOf(p)
PROOF
  <1>1. \A a : Finish(p, a) => OnlyOf(p)
    BY DEF CallType, Finish, Forget, Goto, OnlyOf, Same
  <1>2. \A s : Step(p, s) => OnlyOf(p)
    BY DEF CallType, Step, Goto, local, OnlyOf, Same
  <1>3. \A s, w : Hand(p, s, w) => OnlyOf(p)
    BY DEF CallType, Hand, Goto, OnlyOf, Same
  <1>4. LeaveEnsure(p) => OnlyOf(p)
    <2>1. CASE req[p].kind = "read"
      BY <1>1, <2>1 DEF LeaveEnsure
    <2>2. CASE req[p].kind # "read"
      BY <2>2 DEF CallType, LeaveEnsure, Goto, OnlyOf, Same
    <2>3. QED
      BY <2>1, <2>2
  <1>5. \A a : LeaveSync(p, a) => OnlyOf(p)
    BY <1>1, <1>2, <1>4 DEF LeaveSync
  <1>6. JobFailed(p) => OnlyOf(p)
    BY <1>1, <1>5 DEF JobFailed
  <1>7. job[p].mode \in Modes \ {"none", "project"} /\ JobDone(p) => OnlyOf(p)
    BY <1>1, <1>2, <1>4, <1>5 DEF JobDone, Modes
  <1>8. Projected(p) \/ NothingToProject(p) \/ ProjectionFailed(p) => OnlyOf(p)
    <2>1. CASE Projected(p) \/ NothingToProject(p)
      BY <1>1, <1>5, <2>1 DEF Projected, NothingToProject
    <2>2. CASE ProjectionFailed(p)
      <3>1. CASE \E a : Finish(p, a) \/ LeaveSync(p, a)
        BY <1>1, <1>5, <3>1
      <3>2. CASE Goto(p, "read") /\ UNCHANGED <<locks, req, phase, saw, have, job, ver, orphan, reply>>
        BY <3>2 DEF CallType, Goto, OnlyOf, Same
      <3>3. QED
        BY <2>2, <3>1, <3>2 DEF ProjectionFailed
    <2>3. QED
      BY <2>1, <2>2
  <1>9. QED
    BY <1>1, <1>2, <1>3, <1>4, <1>5, <1>6, <1>7, <1>8

\* What a call takes in hand: nothing else calls itself an actor.
Acts(p) == Arrive(p) \/ TakeGuard(p) \/ Proceed(p) \/ Cancel(p)

\* A step of one call leaves the state of the others alone.
LEMMA ActsAlone ==
  ASSUME IInv, NEW p \in Procs, Acts(p)
  PROVE  OnlyOf(p)
PROOF
  <1>1. CallType /\ CallInv(p)
    BY DEF IInv, CallsInv
  <1>2. CASE Arrive(p)
    <2>1. PICK kind, entry, want, base : Start(p, kind, entry, want, base)
      BY <1>2 DEF Arrive, StartWeb, StartPush, StartMerge, StartRead, StartReproject
    <2>2. QED
      BY <1>1, <2>1 DEF Start, Goto, CallType, OnlyOf, Same
  <1>3. CASE TakeGuard(p)
    BY <1>1, <1>3 DEF TakeGuard, Goto, CallType, OnlyOf, Same
  <1>4. CASE Cancel(p)
    <2>1. CASE pc[p] \in Blocking
      BY <1>1, <1>4, <2>1 DEF Cancel, CallType, OnlyOf, Same
    <2>2. CASE pc[p] \notin Blocking
      BY <1>1, <1>4, <2>2, EndingTouchesOne DEF Cancel
    <2>3. QED
      BY <2>1, <2>2
  <1>5. CASE Ensure(p)
    BY <1>1, <1>5, EndingTouchesOne DEF Ensure, EnsureMissing, EnsurePresent
  <1>6. CASE Align(p)
    <2>1. CASE ReadCurrent(p)
      <3>1. CASE dir
        BY <1>1, <2>1, <3>1 DEF ReadCurrent, Goto, CallType, OnlyOf, Same
      <3>2. CASE ~dir
        BY <1>1, <2>1, <3>2, EndingTouchesOne DEF ReadCurrent, Rebuild
      <3>3. QED
        BY <3>1, <3>2
    <2>2. CASE LookAtRefs(p)
      BY <1>1, <2>2 DEF LookAtRefs, Goto, CallType, OnlyOf, Same
    <2>3. CASE FindMainMissing(p)
      <3>1. CASE Rebuild(p)
        BY <1>1, <3>1, EndingTouchesOne DEF Rebuild
      <3>2. CASE ~Rebuild(p)
        BY <1>1, <2>3, <3>2 DEF FindMainMissing, Goto, CallType, OnlyOf, Same
      <3>3. QED
        BY <3>1, <3>2
    <2>4. CASE CountEqual(p) \/ CountBehind(p) \/ CountAhead(p) \/ SyncFails(p)
      BY <1>1, <2>4, EndingTouchesOne DEF CountEqual, CountBehind, CountAhead, SyncFails
    <2>5. QED
      BY <1>6, <2>1, <2>2, <2>3, <2>4 DEF Align
  <1>7. CASE GitWrite(p)
    <2>1. CASE WriteDone(p)
      <3>1. job[p].mode \in Modes \ {"none", "project"} /\ JobDone(p)
        BY <1>1, <2>1 DEF WriteDone, CallInv, Control, CallType, Job
      <3>2. QED
        BY <1>1, <3>1, EndingTouchesOne
    <2>2. CASE BuildCommits(p)
      BY <1>1, <2>2, EndingTouchesOne DEF BuildCommits
    <2>3. CASE MoveMain(p) \/ MoveRefused(p) \/ SetTag(p) \/ GitFails(p) \/ TagFails(p)
      BY <1>1, <2>3, EndingTouchesOne DEF MoveMain, MoveRefused, SetTag, GitFails, TagFails
    <2>4. QED
      BY <1>7, <2>1, <2>2, <2>3 DEF GitWrite
  <1>8. CASE Project(p)
    <2>1. CASE InsertVersion(p)
      BY <1>1, <2>1 DEF InsertVersion, Goto, CallType, OnlyOf, Same
    <2>2. CASE ~InsertVersion(p)
      BY <1>1, <1>8, <2>2, EndingTouchesOne
         DEF Project, ReadTip, InsertFails, InsertUnanswered, UpdateMeta, TagVersion
    <2>3. QED
      BY <2>1, <2>2
  <1>9. CASE WebTail(p)
    <2>1. CASE BeginWeb(p) /\ req[p].want \in {0, current}
      BY <1>1, <2>1 DEF BeginWeb, Goto, CallType, OnlyOf, Same
    <2>2. CASE ~(BeginWeb(p) /\ req[p].want \in {0, current})
      BY <1>1, <1>9, <2>2, EndingTouchesOne
         DEF WebTail, BeginWeb, BeginFails, CommitWeb, CommitFails
    <2>3. QED
      BY <2>1, <2>2
  <1>10. QED
    BY <1>2, <1>3, <1>4, <1>5, <1>6, <1>7, <1>8, <1>9 DEF Acts, Proceed

-----------------------------------------------------------------------------
(* Git first: what becomes a version, and what a client is told of         *)

InMain(body) == \E n \in 1..Len(main) : main[n].body = body

\* The open transaction of an edit is about the version the client named.
Based(q) == Open(q) => req[q].want \in {0, current}

\* A projection that has its number has put the steps of its tip there.
Told(q) ==
    pc[q] \in {"meta", "mark"} =>
        ver[q] \in 1..current /\ rows[ver[q]] = Tip(job[q].tip).body

\* What a call is about to make a version of is on its way into main until
\* main moves, and in the history of main from then on.
GitFirst(q) ==
    /\ pc[q] = "build" /\ job[q].mode = "web" =>
          job[q].todo # NoRef /\ Tip(job[q].todo).body = req[q].entry.body
    /\ pc[q] = "move" /\ job[q].mode = "web" =>
          job[q].tip # NoRef /\ Tip(job[q].tip).body = req[q].entry.body
    /\ pc[q] = "commit" \/ (pc[q] = "tag" /\ job[q].mode = "web") =>
          InMain(req[q].entry.body)
    /\ pc[q] \in {"insert", "meta", "mark"} => InMain(Tip(job[q].tip).body)

AckedRows == \A v \in Versions : acked[v] # NoRow => rows[v] = acked[v]
AckedInMain == \A v \in Versions : acked[v] # NoRow => InMain(acked[v])

\* With no hypothesis on the faults, and with main never lost.
SaidInv == AckedRows /\ \A q \in Procs : Based(q) /\ Told(q)
GitFirstInv == AckedInMain /\ \A q \in Procs : GitFirst(q)

\* A step after which the call has neither content nor number in hand.
Light(p) ==
    \/ pc'[p] \in {"idle", "lock", "ensure", "sync", "look", "count", "read", "begin"}
    \/ pc'[p] \in {"build", "move", "tag"} /\ job'[p].mode # "web"

\* So nothing that was said of it can become false.
LEMMA LightKeeps ==
  ASSUME NEW p \in Procs, Light(p)
  PROVE  Based(p)' /\ Told(p)' /\ GitFirst(p)'
PROOF
  BY DEF Light, Based, Told, GitFirst, Open

\* The endings of a step that leave nothing in hand.
LEMMA EndingIsLight ==
  ASSUME CallType, NEW p \in Procs
  PROVE  /\ \A a : Finish(p, a) => Light(p)
         /\ \A a : LeaveSync(p, a) => Light(p)
         /\ LeaveEnsure(p) => Light(p)
         /\ JobFailed(p) => Light(p)
         /\ Projected(p) \/ NothingToProject(p) \/ ProjectionFailed(p) => Light(p)
PROOF
  <1>1. \A a : Finish(p, a) => pc'[p] = "idle"
    BY DEF CallType, Finish, Goto
  <1>2. LeaveEnsure(p) => pc'[p] \in {"idle", "read", "lock"}
    BY <1>1 DEF CallType, LeaveEnsure, Goto
  <1>3. \A a : LeaveSync(p, a) => pc'[p] \in {"idle", "read", "lock", "begin"}
    BY <1>1, <1>2 DEF CallType, LeaveSync, Step, Goto
  <1>4. JobFailed(p) => pc'[p] \in {"idle", "read", "lock", "begin"}
    BY <1>1, <1>3 DEF JobFailed
  <1>5. Projected(p) \/ NothingToProject(p) \/ ProjectionFailed(p) =>
            pc'[p] \in {"idle", "read", "lock", "begin"}
    BY <1>1, <1>3 DEF Projected, NothingToProject, ProjectionFailed, CallType, Goto
  <1>6. QED
    BY <1>1, <1>2, <1>3, <1>4, <1>5 DEF Light

\* Most steps are light.
LEMMA LightSteps ==
  ASSUME IInv, NEW p \in Procs,
         \/ Arrive(p) \/ TakeGuard(p) \/ Ensure(p) \/ Align(p)
         \/ MoveRefused(p) \/ GitFails(p) \/ TagFails(p)
         \/ InsertFails(p) \/ InsertUnanswered(p) \/ TagVersion(p)
         \/ BeginFails(p) \/ CommitWeb(p) \/ CommitFails(p)
  PROVE  Light(p)
PROOF
  <1>1. CallType /\ CallInv(p)
    BY DEF IInv, CallsInv
  <1>2. \A mode, todo : Work(mode, todo).mode = mode
    BY DEF Work
  <1>3. \A write : Hand(p, "build", write) => pc'[p] = "build" /\ job'[p] = write
    BY <1>1 DEF CallType, Hand, Goto
  <1>4. \A todo : /\ Hand(p, "build", Work("bootstrap", todo)) => Light(p)
                  /\ Hand(p, "build", Work("rebuild", todo)) => Light(p)
                  /\ Hand(p, "build", Work("append", todo)) => Light(p)
    BY <1>2, <1>3 DEF Light
  <1>5. \A s : Step(p, s) => pc'[p] = s
    BY <1>1 DEF CallType, Step, Goto
  <1>6. CASE Arrive(p)
    <2>1. PICK kind, entry, want, base : Start(p, kind, entry, want, base)
      BY <1>6 DEF Arrive, StartWeb, StartPush, StartMerge, StartRead, StartReproject
    <2>2. QED
      BY <1>1, <2>1 DEF Start, Goto, CallType, Light
  <1>7. CASE TakeGuard(p)
    <2>1. \/ pc'[p] \in {"ensure", "sync"}
             \/ /\ pc'[p] = "build" /\ req[p].kind \in {"push", "merge"}
                /\ job'[p] = Work(req[p].kind, <<req[p].entry>>)
      BY <1>1, <1>7 DEF TakeGuard, Goto, CallType, CallInv, Control
    <2>2. QED
      BY <1>2, <2>1 DEF Light
  <1>8. CASE Ensure(p)
    BY <1>1, <1>4, <1>5, <1>8, EndingIsLight DEF Ensure, EnsureMissing, EnsurePresent, Light
  <1>9. CASE Align(p)
    <2>1. CASE ReadCurrent(p)
      BY <1>1, <1>4, <2>1, EndingIsLight DEF ReadCurrent, Rebuild, Goto, CallType, Light
    <2>2. CASE LookAtRefs(p)
      BY <1>1, <2>2 DEF LookAtRefs, Goto, CallType, Light
    <2>3. CASE FindMainMissing(p)
      <3>1. CASE pc'[p] = "count" \/ Rebuild(p)
        BY <1>4, <3>1 DEF Rebuild, Light
      <3>2. CASE ~(pc'[p] = "count" \/ Rebuild(p))
        <4>1. PICK tip : /\ pc' = [pc EXCEPT ![p] = "move"]
                         /\ job' = [job EXCEPT ![p] = [NoJob EXCEPT !.mode = "restore", !.tip = tip]]
          BY <1>1, <2>3, <3>2 DEF FindMainMissing, Goto, CallType
        <4>2. [NoJob EXCEPT !.mode = "restore", !.tip = tip].mode = "restore"
          BY DEF NoJob, Work
        <4>3. QED
          BY <1>1, <4>1, <4>2 DEF CallType, Light
      <3>3. QED
        BY <3>1, <3>2
    <2>4. CASE CountEqual(p) \/ CountBehind(p) \/ CountAhead(p) \/ SyncFails(p)
      BY <1>1, <1>4, <1>5, <2>4, EndingIsLight
         DEF CountEqual, CountBehind, CountAhead, SyncFails, Light
    <2>5. QED
      BY <1>9, <2>1, <2>2, <2>3, <2>4 DEF Align
  <1>10. CASE MoveRefused(p) \/ GitFails(p) \/ TagFails(p)
    BY <1>1, <1>5, <1>10, EndingIsLight DEF MoveRefused, GitFails, TagFails, Light
  <1>11. CASE InsertFails(p) \/ InsertUnanswered(p) \/ TagVersion(p)
    BY <1>1, <1>11, EndingIsLight DEF InsertFails, InsertUnanswered, TagVersion
  <1>12. CASE BeginFails(p) \/ CommitWeb(p) \/ CommitFails(p)
    BY <1>1, <1>12, EndingIsLight DEF BeginFails, CommitWeb, CommitFails
  <1>13. QED
    BY <1>6, <1>7, <1>8, <1>9, <1>10, <1>11, <1>12

\* The last commit of what is put on top of a history is its tip.
LEMMA TipOfConcat ==
  ASSUME NEW c \in Commit, NEW todo \in Commit, todo # NoRef
  PROVE  c \o todo # NoRef /\ Tip(c \o todo) = Tip(todo)
PROOF
  <1>1. Len(c) \in Nat /\ Len(todo) \in Nat \ {0}
    BY LenProperties, EmptySeq DEF Commit, NoRef
  <1>2. Len(c \o todo) = Len(c) + Len(todo)
    BY ConcatProperties DEF Commit
  <1>3. (c \o todo)[Len(c) + Len(todo)] = todo[Len(todo)]
    BY <1>1, ConcatProperties DEF Commit
  <1>4. c \o todo # << >>
    BY <1>1, <1>2, EmptySeq
  <1>5. QED
    BY <1>2, <1>3, <1>4 DEF Tip, NoRef

\* The tip of main is in its history.
LEMMA TipInMain ==
  ASSUME NEW c \in Commit, c # NoRef
  PROVE  Len(c) \in 1..Len(c) /\ c[Len(c)] = Tip(c)
PROOF
  <1>1. Len(c) \in Nat \ {0}
    BY LenProperties, EmptySeq DEF Commit, NoRef
  <1>2. QED
    BY <1>1 DEF Tip

\* The git write of a call.
LEMMA GitWriteKeepsFirst ==
  ASSUME IInv, NEW p \in Procs, Based(p), Told(p), GitWrite(p)
  PROVE  Based(p)' /\ Told(p)' /\ (GitFirst(p) => GitFirst(p)')
PROOF
  <1>1. /\ CallType /\ CallInv(p) /\ StoreType /\ job[p].tip \in Commit
        /\ job[p].todo \in Commit /\ main \in Commit /\ job[p].mode \in Modes
    BY DEF IInv, CallsInv, CallType, StoreType, Job
  <1>2. CASE Light(p)
    BY <1>2, LightKeeps
  <1>3. CASE BuildCommits(p) /\ ~Light(p)
    <2> DEFINE mode == job[p].mode
    <2> DEFINE base == CASE mode \in {"bootstrap", "rebuild"} -> NoRef
                         [] mode = "push"                     -> req[p].base
                         [] OTHER                             -> main
    <2> DEFINE tip == base \o job[p].todo
    <2>1. ~JobFailed(p)
      BY <1>1, <1>3, EndingIsLight
    <2>2. \A s, w : Hand(p, s, w) => /\ pc'[p] = s /\ job'[p] = w
                                     /\ UNCHANGED <<req, orphan>>
      BY <1>1 DEF Hand, Goto, CallType
    <2>3. \/ /\ mode = "append" /\ pc'[p] = "tag"
             /\ job'[p] = [job[p] EXCEPT !.tags = TagsFor(main, job[p].todo)]
          \/ /\ pc'[p] = "move"
             /\ \E parent, names :
                   job'[p] = [job[p] EXCEPT !.parent = parent, !.tip = tip, !.tags = names]
             /\ UNCHANGED <<req, orphan>>
      BY <1>3, <2>1, <2>2, ZenonT(60) DEF BuildCommits
    <2> HIDE DEF tip
    <2>4. job'[p].mode = mode
      BY <1>1, <2>3 DEF CallType, Job
    <2>5. pc'[p] = "move" /\ mode = "web" /\ UNCHANGED <<req, orphan>>
      BY <1>3, <2>3, <2>4 DEF Light
    <2>6. job'[p].tip = main \o job[p].todo
      <3>1. job'[p].tip = tip
        BY <1>1, <2>3, <2>5 DEF CallType, Job
      <3>2. base = main
        BY <2>5
      <3>3. QED
        BY <3>1, <3>2 DEF tip
    <2>7. pc[p] = "build" /\ UNCHANGED current
      BY <1>3 DEF BuildCommits, db
    <2>8. Based(p)' /\ Told(p)'
      BY <2>4, <2>5, <2>7 DEF Based, Told, Open
    <2>9. ASSUME GitFirst(p)
          PROVE  GitFirst(p)'
      BY <1>1, <2>4, <2>5, <2>6, <2>7, <2>9, TipOfConcat DEF GitFirst
    <2>10. QED
      BY <2>8, <2>9
  <1>4. CASE MoveMain(p) /\ ~Light(p)
    <2>1. /\ pc[p] = "move" /\ pc'[p] = "tag" /\ main' = job[p].tip /\ job' = job
          /\ UNCHANGED <<req, orphan, current>> /\ job[p].mode = "web"
      BY <1>1, <1>4 DEF MoveMain, Step, Goto, CallType, local, db, Light
    <2>2. Based(p)' /\ Told(p)'
      BY <2>1 DEF Based, Told, Open
    <2>3. ASSUME GitFirst(p)
          PROVE  GitFirst(p)'
      <3>1. main' # NoRef /\ Tip(main').body = req[p].entry.body
        BY <2>1, <2>3 DEF GitFirst
      <3>2. InMain(req[p].entry.body)'
        BY <1>1, <2>1, <3>1, TipInMain DEF InMain
      <3>3. QED
        BY <2>1, <3>2 DEF GitFirst
    <2>4. QED
      BY <2>2, <2>3
  <1>5. CASE SetTag(p) /\ ~Light(p)
    <2>1. /\ pc[p] = "tag" /\ pc'[p] = "tag" /\ main' = main
          /\ job'[p] = [job[p] EXCEPT !.tags = Tail(job[p].tags)]
          /\ UNCHANGED <<req, orphan, current>>
      BY <1>1, <1>5 DEF SetTag, Hand, Goto, CallType, db
    <2>2. job'[p].mode = job[p].mode
      BY <1>1, <2>1 DEF CallType, Job
    <2>3. QED
      BY <2>1, <2>2 DEF Based, Told, Open, GitFirst, InMain
  <1>6. CASE WriteDone(p) /\ ~Light(p)
    <2>1. \A s : Step(p, s) => pc'[p] = s
      BY <1>1 DEF CallType, Step, Goto
    <2>2. ~orphan[p] /\ job[p].mode = "web" /\ Step(p, "commit") /\ pc[p] = "tag"
      BY <1>1, <1>6, <2>1, EndingIsLight
         DEF WriteDone, JobDone, Light, CallInv, Control, Modes
    <2>3. pc'[p] = "commit" /\ UNCHANGED <<req, main, current>>
      BY <1>6, <2>1, <2>2 DEF WriteDone, Step, local, repo, db
    <2>4. QED
      BY <2>2, <2>3 DEF Based, Told, Open, GitFirst, InMain
  <1>7. QED
    BY <1>2, <1>3, <1>4, <1>5, <1>6, LightSteps DEF GitWrite

\* The projection of a call.
LEMMA ProjectKeepsFirst ==
  ASSUME IInv, NEW p \in Procs, Based(p), Told(p), Project(p)
  PROVE  Based(p)' /\ Told(p)' /\ (GitFirst(p) => GitFirst(p)')
PROOF
  <1>1. /\ CallType /\ CallInv(p) /\ StoreType /\ job[p].tip \in Commit /\ main \in Commit
    BY DEF IInv, CallsInv, CallType, StoreType, Job
  <1>2. CASE Light(p)
    BY <1>2, LightKeeps
  <1>3. CASE ReadTip(p) /\ ~Light(p)
    <2>1. /\ Projectable(main) /\ pc'[p] = "insert" /\ main' = main
          /\ job'[p] = [NoJob EXCEPT !.mode = "project", !.tip = main]
      BY <1>1, <1>3, EndingIsLight DEF ReadTip, Hand, Goto, CallType, repo
    <2>2. job'[p].tip = main
      BY <2>1 DEF NoJob, Work
    <2>3. InMain(Tip(main).body)
      BY <1>1, <2>1, TipInMain DEF InMain, Projectable
    <2>4. QED
      BY <2>1, <2>2, <2>3 DEF Based, Told, GitFirst, Open, InMain, Tip
  <1>4. CASE InsertVersion(p)
    <2>1. /\ pc[p] = "insert" /\ pc'[p] = "meta" /\ ver'[p] = current + 1 /\ job' = job
          /\ current' = current + 1 /\ current < MaxVersion /\ main' = main
          /\ rows' = [rows EXCEPT ![current + 1] = Tip(job[p].tip).body]
      BY <1>1, <1>4 DEF InsertVersion, NewRow, Goto, CallType, repo
    <2>2. current + 1 \in Versions /\ current + 1 \in 1..(current + 1)
      BY <1>1, <2>1, BoundAssumption DEF StoreType, Versions
    <2>3. rows'[ver'[p]] = Tip(job'[p].tip).body
      BY <1>1, <2>1, <2>2 DEF StoreType
    <2>4. QED
      BY <2>1, <2>2, <2>3 DEF Based, Told, GitFirst, Open, InMain, Tip
  <1>5. CASE UpdateMeta(p)
    <2>1. /\ pc[p] = "meta" /\ pc'[p] = "mark" /\ job' = job /\ ver' = ver
          /\ UNCHANGED <<current, rows, main>>
      BY <1>1, <1>5 DEF UpdateMeta, Step, Goto, CallType, local, repo
    <2>2. QED
      BY <2>1 DEF Based, Told, GitFirst, Open, InMain, Tip
  <1>6. QED
    BY <1>2, <1>3, <1>4, <1>5, LightSteps DEF Project

\* The tail of an edit.
LEMMA WebTailKeepsFirst ==
  ASSUME IInv, NEW p \in Procs, WebTail(p)
  PROVE  Based(p)' /\ Told(p)' /\ (GitFirst(p) => GitFirst(p)')
PROOF
  <1>1. CallType
    BY DEF IInv, CallsInv
  <1>2. CASE Light(p)
    BY <1>2, LightKeeps
  <1>3. CASE BeginWeb(p) /\ ~Light(p)
    <2> DEFINE entry == [req[p].entry EXCEPT !.ver = current + 1]
    <2>1. /\ pc'[p] = "build" /\ req[p].want \in {0, current} /\ req' = req
          /\ job'[p] = Work("web", <<entry>>) /\ current' = current
      BY <1>1, <1>3, EndingIsLight DEF BeginWeb, Goto, CallType, db
    <2>2. entry.body = req[p].entry.body
      BY <1>1 DEF CallType, Request, Entry
    <2> HIDE DEF entry
    <2>3. job'[p].mode = "web" /\ job'[p].todo = <<entry>>
      BY <2>1 DEF Work
    <2>4. <<entry>> # NoRef /\ Tip(<<entry>>) = entry
      BY DEF NoRef, Tip
    <2>5. QED
      BY <2>1, <2>2, <2>3, <2>4 DEF Based, Told, GitFirst, Open, Tip
  <1>4. QED
    BY <1>2, <1>3, LightSteps DEF WebTail

\* A handler that goes away.
LEMMA CancelKeepsFirst ==
  ASSUME IInv, NEW p \in Procs, Based(p), Told(p), Cancel(p)
  PROVE  Based(p)' /\ Told(p)' /\ (GitFirst(p) => GitFirst(p)')
PROOF
  <1>1. CallType
    BY DEF IInv, CallsInv
  <1>2. CASE Light(p)
    BY <1>2, LightKeeps
  <1>3. CASE pc[p] \in Blocking
    <2>1. UNCHANGED <<pc, req, job, ver, current, rows, main>> /\ orphan'[p]
      BY <1>1, <1>3 DEF Cancel, CallType, db, repo
    <2>2. pc[p] # "commit"
      BY <1>3 DEF Blocking
    <2>3. QED
      BY <2>1, <2>2 DEF Based, Told, GitFirst, Open, InMain, Tip
  <1>4. QED
    BY <1>1, <1>2, <1>3, EndingIsLight DEF Cancel

\* The step of a call keeps what is said of that call.
LEMMA OwnStepKeepsFirst ==
  ASSUME IInv, NEW p \in Procs, Based(p), Told(p), Acts(p)
  PROVE  Based(p)' /\ Told(p)' /\ (GitFirst(p) => GitFirst(p)')
PROOF
  <1>1. Light(p) => Based(p)' /\ Told(p)' /\ GitFirst(p)'
    BY LightKeeps
  <1>2. QED
    BY <1>1, LightSteps, GitWriteKeepsFirst, ProjectKeepsFirst, WebTailKeepsFirst,
       CancelKeepsFirst DEF Acts, Proceed

\* A history that was extended keeps what it held.
LEMMA PrefixKeepsEntries ==
  ASSUME NEW c \in Commit, NEW d \in Commit, IsPrefix(c, d)
  PROVE  Len(c) <= Len(d) /\ \A n \in 1..Len(c) : n \in 1..Len(d) /\ d[n] = c[n]
PROOF
  <1>1. Len(c) \in Nat /\ Len(d) \in Nat
    BY LenProperties DEF Commit
  <1>2. Len(c) <= Len(d) /\ SubSeq(c, 1, Len(c)) = SubSeq(d, 1, Len(c))
    BY DEF IsPrefix
  <1>3. ASSUME NEW n \in 1..Len(c)
        PROVE  d[n] = c[n]
    <2>1. SubSeq(c, 1, Len(c))[n] = c[n]
      BY <1>1, <1>3, SubSeqProperties DEF Commit
    <2>2. SubSeq(d, 1, Len(c))[n] = d[n]
      BY <1>1, <1>2, <1>3, SubSeqProperties DEF Commit
    <2>3. QED
      BY <1>2, <2>1, <2>2
  <1>4. QED
    BY <1>1, <1>2, <1>3

\* What is in the history of main stays there.
LEMMA InMainStays ==
  ASSUME IInv, [Next]_vars, NEW body, InMain(body), ~(LoseMain \/ LoseDir)
  PROVE  InMain(body)'
PROOF
  <1>1. main \in Commit /\ main' \in Commit
    BY NextInv DEF IInv, StoreType
  <1>2. CASE main' = main
    BY <1>2 DEF InMain
  <1>3. CASE IsPrefix(main, main')
    BY <1>1, <1>3, PrefixKeepsEntries DEF InMain
  <1>4. QED
    BY <1>2, <1>3, MainStep

\* The version an edit was begun on stays the current one while its
\* transaction is open: whoever adds a version needs the list's row.
LEMMA OpenHolds ==
  ASSUME IInv, NEW p \in Procs, Acts(p), NEW q \in Procs \ {p}, Open(q)
  PROVE  current' = current
PROOF
  <1>1. rowLock = q /\ q # Nobody /\ CallInv(p)
    BY DataAssumption DEF IInv, CallsInv, CallInv, Owns
  <1>2. ~(InsertVersion(p) \/ InsertUnanswered(p))
    BY <1>1 DEF InsertVersion, InsertUnanswered
  <1>3. pc[p] # "commit"
    BY <1>1 DEF CallInv, Owns, Open
  <1>4. CASE Project(p)
    BY <1>2, <1>4 DEF Project, ReadTip, InsertFails, UpdateMeta, TagVersion, db
  <1>5. CASE WebTail(p)
    BY <1>3, <1>5 DEF WebTail, BeginWeb, BeginFails, CommitWeb, CommitFails, db
  <1>6. CASE Arrive(p) \/ TakeGuard(p) \/ Cancel(p)
    BY <1>6 DEF Arrive, StartWeb, StartPush, StartMerge, StartRead, StartReproject, Start,
                TakeGuard, Cancel, db
  <1>7. CASE Ensure(p)
    BY <1>7 DEF Ensure, EnsureMissing, EnsurePresent, db
  <1>8. CASE Align(p)
    BY <1>8 DEF Align, ReadCurrent, LookAtRefs, FindMainMissing, CountEqual, CountBehind,
                CountAhead, SyncFails, db
  <1>9. CASE GitWrite(p)
    BY <1>9 DEF GitWrite, BuildCommits, MoveMain, MoveRefused, SetTag, WriteDone, GitFails,
                TagFails, db
  <1>10. QED
    BY <1>4, <1>5, <1>6, <1>7, <1>8, <1>9 DEF Acts, Proceed

\* A version that has its row keeps it.
LEMMA RowStays ==
  ASSUME IInv, [Next]_vars
  PROVE  /\ \A v \in 1..current : v \in 1..current' /\ rows'[v] = rows[v]
         /\ \A v \in Versions : rows[v] # NoRow => rows'[v] = rows[v]
PROOF
  <1>1. StoreType /\ HistoryHasNoGaps /\ current \in 1..MaxVersion /\ MaxVersion \in Nat
    BY BoundAssumption DEF IInv, StoreType, Versions
  <1>2. CASE UNCHANGED <<current, rows>>
    BY <1>1, <1>2
  <1>3. CASE \E body \in Bodies : VersionAdded(body)
    <2>1. \A v \in Versions : rows[v] # NoRow => rows'[v] = rows[v]
      BY <1>1, <1>3, NextRowKept DEF VersionAdded
    <2>2. \A v \in 1..current : v \in 1..current' /\ rows'[v] = rows[v]
      BY <1>1, <1>3 DEF StoreType, Versions, VersionAdded
    <2>3. QED
      BY <2>1, <2>2
  <1>4. QED
    BY <1>2, <1>3, RowsStep

\* A call that nobody works on keeps what is known of it.
LEMMA OtherKeepsFirst ==
  ASSUME IInv, [Next]_vars, NEW q \in Procs, Based(q), Told(q), Same(q),
         Open(q) => current' = current
  PROVE  /\ Based(q)' /\ Told(q)'
         /\ GitFirst(q) /\ ~(LoseMain \/ LoseDir) => GitFirst(q)'
PROOF
  <1>1. Based(q)'
    BY DEF Same, Based, Open
  <1>2. Told(q)'
    BY RowStays DEF Same, Told, Tip
  <1>3. ASSUME GitFirst(q), ~(LoseMain \/ LoseDir)
        PROVE  GitFirst(q)'
    <2>1. \A body : InMain(body) => InMain(body)'
      BY <1>3, InMainStays
    <2>2. QED
      BY <1>3, <2>1 DEF Same, GitFirst, Tip
  <1>4. QED
    BY <1>1, <1>2, <1>3

\* What a client is told of is a version with those steps, just written.
LEMMA AckStep ==
  ASSUME IInv, SaidInv, [Next]_vars, NEW v \in Versions, acked'[v] # acked[v]
  PROVE  /\ rows'[v] = acked'[v] /\ main' = main
         /\ \E p \in Procs :
              \/ pc[p] = "commit" /\ acked'[v] = req[p].entry.body
              \/ pc[p] = "mark" /\ acked'[v] = Tip(job[p].tip).body
PROOF
  <1>1. StoreType /\ CallType
    BY DEF IInv, CallsInv
  <1>2. PICK p \in Procs : CommitWeb(p) \/ TagVersion(p)
    <2>1. ASSUME NEW p \in Procs, Acts(p), ~CommitWeb(p), ~TagVersion(p)
          PROVE  acked' = acked
      <3>1. CASE Arrive(p) \/ TakeGuard(p) \/ Cancel(p) \/ Ensure(p)
        BY <3>1 DEF Arrive, StartWeb, StartPush, StartMerge, StartRead, StartReproject,
                    Start, TakeGuard, Cancel, Ensure, EnsureMissing, EnsurePresent
      <3>2. CASE Align(p)
        BY <3>2 DEF Align, ReadCurrent, LookAtRefs, FindMainMissing, CountEqual,
                    CountBehind, CountAhead, SyncFails
      <3>3. CASE GitWrite(p)
        BY <3>3 DEF GitWrite, BuildCommits, MoveMain, MoveRefused, SetTag, WriteDone,
                    GitFails, TagFails
      <3>4. CASE Project(p) \/ WebTail(p)
        BY <2>1, <3>4 DEF Project, ReadTip, InsertVersion, InsertFails, InsertUnanswered,
                          UpdateMeta, WebTail, BeginWeb, BeginFails, CommitFails
      <3>5. QED
        BY <2>1, <3>1, <3>2, <3>3, <3>4 DEF Acts, Proceed
    <2>2. Crash \/ Damage \/ UNCHANGED vars => acked' = acked
      BY DEF Crash, Damage, vars
    <2>3. QED
      BY <2>1, <2>2 DEF Next, Acts
  <1>3. CASE CommitWeb(p)
    <2>1. /\ pc[p] = "commit" /\ NewVersion(p) /\ main' = main
          /\ acked' = [acked EXCEPT ![ver[p]] = req[p].entry.body]
      BY <1>3 DEF CommitWeb, repo
    <2>2. v = ver[p] /\ acked'[v] = req[p].entry.body
      BY <1>1, <2>1 DEF StoreType
    <2>3. rows'[v] = req[p].entry.body
      BY <1>1, <2>1, <2>2 DEF NewVersion, StoreType
    <2>4. QED
      BY <2>1, <2>2, <2>3
  <1>4. CASE TagVersion(p)
    <2>1. /\ pc[p] = "mark" /\ UNCHANGED <<rows, dir, main>>
          /\ acked' = [acked EXCEPT ![ver[p]] = Tip(job[p].tip).body]
      BY <1>4 DEF TagVersion, db
    <2>2. v = ver[p] /\ acked'[v] = Tip(job[p].tip).body
      BY <1>1, <2>1 DEF StoreType
    <2>3. rows'[v] = acked'[v]
      BY <2>1, <2>2 DEF SaidInv, Told
    <2>4. QED
      BY <2>1, <2>2, <2>3
  <1>5. QED
    BY <1>2, <1>3, <1>4

\* The two invariants hold at first and are kept by every step.
LEMMA SaidInit == Init => SaidInv /\ GitFirstInv
PROOF
  <1> SUFFICES ASSUME Init PROVE SaidInv /\ GitFirstInv
    OBVIOUS
  <1>1. AckedRows /\ AckedInMain
    BY DEF Init, AckedRows, AckedInMain
  <1>2. ASSUME NEW q \in Procs
        PROVE  Based(q) /\ Told(q) /\ GitFirst(q)
    BY DEF Init, Based, Told, GitFirst, Open
  <1>3. QED
    BY <1>1, <1>2 DEF SaidInv, GitFirstInv

\* And every step keeps what is said of all calls and of the acknowledged rows.
LEMMA SaidNext ==
  ASSUME IInv, SaidInv, [Next]_vars
  PROVE  SaidInv' /\ (GitFirstInv /\ ~(LoseMain \/ LoseDir) => GitFirstInv')
PROOF
  <1> DEFINE Calm == GitFirstInv /\ ~(LoseMain \/ LoseDir)
  <1>1. ASSUME NEW q \in Procs
        PROVE  Based(q)' /\ Told(q)' /\ (Calm => GitFirst(q)')
    <2>1. Based(q) /\ Told(q) /\ (Calm => GitFirst(q))
      BY DEF SaidInv, GitFirstInv
    <2>2. CASE Acts(q)
      BY <2>1, <2>2, OwnStepKeepsFirst
    <2>3. ASSUME NEW p \in Procs \ {q}, Acts(p)
          PROVE  Based(q)' /\ Told(q)' /\ (Calm => GitFirst(q)')
      <3>1. Same(q) /\ (Open(q) => current' = current)
        BY <2>3, ActsAlone, OpenHolds DEF OnlyOf
      <3>2. QED
        BY <2>1, <3>1, OtherKeepsFirst
    <2>4. CASE Crash
      <3>1. pc'[q] = "idle" \/ Same(q)
        BY <2>4 DEF Crash, Same, IInv, CallsInv, CallType
      <3>2. current' = current
        BY <2>4 DEF Crash, db
      <3>3. CASE pc'[q] = "idle"
        BY <3>3, LightKeeps DEF Light
      <3>4. CASE Same(q)
        BY <2>1, <3>2, <3>4, OtherKeepsFirst
      <3>5. QED
        BY <3>1, <3>3, <3>4
    <2>5. CASE Damage \/ UNCHANGED vars
      <3>1. Same(q) /\ current' = current
        BY <2>5 DEF Damage, vars, db, local, Same
      <3>2. QED
        BY <2>1, <3>1, OtherKeepsFirst
    <2>6. QED
      BY <2>2, <2>3, <2>4, <2>5 DEF Next, Acts
  <1>2. ASSUME NEW v \in Versions, acked'[v] # NoRow
        PROVE  /\ rows'[v] = acked'[v]
               /\ Calm => \E n \in 1..Len(main') : main'[n].body = acked'[v]
    <2>1. CASE acked'[v] = acked[v]
      <3>1. rows[v] = acked[v] /\ (Calm => InMain(acked[v]))
        BY <1>2, <2>1 DEF SaidInv, AckedRows, GitFirstInv, AckedInMain
      <3>2. rows'[v] = rows[v]
        BY <1>2, <2>1, <3>1, RowStays
      <3>3. Calm => \A body : InMain(body) => InMain(body)'
        BY InMainStays
      <3>4. QED
        BY <2>1, <3>1, <3>2, <3>3 DEF InMain
    <2>2. CASE acked'[v] # acked[v]
      <3>1. rows'[v] = acked'[v] /\ main' = main
        BY <2>2, AckStep
      <3>2. Calm => InMain(acked'[v])
        BY <2>2, AckStep DEF GitFirstInv, GitFirst
      <3>3. QED
        BY <3>1, <3>2 DEF InMain
    <2>3. QED
      BY <2>1, <2>2
  <1>3. AckedRows' /\ (Calm => AckedInMain')
    BY <1>2 DEF AckedRows, AckedInMain, InMain
  <1>4. QED
    BY <1>1, <1>3 DEF SaidInv, GitFirstInv

\* The part of it that needs no hypothesis on the faults.
THEOREM SaidHolds == Spec => []SaidInv
PROOF
  <1>1. IInv /\ SaidInv /\ [Next]_vars => SaidInv'
    BY SaidNext
  <1>2. QED
    BY <1>1, Invariance, SaidInit, PTL DEF Spec

\* An edit that names the version it was made on is committed only on top of
\* that version, whichever pushes, merges and unguarded projections run beside
\* it and wherever its handler is when they do.
THEOREM EditsLand == Spec => EditLandsOnItsBase
PROOF
  <1>1. ASSUME IInv, SaidInv, [Next]_vars
        PROVE  [\A p \in Procs :
                  pc[p] = "commit" /\ current' # current /\ req[p].kind = "web"
                  /\ pc'[p] = "idle" => req[p].want \in {0, current}]_<<current, pc>>
    BY <1>1 DEF SaidInv, Based, Open
  <1>2. QED
    BY <1>1, Invariance, SaidHolds, PTL DEF Spec, EditLandsOnItsBase

\* The volume does not lose main: it may still lose or gain tags.
MainIsKept == Faults \cap {"loseMain", "loseDir"} = {}

\* Then neither damage that takes main away happens.
LEMMA NeverLost ==
  ASSUME MainIsKept
  PROVE  ~(LoseMain \/ LoseDir)
PROOF
  BY DEF MainIsKept, LoseMain, LoseDir, Fault

\* Git first, as long as main is not lost.
THEOREM GitIsFirst ==
  ASSUME MainIsKept
  PROVE  Spec => []GitFirstInv
PROOF
  <1>1. IInv /\ SaidInv /\ GitFirstInv /\ [Next]_vars => GitFirstInv'
    BY SaidNext, NeverLost
  <1>2. QED
    BY <1>1, Invariance, SaidHolds, SaidInit, PTL DEF Spec

\* A version a client was told of is served with the steps it was told of, and
\* those are in the history of main: no crash, lost answer, failed tag or heal
\* takes back what was acknowledged.
THEOREM AckedKept ==
  ASSUME MainIsKept
  PROVE  Spec => []AckedIsKept
PROOF
  <1>1. SaidInv /\ GitFirstInv => AckedIsKept
    BY DEF SaidInv, GitFirstInv, AckedRows, AckedInMain, AckedIsKept, InMain
  <1>2. QED
    BY <1>1, SaidHolds, GitIsFirst, PTL

-----------------------------------------------------------------------------
(* The refinement of CanonLog *)

Canon == [n \in 1..Len(main) |-> main[n].body]
Published == [n \in 1..(current - FirstRow + 1) |-> rows[FirstRow + n - 1]]

\* The canon of a history is as long as the history.
LEMMA CanonIsSeq ==
  ASSUME NEW c \in Commit
  PROVE  /\ [n \in 1..Len(c) |-> c[n].body] \in Seq(Bodies \cup {Junk})
         /\ Len([n \in 1..Len(c) |-> c[n].body]) = Len(c)
PROOF
  <1> DEFINE f == [n \in 1..Len(c) |-> c[n].body]
  <1>1. Len(c) \in Nat
    BY LenProperties DEF Commit
  <1>2. ASSUME NEW n \in 1..Len(c)
        PROVE  c[n].body \in Bodies \cup {Junk}
    <2>1. c[n] \in Entry
      BY ElementOfSeq DEF Commit
    <2>2. QED
      BY <2>1 DEF Entry
  <1>3. f \in [1..Len(c) -> Bodies \cup {Junk}]
    BY <1>2
  <1> HIDE DEF f
  <1>4. f \in Seq(Bodies \cup {Junk}) /\ Len(f) = Len(c)
    BY <1>1, <1>3, RangeIsSeq
  <1>5. QED
    BY <1>4 DEF f

\* The canon grows with main.
LEMMA CanonGrows ==
  ASSUME NEW c \in Commit, NEW d \in Commit, IsPrefix(c, d), c # d
  PROVE  /\ IsPrefix([n \in 1..Len(c) |-> c[n].body], [n \in 1..Len(d) |-> d[n].body])
         /\ [n \in 1..Len(c) |-> c[n].body] # [n \in 1..Len(d) |-> d[n].body]
PROOF
  <1> DEFINE f == [n \in 1..Len(c) |-> c[n].body]
  <1> DEFINE g == [n \in 1..Len(d) |-> d[n].body]
  <1>1. Len(c) \in Nat /\ Len(d) \in Nat /\ Len(c) <= Len(d)
        /\ \A n \in 1..Len(c) : d[n] = c[n]
    BY PrefixKeepsEntries, LenProperties DEF Commit
  <1>2. /\ f \in Seq(Bodies \cup {Junk}) /\ Len(f) = Len(c)
        /\ g \in Seq(Bodies \cup {Junk}) /\ Len(g) = Len(d)
    BY CanonIsSeq
  <1>3. \A n \in 1..Len(c) : f[n] = g[n]
    BY <1>1
  <1> HIDE DEF f, g
  <1>4. SubSeq(f, 1, Len(f)) = SubSeq(g, 1, Len(f))
    <2>1. SubSeq(f, 1, Len(f)) = f
      BY <1>2, SubSeqFull
    <2>2. CASE Len(f) = 0
      <3>1. SubSeq(f, 1, Len(f)) = << >> /\ SubSeq(g, 1, Len(f)) = << >>
        BY <1>2, <2>2, SubSeqEmpty
      <3>2. QED
        BY <3>1
    <2>3. CASE Len(f) # 0
      <3>1. /\ SubSeq(g, 1, Len(f)) \in Seq(Bodies \cup {Junk})
            /\ Len(SubSeq(g, 1, Len(f))) = Len(f)
            /\ \A n \in 1..Len(f) : SubSeq(g, 1, Len(f))[n] = g[n]
        BY <1>1, <1>2, <2>3, SubSeqProperties
      <3>2. SubSeq(g, 1, Len(f)) = f
        BY <1>2, <1>3, <3>1, SeqEqual
      <3>3. QED
        BY <2>1, <3>2
    <2>4. QED
      BY <2>2, <2>3
  <1>5. IsPrefix(f, g)
    BY <1>1, <1>2, <1>4 DEF IsPrefix
  <1>6. Len(c) # Len(d)
    <2>1. SUFFICES ASSUME Len(c) = Len(d) PROVE FALSE
      OBVIOUS
    <2>2. c = d
      BY <1>1, <2>1, SeqEqual DEF Commit
    <2>3. QED
      BY <2>2
  <1>7. f # g
    BY <1>2, <1>6
  <1>8. QED
    BY <1>5, <1>7 DEF f, g

\* The published versions gain the one that was added.
LEMMA PublishedGrows ==
  ASSUME IInv, NEW body \in Bodies, VersionAdded(body)
  PROVE  Published' = Append(Published, body)
PROOF
  <1> DEFINE k == current - FirstRow + 1
  <1> DEFINE f == [n \in 1..k |-> rows[FirstRow + n - 1]]
  <1> DEFINE g == [n \in 1..(k + 1) |-> rows'[FirstRow + n - 1]]
  <1>1. /\ StoreType /\ current \in 1..MaxVersion /\ MaxVersion \in Nat /\ current < MaxVersion
        /\ FirstRow \in 1..2 /\ k \in Nat
    BY BoundAssumption DEF IInv, StoreType, Versions, VersionAdded, FirstRow
  <1>2. rows'[1] = NoRow <=> rows[1] = NoRow
    BY <1>1 DEF VersionAdded, StoreType, Versions
  <1>3. current' = current + 1 /\ FirstRow' = FirstRow
    BY <1>2 DEF VersionAdded, FirstRow
  <1>4. Published = f /\ Published' = g
    <2>1. current' - FirstRow' + 1 = k + 1
      BY <1>1, <1>3
    <2>2. QED
      BY <1>3, <2>1 DEF Published
  <1>5. \A n \in 1..k : /\ FirstRow + n - 1 \in Versions
                        /\ rows'[FirstRow + n - 1] = rows[FirstRow + n - 1]
    BY <1>1 DEF VersionAdded, StoreType, Versions
  <1>6. FirstRow + (k + 1) - 1 = current + 1 /\ rows'[current + 1] = body
    BY <1>1 DEF VersionAdded, StoreType, Versions
  <1>7. f \in Seq(Bodies \cup {NoRow}) /\ Len(f) = k
    <2>1. f \in [1..k -> Bodies \cup {NoRow}]
      BY <1>1, <1>5 DEF StoreType
    <2> HIDE DEF f, k
    <2>2. QED
      BY <1>1, <2>1, RangeIsSeq
  <1>8. g \in Seq(Bodies \cup {NoRow}) /\ Len(g) = k + 1
    <2>1. \A n \in 1..(k + 1) : n \in 1..k \/ n = k + 1
      BY <1>1
    <2>2. \A n \in 1..(k + 1) : rows'[FirstRow + n - 1] \in Bodies \cup {NoRow}
      BY <1>1, <1>5, <1>6, <2>1 DEF StoreType
    <2>3. g \in [1..(k + 1) -> Bodies \cup {NoRow}]
      BY <2>2
    <2> HIDE DEF g, k
    <2>4. QED
      BY <1>1, <2>3, RangeIsSeq
  <1>9. \A n \in 1..(k + 1) : g[n] = IF n = k + 1 THEN body ELSE f[n]
    <2>1. \A n \in 1..(k + 1) : n \in 1..k \/ n = k + 1
      BY <1>1
    <2>2. QED
      BY <1>1, <1>5, <1>6, <2>1
  <1> HIDE DEF f, g, k
  <1>10. /\ Append(f, body) \in Seq(Bodies \cup {NoRow}) /\ Len(Append(f, body)) = k + 1
         /\ \A n \in 1..(k + 1) : Append(f, body)[n] = IF n = k + 1 THEN body ELSE f[n]
    BY <1>1, <1>7, AppendProperties
  <1>11. g = Append(f, body)
    BY <1>8, <1>9, <1>10, SeqEqual
  <1>12. QED
    BY <1>4, <1>11

\* Every step grows the canon, publishes what is in it, or does neither.
LEMMA StepRefines ==
  ASSUME IInv, GitFirstInv, [Next]_vars, ~(LoseMain \/ LoseDir)
  PROVE  [Log!Next]_<<Canon, Published>>
PROOF
  <1>1. StoreType /\ main \in Commit /\ main' \in Commit
    BY NextInv DEF IInv, StoreType
  <1>2. CASE UNCHANGED <<current, rows>>
    <2>1. Published' = Published
      BY <1>2 DEF Published, FirstRow
    <2>2. CASE main' = main
      BY <2>1, <2>2 DEF Canon
    <2>3. CASE main' # main
      <3>1. IsPrefix(main, main')
        BY <2>3, MainStep
      <3>2. IsPrefix(Canon, Canon') /\ Canon # Canon'
        BY <1>1, <2>3, <3>1, CanonGrows DEF Canon
      <3>3. Log!IsPrefix(Canon, Canon')
        BY <3>2 DEF IsPrefix, Log!IsPrefix
      <3>4. Log!Grow
        BY <2>1, <3>2, <3>3 DEF Log!Grow, Canon, Published
      <3>5. QED
        BY <3>4 DEF Log!Next
    <2>4. QED
      BY <2>2, <2>3
  <1>3. CASE ~UNCHANGED <<current, rows>>
    <2>1. PICK body \in Bodies, p \in Procs : VersionAdded(body) /\ Wants(p, body)
      BY <1>3, RowsStep
    <2>2. InMain(body)
      BY <2>1 DEF Wants, GitFirstInv, GitFirst
    <2>3. PICK n \in 1..Len(main) : main[n].body = body
      BY <2>2 DEF InMain
    <2>4. Published' = Append(Published, body)
      BY <2>1, PublishedGrows
    <2>5. Canon' = Canon
      BY <2>1 DEF VersionAdded, repo, Canon
    <2>6. n \in 1..Len(Canon) /\ Canon[n] = body
      BY <1>1, <2>3, CanonIsSeq DEF Canon
    <2>7. Log!Publish
      BY <2>4, <2>5, <2>6 DEF Log!Publish, Canon, Published
    <2>8. QED
      BY <2>7 DEF Log!Next
  <1>4. QED
    BY <1>2, <1>3

\* A list starts with an empty canon and at most one version.
LEMMA InitRefines ==
  ASSUME Init
  PROVE  Log!Init
PROOF
  <1>1. PICK first \in Bodies \cup {NoRow} :
            rows = [v \in Versions |-> IF v = 1 THEN first ELSE NoRow]
    BY DEF Init
  <1>2. current = 1 /\ main = NoRef /\ 1 \in Versions
    BY BoundAssumption DEF Init, Versions
  <1>3. Canon = << >>
    BY <1>2 DEF Canon, NoRef
  <1>4. CASE first = NoRow
    <2>1. FirstRow = 2
      BY <1>1, <1>2, <1>4 DEF FirstRow
    <2>2. Published = << >>
      BY <1>2, <2>1 DEF Published
    <2>3. QED
      BY <1>3, <2>2 DEF Log!Init, Canon, Published
  <1>5. CASE first # NoRow
    <2>1. FirstRow = 1 /\ rows[1] = first
      BY <1>1, <1>2, <1>5 DEF FirstRow
    <2>2. Published = <<first>>
      BY <1>2, <2>1 DEF Published
    <2>3. QED
      BY <1>3, <1>5, <2>2 DEF Log!Init, Canon, Published
  <1>6. QED
    BY <1>4, <1>5

\* The code implements CanonLog, under every fault but the loss of main: a
\* version is published only with contents that are in the history of main, the
\* history only grows and the published versions are an append-only log.
THEOREM Refinement ==
  ASSUME MainIsKept
  PROVE  Spec => ImplementsCanonLog
PROOF
  <1>1. Init => Log!Init
    BY InitRefines
  <1>2. IInv /\ GitFirstInv /\ [Next]_vars => [Log!Next]_<<Canon, Published>>
    BY StepRefines, NeverLost
  <1>3. QED
    BY <1>1, <1>2, Invariance, GitIsFirst, PTL
       DEF Spec, ImplementsCanonLog, Log!Spec, Canon, Published

-----------------------------------------------------------------------------
(* Under the guard: the alignment, while no handler is dropped and nobody   *)
(* runs the unguarded reproject                                            *)

GuardIsKept == "cancel" \notin Faults /\ "reproject" \notin Kinds

\* A call that is at work holds the guard, and its handler is there.
Held(q) ==
    /\ ~orphan[q]
    /\ pc[q] # "idle" => req[q].kind # "reproject"
    /\ pc[q] \notin {"idle", "lock"} => guard = q

\* It has a repository to work in once ensure_repo_by_id has looked.
Placed(q) == pc[q] \notin {"idle", "lock", "ensure"}
             \/ (pc[q] # "idle" /\ phase[q] = "work") => dir

LastOf(s) == s[Len(s)]

\* What the alignment has read is still so.
Fresh(q) == saw[q] = current /\ have[q] = MaxTag

\* The tag that is to be set last is the current version's, on the new tip.
Closes(q, c) == job[q].tags # <<>> /\ LastOf(job[q].tags) = [ver |-> current, at |-> c]

Heals(q) == job[q].mode \in {"rebuild", "append"}

\* What the alignment knows of the stores at each of its steps.
Aligned(q) ==
    /\ pc[q] = "look" => saw[q] = current
    /\ pc[q] = "count" => Fresh(q)
    /\ pc[q] = "build" => job[q].mode # "restore"
    /\ pc[q] \in {"move", "tag"} /\ job[q].mode = "restore" =>
          Fresh(q) /\ job[q].tags = <<>>
    /\ pc[q] = "move" /\ job[q].mode = "restore" =>
          \E v \in 1..current : tags[v] = job[q].tip
    /\ pc[q] = "build" /\ Heals(q) =>
          job[q].todo # NoRef /\ Tip(job[q].todo).ver = current
    /\ pc[q] = "move" /\ Heals(q) => Closes(q, job[q].tip)
    /\ pc[q] = "tag" /\ Heals(q) =>
          IF job[q].tags = <<>> THEN TagOnTip(current) ELSE Closes(q, main)
    /\ pc[q] \in {"build", "move", "tag"} /\ job[q].mode \in {"push", "merge"} =>
          ~Aligning(q)
    /\ pc[q] \in {"read", "insert"} /\ Aligning(q) =>
          Fresh(q) /\ (have[q] # saw[q] => have[q] = saw[q] + 1 /\ TagOnTip(have[q]))
    /\ pc[q] \in {"insert", "meta", "mark"} /\ Aligning(q) => job[q].tip = main
    /\ pc[q] \in {"meta", "mark"} /\ Aligning(q) => ver[q] = current /\ TagOnTip(current)
    /\ pc[q] = "begin" => TagOnTip(current) \/ ~Projectable(main)

GuardInv == \A q \in Procs : Held(q) /\ Placed(q) /\ Aligned(q)

\* No version above the highest tag has one.
LEMMA MaxTagBounds ==
  ASSUME StoreType
  PROVE  /\ MaxTag \in 0..MaxVersion
         /\ \A v \in Versions : tags[v] # NoRef => v <= MaxTag
         /\ MaxTag # 0 => MaxTag \in Versions /\ tags[MaxTag] # NoRef
PROOF
  <1> DEFINE S == {0} \cup {v \in Versions : tags[v] # NoRef}
  <1>1. MaxVersion \in Nat /\ S \in SUBSET (0..MaxVersion) /\ S # {}
    BY BoundAssumption DEF Versions
  <1>2. Max(S) \in S /\ \A y \in S : Max(S) >= y
    BY ONLY <1>1, MaxExists
  <1>3. MaxTag = Max(S)
    BY DEF MaxTag
  <1>4. \A v \in Versions : tags[v] # NoRef => v \in S
    OBVIOUS
  <1>5. \A v \in S : v # 0 => v \in Versions /\ tags[v] # NoRef
    OBVIOUS
  <1> HIDE DEF S
  <1>6. MaxTag \in 0..MaxVersion /\ \A v \in S : v \in 0..MaxVersion /\ v <= MaxTag
    BY <1>1, <1>2, <1>3
  <1>7. QED
    BY <1>2, <1>3, <1>4, <1>5, <1>6

\* The versions Postgres has above a number end with the current one.
LEMMA StoredEndsWithCurrent ==
  ASSUME StoreType, NEW v \in 0..MaxVersion, StoredAbove(v) # << >>
  PROVE  Tip(StoredAbove(v)) = Canonical(current) /\ Tip(StoredAbove(v)).ver = current
PROOF
  <1> DEFINE low == IF v + 1 < FirstRow THEN FirstRow - 1 ELSE v
  <1> DEFINE n == current - low
  <1> DEFINE f == [i \in 1..n |-> Canonical(low + i)]
  <1>1. FirstRow \in {1, 2} /\ low \in Nat /\ n \in Int /\ current \in Nat
    BY BoundAssumption DEF FirstRow, StoreType, Versions
  <1>2. StoredAbove(v) = f
    BY DEF StoredAbove
  <1>3. n \in Nat \ {0}
    <2>1. CASE n <= 0
      <3>1. 1..n = {}
        BY <1>1, <2>1
      <3>2. f = << >>
        BY <3>1
      <3>3. QED
        BY <1>2, <3>2
    <2>2. QED
      BY <1>1, <2>1
  <1>4. f \in [1..n -> {Canonical(low + i) : i \in 1..n}]
    OBVIOUS
  <1>5. n \in 1..n /\ f[n] = Canonical(low + n) /\ low + n = current
    BY <1>1, <1>3
  <1> HIDE DEF low, n, f
  <1>6. Len(f) = n
    BY <1>3, <1>4, RangeIsSeq
  <1>7. QED
    BY <1>2, <1>5, <1>6 DEF Tip, Canonical

\* The last tag of a write names the new tip by the last version.
LEMMA TagsEndAtTip ==
  ASSUME NEW c \in Commit, NEW todo \in Commit, todo # NoRef
  PROVE  /\ TagsFor(c, todo) # << >>
         /\ LastOf(TagsFor(c, todo)) = [ver |-> Tip(todo).ver, at |-> c]
PROOF
  <1> DEFINE below == Len(c) - Len(todo)
  <1> DEFINE f == [i \in 1..Len(todo) |->
                      [ver |-> todo[i].ver, at |-> SubSeq(c, 1, below + i)]]
  <1>1. Len(c) \in Nat /\ Len(todo) \in Nat \ {0}
    BY LenProperties, EmptySeq DEF Commit, NoRef
  <1>2. f[Len(todo)] = [ver |-> todo[Len(todo)].ver, at |-> SubSeq(c, 1, below + Len(todo))]
    BY <1>1
  <1>3. below + Len(todo) = Len(c) /\ SubSeq(c, 1, Len(c)) = c
    BY <1>1, SubSeqFull DEF Commit
  <1>4. f \in [1..Len(todo) -> {f[i] : i \in 1..Len(todo)}]
    OBVIOUS
  <1>5. TagsFor(c, todo) = f
    BY DEF TagsFor
  <1> HIDE DEF f, below
  <1>6. f \in Seq({f[i] : i \in 1..Len(todo)}) /\ Len(f) = Len(todo)
    BY <1>1, <1>4, RangeIsSeq
  <1>7. f # << >>
    BY <1>1, <1>6
  <1>8. QED
    BY <1>2, <1>3, <1>5, <1>6, <1>7 DEF LastOf, Tip

\* Where the endings of a step lead, when the call is not a reproject.
LEMMA EndingGoes ==
  ASSUME CallType, NEW p \in Procs, req[p].kind # "reproject"
  PROVE  /\ \A a : Finish(p, a) => pc'[p] = "idle"
         /\ LeaveEnsure(p) => pc'[p] \in {"idle", "lock"}
         /\ \A a : LeaveSync(p, a) =>
               \/ pc'[p] \in {"idle", "lock"}
               \/ a = "ok" /\ phase[p] # "ensure" /\ Step(p, "begin")
         /\ JobFailed(p) => pc'[p] \in {"idle", "lock"}
         /\ \A s : Step(p, s) => pc'[p] = s /\ UNCHANGED <<locks, local>>
         /\ \A s, w : Hand(p, s, w) => /\ pc'[p] = s /\ job'[p] = w
                                       /\ UNCHANGED <<locks, req, phase, saw, have, ver, orphan>>
PROOF
  <1>1. \A a : Finish(p, a) => pc'[p] = "idle"
    BY DEF CallType, Finish, Goto
  <1>2. LeaveEnsure(p) => pc'[p] \in {"idle", "lock"}
    BY <1>1 DEF CallType, LeaveEnsure, Goto
  <1>3. \A a : LeaveSync(p, a) =>
               \/ pc'[p] \in {"idle", "lock"}
               \/ a = "ok" /\ phase[p] # "ensure" /\ Step(p, "begin")
    BY <1>1, <1>2 DEF CallType, LeaveSync
  <1>4. JobFailed(p) => pc'[p] \in {"idle", "lock"}
    BY <1>1, <1>3 DEF JobFailed
  <1>5. \A s : Step(p, s) => pc'[p] = s /\ UNCHANGED <<locks, local>>
    BY DEF CallType, Step, Goto
  <1>6. \A s, w : Hand(p, s, w) => /\ pc'[p] = s /\ job'[p] = w
                                   /\ UNCHANGED <<locks, req, phase, saw, have, ver, orphan>>
    BY DEF CallType, Hand, Goto
  <1>7. QED
    BY <1>1, <1>2, <1>3, <1>4, <1>5, <1>6

\* What a step under way leaves of a call: its request, its handler, and the
\* guard unless it gave it back.
Kept(p) ==
    /\ orphan'[p] => orphan[p]
    /\ pc'[p] = "idle" \/ req'[p] = req[p]
    /\ pc'[p] \in {"idle", "lock"} \/ guard' = guard

\* Every ending of a step keeps that much.
LEMMA EndingKeepsGuard ==
  ASSUME CallType, NEW p \in Procs, req[p].kind # "reproject"
  PROVE  /\ \A a : Finish(p, a) => Kept(p)
         /\ \A a : LeaveSync(p, a) => Kept(p)
         /\ LeaveEnsure(p) => Kept(p)
         /\ JobFailed(p) => Kept(p)
         /\ \A s : Step(p, s) => Kept(p)
         /\ \A s, w : Hand(p, s, w) => Kept(p)
         /\ job[p].mode \in Modes \ {"none", "project"} /\ JobDone(p) => Kept(p)
         /\ Projected(p) \/ NothingToProject(p) \/ ProjectionFailed(p) => Kept(p)
PROOF
  <1>1. \A a : Finish(p, a) => Kept(p)
    BY DEF CallType, Finish, Forget, Goto, Kept
  <1>2. LeaveEnsure(p) => Kept(p)
    BY <1>1 DEF CallType, LeaveEnsure, Goto, Kept
  <1>3. \A s : Step(p, s) => Kept(p)
    BY DEF CallType, Step, Goto, locks, local, Kept
  <1>4. \A s, w : Hand(p, s, w) => Kept(p)
    BY DEF CallType, Hand, Goto, locks, Kept
  <1>5. \A a : LeaveSync(p, a) => Kept(p)
    BY <1>1, <1>2, <1>3 DEF LeaveSync
  <1>6. JobFailed(p) => Kept(p)
    BY <1>1, <1>5 DEF JobFailed
  <1>7. job[p].mode \in Modes \ {"none", "project"} /\ JobDone(p) => Kept(p)
    BY <1>1, <1>2, <1>3, <1>5 DEF JobDone, Modes
  <1>8. Projected(p) \/ NothingToProject(p) => Kept(p)
    BY <1>1, <1>5 DEF Projected, NothingToProject
  <1>9. ProjectionFailed(p) => Kept(p)
    BY <1>1, <1>5 DEF ProjectionFailed, locks, Kept
  <1>10. QED
    BY <1>1, <1>2, <1>3, <1>4, <1>5, <1>6, <1>7, <1>8, <1>9

\* A call that proceeds gives the guard back only by ending or by waiting for
\* it again.
LEMMA ProceedKeepsGuard ==
  ASSUME IInv, NEW p \in Procs, Proceed(p), req[p].kind # "reproject"
  PROVE  Kept(p)
PROOF
  <1>1. CallType /\ CallInv(p)
    BY DEF IInv, CallsInv
  <1>2. CASE Ensure(p)
    BY <1>1, <1>2, EndingKeepsGuard DEF Ensure, EnsureMissing, EnsurePresent
  <1>3. CASE Align(p)
    <2>1. CASE ReadCurrent(p)
      <3>1. CASE dir
        BY <1>1, <2>1, <3>1 DEF ReadCurrent, Goto, CallType, locks, Kept
      <3>2. CASE ~dir
        BY <1>1, <2>1, <3>2, EndingKeepsGuard DEF ReadCurrent, Rebuild
      <3>3. QED
        BY <3>1, <3>2
    <2>2. CASE LookAtRefs(p)
      BY <1>1, <2>2 DEF LookAtRefs, Goto, CallType, locks, Kept
    <2>3. CASE FindMainMissing(p)
      <3>1. CASE Rebuild(p)
        BY <1>1, <3>1, EndingKeepsGuard DEF Rebuild
      <3>2. CASE ~Rebuild(p)
        BY <1>1, <2>3, <3>2 DEF FindMainMissing, Goto, CallType, locks, Kept
      <3>3. QED
        BY <3>1, <3>2
    <2>4. CASE CountEqual(p) \/ CountBehind(p) \/ CountAhead(p) \/ SyncFails(p)
      BY <1>1, <2>4, EndingKeepsGuard DEF CountEqual, CountBehind, CountAhead, SyncFails
    <2>5. QED
      BY <1>3, <2>1, <2>2, <2>3, <2>4 DEF Align
  <1>4. CASE GitWrite(p)
    <2>1. CASE WriteDone(p)
      <3>1. job[p].mode \in Modes \ {"none", "project"} /\ JobDone(p)
        BY <1>1, <2>1 DEF WriteDone, CallInv, Control, CallType, Job
      <3>2. QED
        BY <1>1, <3>1, EndingKeepsGuard
    <2>2. CASE BuildCommits(p)
      BY <1>1, <2>2, EndingKeepsGuard DEF BuildCommits
    <2>3. CASE MoveMain(p) \/ MoveRefused(p) \/ SetTag(p) \/ GitFails(p) \/ TagFails(p)
      BY <1>1, <2>3, EndingKeepsGuard DEF MoveMain, MoveRefused, SetTag, GitFails, TagFails
    <2>4. QED
      BY <1>4, <2>1, <2>2, <2>3 DEF GitWrite
  <1>5. CASE Project(p)
    <2>1. CASE InsertVersion(p)
      BY <1>1, <2>1 DEF InsertVersion, Goto, CallType, locks, Kept
    <2>2. CASE ~InsertVersion(p)
      BY <1>1, <1>5, <2>2, EndingKeepsGuard
         DEF Project, ReadTip, InsertFails, InsertUnanswered, UpdateMeta, TagVersion
    <2>3. QED
      BY <2>1, <2>2
  <1>6. CASE WebTail(p)
    <2>1. CASE BeginWeb(p) /\ req[p].want \in {0, current}
      BY <1>1, <2>1 DEF BeginWeb, Goto, CallType, Kept
    <2>2. CASE ~(BeginWeb(p) /\ req[p].want \in {0, current})
      BY <1>1, <1>6, <2>2, EndingKeepsGuard
         DEF WebTail, BeginWeb, BeginFails, CommitWeb, CommitFails
    <2>3. QED
      BY <2>1, <2>2
  <1>7. QED
    BY <1>2, <1>3, <1>4, <1>5, <1>6 DEF Proceed

\* Nobody is cancelled and no reproject is asked for.
LEMMA GuardedSteps ==
  ASSUME GuardIsKept, NEW p \in Procs, Acts(p)
  PROVE  StartWeb(p) \/ StartPush(p) \/ StartMerge(p) \/ StartRead(p)
         \/ TakeGuard(p) \/ Proceed(p)
PROOF
  <1>1. ~Cancel(p) /\ ~StartReproject(p)
    BY DEF GuardIsKept, Cancel, Fault, StartReproject, Start
  <1>2. QED
    BY <1>1 DEF Acts, Arrive

\* What an arrival does.
LEMMA ArrivalDoes ==
  ASSUME IInv, GuardIsKept, NEW p \in Procs,
         StartWeb(p) \/ StartPush(p) \/ StartMerge(p) \/ StartRead(p)
  PROVE  /\ pc[p] = "idle" /\ pc'[p] = "lock" /\ phase'[p] = "ensure"
         /\ req'[p].kind # "reproject" /\ orphan' = orphan /\ guard' = guard
         /\ UNCHANGED <<db, repo>>
PROOF
  <1>1. PICK kind, entry, want, base :
            Start(p, kind, entry, want, base)
    BY DEF StartWeb, StartPush, StartMerge, StartRead
  <1>2. kind # "reproject"
    BY <1>1 DEF Start, GuardIsKept
  <1>3. pc[p] = "idle" => phase[p] = "ensure"
    BY DEF IInv, CallsInv, CallInv, Control
  <1>4. req' = [req EXCEPT ![p] = [kind |-> kind, entry |-> entry,
                                   want |-> want, base |-> base]]
    BY <1>1 DEF Start
  <1>5. req'[p].kind = kind
    BY <1>4 DEF IInv, CallsInv, CallType
  <1>6. QED
    BY <1>1, <1>2, <1>3, <1>5 DEF Start, Goto, locks, IInv, CallsInv, CallType

\* The call that took the step holds the guard while it is at work.
LEMMA HeldKeeps ==
  ASSUME IInv, GuardIsKept, NEW p \in Procs, Acts(p), Held(p)
  PROVE  Held(p)'
PROOF
  <1>1. CASE StartWeb(p) \/ StartPush(p) \/ StartMerge(p) \/ StartRead(p)
    BY <1>1, ArrivalDoes DEF Held
  <1>2. CASE TakeGuard(p)
    BY <1>2 DEF TakeGuard, Held, IInv, CallsInv, CallType
  <1>3. CASE Proceed(p)
    <2>1. pc[p] \notin {"idle", "lock"}
      BY <1>3 DEF Proceed, Ensure, EnsureMissing, EnsurePresent, Align, ReadCurrent,
                  LookAtRefs, FindMainMissing, CountEqual, CountBehind, CountAhead,
                  SyncFails, GitWrite, BuildCommits, MoveMain, MoveRefused, SetTag,
                  WriteDone, GitFails, TagFails, Project, ReadTip, InsertVersion,
                  InsertFails, InsertUnanswered, UpdateMeta, TagVersion, WebTail,
                  BeginWeb, BeginFails, CommitWeb, CommitFails
    <2>2. Kept(p)
      BY <1>3, <2>1, ProceedKeepsGuard DEF Held
    <2>3. orphan' \in [Procs -> BOOLEAN] /\ orphan \in [Procs -> BOOLEAN]
      <3>1. IInv'
        BY <1>3, EnsureKeeps, AlignKeeps, GitWriteKeeps, ProjectKeeps, WebTailKeeps
           DEF Proceed
      <3>2. QED
        BY <3>1 DEF IInv, CallsInv, CallType
    <2>4. QED
      BY <2>1, <2>2, <2>3 DEF Held, Kept
  <1>4. QED
    BY <1>1, <1>2, <1>3, GuardedSteps

\* A directory is never lost while a call acts.
LEMMA DirStays ==
  ASSUME NEW p \in Procs, Acts(p)
  PROVE  dir => dir'
PROOF
  <1>1. CASE Arrive(p) \/ TakeGuard(p) \/ Cancel(p)
    BY <1>1 DEF Arrive, StartWeb, StartPush, StartMerge, StartRead, StartReproject, Start,
                TakeGuard, Cancel, repo
  <1>2. CASE Ensure(p)
    BY <1>2 DEF Ensure, EnsureMissing, EnsurePresent, repo
  <1>3. CASE Align(p)
    BY <1>3 DEF Align, ReadCurrent, LookAtRefs, FindMainMissing, CountEqual, CountBehind,
                CountAhead, SyncFails, repo
  <1>4. CASE GitWrite(p)
    BY <1>4 DEF GitWrite, BuildCommits, MoveMain, MoveRefused, SetTag, WriteDone, GitFails,
                TagFails, repo
  <1>5. CASE Project(p) \/ WebTail(p)
    BY <1>5 DEF Project, ReadTip, InsertVersion, InsertFails, InsertUnanswered, UpdateMeta,
                TagVersion, WebTail, BeginWeb, BeginFails, CommitWeb, CommitFails, repo
  <1>6. QED
    BY <1>1, <1>2, <1>3, <1>4, <1>5 DEF Acts, Proceed

\* The call that took the step has a repository once it has looked.
LEMMA PlacedKeeps ==
  ASSUME IInv, IInv', GuardIsKept, NEW p \in Procs, Acts(p), Placed(p)
  PROVE  Placed(p)'
PROOF
  <1>1. CASE StartWeb(p) \/ StartPush(p) \/ StartMerge(p) \/ StartRead(p)
    BY <1>1, ArrivalDoes DEF Placed
  <1>2. CASE TakeGuard(p)
    <2>1. pc[p] = "lock" /\ phase' = phase /\ dir' = dir
          /\ (phase[p] = "ensure" => pc'[p] = "ensure")
      BY <1>2 DEF TakeGuard, repo, Goto, IInv, CallsInv, CallType
    <2>2. phase[p] \in {"ensure", "work"}
      BY DEF IInv, CallsInv, CallType
    <2>3. QED
      BY <2>1, <2>2 DEF Placed
  <1>3. CASE Ensure(p)
    BY <1>3 DEF Ensure, EnsureMissing, EnsurePresent, Placed, repo
  <1>4. CASE Align(p) \/ GitWrite(p) \/ Project(p) \/ WebTail(p)
    <2>1. pc[p] \notin {"idle", "lock", "ensure"}
      BY <1>4 DEF Align, ReadCurrent, LookAtRefs, FindMainMissing, CountEqual, CountBehind,
                  CountAhead, SyncFails, GitWrite, BuildCommits, MoveMain, MoveRefused,
                  SetTag, WriteDone, GitFails, TagFails, Project, ReadTip, InsertVersion,
                  InsertFails, InsertUnanswered, UpdateMeta, TagVersion, WebTail,
                  BeginWeb, BeginFails, CommitWeb, CommitFails
    <2>2. QED
      BY <2>1, DirStays DEF Placed
  <1>5. QED
    BY <1>1, <1>2, <1>3, <1>4, GuardedSteps DEF Proceed

\* A call between its steps of consequence has nothing to be aligned with.
LEMMA RestIsAligned ==
  ASSUME NEW p \in Procs, pc'[p] \in {"idle", "lock", "ensure", "sync", "commit"}
  PROVE  Aligned(p)'
PROOF
  BY DEF Aligned

\* However the alignment ends, an edit goes on only with the stores aligned.
LEMMA LeaveSyncAligned ==
  ASSUME CallType, NEW p \in Procs, req[p].kind # "reproject", NEW a, LeaveSync(p, a),
         a = "ok" /\ phase[p] # "ensure" => (TagOnTip(current) \/ ~Projectable(main))'
  PROVE  Aligned(p)'
PROOF
  <1>1. CASE pc'[p] \in {"idle", "lock"}
    BY <1>1, RestIsAligned
  <1>2. CASE pc'[p] = "begin" /\ (TagOnTip(current) \/ ~Projectable(main))'
    BY <1>2 DEF Aligned
  <1>3. QED
    BY <1>1, <1>2, EndingGoes

\* Taking the guard, or looking for the directory, starts from nothing.
LEMMA EntryAligned ==
  ASSUME IInv, GuardIsKept, NEW p \in Procs, Held(p),
         TakeGuard(p) \/ Ensure(p)
  PROVE  Aligned(p)'
PROOF
  <1>1. CallType /\ CallInv(p) /\ job[p] \in Job
    BY DEF IInv, CallsInv, CallType
  <1>2. \A mode, todo : Work(mode, todo).mode = mode
    BY DEF Work
  <1>3. CASE TakeGuard(p)
    <2>1. CASE pc'[p] \in {"ensure", "sync"}
      BY <2>1, RestIsAligned
    <2>2. CASE pc'[p] \notin {"ensure", "sync"}
      <3>1. /\ pc'[p] = "build" /\ phase[p] # "ensure" /\ req[p].kind # "web"
            /\ req[p].kind \in {"push", "merge"}
            /\ phase' = phase /\ req' = req
            /\ job'[p] = Work(req[p].kind, <<req[p].entry>>)
        BY <1>1, <1>3, <2>2 DEF TakeGuard, Goto, CallType, CallInv, Control
      <3>2. job'[p].mode \in {"push", "merge"}
        BY <1>2, <3>1
      <3>3. ~Aligning(p)'
        BY <3>1 DEF Aligning
      <3>4. QED
        BY <3>1, <3>2, <3>3 DEF Aligned, Heals
    <2>3. QED
      BY <2>1, <2>2
  <1>4. CASE Ensure(p)
    <2>1. req[p].kind # "reproject"
      BY <1>4 DEF Ensure, EnsureMissing, EnsurePresent, Held
    <2>2. CASE LeaveEnsure(p) \/ Step(p, "sync")
      BY <1>1, <2>1, <2>2, EndingGoes, RestIsAligned
    <2>3. CASE Hand(p, "build", Work("bootstrap", StoredAbove(0)))
      <3>1. pc'[p] = "build" /\ job'[p].mode = "bootstrap"
        BY <1>1, <1>2, <2>1, <2>3, EndingGoes
      <3>2. QED
        BY <3>1 DEF Aligned, Heals
    <2>4. QED
      BY <1>4, <2>2, <2>3 DEF Ensure, EnsureMissing, EnsurePresent
  <1>5. QED
    BY <1>3, <1>4

\* The alignment acts on what it has read, and what it has read is still so.
LEMMA AlignAligned ==
  ASSUME IInv, NEW p \in Procs, Held(p), Placed(p), Aligned(p), Align(p)
  PROVE  Aligned(p)'
PROOF
  <1>1. CallType /\ CallInv(p) /\ StoreType /\ job[p] \in Job /\ HistoryHasNoGaps
        /\ current \in Versions /\ Versions \subseteq 1..MaxVersion /\ MaxVersion \in Nat
        /\ saw[p] \in 0..MaxVersion /\ have[p] \in 0..MaxVersion
    BY BoundAssumption DEF IInv, CallsInv, CallType, StoreType, Versions
  <1>2. pc[p] \in {"sync", "look", "count"} /\ req[p].kind # "reproject"
        /\ Aligning(p) /\ dir
    BY <1>1 DEF Align, ReadCurrent, LookAtRefs, FindMainMissing, CountEqual, CountBehind,
           CountAhead, SyncFails, Held, Placed, CallInv, Control
  <1>3. UNCHANGED <<db, main, tags>>
    BY DEF Align, ReadCurrent, LookAtRefs, FindMainMissing, CountEqual, CountBehind,
           CountAhead, SyncFails, repo
  <1>4. current' = current /\ main' = main /\ tags' = tags /\ MaxTag' = MaxTag
        /\ (TagOnTip(current))' = TagOnTip(current)
        /\ Projectable(main)' = Projectable(main)
    BY <1>3 DEF db, MaxTag, TagOnTip, Projectable
  <1>5. \A mode, todo : /\ Work(mode, todo).mode = mode /\ Work(mode, todo).todo = todo
                        /\ Work(mode, todo).tags = << >>
    BY DEF Work
  <1>6. ASSUME NEW mode \in {"rebuild", "append"}, NEW v \in 0..MaxVersion,
               StoredAbove(v) # << >>, Hand(p, "build", Work(mode, StoredAbove(v)))
        PROVE  Aligned(p)'
    <2>1. Tip(StoredAbove(v)).ver = current
      BY <1>1, <1>6, StoredEndsWithCurrent
    <2>2. pc'[p] = "build" /\ job'[p] = Work(mode, StoredAbove(v))
      BY <1>1, <1>2, <1>6, EndingGoes
    <2>3. job'[p].mode = mode /\ job'[p].todo = StoredAbove(v)
      BY <1>5, <2>2
    <2>4. job'[p].todo # NoRef /\ Tip(job'[p].todo).ver = current'
      BY <1>4, <1>6, <2>1, <2>3 DEF NoRef
    <2>5. QED
      BY <2>2, <2>3, <2>4 DEF Aligned, Tip
  <1>7. CASE ReadCurrent(p)
    BY <1>1, <1>2, <1>4, <1>7 DEF ReadCurrent, Goto, CallType, Aligned
  <1>8. CASE LookAtRefs(p)
    <2>1. pc'[p] = "count" /\ saw'[p] = current' /\ have'[p] = MaxTag'
      BY <1>1, <1>2, <1>4, <1>8, MaxTagBounds DEF LookAtRefs, Goto, CallType, Aligned
    <2>2. QED
      BY <2>1 DEF Aligned, Fresh
  <1>9. CASE FindMainMissing(p)
    <2> DEFINE restored == IF MaxTag < saw[p] THEN MaxTag ELSE saw[p]
    <2>1. pc[p] = "look" /\ saw[p] = current /\ MaxTag \in 0..MaxVersion
      BY <1>1, <1>9, MaxTagBounds DEF FindMainMissing, Aligned
    <2>2. CASE restored > 0 /\ tags[restored] # NoRef
      <3> DEFINE write == [NoJob EXCEPT !.mode = "restore", !.tip = tags[restored]]
      <3>1. write.mode = "restore" /\ write.tags = << >> /\ write.tip = tags[restored]
        BY DEF NoJob, Work
      <3>2. /\ pc' = [pc EXCEPT ![p] = "move"] /\ job' = [job EXCEPT ![p] = write]
            /\ have' = [have EXCEPT ![p] = MaxTag] /\ saw' = saw
        BY <1>9, <2>2 DEF FindMainMissing, Goto
      <3>3. restored \in 1..current
        BY <1>1, <2>1, <2>2 DEF Versions
      <3> HIDE DEF write, restored
      <3>4. /\ pc'[p] = "move" /\ job'[p].mode = "restore" /\ job'[p].tags = << >>
            /\ job'[p].tip = tags'[restored] /\ restored \in 1..current'
            /\ saw'[p] = current' /\ have'[p] = MaxTag'
        BY <1>1, <1>4, <2>1, <3>1, <3>2, <3>3 DEF CallType
      <3>5. QED
        BY <3>4 DEF Aligned, Fresh, Heals
    <2>3. CASE Rebuild(p) /\ StoredAbove(0) # << >>
      BY <1>1, <1>6, <2>3 DEF Rebuild
    <2>4. CASE /\ Goto(p, "count") /\ have' = [have EXCEPT ![p] = MaxTag] /\ saw' = saw
      <3>1. pc'[p] = "count" /\ saw'[p] = current' /\ have'[p] = MaxTag'
        BY <1>1, <1>4, <2>1, <2>4 DEF Goto, CallType
      <3>2. QED
        BY <3>1 DEF Aligned, Fresh
    <2>5. QED
      BY <1>9, <2>2, <2>3, <2>4 DEF FindMainMissing
  <1>10. pc[p] = "count" => Fresh(p)
    BY DEF Aligned
  <1>11. ASSUME pc[p] = "count", Step(p, "read"),
                have[p] # saw[p] => have[p] = saw[p] + 1 /\ TagOnTip(have[p])
         PROVE  Aligned(p)'
    <2>1. pc'[p] = "read" /\ saw' = saw /\ have' = have
      BY <1>1, <1>2, <1>11, EndingGoes DEF local
    <2>2. Fresh(p)'
      BY <1>4, <1>10, <1>11, <2>1 DEF Fresh
    <2>3. (have[p] # saw[p] => have[p] = saw[p] + 1 /\ TagOnTip(have[p]))'
      BY <1>4, <1>11, <2>1 DEF TagOnTip
    <2>4. QED
      BY <2>1, <2>2, <2>3 DEF Aligned
  <1>12. CASE CountEqual(p)
    <2>1. CASE saw[p] > 0 /\ ~TagOnTip(saw[p])
      BY <1>11, <1>12, <2>1 DEF CountEqual
    <2>2. CASE ~(saw[p] > 0 /\ ~TagOnTip(saw[p]))
      <3>1. saw[p] = current /\ current > 0
        BY <1>1, <1>10, <1>12 DEF CountEqual, Fresh, Versions
      <3>2. (TagOnTip(current))' /\ LeaveSync(p, "ok")
        BY <1>4, <1>12, <2>2, <3>1 DEF CountEqual
      <3>3. QED
        BY <1>1, <1>2, <3>2, LeaveSyncAligned
    <2>3. QED
      BY <2>1, <2>2
  <1>13. CASE CountBehind(p)
    <2>1. CASE StoredAbove(have[p]) # << >>
      BY <1>1, <1>6, <1>13, <2>1 DEF CountBehind
    <2>2. CASE StoredAbove(have[p]) = << >>
      <3>1. main = NoRef => (TagOnTip(current))'
        BY <1>4 DEF TagOnTip
      <3>2. PICK a : LeaveSync(p, a) /\ (a = "ok" => main = NoRef)
        BY <1>13, <2>2 DEF CountBehind
      <3>3. QED
        BY <1>1, <1>2, <3>1, <3>2, LeaveSyncAligned
    <2>3. QED
      BY <2>1, <2>2
  <1>14. CASE CountAhead(p)
    <2>1. CASE have[p] = saw[p] + 1 /\ TagOnTip(have[p])
      BY <1>11, <1>14, <2>1 DEF CountAhead
    <2>2. CASE ~(have[p] = saw[p] + 1 /\ TagOnTip(have[p]))
      BY <1>1, <1>2, <1>14, <2>2, LeaveSyncAligned DEF CountAhead
    <2>3. QED
      BY <2>1, <2>2
  <1>15. CASE SyncFails(p)
    BY <1>1, <1>2, <1>15, LeaveSyncAligned DEF SyncFails
  <1>16. QED
    BY <1>7, <1>8, <1>9, <1>12, <1>13, <1>14, <1>15 DEF Align

\* Taking the first of a sequence leaves its last, until nothing is left.
LEMMA LastOfTail ==
  ASSUME NEW S, NEW s \in Seq(S), s # << >>
  PROVE  IF Tail(s) = << >> THEN Head(s) = LastOf(s) ELSE LastOf(Tail(s)) = LastOf(s)
PROOF
  <1>1. /\ Len(s) \in Nat \ {0} /\ Tail(s) \in Seq(S) /\ Head(s) = s[1]
        /\ Len(Tail(s)) = Len(s) - 1
        /\ \A i \in 1..Len(Tail(s)) : Tail(s)[i] = s[i + 1]
    BY HeadTailProperties, LenProperties, EmptySeq
  <1>2. CASE Tail(s) = << >>
    <2>1. Len(Tail(s)) = 0
      BY <1>2, EmptySeq
    <2>2. Len(s) = 1
      <3> DEFINE m == Len(s)
      <3> DEFINE n == Len(Tail(s))
      <3>1. m \in Nat \ {0} /\ n = m - 1 /\ n = 0
        BY <1>1, <2>1
      <3> HIDE DEF m, n
      <3>2. m = 1
        BY <3>1
      <3>3. QED
        BY <3>2 DEF m
    <2>3. QED
      BY <1>1, <1>2, <2>2 DEF LastOf
  <1>3. CASE Tail(s) # << >>
    <2>1. Len(Tail(s)) \in Nat \ {0}
      BY <1>1, <1>3, LenProperties, EmptySeq
    <2>2. QED
      BY <1>1, <1>3, <2>1 DEF LastOf
  <1>4. QED
    BY <1>2, <1>3

\* The git writes of a heal end with the current version's tag on the tip.
LEMMA GitWriteAligned ==
  ASSUME IInv, NEW p \in Procs, Held(p), Aligned(p), GitWrite(p)
  PROVE  Aligned(p)'
PROOF
  <1>1. CallType /\ CallInv(p) /\ StoreType /\ job[p] \in Job /\ req[p] \in Request
        /\ current \in Versions /\ main \in Commit
    BY DEF IInv, CallsInv, CallType, StoreType
  <1>2. /\ pc[p] \in {"build", "move", "tag"} /\ req[p].kind # "reproject" /\ ~orphan[p]
        /\ job[p].mode \in Modes \ {"none", "project"}
    BY <1>1 DEF GitWrite, BuildCommits, MoveMain, MoveRefused, SetTag, WriteDone, GitFails,
           TagFails, Held, CallInv, Control, Job
  <1>3. UNCHANGED <<current, rows, dbTitle, dir>>
    BY DEF GitWrite, BuildCommits, MoveMain, MoveRefused, SetTag, WriteDone, GitFails,
           TagFails, db, repo
  <1>4. job[p].todo \in Commit /\ req[p].base \in Commit /\ job[p].tip \in Commit
        /\ job[p].tags \in Seq([ver : Versions, at : Commit])
    BY <1>1 DEF Job, Request
  <1>5. ASSUME JobFailed(p)
        PROVE  Aligned(p)'
    BY <1>1, <1>2, <1>5, EndingGoes, RestIsAligned
  <1>6. CASE BuildCommits(p)
    <2> DEFINE mode == job[p].mode
    <2> DEFINE todo == job[p].todo
    <2> DEFINE base == CASE mode \in {"bootstrap", "rebuild"} -> NoRef
                         [] mode = "push"                     -> req[p].base
                         [] OTHER                             -> main
    <2>1. base \in Commit
      BY <1>1, <1>4, EmptySeq DEF NoRef, Commit
    <2>2. base \o todo \in Commit
      BY <1>4, <2>1, OnTopOfBase
    <2>3. pc[p] = "build" /\ main' = main /\ tags' = tags
      BY <1>6 DEF BuildCommits, repo
    <2>4. /\ mode # "restore"
          /\ mode \in {"rebuild", "append"} => todo # NoRef /\ Tip(todo).ver = current
          /\ mode \in {"push", "merge"} => ~Aligning(p)
      BY <2>3 DEF Aligned, Heals
    <2>5. ASSUME NEW s \in {"move", "tag"}, NEW w, Hand(p, s, w), w.mode = mode,
                 mode \in {"rebuild", "append"} =>
                    /\ w.tags # << >>
                    /\ LastOf(w.tags) = [ver |-> current,
                                         at  |-> IF s = "move" THEN w.tip ELSE main]
          PROVE  Aligned(p)'
      <3>1. pc'[p] = s /\ job'[p] = w /\ phase' = phase /\ req' = req
        BY <1>1, <1>2, <2>5, EndingGoes
      <3>2. Aligning(p)' <=> Aligning(p)
        BY <3>1 DEF Aligning
      <3>3. (Heals(p) /\ s = "move" => Closes(p, job[p].tip))'
            /\ (Heals(p) /\ s = "tag" => Closes(p, main) /\ job[p].tags # << >>)'
        BY <1>3, <2>3, <2>5, <3>1 DEF Heals, Closes, LastOf
      <3>4. QED
        BY <2>4, <2>5, <3>1, <3>2, <3>3 DEF Aligned, Heals
    <2>6. CASE JobFailed(p)
      BY <1>5, <2>6
    <2>7. CASE /\ mode = "append"
               /\ Hand(p, "tag", [job[p] EXCEPT !.tags = TagsFor(main, todo)])
      <3> DEFINE w == [job[p] EXCEPT !.tags = TagsFor(main, todo)]
      <3>1. w.mode = mode /\ w.tags = TagsFor(main, todo)
        BY <1>1 DEF Job
      <3>2. TagsFor(main, todo) # << >>
            /\ LastOf(TagsFor(main, todo)) = [ver |-> current, at |-> main]
        BY <1>1, <1>4, <2>4, <2>7, TagsEndAtTip
      <3>3. Hand(p, "tag", w)
        BY <2>7
      <3> HIDE DEF w
      <3>4. QED
        BY <2>5, <3>1, <3>2, <3>3
    <2>8. CASE Hand(p, "move",
                    [job[p] EXCEPT
                       !.parent = IF mode = "push" THEN main ELSE base,
                       !.tip    = base \o todo,
                       !.tags   = IF mode \in {"push", "merge"} THEN <<>>
                                  ELSE TagsFor(base \o todo, todo)])
      <3> DEFINE w == [job[p] EXCEPT
                       !.parent = IF mode = "push" THEN main ELSE base,
                       !.tip    = base \o todo,
                       !.tags   = IF mode \in {"push", "merge"} THEN <<>>
                                  ELSE TagsFor(base \o todo, todo)]
      <3>1. Hand(p, "move", w)
        BY <2>8
      <3>2. /\ w.mode = mode /\ w.tip = base \o todo
            /\ mode \in {"rebuild", "append"} => w.tags = TagsFor(base \o todo, todo)
        BY <1>1 DEF Job
      <3>3. mode \in {"rebuild", "append"} =>
               /\ TagsFor(base \o todo, todo) # << >>
               /\ LastOf(TagsFor(base \o todo, todo)) = [ver |-> current, at |-> base \o todo]
        BY <1>4, <2>2, <2>4, TagsEndAtTip, ZenonT(60)
      <3> HIDE DEF w, base
      <3>4. QED
        BY <2>5, <3>1, <3>2, <3>3
    <2>9. QED
      BY <1>6, <2>6, <2>7, <2>8 DEF BuildCommits
  <1>7. CASE MoveMain(p)
    <2>1. /\ pc[p] = "move" /\ pc'[p] = "tag" /\ main' = job[p].tip /\ tags' = tags
          /\ job' = job /\ phase' = phase /\ req' = req /\ saw' = saw /\ have' = have
      BY <1>1, <1>2, <1>7, EndingGoes DEF MoveMain, local
    <2>2. Aligning(p)' <=> Aligning(p)
      BY <2>1 DEF Aligning
    <2>3. Fresh(p)' <=> Fresh(p)
      BY <1>3, <2>1 DEF Fresh, MaxTag
    <2>4. Closes(p, job[p].tip) => Closes(p, main)' /\ (job[p].tags # << >>)'
      BY <1>3, <2>1 DEF Closes, LastOf
    <2>5. QED
      BY <2>1, <2>2, <2>3, <2>4 DEF Aligned, Heals
  <1>8. CASE MoveRefused(p)
    <2>1. CASE JobFailed(p)
      BY <1>5, <2>1
    <2>2. CASE Finish(p, "unversioned")
      BY <1>1, <1>2, <2>2, EndingGoes, RestIsAligned
    <2>3. CASE job[p].mode = "push" /\ Step(p, "read")
      <3>1. /\ pc[p] = "move" /\ pc'[p] = "read" /\ phase' = phase /\ req' = req
        BY <1>1, <1>2, <1>8, <2>3, EndingGoes DEF MoveRefused, local
      <3>2. ~Aligning(p)'
        BY <2>3, <3>1 DEF Aligning, Aligned
      <3>3. QED
        BY <3>1, <3>2 DEF Aligned
    <2>4. QED
      BY <1>8, <2>1, <2>2, <2>3 DEF MoveRefused
  <1>9. CASE SetTag(p)
    <2> DEFINE w == [job[p] EXCEPT !.tags = Tail(job[p].tags)]
    <2>1. /\ pc[p] = "tag" /\ job[p].tags # << >> /\ main' = main
          /\ tags' = [tags EXCEPT ![Head(job[p].tags).ver] = Head(job[p].tags).at]
          /\ Hand(p, "tag", w)
      BY <1>9 DEF SetTag
    <2>2. w.mode = job[p].mode /\ w.tags = Tail(job[p].tags)
      BY <1>1 DEF Job
    <2> HIDE DEF w
    <2>3. pc'[p] = "tag" /\ job'[p] = w /\ phase' = phase /\ req' = req
      BY <1>1, <1>2, <2>1, EndingGoes
    <2>4. Aligning(p)' <=> Aligning(p)
      BY <2>3 DEF Aligning
    <2>5. /\ job[p].mode # "restore"
          /\ job[p].mode \in {"rebuild", "append"} =>
                LastOf(job[p].tags) = [ver |-> current, at |-> main]
          /\ job[p].mode \in {"push", "merge"} => ~Aligning(p)
      BY <2>1 DEF Aligned, Heals, Closes
    <2>6. IF Tail(job[p].tags) = << >> THEN Head(job[p].tags) = LastOf(job[p].tags)
          ELSE LastOf(Tail(job[p].tags)) = LastOf(job[p].tags)
      BY <1>4, <2>1, LastOfTail
    <2>7. CASE job[p].mode \in {"rebuild", "append"}
      <3>1. CASE Tail(job[p].tags) = << >>
        <4>1. Head(job[p].tags) = [ver |-> current, at |-> main]
          BY <2>5, <2>6, <2>7, <3>1
        <4> DEFINE h == Head(job[p].tags)
        <4>2. h.ver = current /\ h.at = main
          BY <4>1
        <4>3. tags' = [tags EXCEPT ![h.ver] = h.at]
          BY <2>1
        <4> HIDE DEF h
        <4>4. tags'[current'] = main'
          BY <1>1, <1>3, <2>1, <4>2, <4>3 DEF StoreType
        <4>5. (TagOnTip(current))'
          BY <4>4 DEF TagOnTip
        <4>6. QED
          BY <2>2, <2>3, <2>7, <3>1, <4>5 DEF Aligned, Heals
      <3>2. CASE Tail(job[p].tags) # << >>
        <4>1. Closes(p, main)'
          BY <1>3, <2>1, <2>2, <2>3, <2>5, <2>6, <2>7, <3>2 DEF Closes, LastOf
        <4>2. QED
          BY <2>2, <2>3, <2>7, <3>2, <4>1 DEF Aligned, Heals
      <3>3. QED
        BY <3>1, <3>2
    <2>8. CASE job[p].mode \notin {"rebuild", "append"}
      BY <2>2, <2>3, <2>4, <2>5, <2>8 DEF Aligned, Heals
    <2>9. QED
      BY <2>7, <2>8
  <1>10. CASE WriteDone(p)
    <2>1. /\ pc[p] = "tag" /\ job[p].tags = << >> /\ JobDone(p) /\ main' = main
          /\ tags' = tags
      BY <1>10 DEF WriteDone, repo
    <2>2. CASE job[p].mode = "bootstrap"
      BY <1>1, <1>2, <2>1, <2>2, EndingGoes, RestIsAligned DEF JobDone
    <2>3. CASE job[p].mode \in {"rebuild", "append"}
      <3>1. LeaveSync(p, "ok")
        BY <1>2, <2>1, <2>3 DEF JobDone
      <3>2. TagOnTip(current)
        BY <2>1, <2>3 DEF Aligned, Heals
      <3>3. (TagOnTip(current))'
        BY <1>3, <2>1, <3>2 DEF TagOnTip
      <3>4. QED
        BY <1>1, <1>2, <3>1, <3>3, LeaveSyncAligned
    <2>4. CASE job[p].mode = "restore"
      <3>1. Step(p, "count")
        BY <1>2, <2>1, <2>4 DEF JobDone
      <3>2. pc'[p] = "count" /\ saw' = saw /\ have' = have
        BY <1>1, <1>2, <3>1, EndingGoes DEF local
      <3>3. Fresh(p)'
        BY <1>3, <2>1, <2>4, <3>2 DEF Fresh, MaxTag, Aligned
      <3>4. QED
        BY <3>2, <3>3 DEF Aligned
    <2>5. CASE job[p].mode = "web"
      <3>1. Step(p, "commit")
        BY <1>2, <2>1, <2>5 DEF JobDone
      <3>2. QED
        BY <1>1, <1>2, <3>1, EndingGoes, RestIsAligned
    <2>6. CASE job[p].mode \in {"push", "merge"}
      <3>1. Step(p, "read")
        BY <1>2, <2>1, <2>6 DEF JobDone
      <3>2. pc'[p] = "read" /\ phase' = phase /\ req' = req
        BY <1>1, <1>2, <3>1, EndingGoes DEF local
      <3>3. ~Aligning(p)'
        BY <2>1, <2>6, <3>2 DEF Aligning, Aligned
      <3>4. QED
        BY <3>2, <3>3 DEF Aligned
    <2>7. QED
      BY <1>2, <2>2, <2>3, <2>4, <2>5, <2>6 DEF Modes
  <1>11. CASE GitFails(p) \/ TagFails(p)
    BY <1>5, <1>11 DEF GitFails, TagFails
  <1>12. QED
    BY <1>6, <1>7, <1>8, <1>9, <1>10, <1>11 DEF GitWrite

\* A projection of the alignment's makes the tip of main the current version.
LEMMA ProjectAligned ==
  ASSUME IInv, NEW p \in Procs, Held(p), Aligned(p), Project(p)
  PROVE  Aligned(p)'
PROOF
  <1>1. CallType /\ CallInv(p) /\ StoreType /\ job[p] \in Job /\ current \in Versions
        /\ Versions = 1..MaxVersion /\ MaxVersion \in Nat
    BY BoundAssumption DEF IInv, CallsInv, CallType, StoreType, Versions
  <1>2. /\ pc[p] \in {"read", "insert", "meta", "mark"} /\ req[p].kind # "reproject"
        /\ ~orphan[p]
    BY <1>1 DEF Project, ReadTip, InsertVersion, InsertFails, InsertUnanswered, UpdateMeta,
                TagVersion, Held
  <1>3. main' = main
    BY DEF Project, ReadTip, InsertVersion, InsertFails, InsertUnanswered, UpdateMeta,
           TagVersion, repo
  <1>4. ASSUME ProjectionFailed(p)
        PROVE  Aligned(p)'
    <2>1. CASE Aligning(p)
      BY <1>1, <1>2, <1>4, <2>1, LeaveSyncAligned DEF ProjectionFailed
    <2>2. CASE ~Aligning(p)
      <3>1. CASE pc'[p] = "idle"
        BY <3>1, RestIsAligned
      <3>2. CASE pc'[p] # "idle"
        <4>1. pc'[p] = "read" /\ phase' = phase /\ req' = req
          BY <1>1, <1>2, <1>4, <2>2, <3>2, EndingGoes DEF ProjectionFailed, Goto, CallType
        <4>2. QED
          BY <2>2, <4>1 DEF Aligned, Aligning
      <3>3. QED
        BY <3>1, <3>2
    <2>3. QED
      BY <2>1, <2>2
  <1>5. CASE ReadTip(p)
    <2>1. pc[p] = "read" /\ UNCHANGED <<current, main, tags>>
      BY <1>5 DEF ReadTip, db, repo
    <2>2. CASE Projectable(main)
      <3> DEFINE w == [NoJob EXCEPT !.mode = "project", !.tip = main]
      <3>1. w.tip = main /\ Hand(p, "insert", w)
        BY <1>5, <2>2 DEF ReadTip, NoJob, Work
      <3> HIDE DEF w
      <3>2. /\ pc'[p] = "insert" /\ job'[p].tip = main /\ phase' = phase /\ req' = req
            /\ saw' = saw /\ have' = have
        BY <1>1, <1>2, <3>1, EndingGoes
      <3>3. Aligning(p)' <=> Aligning(p)
        BY <3>2 DEF Aligning
      <3>4. Fresh(p)' <=> Fresh(p)
        BY <2>1, <3>2 DEF Fresh, MaxTag
      <3>5. TagOnTip(have[p])' <=> TagOnTip(have[p])
        BY <2>1, <3>2 DEF TagOnTip
      <3>6. QED
        BY <2>1, <3>2, <3>3, <3>4, <3>5 DEF Aligned
    <2>3. CASE ~Projectable(main)
      <3>1. ~Projectable(main)'
        BY <1>3, <2>3 DEF Projectable
      <3>2. NothingToProject(p)
        BY <1>5, <2>3 DEF ReadTip
      <3>3. CASE Aligning(p)
        BY <1>1, <1>2, <3>1, <3>2, <3>3, LeaveSyncAligned DEF NothingToProject
      <3>4. CASE ~Aligning(p)
        BY <1>1, <1>2, <3>2, <3>4, EndingGoes, RestIsAligned DEF NothingToProject
      <3>5. QED
        BY <3>3, <3>4
    <2>4. QED
      BY <2>2, <2>3
  <1>6. CASE InsertVersion(p)
    <2>1. /\ pc[p] = "insert" /\ current < MaxVersion /\ current' = current + 1
          /\ pc'[p] = "meta" /\ ver'[p] = current + 1 /\ tags' = tags /\ job' = job
          /\ phase' = phase /\ req' = req
      BY <1>1, <1>6 DEF InsertVersion, NewRow, Goto, CallType, repo
    <2>2. Aligning(p)' <=> Aligning(p)
      BY <2>1 DEF Aligning
    <2>3. ASSUME Aligning(p)
          PROVE  TagOnTip(current + 1)
      <3>1. /\ have[p] = MaxTag /\ saw[p] = current
            /\ have[p] # saw[p] => have[p] = saw[p] + 1 /\ TagOnTip(have[p])
        BY <2>1, <2>3 DEF Aligned, Fresh
      <3>2. CASE have[p] = saw[p]
        <4>1. current + 1 \in Versions /\ ~(current + 1 <= MaxTag) /\ MaxTag = current
          BY <1>1, <2>1, <3>1, <3>2
        <4>2. tags[current + 1] = NoRef
          BY <1>1, <4>1, MaxTagBounds
        <4>3. QED
          BY <4>2 DEF TagOnTip
      <3>3. CASE have[p] # saw[p]
        BY <3>1, <3>3
      <3>4. QED
        BY <3>2, <3>3
    <2>4. ASSUME Aligning(p)
          PROVE  (TagOnTip(current))'
      BY <1>3, <2>1, <2>3, <2>4 DEF TagOnTip
    <2>5. Aligning(p) => job[p].tip = main
      BY <2>1 DEF Aligned
    <2>6. QED
      BY <1>3, <2>1, <2>2, <2>4, <2>5 DEF Aligned
  <1>7. CASE InsertFails(p) \/ InsertUnanswered(p)
    BY <1>4, <1>7 DEF InsertFails, InsertUnanswered
  <1>8. CASE UpdateMeta(p)
    <2>1. /\ pc[p] = "meta" /\ pc'[p] = "mark" /\ UNCHANGED <<current, tags>>
          /\ job' = job /\ phase' = phase /\ req' = req /\ ver' = ver
      BY <1>1, <1>2, <1>8, EndingGoes DEF UpdateMeta, repo, local
    <2>2. Aligning(p)' <=> Aligning(p)
      BY <2>1 DEF Aligning
    <2>3. (TagOnTip(current))' <=> TagOnTip(current)
      BY <1>3, <2>1 DEF TagOnTip
    <2>4. QED
      BY <1>3, <2>1, <2>2, <2>3 DEF Aligned
  <1>9. CASE TagVersion(p)
    <2>1. /\ pc[p] = "mark" /\ current' = current /\ Projected(p)
          /\ tags' = tags \/ tags' = [tags EXCEPT ![ver[p]] = job[p].tip]
      BY <1>2, <1>9 DEF TagVersion, db
    <2>2. CASE Aligning(p)
      <3>1. job[p].tip = main /\ ver[p] = current /\ TagOnTip(current)
        BY <2>1, <2>2 DEF Aligned
      <3>2. (TagOnTip(current))'
        BY <1>1, <1>3, <2>1, <3>1 DEF TagOnTip, StoreType
      <3>3. QED
        BY <1>1, <1>2, <2>1, <2>2, <3>2, LeaveSyncAligned DEF Projected
    <2>3. CASE ~Aligning(p)
      BY <1>1, <1>2, <2>1, <2>3, EndingGoes, RestIsAligned DEF Projected
    <2>4. QED
      BY <2>2, <2>3
  <1>10. QED
    BY <1>5, <1>6, <1>7, <1>8, <1>9 DEF Project

\* The transaction of an edit is no longer the alignment's concern.
LEMMA WebTailAligned ==
  ASSUME IInv, NEW p \in Procs, Held(p), WebTail(p)
  PROVE  Aligned(p)'
PROOF
  <1>1. CallType /\ req[p].kind # "reproject"
    BY DEF IInv, CallsInv, WebTail, BeginWeb, BeginFails, CommitWeb, CommitFails, Held
  <1>2. CASE BeginWeb(p) /\ req[p].want \in {0, current}
    <2>1. pc'[p] = "build"
          /\ job'[p] = Work("web", <<[req[p].entry EXCEPT !.ver = current + 1]>>)
      BY <1>1, <1>2 DEF BeginWeb, Goto, CallType
    <2>2. job'[p].mode = "web"
      BY <2>1 DEF Work
    <2>3. QED
      BY <2>1, <2>2 DEF Aligned, Heals
  <1>3. CASE \E a : Finish(p, a)
    BY <1>1, <1>3, EndingGoes, RestIsAligned
  <1>4. QED
    BY <1>2, <1>3 DEF WebTail, BeginWeb, BeginFails, CommitWeb, CommitFails

\* The stores and the guard, as a step of a call that waits leaves them.
LEMMA WaitingKeepsStores ==
  ASSUME IInv, GuardIsKept, NEW p \in Procs, NEW q \in Procs, p # q, Acts(p),
         Held(p), guard = q
  PROVE  UNCHANGED <<db, repo, guard>>
PROOF
  <1>1. pc[p] \in {"idle", "lock"} /\ q # Nobody
    BY DataAssumption DEF Held
  <1>2. CASE StartWeb(p) \/ StartPush(p) \/ StartMerge(p) \/ StartRead(p)
    <2>1. PICK kind, entry, want, base : Start(p, kind, entry, want, base)
      BY <1>2 DEF StartWeb, StartPush, StartMerge, StartRead
    <2>2. QED
      BY <2>1 DEF Start, locks
  <1>3. ~TakeGuard(p)
    BY <1>1 DEF TakeGuard
  <1>4. ~Proceed(p)
    BY <1>1 DEF Proceed, Ensure, EnsureMissing, EnsurePresent, Align, ReadCurrent,
                LookAtRefs, FindMainMissing, CountEqual, CountBehind, CountAhead,
                SyncFails, GitWrite, BuildCommits, MoveMain, MoveRefused, SetTag,
                WriteDone, GitFails, TagFails, Project, ReadTip, InsertVersion,
                InsertFails, InsertUnanswered, UpdateMeta, TagVersion, WebTail,
                BeginWeb, BeginFails, CommitWeb, CommitFails
  <1>5. QED
    BY <1>2, <1>3, <1>4, GuardedSteps

\* What is known of a call stays so while nothing it speaks of moves.
LEMMA GuardInvKeeps ==
  ASSUME NEW q \in Procs, Held(q), Placed(q), Aligned(q), Same(q), UNCHANGED <<db, repo>>,
         guard = q => guard' = q
  PROVE  (Held(q) /\ Placed(q) /\ Aligned(q))'
PROOF
  <1>1. /\ current' = current /\ dir' = dir /\ main' = main /\ tags' = tags
        /\ rows' = rows /\ dbTitle' = dbTitle
    BY DEF db, repo
  <1>2. Held(q)' /\ Placed(q)'
    BY <1>1 DEF Held, Placed, Same
  <1>3. MaxTag' = MaxTag /\ (TagOnTip(current))' = TagOnTip(current)
        /\ (TagOnTip(have[q]))' = TagOnTip(have[q]) /\ Projectable(main)' = Projectable(main)
    BY <1>1 DEF MaxTag, TagOnTip, Projectable, Same
  <1>4. Fresh(q)' = Fresh(q)
    BY <1>1, <1>3 DEF Fresh, Same
  <1>5. Aligning(q)' = Aligning(q) /\ Heals(q)' = Heals(q)
    BY DEF Aligning, Heals, Same
  <1>6. (Closes(q, job[q].tip))' = Closes(q, job[q].tip)
        /\ (Closes(q, main))' = Closes(q, main)
    BY <1>1 DEF Closes, LastOf, Same
  <1>7. Aligned(q)'
    BY <1>1, <1>3, <1>4, <1>5, <1>6 DEF Aligned, Same, Tip
  <1>8. QED
    BY <1>2, <1>7

\* Every step keeps what is known under the guard.
LEMMA GuardNext ==
  ASSUME GuardIsKept, IInv, IInv', GuardInv, [Next]_vars
  PROVE  GuardInv'
PROOF
  <1>1. \A q \in Procs : Held(q) /\ Placed(q) /\ Aligned(q)
    BY DEF GuardInv
  <1>2. CASE UNCHANGED vars
    <2>1. UNCHANGED <<db, repo, guard>> /\ \A q \in Procs : Same(q)
      BY <1>2 DEF vars, locks, local, Same
    <2>2. QED
      BY <1>1, <2>1, GuardInvKeeps DEF GuardInv
  <1>3. ASSUME NEW p \in Procs, Acts(p)
        PROVE  GuardInv'
    <2>1. Held(p)' /\ Placed(p)'
      BY <1>1, <1>3, HeldKeeps, PlacedKeeps
    <2>2. Aligned(p)'
      <3>1. CASE StartWeb(p) \/ StartPush(p) \/ StartMerge(p) \/ StartRead(p)
        BY <3>1, ArrivalDoes, RestIsAligned
      <3>2. CASE TakeGuard(p)
        BY <1>1, <3>2, EntryAligned
      <3>3. CASE Proceed(p)
        BY <1>1, <3>3, EntryAligned, AlignAligned, GitWriteAligned, ProjectAligned,
           WebTailAligned DEF Proceed
      <3>4. QED
        BY <1>3, <3>1, <3>2, <3>3, GuardedSteps
    <2>3. ASSUME NEW q \in Procs \ {p}
          PROVE  (Held(q) /\ Placed(q) /\ Aligned(q))'
      <3>1. Same(q)
        BY <1>3, ActsAlone DEF OnlyOf
      <3>2. CASE pc[q] \in {"idle", "lock"}
        <4>1. pc'[q] \in {"idle", "lock"} /\ (dir => dir')
          BY <1>3, <3>1, <3>2, DirStays DEF Same
        <4>2. Held(q)' /\ Placed(q)'
          BY <1>1, <3>1, <3>2, <4>1 DEF Held, Placed, Same
        <4>3. QED
          BY <4>1, <4>2, RestIsAligned
      <3>3. CASE pc[q] \notin {"idle", "lock"}
        <4>1. guard = q
          BY <1>1, <3>3 DEF Held
        <4>2. UNCHANGED <<db, repo, guard>>
          BY <1>1, <1>3, <4>1, WaitingKeepsStores
        <4>3. QED
          BY <1>1, <3>1, <4>2, GuardInvKeeps
      <3>4. QED
        BY <3>2, <3>3
    <2>4. QED
      BY <2>1, <2>2, <2>3 DEF GuardInv
  <1>4. CASE Crash
    <2>1. PICK gone \in SUBSET {p \in Procs : pc[p] # "idle"} :
             /\ guard' = IF guard \in gone THEN Nobody ELSE guard
             /\ pc' = [p \in Procs |-> IF p \in gone THEN "idle" ELSE pc[p]]
             /\ req' = [p \in Procs |-> IF p \in gone THEN NoRequest ELSE req[p]]
             /\ phase' = [p \in Procs |-> IF p \in gone THEN "ensure" ELSE phase[p]]
             /\ saw' = [p \in Procs |-> IF p \in gone THEN 0 ELSE saw[p]]
             /\ have' = [p \in Procs |-> IF p \in gone THEN 0 ELSE have[p]]
             /\ job' = [p \in Procs |-> IF p \in gone THEN NoJob ELSE job[p]]
             /\ ver' = [p \in Procs |-> IF p \in gone THEN 0 ELSE ver[p]]
             /\ orphan' = [p \in Procs |-> IF p \in gone THEN FALSE ELSE orphan[p]]
             /\ UNCHANGED <<db, repo>>
      BY <1>4 DEF Crash
    <2>2. ASSUME NEW q \in Procs
          PROVE  (Held(q) /\ Placed(q) /\ Aligned(q))'
      <3>1. CASE q \in gone
        <4>1. pc'[q] = "idle" /\ orphan'[q] = FALSE
          BY <2>1, <3>1
        <4>2. QED
          BY <4>1, RestIsAligned DEF Held, Placed
      <3>2. CASE q \notin gone
        BY <1>1, <2>1, <3>2, GuardInvKeeps DEF Same
      <3>3. QED
        BY <3>1, <3>2
    <2>3. QED
      BY <2>2 DEF GuardInv
  <1>5. CASE Damage
    <2>1. /\ \A q \in Procs : pc[q] = "idle" /\ pc'[q] = "idle" /\ orphan'[q] = orphan[q]
      BY <1>5 DEF Damage, Quiet, local
    <2>2. QED
      BY <1>1, <2>1, RestIsAligned DEF GuardInv, Held, Placed
  <1>6. QED
    BY <1>2, <1>3, <1>4, <1>5 DEF Next, Acts

\* At the start no call is under way.
LEMMA GuardInit == Init => GuardInv
PROOF
  BY DEF Init, GuardInv, Held, Placed, Aligned

\* While the guard is kept, a call at work is alone, in a repository that is
\* there, and what its alignment has read of the two stores is still so.
THEOREM GuardHolds ==
  ASSUME GuardIsKept
  PROVE  Spec => []GuardInv
PROOF
  <1>1. IInv /\ IInv' /\ GuardInv /\ [Next]_vars => GuardInv'
    BY GuardNext
  <1>2. QED
    BY <1>1, GuardInit, Invariance, PTL DEF Spec

\* commit_web_version opens its transaction only with main on the tag of the
\* current version, or on a tip that cannot be projected: no accepted push is
\* left without a version by an edit on top of it.
THEOREM AlignedStart ==
  ASSUME GuardIsKept
  PROVE  Spec => []EditStartsAligned
PROOF
  <1>1. GuardInv => EditStartsAligned
    BY DEF GuardInv, Aligned, EditStartsAligned
  <1>2. QED
    BY <1>1, GuardHolds, PTL

\* A main that was lost is put back only on the tag of a version Postgres
\* knows, under every fault but a dropped handler.
THEOREM RestoredIsOwn ==
  ASSUME GuardIsKept
  PROVE  Spec => RestoredMainIsOwn
PROOF
  <1>1. ASSUME IInv, GuardInv, [Next]_vars, NEW p \in Procs,
               pc[p] = "move", job[p].mode = "restore", main' # main
        PROVE  \E v \in 1..current : tags[v] = main'
    <2>1. guard = p /\ \E v \in 1..current : tags[v] = job[p].tip
      BY <1>1 DEF GuardInv, Held, Aligned
    <2>2. ~Damage /\ ~Crash
      BY <1>1 DEF Damage, Quiet, Crash, repo
    <2>3. ASSUME NEW q \in Procs, Acts(q), q # p
          PROVE  FALSE
      <3>1. Held(q)
        BY <1>1 DEF GuardInv
      <3>2. UNCHANGED repo
        BY <1>1, <2>1, <2>3, <3>1, WaitingKeepsStores
      <3>3. QED
        BY <1>1, <3>2 DEF repo
    <2>4. Acts(p)
      <3>1. ~UNCHANGED vars
        BY <1>1 DEF vars, repo
      <3>2. QED
        BY <1>1, <2>2, <2>3, <3>1 DEF Next, Acts
    <2>5. MoveMain(p)
      <3>1. CASE Arrive(p) \/ TakeGuard(p)
        BY <1>1, <3>1 DEF Arrive, StartWeb, StartPush, StartMerge, StartRead,
                          StartReproject, Start, TakeGuard
      <3>2. CASE Cancel(p) \/ Ensure(p) \/ Align(p) \/ Project(p) \/ WebTail(p)
        BY <1>1, <3>2
           DEF Cancel, Ensure, EnsureMissing, EnsurePresent, Align, ReadCurrent,
               LookAtRefs, FindMainMissing, CountEqual, CountBehind, CountAhead, SyncFails,
               Project, ReadTip, InsertVersion, InsertFails, InsertUnanswered, UpdateMeta,
               TagVersion, WebTail, BeginWeb, BeginFails, CommitWeb, CommitFails, repo
      <3>3. CASE GitWrite(p)
        BY <1>1, <3>3 DEF GitWrite, BuildCommits, MoveMain, MoveRefused, SetTag, WriteDone,
                          GitFails, TagFails, repo
      <3>4. QED
        BY <2>4, <3>1, <3>2, <3>3 DEF Acts, Proceed
    <2>6. QED
      BY <2>1, <2>5 DEF MoveMain
  <1>2. IInv /\ GuardInv /\ [Next]_vars =>
           [\A p \in Procs :
              pc[p] = "move" /\ job[p].mode = "restore" /\ main' # main =>
                 \E v \in 1..current : tags[v] = main']_main
    BY <1>1
  <1>3. QED
    BY <1>2, Invariance, GuardHolds, PTL DEF Spec, RestoredMainIsOwn

-----------------------------------------------------------------------------
(* The order of the version tags, whatever fails under the guard: calls     *)
(* that die, queries, commits and tags that fail, answers that are lost,    *)
(* tags and directories that disappear                                      *)

TagsAreOurs == Faults \cap {"loseMain", "foreignTag"} = {}

\* No entry carries a number above n, no tag stands above n.
UpTo(c, n) == \A i \in 1..Len(c) : c[i].ver <= n
TagsUpTo(n) == \A v \in Versions : tags[v] # NoRef => v <= n

\* The tags stand on main in the order of their numbers, and none names a
\* commit that was made for a later version.
Ordered ==
    /\ ~dir => main = NoRef
    /\ UpTo(main, current + 1)
    /\ TagsUpTo(current + 1)
    /\ \A v \in Versions : tags[v] # NoRef =>
          IsPrefix(tags[v], main) /\ Tip(tags[v]).ver <= v
    /\ \A v, w \in Versions : v <= w /\ tags[w] # NoRef => IsPrefix(tags[v], tags[w])

\* Nothing a call brings carries a number above the next one.
Numbers(q) ==
    /\ req[q].entry.ver <= current + 1 /\ UpTo(req[q].base, current + 1)
    /\ UpTo(job[q].todo, current + 1) /\ UpTo(job[q].tip, current + 1)

\* The version a git write may go up to.
Limit(q) == IF job[q].mode = "web" THEN current + 1 ELSE current

\* Commits for versions that have no tag yet, in their order.
Fit(todo, n) ==
    /\ \A i \in 1..Len(todo) : MaxTag < todo[i].ver /\ todo[i].ver <= n
    /\ \A i, j \in 1..Len(todo) : i < j => todo[i].ver < todo[j].ver

\* Tags that can be set one after the other on c, where t are the ones set.
Plain(t, s, c, n) ==
    /\ \A i \in 1..Len(s) :
          /\ s[i].at # NoRef /\ IsPrefix(s[i].at, c)
          /\ Tip(s[i].at).ver <= s[i].ver /\ s[i].ver <= n
          /\ \A v \in Versions : t[v] # NoRef =>
                v < s[i].ver /\ IsPrefix(t[v], s[i].at)
    /\ \A i, j \in 1..Len(s) : i < j =>
          s[i].ver < s[j].ver /\ IsPrefix(s[i].at, s[j].at)

\* What a call at work is about to do to the tags.
Rising(q) ==
    /\ pc[q] \in {"build", "move", "tag"} /\ Heals(q) => TagsUpTo(current)
    /\ pc[q] = "build" /\ job[q].mode \notin {"push", "merge"} =>
          Fit(job[q].todo, Limit(q))
    /\ pc[q] = "move" /\ main = Expected(q) => Plain(tags, job[q].tags, job[q].tip, Limit(q))
    /\ pc[q] = "tag" => Plain(tags, job[q].tags, main, Limit(q))
    /\ pc[q] \in {"insert", "meta", "mark"} => job[q].tip = main
    /\ pc[q] \in {"meta", "mark"} =>
          ver[q] = current /\ UpTo(main, current) /\ TagsUpTo(current)
    /\ pc[q] = "begin" => TagsUpTo(current)

OrderInv == Ordered /\ \A q \in Procs : Numbers(q) /\ Rising(q)

\* A history that agrees with another entry by entry is its prefix.
LEMMA PrefixByEntries ==
  ASSUME NEW c \in Commit, NEW d \in Commit, Len(c) <= Len(d),
         \A n \in 1..Len(c) : d[n] = c[n]
  PROVE  IsPrefix(c, d)
PROOF
  <1>1. Len(c) \in Nat /\ Len(d) \in Nat /\ \A n \in 1..Len(d) : d[n] \in Entry
    BY LenProperties, ElementOfSeq DEF Commit
  <1>2. \A n \in 1..Len(c) : d[n] \in Entry
    BY <1>1
  <1>3. /\ SubSeq(d, 1, Len(c)) \in Seq(Entry) /\ Len(SubSeq(d, 1, Len(c))) = Len(c)
        /\ \A n \in 1..Len(c) : SubSeq(d, 1, Len(c))[n] = d[n]
    BY <1>1, <1>2, SubSeqProperties
  <1>4. c = SubSeq(d, 1, Len(c))
    BY <1>3, SeqEqual DEF Commit
  <1>5. SubSeq(c, 1, Len(c)) = c
    BY SubSeqFull DEF Commit
  <1>6. QED
    BY <1>4, <1>5 DEF IsPrefix

\* A prefix of a prefix is one.
LEMMA PrefixOfPrefix ==
  ASSUME NEW b \in Commit, NEW c \in Commit, NEW d \in Commit,
         IsPrefix(b, c), IsPrefix(c, d)
  PROVE  IsPrefix(b, d)
PROOF
  <1>1. Len(b) \in Nat /\ Len(c) \in Nat /\ Len(d) \in Nat
    BY LenProperties DEF Commit
  <1>2. Len(b) <= Len(c) /\ \A n \in 1..Len(b) : n \in 1..Len(c) /\ c[n] = b[n]
    BY PrefixKeepsEntries
  <1>3. Len(c) <= Len(d) /\ \A n \in 1..Len(c) : d[n] = c[n]
    BY PrefixKeepsEntries
  <1>4. QED
    BY <1>1, <1>2, <1>3, PrefixByEntries

\* Every history is a prefix of itself.
LEMMA PrefixOfSelf ==
  ASSUME NEW c \in Commit
  PROVE  IsPrefix(c, c)
PROOF
  BY LenProperties, PrefixByEntries DEF Commit

\* Only nothing is a prefix of nothing.
LEMMA PrefixOfNothing ==
  ASSUME NEW c \in Commit, IsPrefix(c, NoRef)
  PROVE  c = NoRef
PROOF
  <1>1. Len(c) \in Nat /\ Len(NoRef) = 0 /\ NoRef \in Commit
    BY LenProperties, EmptySeq DEF Commit, NoRef
  <1>2. Len(c) <= 0
    BY <1>1, PrefixKeepsEntries
  <1>3. Len(c) = 0
    BY <1>1, <1>2
  <1>4. QED
    BY <1>3, EmptySeq DEF Commit, NoRef

\* The first entries of a history, up to the n-th.
LEMMA Beginnings ==
  ASSUME NEW c \in Commit, NEW n \in 1..Len(c)
  PROVE  /\ SubSeq(c, 1, n) \in Commit /\ Len(SubSeq(c, 1, n)) = n
         /\ SubSeq(c, 1, n) # NoRef /\ Tip(SubSeq(c, 1, n)) = c[n]
         /\ IsPrefix(SubSeq(c, 1, n), c)
         /\ \A k \in 1..n : SubSeq(c, 1, n)[k] = c[k]
PROOF
  <1>1. Len(c) \in Nat /\ n \in Nat /\ n >= 1 /\ n <= Len(c)
        /\ \A k \in 1..Len(c) : c[k] \in Entry
    BY LenProperties, ElementOfSeq DEF Commit
  <1>2. \A k \in 1..n : c[k] \in Entry
    BY <1>1
  <1>3. /\ SubSeq(c, 1, n) \in Seq(Entry) /\ Len(SubSeq(c, 1, n)) = n
        /\ \A k \in 1..n : SubSeq(c, 1, n)[k] = c[k]
    BY <1>1, <1>2, SubSeqProperties
  <1>4. SubSeq(c, 1, n) # NoRef
    BY <1>1, <1>3, EmptySeq DEF NoRef
  <1>5. Tip(SubSeq(c, 1, n)) = c[n]
    BY <1>1, <1>3 DEF Tip
  <1>6. IsPrefix(SubSeq(c, 1, n), c)
    BY <1>1, <1>3, PrefixByEntries DEF Commit
  <1>7. QED
    BY <1>3, <1>4, <1>5, <1>6 DEF Commit

\* What tail_commits compares: the last entries of c, in their order.
LEMMA TailEntries ==
  ASSUME NEW c \in Commit, NEW todo \in Commit, InTail(c, todo)
  PROVE  /\ Len(todo) <= Len(c)
         /\ \A i \in 1..Len(todo) : c[Len(c) - Len(todo) + i] = todo[i]
PROOF
  <1> DEFINE rc == [i \in 1..Len(c) |-> c[(Len(c) - i) + 1]]
  <1> DEFINE rt == [i \in 1..Len(todo) |-> todo[(Len(todo) - i) + 1]]
  <1>1. /\ Len(c) \in Nat /\ Len(todo) \in Nat
        /\ \A k \in 1..Len(c) : c[k] \in Entry
        /\ \A k \in 1..Len(todo) : todo[k] \in Entry
    BY LenProperties, ElementOfSeq DEF Commit
  <1>2. rc \in [1..Len(c) -> Entry] /\ rt \in [1..Len(todo) -> Entry]
    BY <1>1
  <1>3. IsPrefix(rt, rc)
    BY DEF InTail, IsSuffix, Reverse
  <1>4. \A i \in 1..Len(todo) : rt[i] = todo[(Len(todo) - i) + 1]
    OBVIOUS
  <1>5. \A i \in 1..Len(c) : rc[i] = c[(Len(c) - i) + 1]
    OBVIOUS
  <1> HIDE DEF rc, rt
  <1>6. rc \in Commit /\ rt \in Commit /\ Len(rc) = Len(c) /\ Len(rt) = Len(todo)
    BY <1>1, <1>2, RangeIsSeq, SMTT(60) DEF Commit
  <1>7. Len(todo) <= Len(c) /\ \A i \in 1..Len(todo) : rc[i] = rt[i]
    BY <1>3, <1>6, PrefixKeepsEntries
  <1>8. ASSUME NEW i \in 1..Len(todo)
        PROVE  c[Len(c) - Len(todo) + i] = todo[i]
    <2> DEFINE k == (Len(todo) - i) + 1
    <2>1. k \in 1..Len(todo) /\ k \in 1..Len(c) /\ (Len(todo) - k) + 1 = i
          /\ (Len(c) - k) + 1 = Len(c) - Len(todo) + i
      BY <1>1, <1>7
    <2> HIDE DEF k
    <2>2. rt[k] = todo[i] /\ rc[k] = c[Len(c) - Len(todo) + i]
      BY <1>4, <1>5, <2>1
    <2>3. QED
      BY <1>7, <2>1, <2>2
  <1>9. QED
    BY <1>7, <1>8

\* The tags stand up to n when the highest does.
LEMMA HighestTag ==
  ASSUME StoreType, NEW n \in Int
  PROVE  /\ MaxTag <= n => TagsUpTo(n)
         /\ TagsUpTo(n) /\ 0 <= n => MaxTag <= n
         /\ \A v \in Versions : tags[v] # NoRef => v <= MaxTag
PROOF
  <1>1. MaxVersion \in Nat /\ Versions = 1..MaxVersion
    BY BoundAssumption DEF Versions
  <1>2. /\ MaxTag \in 0..MaxVersion
        /\ \A v \in Versions : tags[v] # NoRef => v <= MaxTag
        /\ MaxTag # 0 => MaxTag \in Versions /\ tags[MaxTag] # NoRef
    BY MaxTagBounds
  <1>3. QED
    BY <1>1, <1>2 DEF TagsUpTo

\* A number that is high enough stays so.
LEMMA UpToMore ==
  ASSUME NEW c \in Commit, NEW m \in Int, NEW n \in Int, m <= n, UpTo(c, m)
  PROVE  UpTo(c, n)
PROOF
  <1>1. \A i \in 1..Len(c) : c[i] \in Entry
    BY ElementOfSeq DEF Commit
  <1>2. \A i \in 1..Len(c) : c[i].ver \in Int
    BY <1>1, BoundAssumption DEF Entry
  <1>3. QED
    BY <1>2 DEF UpTo

\* What the heal puts on main: the versions above the highest tag, in order.
LEMMA StoredFits ==
  ASSUME StoreType, HistoryHasNoGaps, NEW v \in 0..MaxVersion, MaxTag <= v
  PROVE  Fit(StoredAbove(v), current) /\ UpTo(StoredAbove(v), current)
PROOF
  <1> DEFINE low == IF v + 1 < FirstRow THEN FirstRow - 1 ELSE v
  <1> DEFINE n == current - low
  <1> DEFINE f == [i \in 1..n |-> Canonical(low + i)]
  <1>1. FirstRow \in {1, 2} /\ low \in Nat /\ low >= v /\ n \in Int
        /\ current \in 1..MaxVersion /\ MaxTag \in Nat
    BY BoundAssumption, MaxTagBounds DEF FirstRow, StoreType, Versions
  <1>2. \A i \in 1..n : f[i].ver = low + i
    BY DEF Canonical
  <1>3. f \in [1..n -> {f[i] : i \in 1..n}]
    OBVIOUS
  <1>4. StoredAbove(v) = f
    BY DEF StoredAbove
  <1> HIDE DEF f
  <1>5. Len(f) = IF n < 0 THEN 0 ELSE n
    BY ONLY <1>1, <1>3, RangeIsSeq
  <1>6. ASSUME NEW i \in 1..Len(f)
        PROVE  MaxTag < f[i].ver /\ f[i].ver <= current /\ f[i].ver = low + i
    <2>1. i \in 1..n /\ i \in Nat
      BY <1>1, <1>5
    <2>2. f[i].ver = low + i
      BY <1>2, <2>1
    <2>3. low + i <= current /\ MaxTag < low + i
      BY <1>1, <2>1
    <2>4. QED
      BY <2>2, <2>3
  <1>7. ASSUME NEW i \in 1..Len(f), NEW j \in 1..Len(f), i < j
        PROVE  f[i].ver < f[j].ver
    <2>1. low + i < low + j /\ f[i].ver = low + i /\ f[j].ver = low + j
      BY <1>1, <1>5, <1>6, <1>7
    <2>2. QED
      BY <2>1
  <1>8. QED
    BY <1>4, <1>6, <1>7 DEF Fit, UpTo

\* The tags of a write, when its commits are the last of c: they can be set
\* one after the other, and no tag that stands is in their way.
LEMMA PlainTags ==
  ASSUME StoreType, NEW c \in Commit, NEW todo \in Commit, NEW n \in Int,
         Fit(todo, n), Len(todo) <= Len(c),
         \A i \in 1..Len(todo) : c[Len(c) - Len(todo) + i] = todo[i],
         \A v \in Versions : tags[v] # NoRef => IsPrefix(tags[v], c) /\ Tip(tags[v]).ver <= v
  PROVE  Plain(tags, TagsFor(c, todo), c, n)
PROOF
  <1> DEFINE below == Len(c) - Len(todo)
  <1> DEFINE f == [i \in 1..Len(todo) |->
                      [ver |-> todo[i].ver, at |-> SubSeq(c, 1, below + i)]]
  <1>1. /\ Len(c) \in Nat /\ Len(todo) \in Nat /\ below \in Nat
        /\ \A i \in 1..Len(todo) : todo[i] \in Entry
    BY LenProperties, ElementOfSeq DEF Commit
  <1>2. f \in [1..Len(todo) -> {f[i] : i \in 1..Len(todo)}]
    OBVIOUS
  <1>3. \A i \in 1..Len(todo) : f[i].ver = todo[i].ver /\ f[i].at = SubSeq(c, 1, below + i)
    OBVIOUS
  <1>4. TagsFor(c, todo) = f
    BY DEF TagsFor
  <1>5. \A i \in 1..Len(todo) : c[below + i] = todo[i]
    OBVIOUS
  <1>6. below + Len(todo) = Len(c)
    BY <1>1
  <1> HIDE DEF f, below
  <1>7. Len(f) = Len(todo)
    BY <1>1, <1>2, RangeIsSeq
  <1>8. ASSUME NEW i \in 1..Len(todo)
        PROVE  /\ below + i \in 1..Len(c) /\ todo[i].ver \in Nat
               /\ f[i].at \in Commit /\ Len(f[i].at) = below + i
               /\ f[i].at # NoRef /\ Tip(f[i].at) = todo[i] /\ IsPrefix(f[i].at, c)
               /\ \A k \in 1..(below + i) : f[i].at[k] = c[k]
    <2>1. below + i \in 1..Len(c)
      BY <1>1, <1>6
    <2>2. todo[i].ver \in Nat
      BY <1>1, BoundAssumption DEF Entry
    <2> DEFINE m == below + i
    <2>3. /\ SubSeq(c, 1, m) \in Commit /\ Len(SubSeq(c, 1, m)) = m
          /\ SubSeq(c, 1, m) # NoRef /\ Tip(SubSeq(c, 1, m)) = c[m]
          /\ IsPrefix(SubSeq(c, 1, m), c)
          /\ \A k \in 1..m : SubSeq(c, 1, m)[k] = c[k]
      BY <2>1, Beginnings
    <2>4. f[i].at = SubSeq(c, 1, m) /\ c[m] = todo[i]
      BY <1>3, <1>5
    <2>5. QED
      BY <2>1, <2>2, <2>3, <2>4
  <1>9. ASSUME NEW i \in 1..Len(todo), NEW j \in 1..Len(todo), i < j
        PROVE  IsPrefix(f[i].at, f[j].at)
    <2>1. /\ below + i <= below + j
          /\ \A k \in 1..(below + i) : k \in 1..(below + j)
      BY <1>1, <1>9
    <2>2. /\ f[i].at \in Commit /\ f[j].at \in Commit /\ Len(f[i].at) <= Len(f[j].at)
          /\ \A k \in 1..Len(f[i].at) : f[j].at[k] = f[i].at[k]
      BY <1>8, <2>1
    <2>3. QED
      BY <2>2, PrefixByEntries
  <1>10. ASSUME NEW i \in 1..Len(todo), NEW v \in Versions, tags[v] # NoRef
         PROVE  v < todo[i].ver /\ IsPrefix(tags[v], f[i].at)
    <2>1. /\ tags[v] \in Commit /\ v \in Nat /\ v <= MaxTag /\ MaxTag \in Nat
          /\ Len(tags[v]) \in Nat \ {0}
      BY <1>10, MaxTagBounds, BoundAssumption, LenProperties, EmptySeq
         DEF StoreType, Versions, Commit, NoRef
    <2>2. \A k \in 1..Len(todo) : v < todo[k].ver
      BY <1>8, <2>1, SMTT(60) DEF Fit
    <2>3. /\ Len(tags[v]) <= Len(c)
          /\ \A k \in 1..Len(tags[v]) : c[k] = tags[v][k]
      BY <1>10, <2>1, PrefixKeepsEntries
    <2>4. Len(tags[v]) <= below + i
      <3>1. SUFFICES ASSUME Len(tags[v]) > below + i
                     PROVE  FALSE
        BY <1>1, <2>1
      <3> DEFINE j == Len(tags[v]) - below
      <3>2. j \in 1..Len(todo) /\ below + j = Len(tags[v])
        BY <1>1, <1>6, <2>1, <2>3, <3>1, SMTT(60)
      <3> HIDE DEF j
      <3> DEFINE m == Len(tags[v])
      <3>3. Tip(tags[v]) = todo[j]
        <4>1. c[below + j] = todo[j]
          BY <1>5, <3>2
        <4>2. m \in 1..m
          BY <2>1
        <4>3. c[m] = tags[v][m]
          BY <2>3, <4>2
        <4>4. Tip(tags[v]) = tags[v][m]
          BY DEF Tip
        <4>5. QED
          BY <3>2, <4>1, <4>3, <4>4
      <3>4. todo[j].ver <= v /\ v < todo[j].ver /\ todo[j].ver \in Nat
        BY <1>8, <1>10, <2>2, <3>2, <3>3
      <3>5. QED
        BY <2>1, <3>4
    <2>5. \A k \in 1..Len(tags[v]) : k \in 1..(below + i)
      BY <1>1, <2>1, <2>4
    <2>6. IsPrefix(tags[v], f[i].at)
      <3>1. /\ f[i].at \in Commit /\ tags[v] \in Commit /\ Len(tags[v]) <= Len(f[i].at)
            /\ \A k \in 1..Len(tags[v]) : f[i].at[k] = tags[v][k]
        BY <1>8, <2>1, <2>3, <2>4, <2>5
      <3>2. QED
        BY <3>1, PrefixByEntries
    <2>7. QED
      BY <2>2, <2>6
  <1>11. \A i \in 1..Len(todo) : f[i].ver = todo[i].ver /\ f[i].ver <= f[i].ver
    <2>1. \A k \in Nat : k <= k
      OBVIOUS
    <2>2. TAKE i \in 1..Len(todo)
    <2>3. f[i].ver = todo[i].ver /\ todo[i].ver \in Nat
      BY <1>3, <1>8
    <2>4. QED
      BY <2>1, <2>3
  <1>12. \A i \in 1..Len(f) :
            /\ f[i].at # NoRef /\ IsPrefix(f[i].at, c)
            /\ Tip(f[i].at).ver <= f[i].ver /\ f[i].ver <= n
            /\ \A v \in Versions : tags[v] # NoRef =>
                  v < f[i].ver /\ IsPrefix(tags[v], f[i].at)
    BY <1>7, <1>8, <1>10, <1>11 DEF Fit
  <1>13. \A i, j \in 1..Len(f) : i < j => f[i].ver < f[j].ver /\ IsPrefix(f[i].at, f[j].at)
    BY <1>7, <1>9, <1>11 DEF Fit
  <1>14. QED
    BY <1>4, <1>12, <1>13 DEF Plain

\* The order outlives a version that is added and a directory that is made.
LEMMA OrderedGrows ==
  ASSUME StoreType, StoreType', Ordered, main' = main, tags' = tags, current <= current',
         dir => dir'
  PROVE  Ordered'
PROOF
  <1>1. main \in Commit /\ current \in Int /\ current' \in Int
        /\ \A v \in Versions : v \in Int
    <2>1. Versions \subseteq Int
      BY BoundAssumption DEF Versions
    <2>2. main \in Commit /\ current \in Versions /\ current' \in Versions
      BY DEF StoreType
    <2>3. QED
      BY <2>1, <2>2
  <1> DEFINE m == current + 1
  <1> DEFINE n == current' + 1
  <1>2. m \in Int /\ n \in Int /\ m <= n
    <2>1. \A i, j \in Int : i <= j => i + 1 \in Int /\ j + 1 \in Int /\ i + 1 <= j + 1
      OBVIOUS
    <2>2. QED
      BY <1>1, <2>1, Zenon
  <1>3. UpTo(main, m) /\ \A v \in Versions : tags[v] # NoRef => v <= m
    BY DEF Ordered, TagsUpTo
  <1> HIDE DEF m, n
  <1>4. UpTo(main, n)
    BY <1>1, <1>2, <1>3, UpToMore
  <1>5. \A v \in Versions : tags[v] # NoRef => v <= n
    BY <1>1, <1>2, <1>3
  <1>6. QED
    BY <1>4, <1>5 DEF Ordered, UpTo, TagsUpTo, Tip, n

\* It outlives a main that grows.
LEMMA OrderedOnGrownMain ==
  ASSUME StoreType, StoreType', Ordered, IsPrefix(main, main'), UpTo(main', current + 1),
         tags' = tags, current' = current, dir'
  PROVE  Ordered'
PROOF
  <1>1. main \in Commit /\ main' \in Commit /\ \A v \in Versions : tags[v] \in Commit
    BY DEF StoreType
  <1>2. \A v \in Versions : tags[v] # NoRef => IsPrefix(tags[v], main')
    BY <1>1, PrefixOfPrefix DEF Ordered
  <1>3. QED
    BY <1>2 DEF Ordered, UpTo, TagsUpTo, Tip

\* It outlives a tag that is set as the next of a write, and the rest of the
\* write can still be set.
LEMMA SetTagKeepsOrder ==
  ASSUME StoreType, StoreType', Ordered, main' = main, current' = current, dir' = dir,
         NEW s \in Seq([ver : Versions, at : Commit]), s # << >>,
         NEW n \in Int, n <= current + 1, Plain(tags, s, main, n),
         tags' = [tags EXCEPT ![Head(s).ver] = Head(s).at]
  PROVE  /\ Ordered' /\ Plain(tags', Tail(s), main, n)
         /\ TagsUpTo(n) => \A v \in Versions : tags'[v] # NoRef => v <= n
PROOF
  <1> DEFINE h == Head(s)
  <1> DEFINE t == Tail(s)
  <1>1. /\ Len(s) \in Nat \ {0} /\ h = s[1] /\ h \in [ver : Versions, at : Commit]
        /\ t \in Seq([ver : Versions, at : Commit]) /\ Len(t) = Len(s) - 1
        /\ \A i \in 1..Len(t) : t[i] = s[i + 1]
    <2> DEFINE S == [ver : Versions, at : Commit]
    <2>1. s \in Seq(S)
      OBVIOUS
    <2> HIDE DEF S
    <2>2. /\ t \in Seq(S) /\ h \in S /\ Len(t) = Len(s) - 1
          /\ \A i \in 1..Len(t) : t[i] = s[i + 1]
      BY <2>1, HeadTailProperties
    <2>3. Len(s) \in Nat \ {0} /\ h = s[1]
      BY <2>1, LenProperties, EmptySeq
    <2>4. QED
      BY <2>2, <2>3 DEF S
  <1>2. /\ 1 \in 1..Len(s) /\ h.ver \in Versions /\ h.at \in Commit
        /\ \A i \in 1..Len(t) : i + 1 \in 1..Len(s) /\ 1 < i + 1
        /\ \A i, j \in 1..Len(t) : i < j => i + 1 < j + 1
    BY <1>1
  <1>3. /\ main \in Commit /\ current + 1 \in Int
        /\ \A v \in Versions : tags[v] \in Commit /\ v \in Int
        /\ \A v \in Versions : tags'[v] = IF v = h.ver THEN h.at ELSE tags[v]
    BY <1>2, BoundAssumption, SMTT(60) DEF StoreType, Versions
  <1> HIDE DEF h, t
  <1>4. /\ h.at # NoRef /\ IsPrefix(h.at, main) /\ Tip(h.at).ver <= h.ver /\ h.ver <= n
        /\ \A v \in Versions : tags[v] # NoRef => v < h.ver /\ IsPrefix(tags[v], h.at)
    BY <1>1, <1>2 DEF Plain
  <1>5. h.ver <= current + 1
    BY <1>2, <1>3, <1>4
  <1>6. \A v \in Versions : tags'[v] # NoRef =>
           v <= current + 1 /\ IsPrefix(tags'[v], main) /\ Tip(tags'[v]).ver <= v
    BY <1>3, <1>4, <1>5 DEF Ordered, TagsUpTo
  <1>7. ASSUME NEW v \in Versions, NEW w \in Versions, v <= w, tags'[w] # NoRef
        PROVE  IsPrefix(tags'[v], tags'[w])
    <2>1. CASE w = h.ver /\ v = h.ver
      BY <1>2, <1>3, <2>1, PrefixOfSelf
    <2>2. CASE w = h.ver /\ v # h.ver
      <3>1. CASE tags[v] = NoRef
        BY <1>2, <1>3, <2>2, <3>1, OnTopOfNothing
      <3>2. CASE tags[v] # NoRef
        BY <1>3, <1>4, <2>2, <3>2
      <3>3. QED
        BY <3>1, <3>2
    <2>3. CASE w # h.ver
      <3>1. tags[w] # NoRef /\ tags'[w] = tags[w]
        BY <1>3, <1>7, <2>3
      <3>2. w < h.ver
        BY <1>4, <3>1
      <3>3. v # h.ver
        BY <1>2, <1>3, <1>7, <3>2
      <3>4. tags'[v] = tags[v]
        BY <1>3, <3>3
      <3>5. QED
        BY <1>7, <3>1, <3>4 DEF Ordered
    <2>4. QED
      BY <2>1, <2>2, <2>3
  <1>8. Ordered'
    <2>1. (~dir => main = NoRef)' /\ UpTo(main', current' + 1)
      BY DEF Ordered, UpTo
    <2>2. \A v \in Versions : tags'[v] # NoRef => v <= current' + 1
      BY <1>6
    <2>3. \A v \in Versions : tags'[v] # NoRef => IsPrefix(tags'[v], main') /\ Tip(tags'[v]).ver <= v
      BY <1>6
    <2>4. QED
      BY <1>7, <2>1, <2>2, <2>3 DEF Ordered, TagsUpTo, UpTo, Tip
  <1>9. ASSUME NEW i \in 1..Len(t)
        PROVE  /\ t[i].at # NoRef /\ IsPrefix(t[i].at, main)
               /\ Tip(t[i].at).ver <= t[i].ver /\ t[i].ver <= n
               /\ \A v \in Versions : tags'[v] # NoRef =>
                     v < t[i].ver /\ IsPrefix(tags'[v], t[i].at)
    <2>1. t[i] = s[i + 1] /\ i + 1 \in 1..Len(s) /\ 1 < i + 1
      BY <1>1, <1>2
    <2>2. h.ver < t[i].ver /\ IsPrefix(h.at, t[i].at)
      BY <1>1, <1>2, <2>1 DEF Plain
    <2>3. /\ t[i].at # NoRef /\ IsPrefix(t[i].at, main)
          /\ Tip(t[i].at).ver <= t[i].ver /\ t[i].ver <= n
          /\ \A v \in Versions : tags[v] # NoRef =>
                     v < t[i].ver /\ IsPrefix(tags[v], t[i].at)
      BY <2>1 DEF Plain
    <2>4. QED
      BY <1>3, <2>2, <2>3
  <1>10. ASSUME NEW i \in 1..Len(t), NEW j \in 1..Len(t), i < j
         PROVE  t[i].ver < t[j].ver /\ IsPrefix(t[i].at, t[j].at)
    <2>1. /\ t[i] = s[i + 1] /\ i + 1 \in 1..Len(s)
          /\ t[j] = s[j + 1] /\ j + 1 \in 1..Len(s) /\ i + 1 < j + 1
      BY <1>1, <1>2, <1>10
    <2>2. QED
      BY <2>1 DEF Plain
  <1>11. Plain(tags', t, main, n)
    BY <1>9, <1>10 DEF Plain
  <1>12. TagsUpTo(n) => \A v \in Versions : tags'[v] # NoRef => v <= n
    BY <1>3, <1>4 DEF TagsUpTo
  <1>13. QED
    BY <1>8, <1>11, <1>12 DEF t

\* Numbers that are not above the next one stay so as versions are added.
LEMMA NumbersGrow ==
  ASSUME CallType, StoreType, StoreType', NEW q \in Procs, Numbers(q), current <= current',
         req'[q] \in {req[q], NoRequest}, job'[q] \in {job[q], NoJob}
  PROVE  Numbers(q)'
PROOF
  <1>1. /\ req[q].entry.ver \in Int /\ req[q].base \in Commit
        /\ job[q].todo \in Commit /\ job[q].tip \in Commit
    <2>1. req[q] \in Request /\ job[q] \in Job
      BY DEF CallType
    <2>2. /\ req[q].entry \in Entry /\ req[q].base \in Commit
          /\ job[q].todo \in Commit /\ job[q].tip \in Commit
      BY <2>1 DEF Request, Job
    <2>3. req[q].entry.ver \in 0..MaxVersion
      BY <2>2 DEF Entry
    <2>4. QED
      BY <2>2, <2>3, BoundAssumption
  <1>2. current \in Int /\ current' \in Int
    <2>1. Versions \subseteq Int
      BY BoundAssumption DEF Versions
    <2>2. QED
      BY <2>1 DEF StoreType
  <1> DEFINE m == current + 1
  <1> DEFINE n == current' + 1
  <1>3. m \in Int /\ n \in Int /\ m <= n
    <2>1. \A i, j \in Int : i <= j => i + 1 \in Int /\ j + 1 \in Int /\ i + 1 <= j + 1
      OBVIOUS
    <2>2. QED
      BY <1>2, <2>1, Zenon
  <1>4. 0 <= n
    <2>1. \A i \in Versions : 0 <= i + 1
      BY BoundAssumption DEF Versions
    <2>2. current' \in Versions
      BY DEF StoreType
    <2>3. QED
      BY <2>1, <2>2, Zenon
  <1>5. /\ req[q].entry.ver <= m /\ UpTo(req[q].base, m)
        /\ UpTo(job[q].todo, m) /\ UpTo(job[q].tip, m)
    BY DEF Numbers
  <1> HIDE DEF m, n
  <1>6. /\ req[q].entry.ver <= n /\ UpTo(req[q].base, n)
        /\ UpTo(job[q].todo, n) /\ UpTo(job[q].tip, n)
    BY <1>1, <1>3, <1>5, UpToMore
  <1>7. NoRequest.entry.ver <= n /\ UpTo(NoRequest.base, n)
    <2>1. NoRequest.entry.ver = 0 /\ NoRequest.base = << >>
      BY DEF NoRequest, SomeEntry, NoRef
    <2>2. Len(NoRequest.base) = 0
      BY <2>1, EmptySeq
    <2>3. QED
      BY <1>4, <2>1, <2>2 DEF UpTo
  <1>8. UpTo(NoJob.todo, n) /\ UpTo(NoJob.tip, n)
    <2>1. NoJob.todo = << >> /\ NoJob.tip = << >>
      BY DEF NoJob, Work, NoRef
    <2>2. Len(NoJob.todo) = 0 /\ Len(NoJob.tip) = 0
      BY <2>1, EmptySeq
    <2>3. QED
      BY <2>2 DEF UpTo
  <1>9. /\ req'[q].entry.ver <= n /\ UpTo(req'[q].base, n)
        /\ UpTo(job'[q].todo, n) /\ UpTo(job'[q].tip, n)
    BY <1>6, <1>7, <1>8
  <1>10. QED
    BY <1>9 DEF Numbers, UpTo, n

\* What the endings of a step leave a call with: what it had, or nothing.
Carried(p) == req'[p] \in {req[p], NoRequest} /\ job'[p] \in {job[p], NoJob}

\* Each of them does that.
LEMMA EndingCarries ==
  ASSUME CallType, NEW p \in Procs
  PROVE  /\ \A a : Finish(p, a) => Carried(p)
         /\ \A a : LeaveSync(p, a) => Carried(p)
         /\ LeaveEnsure(p) => Carried(p)
         /\ JobFailed(p) => Carried(p)
         /\ \A s : Step(p, s) => Carried(p)
         /\ job[p].mode \in Modes \ {"none", "project"} /\ JobDone(p) => Carried(p)
         /\ Projected(p) \/ NothingToProject(p) \/ ProjectionFailed(p) => Carried(p)
PROOF
  <1>1. \A a : Finish(p, a) => Carried(p)
    BY DEF CallType, Finish, Forget, Goto, Carried
  <1>2. LeaveEnsure(p) => Carried(p)
    BY <1>1 DEF CallType, LeaveEnsure, Goto, Carried
  <1>3. \A s : Step(p, s) => Carried(p)
    BY DEF CallType, Step, Goto, local, Carried
  <1>4. \A a : LeaveSync(p, a) => Carried(p)
    BY <1>1, <1>2, <1>3 DEF LeaveSync
  <1>5. JobFailed(p) => Carried(p)
    BY <1>1, <1>4 DEF JobFailed
  <1>6. job[p].mode \in Modes \ {"none", "project"} /\ JobDone(p) => Carried(p)
    BY <1>1, <1>2, <1>3, <1>4 DEF JobDone, Modes
  <1>7. Projected(p) \/ NothingToProject(p) => Carried(p)
    BY <1>1, <1>4 DEF Projected, NothingToProject
  <1>8. ProjectionFailed(p) => Carried(p)
    BY <1>1, <1>4 DEF ProjectionFailed, Carried
  <1>9. QED
    BY <1>1, <1>2, <1>3, <1>4, <1>5, <1>6, <1>7, <1>8

\* Where the endings of a step lead, for what is said of the tags.
Calm(p) == pc'[p] \in {"idle", "lock", "ensure", "sync", "look", "count", "read", "commit"}

\* There the call has no tag in hand.
LEMMA CalmRises ==
  ASSUME NEW p \in Procs, Calm(p)
  PROVE  Rising(p)'
PROOF
  BY DEF Calm, Rising

\* However the alignment ends, an edit goes on only with no tag above the
\* current version.
LEMMA LeaveSyncRises ==
  ASSUME CallType, NEW p \in Procs, req[p].kind # "reproject", NEW a, LeaveSync(p, a),
         a = "ok" /\ phase[p] # "ensure" => TagsUpTo(current)'
  PROVE  Rising(p)'
PROOF
  <1>1. CASE pc'[p] \in {"idle", "lock"}
    BY <1>1, CalmRises DEF Calm
  <1>2. CASE pc'[p] = "begin" /\ TagsUpTo(current)'
    BY <1>2 DEF Rising
  <1>3. QED
    BY <1>1, <1>2, EndingGoes

\* Without main there are no tags.
LEMMA NoMainNoTags ==
  ASSUME StoreType, Ordered, main = NoRef
  PROVE  MaxTag = 0
PROOF
  <1>1. \A v \in Versions : tags[v] # NoRef => IsPrefix(tags[v], NoRef)
    BY DEF Ordered
  <1>2. \A v \in Versions : tags[v] = NoRef
    BY <1>1, PrefixOfNothing DEF StoreType
  <1>3. QED
    BY <1>2, MaxTagBounds

\* The versions Postgres has above the highest tag can be put on main.
LEMMA StoredRises ==
  ASSUME CallType, StoreType, HistoryHasNoGaps, Ordered, NEW p \in Procs, Numbers(p),
         req[p].kind # "reproject", NEW v \in 0..MaxVersion, MaxTag <= v, v <= current,
         NEW mode \in {"bootstrap", "rebuild", "append"},
         Hand(p, "build", Work(mode, StoredAbove(v))),
         main' = main, tags' = tags, current' = current
  PROVE  Numbers(p)' /\ Rising(p)'
PROOF
  <1>1. \A todo : /\ Work(mode, todo).mode = mode /\ Work(mode, todo).todo = todo
                  /\ Work(mode, todo).tip = << >>
    BY DEF Work, NoRef
  <1>2. UpTo(<< >>, current + 1)
    <2>1. Len(<< >>) = 0
      BY EmptySeq
    <2>2. QED
      BY <2>1 DEF UpTo
  <1>3. /\ pc'[p] = "build" /\ job'[p].mode = mode /\ job'[p].tip = << >>
        /\ job'[p].todo = StoredAbove(v) /\ req' = req
    BY <1>1, EndingGoes
  <1>4. Fit(StoredAbove(v), current) /\ UpTo(StoredAbove(v), current)
    BY StoredFits
  <1>5. MaxTag' = MaxTag
    BY DEF MaxTag
  <1>6. TagsUpTo(current)'
    <2>1. MaxTag <= current /\ current \in Int
      BY MaxTagBounds, BoundAssumption DEF StoreType, Versions
    <2>2. TagsUpTo(current)
      BY <2>1, HighestTag
    <2>3. QED
      BY <2>2 DEF TagsUpTo
  <1>7. Rising(p)'
    <2>1. Fit(job[p].todo, current)'
      BY <1>3, <1>4, <1>5 DEF Fit
    <2>2. QED
      BY <1>3, <1>6, <2>1 DEF Rising, Limit
  <1>8. StoredAbove(v) \in Commit
    BY StoredType
  <1>9. UpTo(StoredAbove(v), current + 1)
    BY <1>4, <1>8, UpToMore, BoundAssumption DEF Versions, StoreType
  <1>10. Numbers(p)'
    <2>1. /\ req[p].entry.ver <= current + 1 /\ UpTo(req[p].base, current + 1)
          /\ UpTo(job'[p].todo, current + 1) /\ UpTo(job'[p].tip, current + 1)
      BY <1>2, <1>3, <1>9 DEF Numbers
    <2>2. QED
      BY <1>3, <2>1 DEF Numbers, UpTo
  <1>11. QED
    BY <1>7, <1>10

\* The entry of a call keeps the order and promises nothing.
LEMMA EntryRises ==
  ASSUME IInv, IInv', GuardIsKept, NEW p \in Procs, Held(p), Ordered, Numbers(p), Rising(p),
         TakeGuard(p) \/ Ensure(p)
  PROVE  Ordered' /\ Numbers(p)' /\ Rising(p)'
PROOF
  <1>1. CallType /\ CallInv(p) /\ StoreType /\ StoreType' /\ HistoryHasNoGaps
        /\ current \in Versions /\ 0 \in 0..MaxVersion
    BY BoundAssumption DEF IInv, CallsInv, CallType, StoreType
  <1>2. main' = main /\ tags' = tags /\ current' = current /\ (dir => dir') /\ rows' = rows
        /\ dbTitle' = dbTitle
    BY DEF TakeGuard, Ensure, EnsureMissing, EnsurePresent, db, repo
  <1>3. current <= current'
    <2>1. \A i \in Versions : i <= i
      BY BoundAssumption DEF Versions
    <2>2. QED
      BY <1>1, <1>2, <2>1
  <1>4. Ordered'
    BY <1>1, <1>2, <1>3, OrderedGrows
  <1>5. \A mode, todo : /\ Work(mode, todo).mode = mode /\ Work(mode, todo).todo = todo
                        /\ Work(mode, todo).tip = << >>
    BY DEF Work, NoRef
  <1>6. UpTo(<< >>, current + 1)
    <2>1. Len(<< >>) = 0
      BY EmptySeq
    <2>2. QED
      BY <2>1 DEF UpTo
  <1>7. CASE TakeGuard(p)
    <2>1. CASE pc'[p] \in {"ensure", "sync"} /\ UNCHANGED <<req, job>>
      BY <1>1, <1>3, <1>4, <2>1, CalmRises, NumbersGrow DEF Calm
    <2>2. CASE /\ pc'[p] = "build" /\ req[p].kind \in {"push", "merge"} /\ req' = req
               /\ job'[p] = Work(req[p].kind, <<req[p].entry>>)
      <3>1. /\ job'[p].mode \in {"push", "merge"} /\ job'[p].todo = <<req[p].entry>>
            /\ job'[p].tip = << >>
        BY <1>5, <2>2
      <3>2. Rising(p)'
        BY <2>2, <3>1 DEF Rising, Heals
      <3>3. Len(<<req[p].entry>>) = 1 /\ <<req[p].entry>>[1] = req[p].entry
        OBVIOUS
      <3>4. UpTo(<<req[p].entry>>, current + 1)
        BY <3>3 DEF UpTo, Numbers
      <3>5. Numbers(p)'
        <4>1. /\ req[p].entry.ver <= current + 1 /\ UpTo(req[p].base, current + 1)
              /\ UpTo(job'[p].todo, current + 1) /\ UpTo(job'[p].tip, current + 1)
          BY <1>6, <3>1, <3>4 DEF Numbers
        <4>2. QED
          BY <1>2, <2>2, <4>1 DEF Numbers, UpTo
      <3>6. QED
        BY <1>4, <3>2, <3>5
    <2>3. QED
      BY <1>1, <1>7, <2>1, <2>2 DEF TakeGuard, Goto, CallType, CallInv, Control
  <1>8. CASE Ensure(p)
    <2>1. req[p].kind # "reproject"
      BY <1>8 DEF Ensure, EnsureMissing, EnsurePresent, Held
    <2>2. CASE LeaveEnsure(p) \/ Step(p, "sync")
      <3>1. Carried(p) /\ pc'[p] \in {"idle", "lock", "sync"}
        BY <1>1, <2>1, <2>2, EndingGoes, EndingCarries
      <3>2. QED
        BY <1>1, <1>3, <1>4, <3>1, CalmRises, NumbersGrow DEF Calm, Carried
    <2>3. CASE ~dir /\ Hand(p, "build", Work("bootstrap", StoredAbove(0)))
      <3>1. MaxTag <= 0
        BY <1>1, <2>3, NoMainNoTags DEF Ordered
      <3>2. 0 <= current
        BY <1>1, BoundAssumption DEF Versions
      <3>3. QED
        BY <1>1, <1>2, <1>4, <2>1, <2>3, <3>1, <3>2, StoredRises
    <2>4. QED
      BY <1>8, <2>2, <2>3 DEF Ensure, EnsureMissing, EnsurePresent
  <1>9. QED
    BY <1>7, <1>8

\* The alignment lets a write begin only with no tag above the current
\* version, or above what it has counted.
LEMMA AlignRises ==
  ASSUME IInv, IInv', NEW p \in Procs, Held(p), Placed(p), Aligned(p), Ordered, Numbers(p),
         Rising(p), Align(p)
  PROVE  Ordered' /\ Numbers(p)' /\ Rising(p)'
PROOF
  <1>1. CallType /\ CallInv(p) /\ StoreType /\ StoreType' /\ HistoryHasNoGaps
        /\ current \in Versions /\ 0 \in 0..MaxVersion
        /\ have[p] \in 0..MaxVersion
    BY BoundAssumption DEF IInv, CallsInv, CallType, StoreType
  <1>2. pc[p] \in {"sync", "look", "count"} /\ req[p].kind # "reproject" /\ dir
    BY DEF Align, ReadCurrent, LookAtRefs, FindMainMissing, CountEqual, CountBehind,
           CountAhead, SyncFails, Held, Placed
  <1>3. main' = main /\ tags' = tags /\ current' = current /\ dir' = dir
    BY <1>2 DEF Align, ReadCurrent, LookAtRefs, FindMainMissing, CountEqual, CountBehind,
           CountAhead, SyncFails, repo, db
  <1>4. current \in Int /\ 0 <= current /\ current <= current'
    <2>1. \A i \in Versions : i \in Int /\ 0 <= i /\ i <= i
      BY BoundAssumption DEF Versions
    <2>2. QED
      BY <1>1, <1>3, <2>1
  <1>5. Ordered'
    BY <1>1, <1>3, <1>4, OrderedGrows
  <1>6. ASSUME Carried(p), Calm(p)
        PROVE  Numbers(p)' /\ Rising(p)'
    BY <1>1, <1>4, <1>6, CalmRises, NumbersGrow DEF Carried
  <1>7. MaxTag <= current => TagsUpTo(current)'
    <2>1. TagsUpTo(current)' = TagsUpTo(current)
      BY <1>3 DEF TagsUpTo
    <2>2. QED
      BY <1>1, <1>4, <2>1, HighestTag
  <1>8. ASSUME NEW a, LeaveSync(p, a), a = "ok" => MaxTag <= current
        PROVE  Numbers(p)' /\ Rising(p)'
    <2>1. Rising(p)'
      BY <1>1, <1>2, <1>7, <1>8, LeaveSyncRises
    <2>2. Carried(p)
      BY <1>1, <1>8, EndingCarries
    <2>3. QED
      BY <1>1, <1>4, <2>1, <2>2, NumbersGrow DEF Carried
  <1>9. CASE ReadCurrent(p)
    <2>1. Carried(p) /\ Calm(p)
      BY <1>1, <1>2, <1>9 DEF ReadCurrent, Goto, CallType, Carried, Calm
    <2>2. QED
      BY <1>5, <1>6, <2>1
  <1>10. CASE LookAtRefs(p)
    <2>1. Carried(p) /\ Calm(p)
      BY <1>1, <1>2, <1>10 DEF LookAtRefs, Goto, CallType, Carried, Calm
    <2>2. QED
      BY <1>5, <1>6, <2>1
  <1>11. CASE FindMainMissing(p)
    <2>1. MaxTag = 0
      BY <1>1, <1>11, NoMainNoTags DEF FindMainMissing
    <2>2. ~((IF MaxTag < saw[p] THEN MaxTag ELSE saw[p]) > 0)
      <3>1. saw[p] \in 0..MaxVersion
        BY <1>1 DEF CallType
      <3>2. QED
        BY <2>1, <3>1, BoundAssumption
    <2>3. CASE Rebuild(p)
      BY <1>1, <1>2, <1>3, <1>4, <1>5, <2>1, <2>3, StoredRises DEF Rebuild
    <2>4. CASE ~Rebuild(p)
      <3>1. Goto(p, "count") /\ UNCHANGED <<req, job>>
        BY <1>11, <2>2, <2>4 DEF FindMainMissing
      <3>2. Carried(p) /\ Calm(p)
        BY <1>1, <3>1 DEF Goto, CallType, Carried, Calm
      <3>3. QED
        BY <1>5, <1>6, <3>2
    <2>5. QED
      BY <2>3, <2>4
  <1>12. pc[p] = "count" => saw[p] = current /\ have[p] = MaxTag
    BY DEF Aligned, Fresh
  <1>13. ASSUME Step(p, "read")
         PROVE  Numbers(p)' /\ Rising(p)'
    <2>1. Carried(p) /\ Calm(p)
      BY <1>1, <1>2, <1>13, EndingGoes, EndingCarries DEF Calm
    <2>2. QED
      BY <1>6, <2>1
  <1>14. CASE CountEqual(p)
    <2>1. MaxTag <= current
      BY <1>4, <1>12, <1>14 DEF CountEqual
    <2>2. QED
      BY <1>5, <1>8, <1>13, <1>14, <2>1 DEF CountEqual
  <1>15. CASE CountBehind(p)
    <2>1. MaxTag <= current /\ have[p] = MaxTag /\ MaxTag <= MaxTag
      BY <1>1, <1>4, <1>12, <1>15, MaxTagBounds DEF CountBehind
    <2>2. CASE LeaveSync(p, IF have[p] = 0 /\ main = NoRef THEN "ok" ELSE "outOfSync")
      BY <1>5, <1>8, <2>1, <2>2
    <2>3. CASE Hand(p, "build", Work("append", StoredAbove(have[p])))
      BY <1>1, <1>2, <1>3, <1>5, <2>1, <2>3, StoredRises
    <2>4. QED
      BY <1>15, <2>2, <2>3 DEF CountBehind
  <1>16. CASE CountAhead(p)
    BY <1>5, <1>8, <1>13, <1>16 DEF CountAhead
  <1>17. CASE SyncFails(p)
    BY <1>5, <1>8, <1>17 DEF SyncFails
  <1>18. QED
    BY <1>9, <1>10, <1>11, <1>14, <1>15, <1>16, <1>17 DEF Align

\* Commits on top of a history carry no higher numbers than both.
LEMMA UpToConcat ==
  ASSUME NEW c \in Commit, NEW todo \in Commit, NEW n, UpTo(c, n), UpTo(todo, n)
  PROVE  UpTo(c \o todo, n)
PROOF
  <1>1. /\ Len(c) \in Nat /\ Len(todo) \in Nat /\ Len(c \o todo) = Len(c) + Len(todo)
        /\ \A i \in 1..Len(c) + Len(todo) :
              (c \o todo)[i] = IF i <= Len(c) THEN c[i] ELSE todo[i - Len(c)]
    BY ConcatProperties, LenProperties DEF Commit
  <1>2. ASSUME NEW i \in 1..Len(c) + Len(todo)
        PROVE  (c \o todo)[i].ver <= n
    <2>1. CASE i <= Len(c)
      <3>1. i \in 1..Len(c)
        BY <1>1, <2>1
      <3>2. c[i].ver <= n
        BY <3>1 DEF UpTo
      <3>3. QED
        BY <1>1, <2>1, <3>2
    <2>2. CASE ~(i <= Len(c))
      <3>1. i - Len(c) \in 1..Len(todo)
        BY <1>1, <2>2
      <3>2. todo[i - Len(c)].ver <= n
        BY <3>1 DEF UpTo
      <3>3. QED
        BY <1>1, <2>2, <3>2
    <2>3. QED
      BY <2>1, <2>2
  <1>3. QED
    BY <1>1, <1>2 DEF UpTo

\* The commits put on top of a history are its last.
LEMMA LastOfConcat ==
  ASSUME NEW c \in Commit, NEW todo \in Commit
  PROVE  /\ Len(todo) <= Len(c \o todo)
         /\ \A i \in 1..Len(todo) : (c \o todo)[Len(c \o todo) - Len(todo) + i] = todo[i]
PROOF
  <1>1. /\ Len(c) \in Nat /\ Len(todo) \in Nat /\ Len(c \o todo) = Len(c) + Len(todo)
        /\ \A i \in 1..Len(c) + Len(todo) :
              (c \o todo)[i] = IF i <= Len(c) THEN c[i] ELSE todo[i - Len(c)]
    BY ConcatProperties, LenProperties DEF Commit
  <1>2. ASSUME NEW i \in 1..Len(todo)
        PROVE  (c \o todo)[Len(c \o todo) - Len(todo) + i] = todo[i]
    <2>1. /\ Len(c \o todo) - Len(todo) + i = Len(c) + i
          /\ Len(c) + i \in 1..Len(c) + Len(todo) /\ ~(Len(c) + i <= Len(c))
          /\ (Len(c) + i) - Len(c) = i
      BY <1>1
    <2>2. QED
      BY <1>1, <2>1
  <1>3. QED
    BY <1>1, <1>2

\* A git write sets its tags in order, each above the ones that stand.
LEMMA GitWriteRises ==
  ASSUME IInv, IInv', NEW p \in Procs, Held(p), Placed(p), Aligned(p), Ordered, Numbers(p),
         Rising(p), GitWrite(p)
  PROVE  Ordered' /\ Numbers(p)' /\ Rising(p)'
PROOF
  <1>1. /\ CallType /\ CallInv(p) /\ StoreType /\ StoreType' /\ HistoryHasNoGaps
        /\ current \in Versions /\ main \in Commit /\ job[p] \in Job /\ req[p] \in Request
    BY DEF IInv, CallsInv, CallType, StoreType
  <1>2. /\ pc[p] \in {"build", "move", "tag"} /\ req[p].kind # "reproject" /\ ~orphan[p]
        /\ job[p].mode \in Modes \ {"none", "project"} /\ dir
    BY <1>1 DEF GitWrite, BuildCommits, MoveMain, MoveRefused, SetTag, WriteDone, GitFails,
           TagFails, Held, Placed, CallInv, Control, Job
  <1>3. current' = current /\ dir' = dir
    BY DEF GitWrite, BuildCommits, MoveMain, MoveRefused, SetTag, WriteDone, GitFails,
           TagFails, db, repo
  <1>4. current \in Int /\ 0 <= current /\ current <= current'
    <2>1. \A i \in Versions : i \in Int /\ 0 <= i /\ i <= i
      BY BoundAssumption DEF Versions
    <2>2. QED
      BY <1>1, <1>3, <2>1
  <1>5. job[p].todo \in Commit /\ req[p].base \in Commit /\ job[p].tip \in Commit
        /\ job[p].tags \in Seq([ver : Versions, at : Commit])
    BY <1>1 DEF Job, Request
  <1>6. Limit(p) \in Int /\ Limit(p) <= current + 1
        /\ (job[p].mode # "web" => Limit(p) = current)
    BY <1>4 DEF Limit
  <1>7. ASSUME main' = main, tags' = tags
        PROVE  Ordered'
    BY <1>1, <1>3, <1>4, <1>7, OrderedGrows
  <1>8. ASSUME Carried(p), Calm(p), main' = main, tags' = tags
        PROVE  Ordered' /\ Numbers(p)' /\ Rising(p)'
    BY <1>1, <1>4, <1>7, <1>8, CalmRises, NumbersGrow DEF Carried
  <1>9. ASSUME JobFailed(p), main' = main, tags' = tags
        PROVE  Ordered' /\ Numbers(p)' /\ Rising(p)'
    <2>1. Carried(p) /\ Calm(p)
      BY <1>1, <1>2, <1>9, EndingGoes, EndingCarries DEF Calm
    <2>2. QED
      BY <1>8, <1>9, <2>1
  <1>10. CASE BuildCommits(p)
    <2> DEFINE mode == job[p].mode
    <2> DEFINE todo == job[p].todo
    <2> DEFINE base == CASE mode \in {"bootstrap", "rebuild"} -> NoRef
                         [] mode = "push"                     -> req[p].base
                         [] OTHER                             -> main
    <2>1. base \in Commit
      BY <1>1, <1>5, EmptySeq DEF NoRef, Commit
    <2>2. base \o todo \in Commit /\ IsPrefix(base, base \o todo)
      BY <1>5, <2>1, OnTopOfBase
    <2>3. pc[p] = "build" /\ main' = main /\ tags' = tags
      BY <1>10 DEF BuildCommits, repo
    <2>4. /\ Heals(p) => TagsUpTo(current)
          /\ mode \notin {"push", "merge"} => Fit(todo, Limit(p))
      BY <2>3 DEF Rising
    <2>5. UpTo(base, current + 1)
      <3>1. UpTo(NoRef, current + 1)
        <4>1. Len(NoRef) = 0
          BY EmptySeq DEF NoRef
        <4>2. QED
          BY <4>1 DEF UpTo
      <3>2. UpTo(main, current + 1) /\ UpTo(req[p].base, current + 1)
        BY DEF Ordered, Numbers
      <3>3. QED
        BY <3>1, <3>2
    <2>6. UpTo(base \o todo, current + 1)
      BY <1>5, <2>1, <2>5, UpToConcat DEF Numbers
    <2>7. ASSUME NEW s \in {"move", "tag"}, NEW w, Hand(p, s, w), w.mode = mode,
                 w.todo = todo, w.tip \in {job[p].tip, base \o todo},
                 s = "tag" => Plain(tags, w.tags, main, Limit(p)),
                 s = "move" => w.tip = base \o todo
                               /\ (main = (IF mode = "push" THEN req[p].base ELSE w.parent)
                                      => Plain(tags, w.tags, w.tip, Limit(p)))
          PROVE  Ordered' /\ Numbers(p)' /\ Rising(p)'
      <3>1. pc'[p] = s /\ job'[p] = w /\ req' = req
        BY <1>1, <1>2, <2>7, EndingGoes
      <3>2. Numbers(p)'
        <4>1. /\ req[p].entry.ver <= current + 1 /\ UpTo(req[p].base, current + 1)
              /\ UpTo(w.todo, current + 1) /\ UpTo(w.tip, current + 1)
          BY <2>6, <2>7 DEF Numbers
        <4>2. QED
          BY <1>3, <3>1, <4>1, SMTT(60) DEF Numbers, UpTo
      <3>3. Limit(p)' = Limit(p)
        BY <1>3, <2>7, <3>1 DEF Limit
      <3>4. (pc[p] \in {"build", "move", "tag"} /\ Heals(p) => TagsUpTo(current))'
        BY <1>3, <2>3, <2>4, <2>7, <3>1, SMTT(60) DEF Heals, TagsUpTo
      <3>5. (pc[p] = "move" /\ main = Expected(p) =>
                Plain(tags, job[p].tags, job[p].tip, Limit(p)))'
        BY <2>3, <2>7, <3>1, <3>3 DEF Expected, Plain, Tip
      <3>6. (pc[p] = "tag" => Plain(tags, job[p].tags, main, Limit(p)))'
        BY <2>3, <2>7, <3>1, <3>3 DEF Plain, Tip
      <3>7. Rising(p)'
        BY <3>1, <3>4, <3>5, <3>6 DEF Rising
      <3>8. QED
        BY <1>7, <2>3, <3>2, <3>7
    <2>8. CASE JobFailed(p)
      BY <1>9, <2>3, <2>8, SMTT(60)
    <2>9. CASE /\ mode = "append" /\ InTail(main, todo)
               /\ Hand(p, "tag", [job[p] EXCEPT !.tags = TagsFor(main, todo)])
      <3> DEFINE w == [job[p] EXCEPT !.tags = TagsFor(main, todo)]
      <3>1. w.mode = mode /\ w.tags = TagsFor(main, todo) /\ w.todo = todo /\ w.tip = job[p].tip
        BY <1>1 DEF Job
      <3>2. Plain(tags, TagsFor(main, todo), main, Limit(p))
        <4>1. /\ Len(todo) <= Len(main)
              /\ \A i \in 1..Len(todo) : main[Len(main) - Len(todo) + i] = todo[i]
          BY <1>1, <1>5, <2>9, TailEntries
        <4>2. Fit(todo, Limit(p))
          BY <2>4, <2>9
        <4>3. \A v \in Versions : tags[v] # NoRef =>
                 IsPrefix(tags[v], main) /\ Tip(tags[v]).ver <= v
          BY DEF Ordered
        <4>4. QED
          BY <1>1, <1>5, <1>6, <4>1, <4>2, <4>3, PlainTags
      <3>3. Hand(p, "tag", w)
        BY <2>9
      <3> HIDE DEF w
      <3>4. QED
        BY <2>7, <3>1, <3>2, <3>3
    <2>10. CASE Hand(p, "move",
                    [job[p] EXCEPT
                       !.parent = IF mode = "push" THEN main ELSE base,
                       !.tip    = base \o todo,
                       !.tags   = IF mode \in {"push", "merge"} THEN <<>>
                                  ELSE TagsFor(base \o todo, todo)])
      <3> DEFINE w == [job[p] EXCEPT
                       !.parent = IF mode = "push" THEN main ELSE base,
                       !.tip    = base \o todo,
                       !.tags   = IF mode \in {"push", "merge"} THEN <<>>
                                  ELSE TagsFor(base \o todo, todo)]
      <3>1. Hand(p, "move", w)
        BY <2>10
      <3>2. /\ w.mode = mode /\ w.tip = base \o todo /\ w.todo = todo
            /\ mode \in {"push", "merge"} => w.tags = << >>
            /\ mode \notin {"push", "merge"} => w.tags = TagsFor(base \o todo, todo)
            /\ mode # "push" => w.parent = base
        BY <1>1 DEF Job
      <3> HIDE DEF w, base
      <3>3. ASSUME main = (IF mode = "push" THEN req[p].base ELSE w.parent)
            PROVE  Plain(tags, w.tags, w.tip, Limit(p))
        <4>1. CASE mode \in {"push", "merge"}
          <5>1. Len(w.tags) = 0
            BY <3>2, <4>1, EmptySeq
          <5>2. QED
            BY <5>1 DEF Plain
        <4>2. CASE mode \notin {"push", "merge"}
          <5>1. main = base /\ w.tags = TagsFor(base \o todo, todo) /\ w.tip = base \o todo
            BY <3>2, <3>3, <4>2
          <5>2. \A v \in Versions : tags[v] # NoRef =>
                   IsPrefix(tags[v], base \o todo) /\ Tip(tags[v]).ver <= v
            BY <1>1, <2>1, <2>2, <5>1, PrefixOfPrefix DEF Ordered, StoreType
          <5>3. /\ Len(todo) <= Len(base \o todo)
                /\ \A i \in 1..Len(todo) :
                      (base \o todo)[Len(base \o todo) - Len(todo) + i] = todo[i]
            BY <1>5, <2>1, LastOfConcat
          <5>4. Fit(todo, Limit(p))
            BY <2>4, <4>2
          <5>5. Plain(tags, TagsFor(base \o todo, todo), base \o todo, Limit(p))
            BY <1>1, <1>5, <1>6, <2>2, <5>2, <5>3, <5>4, PlainTags
          <5>6. QED
            BY <5>1, <5>5
        <4>3. QED
          BY <4>1, <4>2
      <3>4. QED
        BY <2>7, <3>1, <3>2, <3>3
    <2>11. QED
      BY <1>10, <2>8, <2>9, <2>10 DEF BuildCommits
  <1>11. CASE MoveMain(p)
    <2>1. /\ pc[p] = "move" /\ main = Expected(p) /\ main' = job[p].tip /\ tags' = tags
          /\ pc'[p] = "tag" /\ job' = job /\ req' = req
      BY <1>1, <1>2, <1>11, EndingGoes DEF MoveMain, local
    <2>2. IsPrefix(main, main') /\ UpTo(main', current + 1)
      BY <1>1, <2>1 DEF CallInv, OnTop, Numbers
    <2>3. Ordered'
      BY <1>1, <1>2, <1>3, <2>1, <2>2, OrderedOnGrownMain
    <2>4. Numbers(p)'
      BY <1>1, <1>4, <2>1, NumbersGrow
    <2>5. Limit(p)' = Limit(p)
      BY <1>3, <2>1 DEF Limit
    <2>6. Plain(tags, job[p].tags, job[p].tip, Limit(p))
      BY <2>1 DEF Rising
    <2>7. (Heals(p) => TagsUpTo(current))'
      BY <1>3, <2>1 DEF Rising, Heals, TagsUpTo
    <2>8. (Plain(tags, job[p].tags, main, Limit(p)))'
      BY <2>1, <2>5, <2>6 DEF Plain, Tip
    <2>9. Rising(p)'
      BY <2>1, <2>7, <2>8 DEF Rising
    <2>10. QED
      BY <2>3, <2>4, <2>9
  <1>12. CASE MoveRefused(p)
    <2>1. main' = main /\ tags' = tags
      BY <1>12 DEF MoveRefused, repo
    <2>2. CASE JobFailed(p)
      BY <1>9, <2>1, <2>2
    <2>3. CASE Finish(p, "unversioned") \/ Step(p, "read")
      <3>1. Carried(p) /\ Calm(p)
        BY <1>1, <1>2, <2>3, EndingGoes, EndingCarries DEF Calm
      <3>2. QED
        BY <1>8, <2>1, <3>1
    <2>4. QED
      BY <1>12, <2>2, <2>3 DEF MoveRefused
  <1>13. CASE SetTag(p)
    <2> DEFINE w == [job[p] EXCEPT !.tags = Tail(job[p].tags)]
    <2>1. /\ pc[p] = "tag" /\ job[p].tags # << >> /\ main' = main
          /\ tags' = [tags EXCEPT ![Head(job[p].tags).ver] = Head(job[p].tags).at]
          /\ Hand(p, "tag", w)
      BY <1>13 DEF SetTag
    <2>2. /\ w.mode = job[p].mode /\ w.tags = Tail(job[p].tags) /\ w.todo = job[p].todo
          /\ w.tip = job[p].tip
      BY <1>1 DEF Job
    <2> HIDE DEF w
    <2>3. pc'[p] = "tag" /\ job'[p] = w /\ req' = req
      BY <1>1, <1>2, <2>1, EndingGoes
    <2>4. Plain(tags, job[p].tags, main, Limit(p))
      BY <2>1 DEF Rising
    <2>5. /\ Ordered' /\ Plain(tags', Tail(job[p].tags), main, Limit(p))
          /\ TagsUpTo(Limit(p)) => \A v \in Versions : tags'[v] # NoRef => v <= Limit(p)
      BY <1>1, <1>3, <1>5, <1>6, <2>1, <2>4, SetTagKeepsOrder
    <2>6. Limit(p)' = Limit(p)
      BY <1>3, <2>2, <2>3 DEF Limit
    <2>7. (Heals(p) => TagsUpTo(current))'
      <3>1. ASSUME Heals(p)
            PROVE  \A v \in Versions : tags'[v] # NoRef => v <= current
        <4>1. Limit(p) = current /\ TagsUpTo(current)
          BY <1>6, <2>1, <3>1, SMTT(60) DEF Heals, Rising
        <4>2. QED
          BY <2>5, <4>1
      <3>2. QED
        BY <1>3, <2>2, <2>3, <3>1 DEF Heals, TagsUpTo
    <2>8. (Plain(tags, job[p].tags, main, Limit(p)))'
      BY <2>1, <2>2, <2>3, <2>5, <2>6 DEF Plain, Tip
    <2>9. Rising(p)'
      BY <2>3, <2>7, <2>8 DEF Rising
    <2>10. Numbers(p)'
      <3>1. /\ req[p].entry.ver <= current + 1 /\ UpTo(req[p].base, current + 1)
            /\ UpTo(w.todo, current + 1) /\ UpTo(w.tip, current + 1)
        BY <2>2 DEF Numbers
      <3>2. QED
        BY <1>3, <2>3, <3>1 DEF Numbers, UpTo
    <2>11. QED
      BY <2>5, <2>9, <2>10
  <1>14. CASE WriteDone(p)
    <2>1. pc[p] = "tag" /\ main' = main /\ tags' = tags /\ JobDone(p)
      BY <1>14 DEF WriteDone, repo
    <2>2. Carried(p)
      BY <1>1, <1>2, <2>1, EndingCarries
    <2>3. CASE Heals(p)
      <3>1. LeaveSync(p, "ok")
        BY <1>2, <2>1, <2>3 DEF JobDone, Heals
      <3>2. TagsUpTo(current)'
        BY <1>3, <2>1, <2>3 DEF Rising, TagsUpTo
      <3>3. Rising(p)'
        BY <1>1, <1>2, <3>1, <3>2, LeaveSyncRises
      <3>4. Numbers(p)'
        BY <1>1, <1>4, <2>2, NumbersGrow DEF Carried
      <3>5. QED
        BY <1>7, <2>1, <3>3, <3>4
    <2>4. CASE ~Heals(p)
      <3>1. Calm(p)
        <4>1. LeaveEnsure(p) \/ Step(p, "count") \/ Step(p, "commit") \/ Step(p, "read")
          BY <1>2, <2>1, <2>4 DEF JobDone, Heals, Modes
        <4>2. QED
          BY <1>1, <1>2, <4>1, EndingGoes DEF Calm
      <3>2. QED
        BY <1>8, <2>1, <2>2, <3>1
    <2>5. QED
      BY <2>3, <2>4
  <1>15. CASE GitFails(p) \/ TagFails(p)
    BY <1>9, <1>15 DEF GitFails, TagFails, repo
  <1>16. QED
    BY <1>10, <1>11, <1>12, <1>13, <1>14, <1>15 DEF GitWrite

\* The order outlives the tag a projection sets on main.
LEMMA TagVersionKeepsOrder ==
  ASSUME StoreType, StoreType', Ordered, main' = main, current' = current, dir' = dir,
         main # NoRef, UpTo(main, current), TagsUpTo(current),
         tags' = [tags EXCEPT ![current] = main]
  PROVE  Ordered' /\ TagsUpTo(current)'
PROOF
  <1>1. /\ main \in Commit /\ current \in Versions
        /\ \A v \in Versions : tags[v] \in Commit /\ v \in Int
        /\ \A v \in Versions : tags'[v] = IF v = current THEN main ELSE tags[v]
    BY BoundAssumption DEF StoreType, Versions
  <1>2. IsPrefix(main, main)
    BY <1>1, PrefixOfSelf
  <1>3. Tip(main).ver <= current
    <2>1. Len(main) \in 1..Len(main)
      BY <1>1, LenProperties, EmptySeq DEF Commit, NoRef
    <2>2. QED
      BY <2>1 DEF UpTo, Tip
  <1>4. \A v \in Versions : tags'[v] # NoRef =>
           v <= current /\ v <= current + 1 /\ IsPrefix(tags'[v], main)
           /\ Tip(tags'[v]).ver <= v
    BY <1>1, <1>2, <1>3 DEF Ordered, TagsUpTo
  <1>5. ASSUME NEW v \in Versions, NEW w \in Versions, v <= w, tags'[w] # NoRef
        PROVE  IsPrefix(tags'[v], tags'[w])
    <2>1. CASE w = current
      <3>1. CASE tags'[v] = NoRef
        BY <1>1, <2>1, <3>1, OnTopOfNothing
      <3>2. CASE tags'[v] # NoRef
        BY <1>1, <1>4, <2>1, <3>2
      <3>3. QED
        BY <3>1, <3>2
    <2>2. CASE w # current
      <3>1. w <= current /\ tags'[w] = tags[w]
        BY <1>1, <1>4, <1>5, <2>2
      <3>2. v # current
        BY <1>1, <1>5, <2>2, <3>1
      <3>3. tags'[v] = tags[v]
        BY <1>1, <3>2
      <3>4. QED
        BY <1>5, <3>1, <3>3 DEF Ordered
    <2>3. QED
      BY <2>1, <2>2
  <1>6. (~dir => main = NoRef)' /\ UpTo(main', current' + 1)
    BY DEF Ordered, UpTo
  <1>7. \A v \in Versions : tags'[v] # NoRef => v <= current' + 1
    BY <1>4
  <1>8. \A v \in Versions : tags'[v] # NoRef => IsPrefix(tags'[v], main') /\ Tip(tags'[v]).ver <= v
    BY <1>4
  <1>9. \A v \in Versions : tags'[v] # NoRef => v <= current'
    BY <1>4
  <1>10. QED
    BY <1>5, <1>6, <1>7, <1>8, <1>9 DEF Ordered, TagsUpTo, UpTo, Tip

\* A projection takes the next number, and no tag stands above it.
LEMMA ProjectRises ==
  ASSUME IInv, IInv', NEW p \in Procs, Held(p), Placed(p), Aligned(p), Ordered, Numbers(p),
         Rising(p), Project(p)
  PROVE  Ordered' /\ Numbers(p)' /\ Rising(p)'
PROOF
  <1>1. CallType /\ CallInv(p) /\ StoreType /\ StoreType' /\ current \in Versions
        /\ main \in Commit
    BY DEF IInv, CallsInv, CallType, StoreType
  <1>2. /\ pc[p] \in {"read", "insert", "meta", "mark"} /\ req[p].kind # "reproject"
        /\ ~orphan[p]
    BY DEF Project, ReadTip, InsertVersion, InsertFails, InsertUnanswered, UpdateMeta,
                TagVersion, Held
  <1>3. main' = main /\ dir' = dir
    BY DEF Project, ReadTip, InsertVersion, InsertFails, InsertUnanswered, UpdateMeta,
           TagVersion, repo
  <1>4. current \in Int /\ current <= current /\ current <= current + 1
    <2>1. \A i \in Versions : i \in Int /\ i <= i /\ i <= i + 1
      BY BoundAssumption DEF Versions
    <2>2. QED
      BY <1>1, <2>1
  <1>5. ASSUME current' = current \/ current' = current + 1
        PROVE  current <= current'
    BY <1>4, <1>5
  <1>6. ASSUME current' = current \/ current' = current + 1, tags' = tags
        PROVE  Ordered'
    BY <1>1, <1>3, <1>5, <1>6, OrderedGrows
  <1>7. ASSUME Carried(p), Calm(p), current' = current \/ current' = current + 1,
               tags' = tags
        PROVE  Ordered' /\ Numbers(p)' /\ Rising(p)'
    BY <1>1, <1>5, <1>6, <1>7, CalmRises, NumbersGrow DEF Carried
  <1>8. ASSUME ProjectionFailed(p), current' = current \/ current' = current + 1,
               tags' = tags
        PROVE  Ordered' /\ Numbers(p)' /\ Rising(p)'
    <2>1. Carried(p)
      BY <1>1, <1>8, EndingCarries
    <2>2. Calm(p)
      BY <1>1, <1>2, <1>8, EndingGoes DEF ProjectionFailed, Goto, CallType, Calm
    <2>3. QED
      BY <1>7, <1>8, <2>1, <2>2
  <1>9. CASE ReadTip(p)
    <2>1. pc[p] = "read" /\ current' = current /\ tags' = tags
      BY <1>9 DEF ReadTip, db, repo
    <2>2. CASE Projectable(main)
      <3> DEFINE w == [NoJob EXCEPT !.mode = "project", !.tip = main]
      <3>1. w.tip = main /\ w.todo = << >> /\ Hand(p, "insert", w)
        BY <1>9, <2>2 DEF ReadTip, NoJob, Work
      <3> HIDE DEF w
      <3>2. pc'[p] = "insert" /\ job'[p] = w /\ req' = req
        BY <1>1, <1>2, <3>1, EndingGoes
      <3>3. UpTo(<< >>, current + 1)
        <4>1. Len(<< >>) = 0
          BY EmptySeq
        <4>2. QED
          BY <4>1 DEF UpTo
      <3>4. Numbers(p)'
        <4>1. /\ req[p].entry.ver <= current + 1 /\ UpTo(req[p].base, current + 1)
              /\ UpTo(w.todo, current + 1) /\ UpTo(w.tip, current + 1)
          BY <3>1, <3>3 DEF Numbers, Ordered
        <4>2. QED
          BY <2>1, <3>2, <4>1 DEF Numbers, UpTo
      <3>5. Rising(p)'
        BY <1>3, <3>1, <3>2 DEF Rising
      <3>6. QED
        BY <1>6, <2>1, <3>4, <3>5
    <2>3. CASE NothingToProject(p)
      <3>1. CASE ~Aligning(p)
        <4>1. Carried(p) /\ Calm(p)
          BY <1>1, <1>2, <2>3, <3>1, EndingGoes, EndingCarries DEF NothingToProject, Calm
        <4>2. QED
          BY <1>7, <2>1, <4>1
      <3>2. CASE Aligning(p)
        <4>1. saw[p] = current /\ have[p] = MaxTag
          BY <2>1, <3>2 DEF Aligned, Fresh
        <4>2. have[p] = saw[p] => TagsUpTo(current)'
          <5>1. have[p] = saw[p] => TagsUpTo(current)
            BY <1>1, <1>4, <4>1, HighestTag
          <5>2. QED
            BY <2>1, <5>1 DEF TagsUpTo
        <4>3. Rising(p)'
          BY <1>1, <1>2, <2>3, <3>2, <4>2, LeaveSyncRises DEF NothingToProject
        <4>4. Numbers(p)'
          BY <1>1, <1>5, <2>1, <2>3, EndingCarries, NumbersGrow DEF Carried
        <4>5. QED
          BY <1>6, <2>1, <4>3, <4>4
      <3>3. QED
        BY <3>1, <3>2
    <2>4. QED
      BY <1>9, <2>2, <2>3 DEF ReadTip
  <1>10. CASE InsertVersion(p)
    <2>1. /\ pc[p] = "insert" /\ current' = current + 1 /\ pc'[p] = "meta"
          /\ ver'[p] = current + 1 /\ tags' = tags /\ job' = job /\ req' = req
      BY <1>1, <1>10 DEF InsertVersion, NewRow, Goto, CallType, repo
    <2>2. job[p].tip = main
      BY <2>1 DEF Rising
    <2>3. UpTo(main, current)' /\ TagsUpTo(current)'
      BY <1>3, <2>1 DEF Ordered, UpTo, TagsUpTo
    <2>4. Rising(p)'
      BY <1>3, <2>1, <2>2, <2>3 DEF Rising
    <2>5. Numbers(p)'
      BY <1>1, <1>5, <2>1, NumbersGrow
    <2>6. QED
      BY <1>6, <2>1, <2>4, <2>5
  <1>11. CASE InsertFails(p) \/ InsertUnanswered(p)
    BY <1>8, <1>11 DEF InsertFails, InsertUnanswered, NewRow, db, repo
  <1>12. CASE UpdateMeta(p)
    <2>1. /\ pc[p] = "meta" /\ pc'[p] = "mark" /\ current' = current /\ tags' = tags
          /\ job' = job /\ req' = req /\ ver' = ver
      BY <1>1, <1>2, <1>12, EndingGoes DEF UpdateMeta, repo, local
    <2>2. (UpTo(main, current) /\ TagsUpTo(current))'
      BY <1>3, <2>1 DEF Rising, UpTo, TagsUpTo
    <2>3. Rising(p)'
      BY <1>3, <2>1, <2>2 DEF Rising
    <2>4. Numbers(p)'
      BY <1>1, <1>5, <2>1, NumbersGrow
    <2>5. QED
      BY <1>6, <2>1, <2>3, <2>4
  <1>13. CASE TagVersion(p)
    <2>1. /\ pc[p] = "mark" /\ current' = current /\ Projected(p)
          /\ tags' = tags \/ tags' = [tags EXCEPT ![ver[p]] = job[p].tip]
      BY <1>2, <1>13 DEF TagVersion, db
    <2>2. job[p].tip = main /\ ver[p] = current /\ UpTo(main, current) /\ TagsUpTo(current)
      BY <2>1 DEF Rising
    <2>3. main # NoRef
      BY <1>1, <2>1, <2>2 DEF CallInv, Contents, Projectable
    <2>4. Ordered' /\ TagsUpTo(current)'
      <3>1. CASE tags' = tags
        <4>1. TagsUpTo(current)'
          BY <2>1, <2>2, <3>1 DEF TagsUpTo
        <4>2. QED
          BY <1>6, <2>1, <3>1, <4>1
      <3>2. CASE tags' = [tags EXCEPT ![current] = main]
        BY <1>1, <1>3, <2>1, <2>2, <2>3, <3>2, TagVersionKeepsOrder
      <3>3. QED
        BY <2>1, <2>2, <3>1, <3>2
    <2>5. Numbers(p)'
      BY <1>1, <1>5, <2>1, EndingCarries, NumbersGrow DEF Carried
    <2>6. Rising(p)'
      <3>1. CASE Aligning(p)
        BY <1>1, <1>2, <2>1, <2>4, <3>1, LeaveSyncRises DEF Projected
      <3>2. CASE ~Aligning(p)
        BY <1>1, <1>2, <2>1, <3>2, EndingGoes, CalmRises DEF Projected, Calm
      <3>3. QED
        BY <3>1, <3>2
    <2>7. QED
      BY <2>4, <2>5, <2>6
  <1>14. QED
    BY <1>9, <1>10, <1>11, <1>12, <1>13 DEF Project

\* An edit takes the next number, and no tag stands there.
LEMMA WebTailRises ==
  ASSUME IInv, IInv', NEW p \in Procs, Held(p), Ordered, Numbers(p), Rising(p), WebTail(p)
  PROVE  Ordered' /\ Numbers(p)' /\ Rising(p)'
PROOF
  <1>1. CallType /\ CallInv(p) /\ StoreType /\ StoreType' /\ current \in Versions
        /\ req[p].kind # "reproject" /\ pc[p] \in {"begin", "commit"} /\ ~orphan[p]
    BY DEF IInv, CallsInv, StoreType, WebTail, BeginWeb, BeginFails, CommitWeb, CommitFails,
           Held
  <1>2. main' = main /\ tags' = tags /\ dir' = dir
    BY DEF WebTail, BeginWeb, BeginFails, CommitWeb, CommitFails, repo
  <1>3. /\ current \in Int /\ current <= current + 1
        /\ current' = current \/ current' = current + 1
    <2>1. \A i \in Versions : i \in Int /\ i <= i + 1
      BY BoundAssumption DEF Versions
    <2>2. pc[p] = "commit" => ver[p] = current + 1
      BY <1>1 DEF CallInv, Owns, Open
    <2>3. current' = current \/ current' = current + 1
      BY <2>2 DEF WebTail, BeginWeb, BeginFails, CommitWeb, CommitFails, NewVersion, db
    <2>4. QED
      BY <1>1, <2>1, <2>3
  <1>4. current <= current'
    BY <1>3
  <1>5. Ordered'
    BY <1>1, <1>2, <1>4, OrderedGrows
  <1>6. CASE BeginWeb(p) /\ req[p].want \in {0, current}
    <2> DEFINE entry == [req[p].entry EXCEPT !.ver = current + 1]
    <2>1. /\ pc'[p] = "build" /\ job'[p] = Work("web", <<entry>>) /\ req' = req
          /\ current' = current /\ pc[p] = "begin"
      BY <1>1, <1>6 DEF BeginWeb, Goto, CallType, db
    <2>2. /\ job'[p].mode = "web" /\ job'[p].todo = <<entry>> /\ job'[p].tip = << >>
      BY <2>1 DEF Work, NoRef
    <2>3. entry.ver = current + 1
      <3>1. req[p].entry \in Entry
        BY <1>1 DEF CallType, Request
      <3>2. QED
        BY <3>1 DEF Entry
    <2> HIDE DEF entry
    <2>4. Len(<<entry>>) = 1 /\ <<entry>>[1] = entry
      OBVIOUS
    <2>5. Len(<< >>) = 0
      BY EmptySeq
    <2>6. UpTo(<<entry>>, current + 1) /\ UpTo(<< >>, current + 1)
      BY <1>3, <2>3, <2>4, <2>5 DEF UpTo
    <2>7. Numbers(p)'
      <3>1. /\ req[p].entry.ver <= current + 1 /\ UpTo(req[p].base, current + 1)
            /\ UpTo(job'[p].todo, current + 1) /\ UpTo(job'[p].tip, current + 1)
        BY <2>2, <2>6 DEF Numbers
      <3>2. QED
        BY <2>1, <3>1 DEF Numbers, UpTo
    <2>8. MaxTag <= current /\ MaxTag \in Int /\ MaxTag' = MaxTag
      <3>1. TagsUpTo(current)
        BY <2>1 DEF Rising
      <3>2. 0 <= current /\ MaxTag \in Int
        BY <1>1, MaxTagBounds, BoundAssumption DEF Versions
      <3>3. QED
        BY <1>1, <1>2, <1>3, <3>1, <3>2, HighestTag DEF MaxTag
    <2>9. Fit(<<entry>>, current + 1)
      BY <1>3, <2>3, <2>4, <2>8 DEF Fit
    <2>10. Fit(job[p].todo, Limit(p))'
      <3>1. Limit(p)' = current + 1
        BY <2>1, <2>2 DEF Limit
      <3>2. QED
        BY <2>2, <2>8, <2>9, <3>1 DEF Fit
    <2>11. Rising(p)'
      BY <2>1, <2>2, <2>10 DEF Rising, Heals
    <2>12. QED
      BY <1>5, <2>7, <2>11
  <1>7. CASE \E a : Finish(p, a)
    <2>1. Carried(p) /\ Calm(p)
      BY <1>1, <1>7, EndingGoes, EndingCarries DEF Calm
    <2>2. QED
      BY <1>1, <1>4, <1>5, <2>1, CalmRises, NumbersGrow DEF Carried
  <1>8. QED
    BY <1>6, <1>7 DEF WebTail, BeginWeb, BeginFails, CommitWeb, CommitFails

\* What a new call brings: an entry numbered at most one above the current
\* version, on a main that stands as it is.
LEMMA OrderArrives ==
  ASSUME IInv, IInv', GuardIsKept, NEW p \in Procs, Ordered, Numbers(p),
         StartWeb(p) \/ StartPush(p) \/ StartMerge(p) \/ StartRead(p)
  PROVE  Ordered' /\ Numbers(p)' /\ Rising(p)'
PROOF
  <1>1. CallType /\ StoreType /\ StoreType'
    BY DEF IInv, CallsInv
  <1>2. /\ pc'[p] = "lock" /\ main' = main /\ tags' = tags /\ dir' = dir
        /\ current' = current
    BY ArrivalDoes DEF db, repo
  <1>3. current \in Int /\ 0 <= current + 1 /\ current <= current
    <2>1. \A i \in Versions : i \in Int /\ 0 <= i + 1 /\ i <= i
      BY BoundAssumption DEF Versions
    <2>2. QED
      BY <1>1, <2>1 DEF StoreType
  <1>4. Ordered'
    BY <1>1, <1>2, <1>3, OrderedGrows
  <1>5. Rising(p)'
    BY <1>2, CalmRises DEF Calm
  <1>6. UpTo(NoRef, current + 1) /\ UpTo(main, current + 1)
    <2>1. Len(NoRef) = 0
      BY EmptySeq DEF NoRef
    <2>2. QED
      BY <2>1 DEF UpTo, Ordered
  <1>7. \E kind, entry, want, base :
           /\ Start(p, kind, entry, want, base)
           /\ entry.ver <= current + 1 /\ UpTo(base, current + 1)
    <2>1. CASE StartWeb(p)
      BY <1>3, <1>6, <2>1 DEF StartWeb
    <2>2. CASE StartPush(p)
      <3>1. PICK body \in Brought("push"), title \in Titles, n \in PushedNumbers :
               Start(p, "push",
                     [body |-> body, title |-> title,
                      ver |-> IF n = 0 THEN 0 ELSE current + n], 0, main)
        BY <2>2 DEF StartPush
      <3>2. (IF n = 0 THEN 0 ELSE current + n) <= current + 1
        BY <1>3, <3>1, DataAssumption
      <3>3. QED
        BY <1>6, <3>1, <3>2
    <2>3. CASE StartMerge(p)
      BY <1>3, <1>6, <2>3 DEF StartMerge
    <2>4. CASE StartRead(p)
      BY <1>3, <1>6, <2>4 DEF StartRead, SomeEntry
    <2>5. QED
      BY <2>1, <2>2, <2>3, <2>4
  <1>8. PICK kind, entry, want, base :
           /\ Start(p, kind, entry, want, base)
           /\ entry.ver <= current + 1 /\ UpTo(base, current + 1)
    BY <1>7
  <1>9. /\ job'[p] = job[p] /\ req'[p].entry = entry /\ req'[p].base = base
    BY <1>1, <1>8 DEF Start, CallType
  <1>10. Numbers(p)'
    <2>1. /\ req'[p].entry.ver <= current + 1 /\ UpTo(req'[p].base, current + 1)
          /\ UpTo(job'[p].todo, current + 1) /\ UpTo(job'[p].tip, current + 1)
      BY <1>8, <1>9 DEF Numbers
    <2>2. QED
      BY <1>2, <2>1 DEF Numbers, UpTo
  <1>11. QED
    BY <1>4, <1>5, <1>10

\* What a call is about to do to the tags stays so while nothing moves.
LEMMA RisingStays ==
  ASSUME NEW q \in Procs, Rising(q), Same(q), UNCHANGED <<db, repo>>
  PROVE  Rising(q)'
PROOF
  <1>1. current' = current /\ main' = main /\ tags' = tags
    BY DEF db, repo
  <1>2. MaxTag' = MaxTag
    BY <1>1 DEF MaxTag
  <1>3. /\ TagsUpTo(current)' = TagsUpTo(current) /\ Heals(q)' = Heals(q)
        /\ Limit(q)' = Limit(q) /\ Expected(q)' = Expected(q)
        /\ UpTo(main, current)' = UpTo(main, current)
    BY <1>1 DEF TagsUpTo, Heals, Limit, Expected, UpTo, Same
  <1>4. Fit(job[q].todo, Limit(q))' = Fit(job[q].todo, Limit(q))
    BY <1>2, <1>3 DEF Fit, Same
  <1>5. /\ Plain(tags, job[q].tags, job[q].tip, Limit(q))' =
             Plain(tags, job[q].tags, job[q].tip, Limit(q))
        /\ Plain(tags, job[q].tags, main, Limit(q))' =
             Plain(tags, job[q].tags, main, Limit(q))
    BY <1>1, <1>3 DEF Plain, Same, Tip
  <1>6. QED
    BY <1>1, <1>3, <1>4, <1>5 DEF Rising, Same

\* Numbers only grow.
LEMMA CurrentGrows ==
  ASSUME IInv, [Next]_vars
  PROVE  current <= current'
PROOF
  <1>1. \A i \in Versions : i <= i /\ i <= i + 1
    BY BoundAssumption DEF Versions
  <1>2. current \in Versions
    BY DEF IInv, StoreType
  <1>3. current' = current \/ current' = current + 1
    BY RowsStep DEF VersionAdded
  <1>4. QED
    BY <1>1, <1>2, <1>3, Zenon

\* Damage takes tags away, or everything.
LEMMA DamageKeepsOrder ==
  ASSUME StoreType, StoreType', TagsAreOurs, Ordered, Damage
  PROVE  Ordered'
PROOF
  <1>1. current' = current /\ current \in Int /\ 0 <= current + 1
    <2>1. \A i \in Versions : i \in Int /\ 0 <= i + 1
      BY BoundAssumption DEF Versions
    <2>2. QED
      BY <2>1 DEF Damage, db, StoreType
  <1>2. CASE LoseTag
    <2>1. PICK u \in Versions : tags' = [tags EXCEPT ![u] = NoRef] /\ UNCHANGED <<dir, main>>
      BY <1>2 DEF LoseTag
    <2>2. \A v \in Versions : tags'[v] \in {tags[v], NoRef}
      BY <2>1 DEF StoreType
    <2>3. \A v \in Versions : tags'[v] # NoRef => tags'[v] = tags[v] /\ tags[v] # NoRef
      BY <2>2
    <2>4. \A v, w \in Versions : v <= w /\ tags'[w] # NoRef => IsPrefix(tags'[v], tags'[w])
      <3>1. TAKE v, w \in Versions
      <3>2. HAVE v <= w /\ tags'[w] # NoRef
      <3>3. tags'[w] = tags[w] /\ IsPrefix(tags[v], tags[w])
        BY <2>3, <3>2 DEF Ordered
      <3>4. IsPrefix(NoRef, tags[w])
        <4>1. tags[w] \in Commit /\ NoRef \in Commit /\ Len(NoRef) = 0
          BY EmptySeq DEF StoreType, NoRef, Commit
        <4>2. Len(tags[w]) \in Nat
          BY <4>1, LenProperties DEF Commit
        <4>3. QED
          BY <4>1, <4>2, PrefixByEntries
      <3>5. QED
        BY <2>2, <3>3, <3>4
    <2>5. QED
      BY <1>1, <2>1, <2>3, <2>4 DEF Ordered, UpTo, TagsUpTo, Tip
  <1>3. CASE LoseDir
    <2>1. main' = NoRef /\ \A v \in Versions : tags'[v] = NoRef
      BY <1>3 DEF LoseDir
    <2>2. Len(NoRef) = 0
      BY EmptySeq DEF NoRef
    <2>3. QED
      BY <2>1, <2>2 DEF Ordered, UpTo, TagsUpTo
  <1>4. ~LoseMain /\ ~ForeignTag
    BY DEF TagsAreOurs, LoseMain, ForeignTag, Fault
  <1>5. QED
    BY <1>2, <1>3, <1>4 DEF Damage

\* Every step keeps the order.
LEMMA OrderNext ==
  ASSUME GuardIsKept, TagsAreOurs, IInv, IInv', GuardInv, OrderInv, [Next]_vars
  PROVE  OrderInv'
PROOF
  <1>1. /\ CallType /\ StoreType /\ StoreType' /\ current <= current' /\ Ordered
        /\ \A q \in Procs : Held(q) /\ Placed(q) /\ Aligned(q) /\ Numbers(q) /\ Rising(q)
    BY CurrentGrows DEF IInv, CallsInv, GuardInv, OrderInv
  <1>2. CASE UNCHANGED vars
    <2>1. /\ UNCHANGED <<db, repo>> /\ \A q \in Procs : Same(q)
          /\ main' = main /\ tags' = tags /\ dir' = dir
      BY <1>2 DEF vars, local, repo, Same
    <2>2. Ordered'
      BY <1>1, <2>1, OrderedGrows
    <2>3. ASSUME NEW q \in Procs
          PROVE  Numbers(q)' /\ Rising(q)'
      <3>1. Same(q) /\ req'[q] \in {req[q], NoRequest} /\ job'[q] \in {job[q], NoJob}
        BY <2>1 DEF Same
      <3>2. QED
        BY <1>1, <2>1, <3>1, NumbersGrow, RisingStays
    <2>4. QED
      BY <2>2, <2>3 DEF OrderInv
  <1>3. ASSUME NEW p \in Procs, Acts(p)
        PROVE  OrderInv'
    <2>1. Ordered' /\ Numbers(p)' /\ Rising(p)'
      <3>1. CASE StartWeb(p) \/ StartPush(p) \/ StartMerge(p) \/ StartRead(p)
        BY <1>1, <3>1, OrderArrives
      <3>2. CASE TakeGuard(p) \/ Ensure(p)
        BY <1>1, <3>2, EntryRises
      <3>3. CASE Align(p)
        BY <1>1, <3>3, AlignRises
      <3>4. CASE GitWrite(p)
        BY <1>1, <3>4, GitWriteRises
      <3>5. CASE Project(p)
        BY <1>1, <3>5, ProjectRises
      <3>6. CASE WebTail(p)
        BY <1>1, <3>6, WebTailRises
      <3>7. QED
        BY <1>3, <3>1, <3>2, <3>3, <3>4, <3>5, <3>6, GuardedSteps DEF Proceed
    <2>2. ASSUME NEW q \in Procs \ {p}
          PROVE  Numbers(q)' /\ Rising(q)'
      <3>1. Same(q) /\ req'[q] \in {req[q], NoRequest} /\ job'[q] \in {job[q], NoJob}
        BY <1>3, ActsAlone DEF OnlyOf, Same
      <3>2. Numbers(q)'
        BY <1>1, <3>1, NumbersGrow
      <3>3. CASE pc[q] \in {"idle", "lock"}
        <4>1. Calm(q)
          BY <3>1, <3>3 DEF Same, Calm
        <4>2. QED
          BY <3>2, <4>1, CalmRises
      <3>4. CASE pc[q] \notin {"idle", "lock"}
        <4>1. guard = q
          BY <1>1, <3>4 DEF Held
        <4>2. UNCHANGED <<db, repo>>
          BY <1>1, <1>3, <4>1, WaitingKeepsStores
        <4>3. QED
          BY <1>1, <3>1, <3>2, <4>2, RisingStays
      <3>5. QED
        BY <3>3, <3>4
    <2>3. QED
      BY <2>1, <2>2 DEF OrderInv
  <1>4. CASE Crash
    <2>1. PICK gone \in SUBSET {p \in Procs : pc[p] # "idle"} :
             /\ pc' = [p \in Procs |-> IF p \in gone THEN "idle" ELSE pc[p]]
             /\ req' = [p \in Procs |-> IF p \in gone THEN NoRequest ELSE req[p]]
             /\ phase' = [p \in Procs |-> IF p \in gone THEN "ensure" ELSE phase[p]]
             /\ saw' = [p \in Procs |-> IF p \in gone THEN 0 ELSE saw[p]]
             /\ have' = [p \in Procs |-> IF p \in gone THEN 0 ELSE have[p]]
             /\ job' = [p \in Procs |-> IF p \in gone THEN NoJob ELSE job[p]]
             /\ ver' = [p \in Procs |-> IF p \in gone THEN 0 ELSE ver[p]]
             /\ orphan' = [p \in Procs |-> IF p \in gone THEN FALSE ELSE orphan[p]]
             /\ UNCHANGED <<db, repo>>
      BY <1>4 DEF Crash
    <2>2. main' = main /\ tags' = tags /\ dir' = dir
      BY <2>1 DEF repo
    <2>3. Ordered'
      BY <1>1, <2>2, OrderedGrows
    <2>4. ASSUME NEW q \in Procs
          PROVE  Numbers(q)' /\ Rising(q)'
      <3>1. req'[q] \in {req[q], NoRequest} /\ job'[q] \in {job[q], NoJob}
        BY <2>1
      <3>2. Numbers(q)'
        BY <1>1, <3>1, NumbersGrow
      <3>3. CASE q \in gone
        <4>1. Calm(q)
          BY <2>1, <3>3 DEF Calm
        <4>2. QED
          BY <3>2, <4>1, CalmRises
      <3>4. CASE q \notin gone
        <4>1. Same(q)
          BY <2>1, <3>4 DEF Same
        <4>2. QED
          BY <1>1, <2>1, <3>2, <4>1, RisingStays
      <3>5. QED
        BY <3>3, <3>4
    <2>5. QED
      BY <2>3, <2>4 DEF OrderInv
  <1>5. CASE Damage
    <2>1. Ordered'
      BY <1>1, <1>5, DamageKeepsOrder
    <2>2. ASSUME NEW q \in Procs
          PROVE  Numbers(q)' /\ Rising(q)'
      <3>1. /\ req'[q] \in {req[q], NoRequest} /\ job'[q] \in {job[q], NoJob}
            /\ Calm(q)
        BY <1>5 DEF Damage, Quiet, local, Calm
      <3>2. QED
        BY <1>1, <3>1, NumbersGrow, CalmRises
    <2>3. QED
      BY <2>1, <2>2 DEF OrderInv
  <1>6. QED
    BY <1>2, <1>3, <1>4, <1>5 DEF Next, Acts

\* At the start there is no main and no tag.
LEMMA OrderInit == Init => OrderInv
PROOF
  <1> SUFFICES ASSUME Init PROVE OrderInv
    OBVIOUS
  <1>1. /\ Len(NoRef) = 0 /\ 0 <= current + 1 /\ current = 1 /\ main = NoRef
        /\ \A v \in Versions : tags[v] = NoRef
    BY EmptySeq DEF Init, NoRef
  <1>2. Ordered
    BY <1>1 DEF Ordered, UpTo, TagsUpTo
  <1>3. ASSUME NEW q \in Procs
        PROVE  Numbers(q) /\ Rising(q)
    <2>1. pc[q] = "idle" /\ req[q] = NoRequest /\ job[q] = NoJob
      BY DEF Init
    <2>2. /\ req[q].entry.ver = 0 /\ req[q].base = NoRef
          /\ job[q].todo = NoRef /\ job[q].tip = NoRef
      BY <2>1 DEF NoRequest, SomeEntry, NoJob, Work, NoRef
    <2>3. QED
      BY <1>1, <2>1, <2>2 DEF Numbers, UpTo, Rising
  <1>4. QED
    BY <1>2, <1>3 DEF OrderInv

\* Under every fault but a dropped handler, a lost main and a tag set by
\* hand, the tags a heal, an edit or a projection sets stand in order.
THEOREM OrderHolds ==
  ASSUME GuardIsKept, TagsAreOurs
  PROVE  Spec => []OrderInv
PROOF
  <1>1. IInv /\ IInv' /\ GuardInv /\ OrderInv /\ [Next]_vars => OrderInv'
    BY OrderNext
  <1>2. QED
    BY <1>1, OrderInit, GuardHolds, Invariance, PTL DEF Spec

\* The tags of the versions Postgres knows stand on main in the order of
\* their numbers, however often calls died between a commit, its rows and
\* its tag, and whatever the heal appended or projected since.
THEOREM TagsOrdered ==
  ASSUME GuardIsKept, TagsAreOurs
  PROVE  Spec => []TagsInOrder
PROOF
  <1>1. IInv /\ OrderInv => TagsInOrder
    <2>1. SUFFICES ASSUME IInv, OrderInv, NEW w \in 1..current, tags[w] # NoRef
                   PROVE  /\ IsPrefix(tags[w], main)
                          /\ \A v \in 1..w : IsPrefix(tags[v], tags[w])
      BY DEF TagsInOrder
    <2>2. w \in Versions /\ \A v \in 1..w : v \in Versions /\ v <= w
      <3>1. current \in Versions
        BY <2>1 DEF IInv, StoreType
      <3>2. \A n \in Versions : \A u \in 1..n : u \in Versions /\ u <= n
                                            /\ \A v \in 1..u : v \in Versions /\ v <= u
        BY BoundAssumption DEF Versions
      <3>3. QED
        BY <2>1, <3>1, <3>2, Zenon
    <2>3. QED
      BY <2>1, <2>2 DEF OrderInv, Ordered
  <1>2. QED
    BY <1>1, OrderHolds, Invariance, PTL

-----------------------------------------------------------------------------
(* The read model, when nothing fails                                       *)

FaultFree == Faults = {} /\ "reproject" \notin Kinds

\* A list that has no version yet.
Bare == current < FirstRow

\* The tags are those of versions, the current one's among them.
Tagged ==
    /\ TagsUpTo(current)
    /\ IF Bare \/ main = NoRef THEN \A v \in Versions : tags[v] = NoRef
       ELSE tags[current] # NoRef

\* Main has a tip that may not be a version yet.
Ahead == Tagged /\ dir /\ main # NoRef

\* What holds between calls: the read model shows main, unless its tip cannot
\* be projected, and an empty repository is that of a list without versions.
Agree ==
    /\ Tagged
    /\ main # NoRef => dir
    /\ main = NoRef => (dir => Bare)
    /\ Projectable(main) => /\ tags[current] = main
                            /\ rows[current] = Tip(main).body
                            /\ dbTitle = Tip(main).title

\* The entry a write of the service's own ends with.
Goal(q) == IF job[q].mode = "web" THEN [req[q].entry EXCEPT !.ver = current + 1]
           ELSE Canonical(current)

\* The tag that is set last names the new tip by the version of its entry.
EndsAt(q, c) ==
    job[q].tags # <<>> /\ LastOf(job[q].tags) = [ver |-> Goal(q).ver, at |-> c]

OfService(q) == job[q].mode \in {"bootstrap", "web"}
OfClient(q)  == job[q].mode \in {"push", "merge"}

\* A git write in hand: a client's, on top of an aligned main, or the
\* service's own, which ends with the entry and the tag of its version.
Writes(q) ==
    /\ OfService(q) \/ OfClient(q)
    /\ pc[q] = "build" => job[q].todo # NoRef
    /\ pc[q] = "move" => main = job[q].parent /\ job[q].tip # NoRef
    /\ OfClient(q) => /\ pc[q] \in {"build", "move"} => Agree
                      /\ pc[q] \in {"move", "tag"} => job[q].tags = <<>>
                      /\ pc[q] = "tag" => Ahead
    /\ OfService(q) =>
          /\ job[q].mode = "bootstrap" => ~Bare /\ TagsUpTo(current)
          /\ job[q].mode = "bootstrap" /\ pc[q] = "build" => main = NoRef
          /\ pc[q] = "build" => Tip(job[q].todo) = Goal(q)
          /\ pc[q] = "move" => Tip(job[q].tip) = Goal(q) /\ EndsAt(q, job[q].tip)
          /\ pc[q] = "tag" =>
                /\ main # NoRef /\ Tip(main) = Goal(q)
                /\ IF job[q].tags = <<>> THEN tags[Goal(q).ver] = main ELSE EndsAt(q, main)

\* What a call at work knows of the two stores.
Matched(q) ==
    /\ pc[q] \in {"ensure", "sync", "look", "count", "begin"} => Agree
    /\ pc[q] = "read" => IF Aligning(q) THEN Agree /\ ~Projectable(main) ELSE Ahead
    /\ pc[q] \in {"insert", "meta", "mark"} => ~Aligning(q) /\ TagsUpTo(current)
    /\ pc[q] \in {"meta", "mark"} => rows[current] = Tip(main).body
    /\ pc[q] = "mark" => dbTitle = Tip(main).title
    /\ pc[q] \in {"build", "move", "tag"} => Writes(q)
    /\ pc[q] = "commit" => /\ main # NoRef /\ tags[current + 1] = main
                           /\ Tip(main) = [req[q].entry EXCEPT !.ver = current + 1]

Rest == \A q \in Procs : pc[q] \in {"idle", "lock"}
MatchInv == (Rest => Agree) /\ \A q \in Procs : Matched(q)

\* What a step leaves when it ends the call or waits, and on the way to it.
Matches(p) == Matched(p)' /\ (pc'[p] \in {"idle", "lock"} => Agree')

\* Without faults no fault happens, and the guard and the tags are kept.
LEMMA NothingFails ==
  ASSUME FaultFree
  PROVE  GuardIsKept /\ TagsAreOurs /\ \A kind : ~Fault(kind)
PROOF
  BY DEF FaultFree, GuardIsKept, TagsAreOurs, Fault

\* While nothing moves, the stores go on agreeing.
LEMMA AgreeStays ==
  ASSUME Agree, UNCHANGED <<db, repo>>
  PROVE  Agree'
PROOF
  <1>1. /\ current' = current /\ dir' = dir /\ main' = main /\ tags' = tags
        /\ rows' = rows /\ dbTitle' = dbTitle
    BY DEF db, repo
  <1>2. QED
    BY <1>1 DEF Agree, Tagged, TagsUpTo, Bare, FirstRow, Projectable, Tip

\* When the stores agree, nothing more is asked of a call that ends or that
\* is about to look at them.
LEMMA EndingSettles ==
  ASSUME CallType, NEW p \in Procs, req[p].kind # "reproject", Agree',
         \/ \E a : Finish(p, a) \/ LeaveSync(p, a)
         \/ LeaveEnsure(p) \/ JobFailed(p)
         \/ \E s \in {"sync", "look", "count", "begin"} : Step(p, s) \/ pc'[p] = s
  PROVE  Matches(p)
PROOF
  <1>1. pc'[p] \in {"idle", "lock", "sync", "look", "count", "begin"}
    <2>1. CASE LeaveEnsure(p) \/ JobFailed(p) \/ \E a : Finish(p, a) \/ LeaveSync(p, a)
      BY <2>1, EndingGoes
    <2>2. CASE \E s \in {"sync", "look", "count", "begin"} : Step(p, s) \/ pc'[p] = s
      BY <2>2, EndingGoes
    <2>3. QED
      BY <2>1, <2>2
  <1>2. QED
    BY <1>1 DEF Matches, Matched

\* A list without versions is one Postgres has nothing to build from.
LEMMA NothingStored ==
  ASSUME StoreType
  PROVE  StoredAbove(0) = << >> <=> Bare
PROOF
  <1> DEFINE low == IF 0 + 1 < FirstRow THEN FirstRow - 1 ELSE 0
  <1> DEFINE n == current - low
  <1> DEFINE f == [i \in 1..n |-> Canonical(low + i)]
  <1>1. FirstRow \in {1, 2} /\ current \in Nat /\ low = FirstRow - 1 /\ n \in Int
    BY BoundAssumption DEF FirstRow, StoreType, Versions
  <1>2. StoredAbove(0) = f
    BY DEF StoredAbove
  <1>3. Bare <=> n <= 0
    BY <1>1 DEF Bare
  <1>4. CASE n <= 0
    <2>1. 1..n = {}
      BY <1>1, <1>4
    <2>2. f = << >>
      BY <2>1
    <2> HIDE DEF low, n, f
    <2>3. QED
      BY <1>2, <1>3, <1>4, <2>2
  <1>5. CASE ~(n <= 0)
    <2>1. n \in Nat \ {0}
      BY <1>1, <1>5
    <2>2. f \in [1..n -> {f[i] : i \in 1..n}]
      OBVIOUS
    <2> HIDE DEF low, n, f
    <2>3. Len(f) = n /\ f \in Seq({f[i] : i \in 1..n})
      BY <2>1, <2>2, RangeIsSeq
    <2>4. f # << >>
      BY <2>1, <2>3, EmptySeq
    <2>5. QED
      BY <1>2, <1>3, <1>5, <2>4
  <1>6. QED
    BY <1>4, <1>5

\* When the stores agree, the highest tag is the current version's, or there
\* is none, and a list without versions has none.
LEMMA HighestOfAgreed ==
  ASSUME StoreType, Agree
  PROVE  /\ MaxTag <= current
         /\ main # NoRef /\ ~Bare => MaxTag = current
         /\ main = NoRef \/ Bare => MaxTag = 0
PROOF
  <1>1. /\ MaxTag \in 0..MaxVersion /\ current \in Versions /\ Versions = 1..MaxVersion
        /\ MaxVersion \in Nat
    BY MaxTagBounds, BoundAssumption DEF StoreType, Versions
  <1>2. MaxTag <= current
    <2>1. CASE MaxTag = 0
      BY <1>1, <2>1
    <2>2. CASE MaxTag # 0
      BY <2>2, MaxTagBounds DEF Agree, Tagged, TagsUpTo
    <2>3. QED
      BY <2>1, <2>2
  <1>3. main # NoRef /\ ~Bare => current <= MaxTag
    BY <1>1, MaxTagBounds DEF Agree, Tagged
  <1>4. main = NoRef \/ Bare => MaxTag = 0
    BY MaxTagBounds DEF Agree, Tagged
  <1>5. QED
    BY <1>1, <1>2, <1>3, <1>4

\* Entering: a guard that was free was left with the stores in agreement.
LEMMA EntrySettles ==
  ASSUME IInv, NEW p \in Procs, Held(p), Rest => Agree, Rest, TakeGuard(p)
  PROVE  Matches(p)
PROOF
  <1>1. CallType /\ CallInv(p) /\ job[p] \in Job /\ pc[p] = "lock"
    BY DEF IInv, CallsInv, CallType, TakeGuard
  <1>2. Agree'
    BY AgreeStays DEF TakeGuard, db, repo
  <1>3. CASE pc'[p] \in {"ensure", "sync"}
    BY <1>2, <1>3 DEF Matches, Matched
  <1>4. CASE pc'[p] \notin {"ensure", "sync"}
    <2>1. /\ pc'[p] = "build" /\ req[p].kind \in {"push", "merge"}
          /\ job'[p] = Work(req[p].kind, <<req[p].entry>>)
      BY <1>1, <1>4 DEF TakeGuard, Goto, CallType, CallInv, Control, Held
    <2>2. job'[p].mode \in {"push", "merge"} /\ job'[p].todo # NoRef
      BY <2>1 DEF Work, NoRef
    <2>3. Writes(p)'
      BY <1>2, <2>1, <2>2 DEF Writes, OfService, OfClient
    <2>4. QED
      BY <2>1, <2>3 DEF Matches, Matched
  <1>5. QED
    BY <1>3, <1>4

\* What is to be built from Postgres ends with the current version.
LEMMA BootstrapSettles ==
  ASSUME StoreType, CallType, NEW p \in Procs, req[p].kind # "reproject", Agree, ~Bare,
         main = NoRef,
         Hand(p, "build", Work("bootstrap", StoredAbove(0))), UNCHANGED <<db, main, tags>>
  PROVE  Matches(p)
PROOF
  <1> DEFINE todo == StoredAbove(0)
  <1>1. todo # NoRef
    BY NothingStored DEF NoRef
  <1>2. 0 \in 0..MaxVersion
    BY BoundAssumption
  <1>3. Tip(todo) = Canonical(current)
    BY <1>1, <1>2, StoredEndsWithCurrent DEF NoRef
  <1>4. pc'[p] = "build" /\ job'[p] = Work("bootstrap", todo)
    BY EndingGoes
  <1> HIDE DEF todo
  <1>5. job'[p].mode = "bootstrap" /\ job'[p].todo = todo
    BY <1>4 DEF Work
  <1>6. /\ current' = current /\ rows' = rows /\ dbTitle' = dbTitle /\ tags' = tags
        /\ main' = main
    BY DEF db
  <1>7. Goal(p)' = Canonical(current) /\ (~Bare /\ TagsUpTo(current))'
    BY <1>5, <1>6 DEF Goal, Canonical, Bare, FirstRow, TagsUpTo, Agree, Tagged
  <1>8. Tip(job[p].todo)' = Tip(todo)
    BY <1>5 DEF Tip
  <1>9. Writes(p)'
    BY <1>1, <1>3, <1>4, <1>5, <1>6, <1>7, <1>8 DEF Writes, OfService, OfClient
  <1>10. QED
    BY <1>4, <1>9 DEF Matches, Matched

\* Looking for the directory.
LEMMA EnsureSettles ==
  ASSUME FaultFree, IInv, NEW p \in Procs, Held(p), Matched(p), Ensure(p)
  PROVE  Matches(p)
PROOF
  <1>1. /\ CallType /\ StoreType /\ req[p].kind # "reproject" /\ pc[p] = "ensure" /\ Agree
        /\ UNCHANGED <<db, main, tags>>
    BY DEF IInv, CallsInv, Ensure, EnsureMissing, EnsurePresent, Held, Matched, repo
  <1>2. CASE EnsureMissing(p)
    <2>1. main = NoRef /\ dir' = TRUE
      BY <1>1, <1>2 DEF EnsureMissing, Agree
    <2>2. CASE StoredAbove(0) = << >>
      <3>1. Bare
        BY <1>1, <2>2, NothingStored
      <3>2. Agree'
        BY <1>1, <2>1, <3>1
           DEF Agree, Tagged, TagsUpTo, Bare, FirstRow, Projectable, db
      <3>3. QED
        BY <1>1, <1>2, <2>2, <3>2, EndingSettles DEF EnsureMissing
    <2>3. CASE StoredAbove(0) # << >>
      BY <1>1, <1>2, <2>1, <2>3, NothingStored, BootstrapSettles DEF EnsureMissing
    <2>4. QED
      BY <2>2, <2>3
  <1>3. CASE EnsurePresent(p)
    <2>1. Agree'
      BY <1>1, <1>3, AgreeStays DEF EnsurePresent
    <2>2. QED
      BY <1>1, <1>3, <2>1, EndingSettles DEF EnsurePresent
  <1>4. QED
    BY <1>2, <1>3 DEF Ensure

\* The alignment finds nothing to do but a tip that cannot be projected.
LEMMA AlignSettles ==
  ASSUME FaultFree, IInv, NEW p \in Procs, Held(p), Placed(p), Aligned(p), Matched(p), Align(p)
  PROVE  Matches(p)
PROOF
  <1>1. /\ CallType /\ StoreType /\ CallInv(p) /\ req[p].kind # "reproject"
        /\ pc[p] \in {"sync", "look", "count"} /\ Aligning(p) /\ dir /\ Agree
        /\ current \in 1..MaxVersion /\ MaxVersion \in Nat
    BY BoundAssumption
       DEF IInv, CallsInv, CallInv, Control, Align, ReadCurrent, LookAtRefs, FindMainMissing,
           CountEqual, CountBehind, CountAhead, SyncFails, Held, Placed, Matched, StoreType,
           Versions
  <1>2. UNCHANGED <<db, repo>>
    BY <1>1 DEF Align, ReadCurrent, LookAtRefs, FindMainMissing, CountEqual, CountBehind,
           CountAhead, SyncFails, repo
  <1>3. Agree'
    BY <1>1, <1>2, AgreeStays
  <1>4. /\ MaxTag <= current /\ MaxTag \in 0..MaxVersion
        /\ main # NoRef /\ ~Bare => MaxTag = current
        /\ main = NoRef \/ Bare => MaxTag = 0
    BY <1>1, HighestOfAgreed, MaxTagBounds
  <1>5. pc[p] = "count" => saw[p] = current /\ have[p] = MaxTag
    BY DEF Aligned, Fresh
  <1>6. main = NoRef \/ Bare => StoredAbove(0) = << >>
    BY <1>1, NothingStored DEF Agree
  <1>7. CASE ReadCurrent(p)
    <2>1. pc'[p] = "look"
      BY <1>1, <1>7 DEF ReadCurrent, Goto, CallType
    <2>2. QED
      BY <1>1, <1>3, <2>1, EndingSettles
  <1>8. CASE LookAtRefs(p)
    <2>1. pc'[p] = "count"
      BY <1>1, <1>8 DEF LookAtRefs, Goto, CallType
    <2>2. QED
      BY <1>1, <1>3, <2>1, EndingSettles
  <1>9. CASE FindMainMissing(p)
    <2>1. main = NoRef /\ MaxTag = 0 /\ StoredAbove(0) = << >> /\ saw[p] \in 0..MaxVersion
      BY <1>1, <1>4, <1>6, <1>9 DEF FindMainMissing, CallType
    <2>2. Goto(p, "count")
      BY <1>1, <1>9, <2>1 DEF FindMainMissing
    <2>3. pc'[p] = "count"
      BY <1>1, <2>2 DEF Goto, CallType
    <2>4. QED
      BY <1>1, <1>3, <2>3, EndingSettles
  <1>10. CASE CountEqual(p)
    <2>1. CASE saw[p] > 0 /\ ~TagOnTip(saw[p])
      <3>1. saw[p] = current /\ Step(p, "read")
        BY <1>5, <1>10, <2>1 DEF CountEqual
      <3>2. ~Projectable(main)
        BY <1>1, <2>1, <3>1 DEF Agree, TagOnTip
      <3>3. pc'[p] = "read" /\ phase' = phase /\ req' = req
        BY <1>1, <3>1, EndingGoes DEF local
      <3>4. Aligning(p)' /\ ~Projectable(main)'
        BY <1>1, <1>2, <3>2, <3>3 DEF Aligning, Projectable, Tip, repo
      <3>5. QED
        BY <1>3, <3>3, <3>4 DEF Matches, Matched
    <2>2. CASE ~(saw[p] > 0 /\ ~TagOnTip(saw[p]))
      BY <1>1, <1>3, <1>10, <2>2, EndingSettles DEF CountEqual
    <2>3. QED
      BY <2>1, <2>2
  <1>11. CASE CountBehind(p)
    <2>1. have[p] = MaxTag /\ saw[p] = current /\ have[p] < saw[p]
      BY <1>5, <1>11 DEF CountBehind
    <2>2. main = NoRef \/ Bare
      BY <1>1, <1>4, <2>1
    <2>3. StoredAbove(have[p]) = << >>
      BY <1>4, <1>6, <2>1, <2>2
    <2>4. QED
      BY <1>1, <1>3, <1>11, <2>3, EndingSettles DEF CountBehind
  <1>12. CASE CountAhead(p)
    <2>1. have[p] = MaxTag /\ saw[p] = current /\ have[p] > saw[p]
      BY <1>5, <1>12 DEF CountAhead
    <2>2. QED
      BY <1>1, <1>4, <2>1
  <1>13. ~SyncFails(p)
    BY NothingFails DEF SyncFails
  <1>14. QED
    BY <1>7, <1>8, <1>9, <1>10, <1>11, <1>12, <1>13 DEF Align

\* A git write is put on an aligned main and nobody else moves it.
LEMMA GitWriteSettles ==
  ASSUME FaultFree, IInv, NEW p \in Procs, Held(p), Placed(p), Aligned(p), Rising(p),
         Matched(p), GitWrite(p)
  PROVE  Matches(p)
PROOF
  <1>1. /\ CallType /\ CallInv(p) /\ StoreType /\ job[p] \in Job /\ req[p] \in Request
        /\ current \in Versions /\ main \in Commit
    BY DEF IInv, CallsInv, CallType, StoreType
  <1>2. /\ pc[p] \in {"build", "move", "tag"} /\ req[p].kind # "reproject" /\ ~orphan[p]
        /\ Writes(p) /\ dir
    BY <1>1 DEF GitWrite, BuildCommits, MoveMain, MoveRefused, SetTag, WriteDone, GitFails,
           TagFails, Held, Placed, Matched
  <1>3. /\ job[p].mode \in {"bootstrap", "web", "push", "merge"}
        /\ OfClient(p) => ~Aligning(p)
    BY <1>2 DEF Writes, OfService, OfClient, Aligned
  <1>4. /\ UNCHANGED db /\ dir' = dir /\ current' = current /\ rows' = rows
        /\ dbTitle' = dbTitle /\ Bare' = Bare
    BY DEF GitWrite, BuildCommits, MoveMain, MoveRefused, SetTag, WriteDone, GitFails,
           TagFails, db, repo, Bare, FirstRow
  <1>5. job[p].todo \in Commit /\ req[p].base \in Commit /\ job[p].tip \in Commit
        /\ job[p].tags \in Seq([ver : Versions, at : Commit])
    BY <1>1 DEF Job, Request
  <1>6. ASSUME job'[p].mode = job[p].mode, req' = req
        PROVE  /\ OfClient(p)' = OfClient(p) /\ OfService(p)' = OfService(p)
               /\ Goal(p)' = Goal(p)
    BY <1>4, <1>6 DEF OfClient, OfService, Goal, Canonical
  <1>7. CASE BuildCommits(p)
    <2> DEFINE mode == job[p].mode
    <2> DEFINE todo == job[p].todo
    <2> DEFINE base == CASE mode \in {"bootstrap", "rebuild"} -> NoRef
                         [] mode = "push"                     -> req[p].base
                         [] OTHER                             -> main
    <2>1. pc[p] = "build" /\ UNCHANGED <<db, repo>> /\ main' = main /\ tags' = tags
      BY <1>7 DEF BuildCommits, repo
    <2>2. /\ todo # NoRef
          /\ OfClient(p) => Agree /\ Agree'
          /\ OfService(p) => Tip(todo) = Goal(p)
          /\ mode = "bootstrap" => ~Bare /\ TagsUpTo(current) /\ main = NoRef
      <3>1. job[p].mode = "bootstrap" => OfService(p)
        BY DEF OfService
      <3>2. QED
        BY <1>2, <2>1, <3>1, AgreeStays DEF Writes
    <2>3. base \in Commit
      BY <1>1, <1>5, EmptySeq DEF NoRef, Commit
    <2>4. base \o todo \in Commit /\ base \o todo # NoRef /\ Tip(base \o todo) = Tip(todo)
      BY <1>5, <2>2, <2>3, OnTopOfBase, TipOfConcat
    <2>5. CASE mode = "merge" /\ main = NoRef
      <3>1. JobFailed(p) /\ OfClient(p)
        BY <1>7, <2>5 DEF BuildCommits, OfClient
      <3>2. QED
        BY <1>1, <1>2, <2>2, <3>1, EndingSettles
    <2>6. CASE ~(mode = "merge" /\ main = NoRef)
      <3> DEFINE w == [job[p] EXCEPT
                         !.parent = IF mode = "push" THEN main ELSE base,
                         !.tip    = base \o todo,
                         !.tags   = IF mode \in {"push", "merge"} THEN <<>>
                                    ELSE TagsFor(base \o todo, todo)]
      <3>1. Hand(p, "move", w)
        BY <1>3, <1>7, <2>6 DEF BuildCommits
      <3>2. /\ w.mode = mode /\ w.tip = base \o todo /\ w.parent = main
            /\ mode \in {"push", "merge"} => w.tags = <<>>
            /\ mode \in {"bootstrap", "web"} => w.tags = TagsFor(base \o todo, todo)
        BY <1>1, <1>3, <2>2 DEF Job
      <3>3. /\ TagsFor(base \o todo, todo) # << >>
            /\ LastOf(TagsFor(base \o todo, todo)) = [ver |-> Tip(todo).ver, at |-> base \o todo]
        BY <1>5, <2>2, <2>4, TagsEndAtTip
      <3> HIDE DEF w, base
      <3>4. /\ pc'[p] = "move" /\ job'[p] = w /\ req' = req
        BY <1>1, <1>2, <3>1, EndingGoes
      <3>5. /\ OfClient(p)' = OfClient(p) /\ OfService(p)' = OfService(p)
            /\ Goal(p)' = Goal(p)
        BY <1>6, <3>2, <3>4
      <3>6. OfService(p) => (Tip(job[p].tip) = Goal(p) /\ EndsAt(p, job[p].tip))'
        <4>1. SUFFICES ASSUME OfService(p)
                       PROVE  /\ Tip(job'[p].tip) = Goal(p)' /\ job'[p].tags # << >>
                              /\ LastOf(job'[p].tags)
                                   = [ver |-> Goal(p)'.ver, at |-> job'[p].tip]
          BY DEF EndsAt, Tip, LastOf
        <4>2. job'[p].tip = base \o todo /\ job'[p].tags = TagsFor(base \o todo, todo)
          BY <3>2, <3>4, <4>1 DEF OfService
        <4>3. Tip(todo) = Goal(p)'
          BY <2>2, <3>5, <4>1
        <4>4. QED
          BY <2>4, <3>3, <4>2, <4>3
      <3>7. /\ (main = job[p].parent /\ job[p].tip # NoRef)'
            /\ OfClient(p) => job'[p].tags = <<>> /\ Agree'
            /\ mode = "bootstrap" => (~Bare /\ TagsUpTo(current))'
        BY <1>4, <2>1, <2>2, <2>4, <3>2, <3>4 DEF OfClient, TagsUpTo
      <3>8. OfService(p) \/ OfClient(p)
        BY <1>3 DEF OfService, OfClient
      <3>9. job'[p].mode = mode
        BY <3>2, <3>4
      <3>10. Writes(p)'
        BY <3>4, <3>5, <3>6, <3>7, <3>8, <3>9 DEF Writes
      <3>11. QED
        BY <3>4, <3>10 DEF Matches, Matched
    <2>7. QED
      BY <2>5, <2>6
  <1>8. CASE MoveMain(p)
    <2>1. /\ pc[p] = "move" /\ pc'[p] = "tag" /\ main' = job[p].tip /\ tags' = tags
          /\ job' = job /\ req' = req
      BY <1>1, <1>2, <1>8, EndingGoes DEF MoveMain, local
    <2>2. /\ OfClient(p)' = OfClient(p) /\ OfService(p)' = OfService(p)
          /\ Goal(p)' = Goal(p)
      BY <1>6, <2>1
    <2>3. main' # NoRef /\ (OfService(p) \/ OfClient(p))
      BY <1>2, <2>1 DEF Writes
    <2>4. OfClient(p) => Ahead' /\ job[p].tags = <<>>
      <3>1. SUFFICES ASSUME OfClient(p) PROVE Ahead' /\ job[p].tags = <<>>
        OBVIOUS
      <3>2. Agree /\ job[p].tags = <<>>
        BY <1>2, <2>1, <3>1 DEF Writes
      <3>3. IF Bare THEN \A v \in Versions : tags[v] = NoRef ELSE tags[current] # NoRef
        BY <1>2, <3>2 DEF Agree, Tagged
      <3>4. QED
        BY <1>2, <1>4, <2>1, <2>3, <3>2, <3>3 DEF Ahead, Tagged, TagsUpTo, Agree
    <2>5. OfService(p) => (Tip(main) = Goal(p) /\ EndsAt(p, main))' /\ job[p].tags # <<>>
      BY <1>2, <2>1, <2>2 DEF Writes, EndsAt, Tip, LastOf
    <2>6. job[p].mode = "bootstrap" => (~Bare /\ TagsUpTo(current))'
      BY <1>2, <1>4, <2>1 DEF Writes, OfService, TagsUpTo
    <2>7. Writes(p)'
      BY <2>1, <2>2, <2>3, <2>4, <2>5, <2>6 DEF Writes
    <2>8. QED
      BY <2>1, <2>7 DEF Matches, Matched
  <1>9. CASE MoveRefused(p)
    <2>1. /\ pc[p] = "move" /\ main = job[p].parent /\ main # Expected(p)
          /\ UNCHANGED <<db, repo>>
      BY <1>2, <1>9 DEF MoveRefused, Writes
    <2>2. job[p].mode = "push"
      BY <2>1 DEF Expected
    <2>3. Finish(p, "unversioned")
      BY <1>2, <1>9, <2>1, <2>2 DEF MoveRefused
    <2>4. Agree
      BY <1>2, <2>1, <2>2 DEF Writes, OfClient
    <2>5. Agree'
      BY <2>1, <2>4, AgreeStays
    <2>6. QED
      BY <1>1, <1>2, <2>3, <2>5, EndingSettles
  <1>10. CASE SetTag(p)
    <2> DEFINE w == [job[p] EXCEPT !.tags = Tail(job[p].tags)]
    <2> DEFINE h == Head(job[p].tags)
    <2>1. /\ pc[p] = "tag" /\ job[p].tags # << >> /\ main' = main
          /\ tags' = [tags EXCEPT ![h.ver] = h.at]
          /\ Hand(p, "tag", w)
      BY <1>10 DEF SetTag
    <2>2. w.mode = job[p].mode /\ w.tags = Tail(job[p].tags)
      BY <1>1 DEF Job
    <2>3. h = job[p].tags[1] /\ h \in [ver : Versions, at : Commit] /\ 1 \in 1..Len(job[p].tags)
      <3>1. Len(job[p].tags) \in Nat \ {0}
        BY <1>5, <2>1, LenProperties, EmptySeq
      <3>2. h = job[p].tags[1]
        BY <1>5, <2>1, HeadTailProperties
      <3>3. 1 \in 1..Len(job[p].tags)
        BY <3>1
      <3>4. job[p].tags[1] \in [ver : Versions, at : Commit]
        BY <1>5, <3>3, ElementOfSeq
      <3>5. QED
        BY <3>2, <3>3, <3>4
    <2>4. IF Tail(job[p].tags) = << >> THEN h = LastOf(job[p].tags)
          ELSE LastOf(Tail(job[p].tags)) = LastOf(job[p].tags)
      BY <1>5, <2>1, LastOfTail
    <2> HIDE DEF w
    <2>5. pc'[p] = "tag" /\ job'[p] = w /\ req' = req
      BY <1>1, <1>2, <2>1, EndingGoes
    <2>6. /\ OfClient(p)' = OfClient(p) /\ OfService(p)' = OfService(p)
          /\ Goal(p)' = Goal(p)
      BY <1>6, <2>2, <2>5
    <2>7. /\ ~OfClient(p) /\ OfService(p) /\ main # NoRef /\ Tip(main) = Goal(p)
          /\ LastOf(job[p].tags) = [ver |-> Goal(p).ver, at |-> main]
          /\ job[p].mode = "bootstrap" => ~Bare /\ TagsUpTo(current)
      BY <1>2, <2>1 DEF Writes, EndsAt
    <2>8. job[p].mode = "bootstrap" => TagsUpTo(current)'
      <3>1. SUFFICES ASSUME job[p].mode = "bootstrap" PROVE TagsUpTo(current)'
        OBVIOUS
      <3>2. h.ver <= current /\ h.ver \in Versions
        BY <2>1, <2>3, <3>1 DEF Rising, Plain, Limit
      <3> HIDE DEF h
      <3>3. QED
        BY <1>1, <1>4, <2>1, <2>7, <3>1, <3>2 DEF TagsUpTo, StoreType
    <2>9. CASE Tail(job[p].tags) = << >>
      <3>1. h.ver = Goal(p).ver /\ h.at = main /\ h.ver \in Versions
        BY <2>3, <2>4, <2>7, <2>9
      <3> HIDE DEF h
      <3>2. tags'[Goal(p).ver] = main
        BY <1>1, <2>1, <3>1 DEF StoreType
      <3>3. (main # NoRef /\ Tip(main) = Goal(p) /\ tags[Goal(p).ver] = main)'
            /\ job'[p].tags = << >>
        BY <2>1, <2>2, <2>5, <2>6, <2>7, <2>9, <3>2 DEF Tip
      <3>4. Writes(p)'
        BY <1>4, <2>2, <2>5, <2>6, <2>7, <2>8, <3>3 DEF Writes
      <3>5. QED
        BY <2>5, <3>4 DEF Matches, Matched
    <2>10. CASE Tail(job[p].tags) # << >>
      <3> HIDE DEF h
      <3>1. (main # NoRef /\ Tip(main) = Goal(p) /\ EndsAt(p, main))' /\ job'[p].tags # << >>
        BY <2>1, <2>2, <2>4, <2>5, <2>6, <2>7, <2>10 DEF Tip, EndsAt, LastOf
      <3>2. Writes(p)'
        BY <1>4, <2>2, <2>5, <2>6, <2>7, <2>8, <3>1 DEF Writes
      <3>3. QED
        BY <2>5, <3>2 DEF Matches, Matched
    <2>11. QED
      BY <2>9, <2>10
  <1>11. CASE WriteDone(p)
    <2>1. /\ pc[p] = "tag" /\ job[p].tags = << >> /\ JobDone(p) /\ main' = main
          /\ tags' = tags
      BY <1>11 DEF WriteDone, repo
    <2>2. OfService(p) => main # NoRef /\ Tip(main) = Goal(p) /\ tags[Goal(p).ver] = main
      BY <1>2, <2>1 DEF Writes
    <2>3. CASE job[p].mode = "bootstrap"
      <3>1. LeaveEnsure(p)
        BY <1>2, <2>1, <2>3 DEF JobDone
      <3>2. /\ main # NoRef /\ ~Bare /\ TagsUpTo(current) /\ tags[current] = main
            /\ Tip(main).body = rows[current] /\ Tip(main).title = dbTitle
        BY <1>2, <2>2, <2>3 DEF Writes, OfService, Goal, Canonical
      <3>3. Agree'
        BY <1>2, <1>4, <2>1, <3>2 DEF Agree, Tagged, TagsUpTo, Tip
      <3>4. QED
        BY <1>1, <1>2, <3>1, <3>3, EndingSettles
    <2>4. CASE job[p].mode = "web"
      <3>1. pc'[p] = "commit" /\ req' = req
        BY <1>1, <1>2, <2>1, <2>4, EndingGoes DEF JobDone, local
      <3>2. Goal(p) = [req[p].entry EXCEPT !.ver = current + 1] /\ Goal(p).ver = current + 1
        BY <1>1, <2>4 DEF Goal, Request, Entry
      <3>3. main # NoRef /\ Tip(main) = Goal(p) /\ tags[Goal(p).ver] = main
        BY <2>2, <2>4 DEF OfService
      <3>4. (/\ main # NoRef /\ tags[current + 1] = main
             /\ Tip(main) = [req[p].entry EXCEPT !.ver = current + 1])'
        BY <1>4, <2>1, <3>1, <3>2, <3>3 DEF Tip
      <3>5. QED
        BY <3>1, <3>4 DEF Matches, Matched
    <2>5. CASE OfClient(p)
      <3>1. pc'[p] = "read" /\ phase' = phase /\ req' = req
        BY <1>1, <1>2, <2>1, <2>5, EndingGoes DEF JobDone, local, OfClient
      <3>2. Ahead
        BY <1>2, <2>1, <2>5 DEF Writes
      <3>3. Ahead' /\ ~Aligning(p)'
        BY <1>3, <1>4, <2>1, <2>5, <3>1, <3>2 DEF Ahead, Tagged, TagsUpTo, Aligning
      <3>4. QED
        BY <3>1, <3>3 DEF Matches, Matched
    <2>6. QED
      BY <1>3, <2>3, <2>4, <2>5 DEF OfClient
  <1>12. ~GitFails(p) /\ ~TagFails(p)
    BY NothingFails DEF GitFails, TagFails
  <1>13. QED
    BY <1>7, <1>8, <1>9, <1>10, <1>11, <1>12 DEF GitWrite

\* A projection makes the tip of main the current version, with its title and
\* its tag.
LEMMA ProjectSettles ==
  ASSUME FaultFree, IInv, NEW p \in Procs, Held(p), Placed(p), Aligned(p), Rising(p),
         Matched(p), Project(p)
  PROVE  Matches(p)
PROOF
  <1>1. /\ CallType /\ CallInv(p) /\ StoreType /\ current \in Versions /\ main \in Commit
        /\ Versions = 1..MaxVersion /\ MaxVersion \in Nat
    BY BoundAssumption DEF IInv, CallsInv, CallType, StoreType, Versions
  <1>2. /\ pc[p] \in {"read", "insert", "meta", "mark"} /\ req[p].kind # "reproject"
        /\ ~orphan[p] /\ dir
    BY <1>1 DEF Project, ReadTip, InsertVersion, InsertFails, InsertUnanswered, UpdateMeta,
                TagVersion, Held, Placed
  <1>3. main' = main /\ dir' = dir
    BY DEF Project, ReadTip, InsertVersion, InsertFails, InsertUnanswered, UpdateMeta,
           TagVersion, repo
  <1>4. pc[p] \in {"insert", "meta", "mark"} =>
           /\ job[p].tip = main /\ Projectable(main) /\ ~Aligning(p) /\ TagsUpTo(current)
    BY <1>1 DEF Rising, CallInv, Contents, Matched
  <1>5. CASE ReadTip(p)
    <2>1. pc[p] = "read" /\ UNCHANGED <<db, repo>> /\ current' = current /\ tags' = tags
      BY <1>5 DEF ReadTip, db, repo
    <2>2. CASE Aligning(p)
      <3>1. Agree /\ NothingToProject(p)
        BY <1>5, <2>1, <2>2 DEF ReadTip, Matched
      <3>2. Agree'
        BY <2>1, <3>1, AgreeStays
      <3>3. QED
        BY <1>1, <1>2, <2>2, <3>1, <3>2, EndingSettles DEF NothingToProject
    <2>3. CASE ~Aligning(p)
      <3>1. Ahead
        BY <2>1, <2>3 DEF Matched
      <3>2. CASE Projectable(main)
        <4> DEFINE w == [NoJob EXCEPT !.mode = "project", !.tip = main]
        <4>1. Hand(p, "insert", w)
          BY <1>5, <3>2, SMTT(60) DEF ReadTip
        <4> HIDE DEF w
        <4>2. pc'[p] = "insert" /\ phase' = phase /\ req' = req
          BY <1>1, <1>2, <4>1, EndingGoes
        <4>3. ~Aligning(p)' /\ TagsUpTo(current)'
          BY <2>1, <2>3, <3>1, <4>2 DEF Aligning, Ahead, Tagged, TagsUpTo
        <4>4. QED
          BY <4>2, <4>3 DEF Matches, Matched
      <3>3. CASE ~Projectable(main)
        <4>1. Agree
          BY <3>1, <3>3 DEF Ahead, Agree
        <4>2. Agree'
          BY <2>1, <4>1, AgreeStays
        <4>3. QED
          BY <1>1, <1>2, <1>5, <2>3, <3>3, <4>2, EndingSettles DEF ReadTip, NothingToProject
      <3>4. QED
        BY <3>2, <3>3
    <2>4. QED
      BY <2>2, <2>3
  <1>6. CASE InsertVersion(p)
    <2>1. /\ pc[p] = "insert" /\ current < MaxVersion /\ current' = current + 1
          /\ rows' = [rows EXCEPT ![current + 1] = Tip(job[p].tip).body]
          /\ pc'[p] = "meta" /\ tags' = tags /\ phase' = phase /\ req' = req
      BY <1>1, <1>6 DEF InsertVersion, NewRow, Goto, CallType, repo
    <2>2. rows'[current'] = Tip(main).body
      BY <1>1, <1>4, <2>1 DEF StoreType
    <2>3. rows'[current'] = Tip(main)'.body
      BY <1>3, <2>2 DEF Tip
    <2>4. TagsUpTo(current)'
      BY <1>1, <1>4, <2>1 DEF TagsUpTo
    <2>5. ~Aligning(p)'
      BY <1>4, <2>1 DEF Aligning
    <2>6. QED
      BY <2>1, <2>3, <2>4, <2>5 DEF Matches, Matched, Tip
  <1>7. ~InsertFails(p) /\ ~InsertUnanswered(p)
    BY NothingFails DEF InsertFails, InsertUnanswered
  <1>8. CASE UpdateMeta(p)
    <2>1. /\ pc[p] = "meta" /\ pc'[p] = "mark" /\ dbTitle' = Tip(job[p].tip).title
          /\ current' = current /\ rows' = rows /\ tags' = tags /\ phase' = phase /\ req' = req
      BY <1>1, <1>2, <1>8, NothingFails, EndingGoes DEF UpdateMeta, repo, local
    <2>2. rows[current] = Tip(main).body
      BY <2>1 DEF Matched
    <2>3. (rows[current] = Tip(main).body /\ dbTitle = Tip(main).title)'
      BY <1>3, <1>4, <2>1, <2>2 DEF Tip
    <2>4. TagsUpTo(current)' /\ ~Aligning(p)'
      BY <1>4, <2>1 DEF TagsUpTo, Aligning
    <2>5. QED
      BY <2>1, <2>3, <2>4 DEF Matches, Matched
  <1>9. CASE TagVersion(p)
    <2>1. /\ pc[p] = "mark" /\ UNCHANGED db /\ Projected(p)
          /\ tags' = [tags EXCEPT ![ver[p]] = job[p].tip]
      BY <1>2, <1>9, NothingFails DEF TagVersion
    <2>2. /\ ver[p] = current /\ rows[current] = Tip(main).body /\ dbTitle = Tip(main).title
          /\ main # NoRef
      BY <1>4, <2>1 DEF Rising, Matched, Projectable
    <2>3. current' = current /\ rows' = rows /\ dbTitle' = dbTitle
      BY <2>1 DEF db
    <2>4. tags'[current] = main /\ \A v \in Versions : v # current => tags'[v] = tags[v]
      BY <1>1, <1>4, <2>1, <2>2 DEF StoreType
    <2>5. ~Bare
      <3>1. Tip(main).body \in Bodies
        BY <1>1, <1>4, <2>1, TipOfProjectable
      <3>2. rows[current] # NoRow
        BY <2>2, <3>1, DataAssumption
      <3>3. QED
        BY <1>1, <3>2 DEF Bare, FirstRow
    <2>6. Bare' = Bare
      BY <2>3 DEF Bare, FirstRow
    <2>7. TagsUpTo(current)'
      BY <1>1, <1>4, <2>1, <2>3, <2>4 DEF TagsUpTo
    <2>8. Tagged'
      BY <1>3, <2>2, <2>3, <2>4, <2>5, <2>6, <2>7 DEF Tagged
    <2>9. Agree'
      BY <1>2, <1>3, <2>2, <2>3, <2>4, <2>8 DEF Agree, Tip
    <2>10. QED
      BY <1>1, <1>2, <1>4, <2>1, <2>9, EndingSettles DEF Projected
  <1>10. QED
    BY <1>5, <1>6, <1>7, <1>8, <1>9 DEF Project

\* The transaction of an edit makes its commit the current version.
LEMMA WebTailSettles ==
  ASSUME FaultFree, IInv, Ordered, NEW p \in Procs, Held(p), Placed(p), Matched(p), WebTail(p)
  PROVE  Matches(p)
PROOF
  <1>1. /\ CallType /\ CallInv(p) /\ StoreType /\ req[p] \in Request /\ current \in Versions
        /\ Versions = 1..MaxVersion /\ MaxVersion \in Nat
    BY BoundAssumption DEF IInv, CallsInv, CallType, StoreType, Versions
  <1>2. pc[p] \in {"begin", "commit"} /\ req[p].kind # "reproject" /\ dir
    BY DEF WebTail, BeginWeb, BeginFails, CommitWeb, CommitFails, Held, Placed
  <1>3. CASE BeginWeb(p)
    <2>1. pc[p] = "begin" /\ UNCHANGED <<db, repo>> /\ Agree
      BY <1>3 DEF BeginWeb, Matched
    <2>2. CASE req[p].want \notin {0, current}
      BY <1>1, <1>2, <1>3, <2>1, <2>2, AgreeStays, EndingSettles DEF BeginWeb
    <2>3. CASE req[p].want \in {0, current}
      <3> DEFINE e == [req[p].entry EXCEPT !.ver = current + 1]
      <3>1. pc'[p] = "build" /\ job'[p] = Work("web", <<e>>) /\ req' = req
        BY <1>1, <1>3, <2>3 DEF BeginWeb, Goto, CallType
      <3>2. current' = current
        BY <2>1 DEF db
      <3>3. e = [req[p].entry EXCEPT !.ver = current + 1]'
        BY <3>1, <3>2
      <3> HIDE DEF e
      <3>4. job'[p].mode = "web" /\ job'[p].todo = <<e>>
        BY <3>1 DEF Work
      <3>5. <<e>> # NoRef /\ Tip(<<e>>) = e
        BY DEF NoRef, Tip
      <3>6. Goal(p)' = e
        BY <3>3, <3>4 DEF Goal
      <3>7. job'[p].todo # NoRef /\ Tip(job[p].todo)' = Goal(p)'
        BY <3>4, <3>5, <3>6 DEF Tip
      <3>8. Writes(p)'
        BY <3>1, <3>4, <3>7 DEF Writes, OfService, OfClient
      <3>9. QED
        BY <3>1, <3>8 DEF Matches, Matched
    <2>4. QED
      BY <2>2, <2>3
  <1>4. CASE CommitWeb(p)
    <2>1. /\ pc[p] = "commit" /\ UNCHANGED repo /\ Finish(p, "ok") /\ NewVersion(p)
      BY <1>4 DEF CommitWeb
    <2>2. ver[p] = current + 1 /\ current < MaxVersion
      BY <1>1, <1>2, <2>1 DEF CallInv, Owns, Open
    <2>3. /\ main # NoRef /\ tags[current + 1] = main
          /\ Tip(main).body = req[p].entry.body /\ Tip(main).title = req[p].entry.title
      BY <1>1, <2>1 DEF Matched, Request, Entry
    <2>4. /\ current' = current + 1 /\ dbTitle' = req[p].entry.title
          /\ rows'[current + 1] = req[p].entry.body
          /\ main' = main /\ tags' = tags /\ dir' = dir
      BY <1>1, <2>1, <2>2 DEF NewVersion, StoreType, repo
    <2>5. ~Bare'
      BY <1>1, <2>4 DEF Bare, FirstRow
    <2>6. TagsUpTo(current + 1)
      BY DEF Ordered
    <2>7. Agree'
      BY <1>2, <2>3, <2>4, <2>5, <2>6 DEF Agree, Tagged, TagsUpTo, Tip
    <2>8. QED
      BY <1>1, <1>2, <2>1, <2>7, EndingSettles
  <1>5. ~BeginFails(p) /\ ~CommitFails(p)
    BY NothingFails DEF BeginFails, CommitFails
  <1>6. QED
    BY <1>3, <1>4, <1>5 DEF WebTail

\* Another call's knowledge of the stores, while nothing moves.
LEMMA MatchedStays ==
  ASSUME NEW q \in Procs, Matched(q), Same(q), UNCHANGED <<db, repo>>
  PROVE  Matched(q)'
PROOF
  <1>1. /\ current' = current /\ dir' = dir /\ main' = main /\ tags' = tags
        /\ rows' = rows /\ dbTitle' = dbTitle
    BY DEF db, repo
  <1>2. Agree => Agree'
    BY AgreeStays
  <1>3. /\ Bare' = Bare /\ Projectable(main)' = Projectable(main) /\ Tip(main)' = Tip(main)
        /\ TagsUpTo(current)' = TagsUpTo(current) /\ Ahead' = Ahead
    BY <1>1 DEF Bare, FirstRow, Projectable, Tip, TagsUpTo, Ahead, Tagged
  <1>4. /\ pc'[q] = pc[q] /\ job'[q] = job[q] /\ req'[q] = req[q]
        /\ Aligning(q)' = Aligning(q) /\ OfService(q)' = OfService(q)
        /\ OfClient(q)' = OfClient(q)
    BY DEF Same, Aligning, OfService, OfClient
  <1>5. Goal(q)' = Goal(q) /\ EndsAt(q, job[q].tip)' = EndsAt(q, job[q].tip)
        /\ EndsAt(q, main)' = EndsAt(q, main)
    BY <1>1, <1>4 DEF Goal, Canonical, EndsAt, LastOf
  <1>6. Writes(q) => Writes(q)'
    BY <1>1, <1>2, <1>3, <1>4, <1>5 DEF Writes, Tip
  <1>7. QED
    BY <1>1, <1>2, <1>3, <1>4, <1>6 DEF Matched

\* Every step keeps the two stores matched.
LEMMA MatchNext ==
  ASSUME FaultFree, IInv, GuardInv, OrderInv, MatchInv, [Next]_vars
  PROVE  MatchInv'
PROOF
  <1>1. /\ \A q \in Procs : /\ Held(q) /\ Placed(q) /\ Aligned(q) /\ Rising(q)
                            /\ Matched(q)
        /\ Ordered /\ (Rest => Agree)
        /\ GuardIsKept
    BY NothingFails DEF GuardInv, OrderInv, MatchInv
  <1>2. CASE UNCHANGED vars
    <2>1. UNCHANGED <<db, repo>> /\ pc' = pc /\ \A q \in Procs : Same(q)
      BY <1>2 DEF vars, locks, local, Same
    <2>2. QED
      BY <1>1, <2>1, MatchedStays, AgreeStays DEF MatchInv, Rest
  <1>3. ASSUME NEW p \in Procs, Acts(p)
        PROVE  MatchInv'
    <2>1. \A q \in Procs \ {p} : Same(q)
      BY <1>3, ActsAlone DEF OnlyOf
    <2>2. CASE \E q \in Procs \ {p} : pc[q] \notin {"idle", "lock"}
      <3>1. PICK q \in Procs \ {p} : pc[q] \notin {"idle", "lock"}
        BY <2>2
      <3>2. guard = q /\ pc[p] \in {"idle", "lock"} /\ \A r \in Procs \ {q} : pc[r] \in {"idle", "lock"}
        BY <1>1, <3>1 DEF Held
      <3>3. UNCHANGED <<db, repo>>
        BY <1>1, <1>3, <3>1, <3>2, WaitingKeepsStores
      <3>4. ~Rest'
        BY <2>1, <3>1 DEF Rest, Same
      <3>5. \A r \in Procs \ {p} : Matched(r)'
        BY <1>1, <2>1, <3>3, MatchedStays
      <3>6. Matched(p)'
        <4>1. ~TakeGuard(p) /\ ~Proceed(p)
          BY <3>1, <3>2, DataAssumption
             DEF TakeGuard, Proceed, Ensure, EnsureMissing, EnsurePresent, Align, ReadCurrent,
                 LookAtRefs, FindMainMissing, CountEqual, CountBehind, CountAhead,
                 SyncFails, GitWrite, BuildCommits, MoveMain, MoveRefused, SetTag,
                 WriteDone, GitFails, TagFails, Project, ReadTip, InsertVersion,
                 InsertFails, InsertUnanswered, UpdateMeta, TagVersion, WebTail,
                 BeginWeb, BeginFails, CommitWeb, CommitFails
        <4>2. pc'[p] = "lock"
          BY <1>1, <1>3, <4>1, GuardedSteps, ArrivalDoes
        <4>3. QED
          BY <4>2 DEF Matched
      <3>7. QED
        BY <3>4, <3>5, <3>6 DEF MatchInv
    <2>3. CASE \A q \in Procs \ {p} : pc[q] \in {"idle", "lock"}
      <3>1. \A q \in Procs \ {p} : pc'[q] \in {"idle", "lock"} /\ Matched(q)'
        BY <2>1, <2>3 DEF Same, Matched
      <3>2. Matches(p)
        <4>1. CASE StartWeb(p) \/ StartPush(p) \/ StartMerge(p) \/ StartRead(p)
          <5>1. pc[p] = "idle" /\ pc'[p] = "lock" /\ UNCHANGED <<db, repo>>
            BY <1>1, <4>1, ArrivalDoes
          <5>2. Rest
            BY <2>3, <5>1 DEF Rest
          <5>3. QED
            BY <1>1, <5>1, <5>2, AgreeStays DEF Matches, Matched
        <4>2. CASE TakeGuard(p)
          <5>1. Rest
            BY <2>3, <4>2 DEF Rest, TakeGuard
          <5>2. QED
            BY <1>1, <4>2, <5>1, EntrySettles
        <4>3. CASE Proceed(p)
          BY <1>1, <4>3, EnsureSettles, AlignSettles, GitWriteSettles, ProjectSettles,
             WebTailSettles DEF Proceed
        <4>4. QED
          BY <1>1, <1>3, <4>1, <4>2, <4>3, GuardedSteps
      <3>3. Rest' => Agree'
        BY <3>2 DEF Rest, Matches
      <3>4. QED
        BY <3>1, <3>2, <3>3 DEF MatchInv, Matches
    <2>4. QED
      BY <2>2, <2>3
  <1>4. ~Crash /\ ~Damage
    BY NothingFails DEF Crash, Damage, LoseMain, LoseTag, LoseDir, ForeignTag
  <1>5. QED
    BY <1>2, <1>3, <1>4 DEF Next, Acts

\* At the start Postgres alone knows the list.
LEMMA MatchInit == Init => MatchInv
PROOF
  <1> SUFFICES ASSUME Init PROVE MatchInv
    OBVIOUS
  <1>1. main = NoRef /\ dir = FALSE /\ (\A v \in Versions : tags[v] = NoRef) /\ ~Projectable(main)
    BY DEF Init, Projectable
  <1>2. Agree
    BY <1>1 DEF Agree, Tagged, TagsUpTo
  <1>3. \A q \in Procs : pc[q] = "idle"
    BY DEF Init
  <1>4. QED
    BY <1>2, <1>3 DEF MatchInv, Matched

\* While nothing fails and nobody reprojects, the read model at rest shows the
\* tip of main, for any writers and readers in any order: its steps, its title
\* and its tag are those of the current version.
THEOREM ReadModelHolds ==
  ASSUME FaultFree
  PROVE  Spec => []ReadModelMatchesCanon
PROOF
  <1>1. IInv /\ GuardInv /\ OrderInv /\ MatchInv /\ [Next]_vars => MatchInv'
    BY MatchNext
  <1>2. IInv /\ MatchInv => ReadModelMatchesCanon
    <2>1. SUFFICES ASSUME IInv, MatchInv, Quiet, Projectable(main)
                   PROVE  /\ MaxTag = current /\ tags[current] = main
                          /\ rows[current] = Tip(main).body /\ dbTitle = Tip(main).title
      BY DEF ReadModelMatchesCanon
    <2>2. Agree /\ main # NoRef /\ StoreType /\ current \in Versions
      BY <2>1 DEF MatchInv, Rest, Quiet, Projectable, IInv, StoreType
    <2>3. ~Bare
      BY <2>1, <2>2 DEF Agree, Tagged
    <2>4. QED
      BY <2>1, <2>2, <2>3, HighestOfAgreed DEF Agree
  <1>3. GuardIsKept /\ TagsAreOurs
    BY NothingFails
  <1>4. QED
    BY <1>1, <1>2, <1>3, MatchInit, Invariance, GuardHolds, OrderHolds, PTL DEF Spec


-----------------------------------------------------------------------------
(* What a version tag names, when at most one thing goes wrong under the    *)
(* guard                                                                   *)

FailsOnce == MaxFaults <= 1
Spent == faults = MaxFaults

\* The transaction of an edit is open and its commit is on main.
Edits(q) == pc[q] = "commit" \/ (pc[q] = "tag" /\ job[q].mode = "web")
Wanted(q, c) == c # NoRef /\ Tip(c).body = req[q].entry.body

\* A write of versions that Postgres has.
Rebuilds(q) == job[q].mode \in {"bootstrap", "rebuild", "append"}

\* The tag of a version names a commit with the steps of its row.
Named(v) == tags[v] # NoRef /\ rows[v] # NoRow => Tip(tags[v]).body = rows[v]

\* A tag above the current version is an edit's, or what a failure left.  A
\* tag that names other steps is about to be set on the tip they came from.
Covered(p) == TagsUpTo(current) \/ Spent \/ Edits(p)
Amends(p) == \A v \in Versions :
                Named(v) \/ (v = current /\ Spent /\ pc[p] \in {"meta", "mark"})

\* What the tags a call is about to set will name.
Naming(q) ==
    /\ pc[q] \in {"build", "move", "tag"} => job[q].mode # "restore"
    /\ pc[q] = "build" /\ job[q].mode = "web" =>
          /\ job[q].todo = <<[req[q].entry EXCEPT !.ver = current + 1]>>
          /\ TagsUpTo(current)
    /\ pc[q] = "move" /\ job[q].mode = "web" =>
          /\ Wanted(q, job[q].tip) /\ TagsUpTo(current)
          /\ \A i \in 1..Len(job[q].tags) :
                job[q].tags[i] = [ver |-> current + 1, at |-> job[q].tip]
    /\ pc[q] = "tag" /\ job[q].mode = "web" =>
          \A i \in 1..Len(job[q].tags) :
             job[q].tags[i] = [ver |-> current + 1, at |-> main]
    /\ Edits(q) =>
          /\ Wanted(q, main)
          /\ \A v \in Versions : v = current + 1 => tags[v] \in {NoRef, main}
    /\ pc[q] \in {"move", "tag"} /\ job[q].mode \in {"push", "merge"} =>
          job[q].tags = <<>>
    /\ pc[q] = "build" /\ Rebuilds(q) =>
          \A i \in 1..Len(job[q].todo) : job[q].todo[i].body = rows[job[q].todo[i].ver]
    /\ pc[q] \in {"move", "tag"} /\ Rebuilds(q) =>
          \A i \in 1..Len(job[q].tags) :
             Tip(job[q].tags[i].at).body = rows[job[q].tags[i].ver]
    /\ pc[q] \in {"meta", "mark"} => tags[current] \in {NoRef, main} \/ Spent

NameInv ==
    /\ TagsUpTo(current) \/ Spent \/ \E q \in Procs : Edits(q)
    /\ \A v \in Versions :
          \/ Named(v)
          \/ v = current /\ Spent /\ \E q \in Procs : pc[q] \in {"meta", "mark"}
    /\ \A q \in Procs : Naming(q)

\* A fault is the last one.
LEMMA FaultSpends ==
  ASSUME FailsOnce, StoreType, NEW kind, Fault(kind)
  PROVE  ~Spent /\ Spent'
PROOF
  BY BoundAssumption DEF FailsOnce, Fault, StoreType, Spent

\* The tags of a write name its commits, one each.
LEMMA TagsForTips ==
  ASSUME NEW c \in Commit, NEW todo \in Commit, Len(todo) <= Len(c),
         \A i \in 1..Len(todo) : c[Len(c) - Len(todo) + i] = todo[i]
  PROVE  /\ Len(TagsFor(c, todo)) = Len(todo)
         /\ \A i \in 1..Len(todo) :
               /\ TagsFor(c, todo)[i].ver = todo[i].ver
               /\ Tip(TagsFor(c, todo)[i].at) = todo[i]
PROOF
  <1> DEFINE below == Len(c) - Len(todo)
  <1> DEFINE f == [i \in 1..Len(todo) |->
                      [ver |-> todo[i].ver, at |-> SubSeq(c, 1, below + i)]]
  <1>1. Len(c) \in Nat /\ Len(todo) \in Nat /\ below \in Nat /\ below + Len(todo) = Len(c)
    BY LenProperties DEF Commit
  <1>2. f \in [1..Len(todo) -> {f[i] : i \in 1..Len(todo)}]
    OBVIOUS
  <1>3. \A i \in 1..Len(todo) : f[i].ver = todo[i].ver /\ f[i].at = SubSeq(c, 1, below + i)
    OBVIOUS
  <1>4. TagsFor(c, todo) = f
    BY DEF TagsFor
  <1>5. \A i \in 1..Len(todo) : c[below + i] = todo[i]
    OBVIOUS
  <1> HIDE DEF f, below
  <1>6. Len(f) = Len(todo)
    BY <1>1, <1>2, RangeIsSeq
  <1>7. ASSUME NEW i \in 1..Len(todo)
        PROVE  Tip(f[i].at) = todo[i]
    <2> DEFINE m == below + i
    <2>1. m \in 1..Len(c)
      BY <1>1
    <2>2. Tip(SubSeq(c, 1, m)) = c[m]
      BY <2>1, Beginnings
    <2>3. QED
      BY <1>3, <1>5, <2>2
  <1>8. QED
    BY <1>3, <1>4, <1>6, <1>7

\* The one commit of an edit, and its one tag.
LEMMA TagOfOne ==
  ASSUME NEW c \in Commit, NEW e \in Entry
  PROVE  /\ c \o <<e>> \in Commit /\ c \o <<e>> # NoRef /\ Tip(c \o <<e>>) = e
         /\ Len(TagsFor(c \o <<e>>, <<e>>)) = 1
         /\ TagsFor(c \o <<e>>, <<e>>)[1] = [ver |-> e.ver, at |-> c \o <<e>>]
PROOF
  <1> DEFINE d == c \o <<e>>
  <1>1. <<e>> \in Commit /\ Len(<<e>>) = 1 /\ <<e>>[1] = e
    BY DEF Commit
  <1>2. d \in Commit
    BY <1>1, OnTopOfBase
  <1>3. Len(c) \in Nat /\ Len(d) = Len(c) + 1 /\ d[Len(c) + 1] = e
    <2>1. /\ c \in Seq(Entry) /\ <<e>> \in Seq(Entry) /\ Len(c) \in Nat
      BY <1>1, LenProperties DEF Commit
    <2>2. /\ Len(d) = Len(c) + Len(<<e>>)
          /\ \A i \in 1..Len(c) + Len(<<e>>) :
                d[i] = IF i <= Len(c) THEN c[i] ELSE <<e>>[i - Len(c)]
      BY <2>1, ConcatProperties
    <2>3. Len(c) + 1 \in 1..Len(c) + Len(<<e>>) /\ ~(Len(c) + 1 <= Len(c))
          /\ (Len(c) + 1) - Len(c) = 1
      BY <1>1, <2>1
    <2>4. QED
      BY <1>1, <2>1, <2>2, <2>3
  <1> HIDE DEF d
  <1>4. d # NoRef /\ Tip(d) = e
    BY <1>3, EmptySeq DEF NoRef, Tip
  <1>5. SubSeq(d, 1, Len(d)) = d
    BY <1>2, SubSeqFull DEF Commit
  <1>6. TagsFor(d, <<e>>) = [i \in 1..1 |-> [ver |-> <<e>>[i].ver,
                                              at |-> SubSeq(d, 1, (Len(d) - 1) + i)]]
    BY <1>1 DEF TagsFor
  <1> DEFINE f == [i \in 1..1 |-> [ver |-> <<e>>[i].ver, at |-> SubSeq(d, 1, (Len(d) - 1) + i)]]
  <1>7. f \in [1..1 -> {f[i] : i \in 1..1}] /\ 1 \in Int
    OBVIOUS
  <1>8. f[1] = [ver |-> e.ver, at |-> d]
    <2>1. f[1] = [ver |-> <<e>>[1].ver, at |-> SubSeq(d, 1, (Len(d) - 1) + 1)]
      <3>1. 1 \in 1..1
        OBVIOUS
      <3>2. QED
        BY <3>1, Zenon
    <2>2. (Len(d) - 1) + 1 = Len(d)
      BY <1>3
    <2>3. QED
      BY <1>1, <1>5, <2>1, <2>2
  <1> HIDE DEF f
  <1>9. Len(f) = 1
    BY ONLY <1>7, RangeIsSeq
  <1>10. QED
    BY <1>2, <1>4, <1>6, <1>8, <1>9 DEF d, f

\* What the heal commits is what Postgres has.
LEMMA StoredBodies ==
  ASSUME StoreType, HistoryHasNoGaps, NEW v \in 0..MaxVersion
  PROVE  \A i \in 1..Len(StoredAbove(v)) :
            StoredAbove(v)[i].body = rows[StoredAbove(v)[i].ver]
PROOF
  <1> DEFINE low == IF v + 1 < FirstRow THEN FirstRow - 1 ELSE v
  <1> DEFINE n == current - low
  <1> DEFINE f == [i \in 1..n |-> Canonical(low + i)]
  <1>1. FirstRow \in {1, 2} /\ low \in Nat /\ n \in Int
    BY BoundAssumption DEF FirstRow, StoreType, Versions
  <1>2. \A i \in 1..n : f[i].ver = low + i /\ f[i].body = rows[low + i]
    BY DEF Canonical
  <1>3. f \in [1..n -> {f[i] : i \in 1..n}]
    OBVIOUS
  <1>4. StoredAbove(v) = f
    BY DEF StoredAbove
  <1> HIDE DEF f
  <1>5. Len(f) = IF n < 0 THEN 0 ELSE n
    BY ONLY <1>1, <1>3, RangeIsSeq
  <1>6. \A i \in 1..Len(f) : i \in 1..n
    BY <1>1, <1>5
  <1>7. QED
    BY <1>2, <1>4, <1>6

\* Most steps touch neither the rows nor the tags and have none in hand.
Rests(p) == pc'[p] \notin {"build", "move", "tag", "meta", "mark", "commit"}

\* After such a step the tags name what they named before.
LEMMA RestNames ==
  ASSUME NEW p \in Procs, Covered(p), Amends(p), UNCHANGED <<current, rows, tags>>,
         Spent => Spent', Edits(p) => Spent', pc[p] \notin {"meta", "mark"}, Rests(p)
  PROVE  Covered(p)' /\ Amends(p)' /\ Naming(p)'
PROOF
  <1>1. Naming(p)'
    BY DEF Rests, Naming, Edits
  <1>2. Covered(p)'
    BY DEF Covered, TagsUpTo
  <1>3. Amends(p)'
    BY DEF Amends, Named, Tip
  <1>4. QED
    BY <1>1, <1>2, <1>3

\* The heal's commits carry the steps of the rows they stand for.
LEMMA StoredNames ==
  ASSUME CallType, StoreType, HistoryHasNoGaps, NEW p \in Procs, req[p].kind # "reproject",
         Covered(p), Amends(p), ~Edits(p), pc[p] \notin {"meta", "mark"},
         NEW v \in 0..MaxVersion, NEW mode \in {"bootstrap", "rebuild", "append"},
         Hand(p, "build", Work(mode, StoredAbove(v))),
         UNCHANGED <<current, rows, tags>>, Spent => Spent'
  PROVE  Covered(p)' /\ Amends(p)' /\ Naming(p)'
PROOF
  <1>1. Work(mode, StoredAbove(v)).mode = mode /\ Work(mode, StoredAbove(v)).todo = StoredAbove(v)
    BY DEF Work
  <1>2. pc'[p] = "build" /\ job'[p].mode = mode /\ job'[p].todo = StoredAbove(v)
    BY <1>1, EndingGoes
  <1>3. \A i \in 1..Len(StoredAbove(v)) :
            StoredAbove(v)[i].body = rows[StoredAbove(v)[i].ver]
    BY StoredBodies
  <1>4. Naming(p)'
    BY <1>2, <1>3 DEF Naming, Edits
  <1>5. Covered(p)'
    BY DEF Covered, TagsUpTo
  <1>6. Amends(p)'
    BY DEF Amends, Named, Tip
  <1>7. QED
    BY <1>4, <1>5, <1>6

\* The entry of a call touches neither rows nor tags.
LEMMA EntryNames ==
  ASSUME FailsOnce, IInv, NEW p \in Procs, Held(p), Covered(p), Amends(p),
         TakeGuard(p) \/ Ensure(p)
  PROVE  Covered(p)' /\ Amends(p)' /\ Naming(p)'
PROOF
  <1>1. CallType /\ CallInv(p) /\ StoreType /\ HistoryHasNoGaps /\ 0 \in 0..MaxVersion
    BY BoundAssumption DEF IInv, CallsInv, CallType, StoreType
  <1>2. /\ UNCHANGED <<current, rows, tags>> /\ Spent' = Spent
        /\ pc[p] \in {"lock", "ensure"} /\ ~Edits(p)
    BY DEF TakeGuard, Ensure, EnsureMissing, EnsurePresent, db, repo, NoFault, budget, Spent,
           Edits
  <1>3. CASE TakeGuard(p)
    <2>1. CASE pc'[p] \in {"ensure", "sync"}
      BY <1>2, <2>1, RestNames DEF Rests
    <2>2. CASE /\ pc'[p] = "build" /\ req[p].kind \in {"push", "merge"}
               /\ job'[p] = Work(req[p].kind, <<req[p].entry>>)
      <3>1. job'[p].mode \in {"push", "merge"}
        BY <2>2 DEF Work
      <3>2. Naming(p)'
        BY <2>2, <3>1 DEF Naming, Edits, Rebuilds
      <3>3. Covered(p)' /\ Amends(p)'
        BY <1>2 DEF Covered, TagsUpTo, Amends, Named, Tip
      <3>4. QED
        BY <3>2, <3>3
    <2>3. QED
      BY <1>1, <1>3, <2>1, <2>2 DEF TakeGuard, Goto, CallType, CallInv, Control
  <1>4. CASE Ensure(p)
    <2>1. req[p].kind # "reproject"
      BY <1>4 DEF Ensure, EnsureMissing, EnsurePresent, Held
    <2>2. CASE LeaveEnsure(p) \/ Step(p, "sync")
      <3>1. Rests(p)
        BY <1>1, <2>1, <2>2, EndingGoes DEF Rests
      <3>2. QED
        BY <1>2, <3>1, RestNames
    <2>3. CASE Hand(p, "build", Work("bootstrap", StoredAbove(0)))
      BY <1>1, <1>2, <2>1, <2>3, StoredNames
    <2>4. QED
      BY <1>4, <2>2, <2>3 DEF Ensure, EnsureMissing, EnsurePresent
  <1>5. QED
    BY <1>3, <1>4

\* Neither does the alignment, and without main it has no tag to go back to.
LEMMA AlignNames ==
  ASSUME FailsOnce, IInv, NEW p \in Procs, Held(p), Ordered, Covered(p), Amends(p), Align(p)
  PROVE  Covered(p)' /\ Amends(p)' /\ Naming(p)'
PROOF
  <1>1. CallType /\ StoreType /\ HistoryHasNoGaps /\ 0 \in 0..MaxVersion
        /\ have[p] \in 0..MaxVersion /\ saw[p] \in 0..MaxVersion
    BY BoundAssumption DEF IInv, CallsInv, CallType, StoreType
  <1>2. /\ UNCHANGED <<current, rows, tags>> /\ pc[p] \in {"sync", "look", "count"}
        /\ ~Edits(p) /\ req[p].kind # "reproject"
    BY DEF Align, ReadCurrent, LookAtRefs, FindMainMissing, CountEqual, CountBehind,
           CountAhead, SyncFails, db, repo, Edits, Held
  <1>3. Spent => Spent'
    <2>1. NoFault \/ Fault("db")
      BY DEF Align, ReadCurrent, LookAtRefs, FindMainMissing, CountEqual, CountBehind,
             CountAhead, SyncFails
    <2>2. QED
      BY <1>1, <2>1, FaultSpends DEF NoFault, budget, Spent
  <1>4. ASSUME Rests(p)
        PROVE  Covered(p)' /\ Amends(p)' /\ Naming(p)'
    BY <1>2, <1>3, <1>4, RestNames
  <1>5. ASSUME NEW a, LeaveSync(p, a)
        PROVE  Rests(p)
    BY <1>1, <1>2, <1>5, EndingGoes DEF Rests
  <1>6. ASSUME Step(p, "read")
        PROVE  Rests(p)
    BY <1>1, <1>2, <1>6, EndingGoes DEF Rests
  <1>7. ASSUME NEW v \in 0..MaxVersion, NEW mode \in {"rebuild", "append"},
               Hand(p, "build", Work(mode, StoredAbove(v)))
        PROVE  Covered(p)' /\ Amends(p)' /\ Naming(p)'
    BY <1>1, <1>2, <1>3, <1>7, StoredNames
  <1>8. CASE ReadCurrent(p)
    <2>1. CASE Rebuild(p)
      BY <1>1, <1>7, <2>1 DEF Rebuild
    <2>2. CASE ~Rebuild(p)
      <3>1. Rests(p)
        BY <1>1, <1>5, <1>8, <2>2 DEF ReadCurrent, Goto, CallType, Rests
      <3>2. QED
        BY <1>4, <3>1
    <2>3. QED
      BY <2>1, <2>2
  <1>9. CASE LookAtRefs(p)
    <2>1. Rests(p)
      BY <1>1, <1>9 DEF LookAtRefs, Goto, CallType, Rests
    <2>2. QED
      BY <1>4, <2>1
  <1>10. CASE FindMainMissing(p)
    <2>1. MaxTag = 0
      BY <1>1, <1>10, NoMainNoTags DEF FindMainMissing
    <2>2. ~((IF MaxTag < saw[p] THEN MaxTag ELSE saw[p]) > 0)
      BY <1>1, <2>1, BoundAssumption
    <2>3. CASE Rebuild(p)
      BY <1>1, <1>7, <2>3 DEF Rebuild
    <2>4. CASE ~Rebuild(p)
      <3>1. Goto(p, "count")
        BY <1>10, <2>2, <2>4 DEF FindMainMissing
      <3>2. Rests(p)
        BY <1>1, <3>1 DEF Goto, CallType, Rests
      <3>3. QED
        BY <1>4, <3>2
    <2>5. QED
      BY <2>3, <2>4
  <1>11. CASE CountEqual(p) \/ CountAhead(p) \/ SyncFails(p)
    <2>1. Rests(p)
      BY <1>5, <1>6, <1>11 DEF CountEqual, CountAhead, SyncFails
    <2>2. QED
      BY <1>4, <2>1
  <1>12. CASE CountBehind(p)
    <2>1. CASE Hand(p, "build", Work("append", StoredAbove(have[p])))
      BY <1>1, <1>7, <2>1
    <2>2. CASE LeaveSync(p, IF have[p] = 0 /\ main = NoRef THEN "ok" ELSE "outOfSync")
      <3>1. Rests(p)
        BY <1>5, <2>2
      <3>2. QED
        BY <1>4, <3>1
    <2>3. QED
      BY <1>12, <2>1, <2>2 DEF CountBehind
  <1>13. QED
    BY <1>8, <1>9, <1>10, <1>11, <1>12 DEF Align

\* A git write names with its tags what it was made from.
LEMMA BuildNames ==
  ASSUME FailsOnce, IInv, NEW p \in Procs, Held(p), Covered(p), Amends(p), Naming(p),
         BuildCommits(p)
  PROVE  Covered(p)' /\ Amends(p)' /\ Naming(p)'
PROOF
  <1>1. /\ CallType /\ StoreType /\ current \in Versions /\ main \in Commit
        /\ job[p] \in Job /\ req[p] \in Request /\ CallInv(p)
    BY DEF IInv, CallsInv, CallType, StoreType
  <1>2. /\ pc[p] = "build" /\ ~Edits(p) /\ UNCHANGED <<current, rows, tags, main>>
        /\ Spent' = Spent /\ req[p].kind # "reproject"
    BY DEF BuildCommits, db, repo, NoFault, budget, Spent, Edits, Held
  <1> DEFINE mode == job[p].mode
  <1> DEFINE todo == job[p].todo
  <1> DEFINE base == CASE mode \in {"bootstrap", "rebuild"} -> NoRef
                       [] mode = "push"                     -> req[p].base
                       [] OTHER                             -> main
  <1>3. /\ todo \in Commit /\ base \in Commit /\ req[p].entry \in Entry
        /\ mode \in Modes \ {"none", "project", "restore"}
    BY <1>1, <1>2, EmptySeq
       DEF Job, Request, NoRef, Commit, CallInv, Control, Naming
  <1>4. Covered(p)' /\ Amends(p)'
    BY <1>2 DEF Covered, TagsUpTo, Amends, Named, Tip
  <1>5. CASE JobFailed(p)
    <2>1. Rests(p)
      BY <1>1, <1>2, <1>5, EndingGoes DEF Rests
    <2>2. QED
      BY <1>2, <2>1, RestNames
  <1>6. ASSUME NEW c \in Commit, Len(todo) <= Len(c), Rebuilds(p),
               \A i \in 1..Len(todo) : c[Len(c) - Len(todo) + i] = todo[i]
        PROVE  \A i \in 1..Len(TagsFor(c, todo)) :
                  Tip(TagsFor(c, todo)[i].at).body = rows[TagsFor(c, todo)[i].ver]
    <2>1. \A i \in 1..Len(todo) : todo[i].body = rows[todo[i].ver]
      BY <1>2, <1>6 DEF Naming
    <2>2. /\ Len(TagsFor(c, todo)) = Len(todo)
          /\ \A i \in 1..Len(todo) :
                /\ TagsFor(c, todo)[i].ver = todo[i].ver
                /\ Tip(TagsFor(c, todo)[i].at) = todo[i]
      BY <1>3, <1>6, TagsForTips
    <2>3. QED
      BY <2>1, <2>2
  <1>7. CASE /\ mode = "append" /\ InTail(main, todo)
             /\ Hand(p, "tag", [job[p] EXCEPT !.tags = TagsFor(main, todo)])
    <2> DEFINE s == TagsFor(main, todo)
    <2>1. /\ Len(todo) <= Len(main)
          /\ \A i \in 1..Len(todo) : main[Len(main) - Len(todo) + i] = todo[i]
      BY <1>1, <1>3, <1>7, TailEntries
    <2>2. \A i \in 1..Len(s) : Tip(s[i].at).body = rows[s[i].ver]
      BY <1>1, <1>6, <1>7, <2>1 DEF Rebuilds
    <2> HIDE DEF s
    <2>3. pc'[p] = "tag" /\ job'[p].mode = "append" /\ job'[p].tags = s
      BY <1>1, <1>2, <1>7, EndingGoes DEF Job, s
    <2>4. Naming(p)'
      BY <1>2, <2>2, <2>3 DEF Naming, Edits, Rebuilds, Tip
    <2>5. QED
      BY <1>4, <2>4
  <1>8. CASE Hand(p, "move",
                  [job[p] EXCEPT
                     !.parent = IF mode = "push" THEN main ELSE base,
                     !.tip    = base \o todo,
                     !.tags   = IF mode \in {"push", "merge"} THEN <<>>
                                ELSE TagsFor(base \o todo, todo)])
    <2> DEFINE c == base \o todo
    <2> DEFINE s == TagsFor(c, todo)
    <2>1. c \in Commit /\ Len(todo) <= Len(c)
          /\ \A i \in 1..Len(todo) : c[Len(c) - Len(todo) + i] = todo[i]
      BY <1>3, OnTopOfBase, LastOfConcat
    <2>2. Rebuilds(p) => \A i \in 1..Len(s) : Tip(s[i].at).body = rows[s[i].ver]
      BY <1>6, <2>1
    <2>3. mode = "web" =>
             /\ Wanted(p, c) /\ TagsUpTo(current)
             /\ \A i \in 1..Len(s) : s[i] = [ver |-> current + 1, at |-> c]
      <3>1. SUFFICES ASSUME mode = "web"
                     PROVE  /\ Wanted(p, c) /\ TagsUpTo(current)
                            /\ \A i \in 1..Len(s) : s[i] = [ver |-> current + 1, at |-> c]
        OBVIOUS
      <3> DEFINE e == [req[p].entry EXCEPT !.ver = current + 1]
      <3>2. todo = <<e>> /\ TagsUpTo(current)
        BY <1>2, <3>1 DEF Naming
      <3>3. e \in Entry /\ e.body = req[p].entry.body /\ e.ver = current + 1
        <4>1. todo[1] \in Entry /\ todo[1] = e
          BY <1>3, <3>2, ElementOfSeq DEF Commit
        <4>2. QED
          BY <1>3, <4>1 DEF Entry
      <3> HIDE DEF e
      <3>4. /\ c # NoRef /\ Tip(c) = e
            /\ Len(s) = 1 /\ s[1] = [ver |-> e.ver, at |-> c]
        <4>1. base = main
          BY <3>1
        <4> HIDE DEF base
        <4>2. c = main \o <<e>> /\ s = TagsFor(main \o <<e>>, <<e>>)
          BY <3>2, <4>1
        <4> HIDE DEF c, s
        <4>3. QED
          BY <1>1, <3>3, <4>2, TagOfOne
      <3>5. \A i \in 1..Len(s) : s[i] = [ver |-> current + 1, at |-> c]
        <4>1. \A i \in 1..1 : i = 1
          OBVIOUS
        <4>2. QED
          BY <3>3, <3>4, <4>1
      <3>6. QED
        BY <3>2, <3>3, <3>4, <3>5 DEF Wanted
    <2> HIDE DEF s, c
    <2>4. /\ pc'[p] = "move" /\ job'[p].mode = mode /\ job'[p].tip = c /\ req' = req
          /\ job'[p].tags = IF mode \in {"push", "merge"} THEN <<>> ELSE s
      <3> DEFINE w == [job[p] EXCEPT
                     !.parent = IF mode = "push" THEN main ELSE base,
                     !.tip    = base \o todo,
                     !.tags   = IF mode \in {"push", "merge"} THEN <<>>
                                ELSE TagsFor(base \o todo, todo)]
      <3>1. /\ w.mode = mode /\ w.tip = c
            /\ w.tags = IF mode \in {"push", "merge"} THEN <<>> ELSE s
        BY <1>1 DEF Job, s, c
      <3>2. Hand(p, "move", w)
        BY <1>8
      <3> HIDE DEF w
      <3>3. QED
        BY <1>1, <1>2, <3>1, <3>2, EndingGoes
    <2>5. Naming(p)'
      <3>1. mode = "web" =>
               /\ c # NoRef /\ Tip(c).body = req'[p].entry.body
               /\ TagsUpTo(current)'
        BY <1>2, <2>3, <2>4 DEF Wanted, TagsUpTo, Tip
      <3>2. Rebuilds(p) => \A i \in 1..Len(s) : Tip(s[i].at).body = rows'[s[i].ver]
        BY <1>2, <2>2
      <3>3. QED
        BY <1>2, <1>3, <2>3, <2>4, <3>1, <3>2 DEF Naming, Edits, Rebuilds, Tip, Wanted, TagsUpTo
    <2>6. QED
      BY <1>4, <2>5
  <1>9. QED
    BY <1>5, <1>7, <1>8 DEF BuildCommits

\* One more tag is set: an edit's on its commit, or a row's on its steps.
LEMMA SetTagNames ==
  ASSUME IInv, NEW p \in Procs, Rising(p), Covered(p), Amends(p), Naming(p), SetTag(p)
  PROVE  Covered(p)' /\ Amends(p)' /\ Naming(p)'
PROOF
  <1> DEFINE s == job[p].tags
  <1> DEFINE t == Tail(s)
  <1> DEFINE h == Head(s)
  <1>1. /\ CallType /\ StoreType /\ HistoryHasNoGaps /\ current \in Versions
        /\ job[p] \in Job /\ CallInv(p)
    BY DEF IInv, CallsInv, CallType, StoreType
  <1>2. /\ pc[p] = "tag" /\ s # <<>> /\ tags' = [tags EXCEPT ![h.ver] = h.at]
        /\ UNCHANGED <<current, rows, main>> /\ Spent' = Spent
        /\ Hand(p, "tag", [job[p] EXCEPT !.tags = t])
    BY DEF SetTag, db, NoFault, budget, Spent
  <1>3. pc'[p] = "tag" /\ job'[p].mode = job[p].mode /\ job'[p].tags = t /\ req' = req
    BY <1>1, <1>2 DEF Hand, Goto, Job, CallType
  <1>4. /\ Len(s) \in Nat \ {0} /\ h = s[1] /\ h.ver \in Versions /\ h.at \in Commit
        /\ Len(t) = Len(s) - 1 /\ \A i \in 1..Len(t) : t[i] = s[i + 1]
    <2> DEFINE S == [ver : Versions, at : Commit]
    <2>1. s \in Seq(S)
      BY <1>1 DEF Job
    <2>2. \A x \in S : x.ver \in Versions /\ x.at \in Commit
      OBVIOUS
    <2> HIDE DEF S, s
    <2>3. /\ h \in S /\ Len(t) = Len(s) - 1 /\ \A i \in 1..Len(t) : t[i] = s[i + 1]
      BY <1>2, <2>1, HeadTailProperties
    <2>4. Len(s) \in Nat \ {0} /\ h = s[1]
      BY <1>2, <2>1, LenProperties, EmptySeq
    <2>5. QED
      BY <2>2, <2>3, <2>4
  <1> HIDE DEF s, t, h
  <1>5. 1 \in 1..Len(s) /\ \A i \in 1..Len(t) : i + 1 \in 1..Len(s)
    BY <1>4
  <1>6. \A v \in Versions : tags'[v] = IF v = h.ver THEN h.at ELSE tags[v]
    BY <1>1, <1>2 DEF StoreType
  <1>7. job[p].mode \notin {"push", "merge", "restore"} /\ job[p].mode \in Modes \ {"none", "project"}
    BY <1>1, <1>2 DEF Naming, s, CallInv, Control, Job
  <1>8. CASE job[p].mode = "web"
    <2>1. /\ h.ver = current + 1 /\ h.at = main
          /\ \A i \in 1..Len(t) : t[i] = [ver |-> current + 1, at |-> main]
      <3>1. \A i \in 1..Len(s) : s[i] = [ver |-> current + 1, at |-> main]
        BY <1>2, <1>8 DEF Naming, s
      <3>2. s[1] = [ver |-> current + 1, at |-> main]
        BY <1>5, <3>1
      <3>3. h.ver = current + 1 /\ h.at = main
        BY <1>4, <3>2
      <3>4. \A i \in 1..Len(t) : t[i] = [ver |-> current + 1, at |-> main]
        <4>1. TAKE i \in 1..Len(t)
        <4>2. t[i] = s[i + 1] /\ i + 1 \in 1..Len(s)
          BY <1>4, <1>5
        <4>3. QED
          BY <3>1, <4>2
      <3>5. QED
        BY <3>3, <3>4
    <2>2. Covered(p)'
      BY <1>3, <1>8 DEF Covered, Edits
    <2>3. \A v \in Versions : v = current + 1 => rows[v] = NoRow
      <3>1. \A v \in Versions : v \in Int /\ (v = current + 1 => ~(v <= current))
        BY <1>1, BoundAssumption DEF Versions
      <3>2. QED
        BY <1>1, <3>1 DEF HistoryHasNoGaps
    <2>4. Amends(p)'
      BY <1>2, <1>3, <1>6, <2>1, <2>3 DEF Amends, Named, Tip
    <2>5. Wanted(p, main)' /\ \A v \in Versions : v = current + 1 => tags'[v] \in {NoRef, main}
      BY <1>2, <1>3, <1>6, <1>8, <2>1 DEF Naming, Edits, Wanted, Tip
    <2>6. Naming(p)'
      BY <1>2, <1>3, <1>8, <2>1, <2>5 DEF Naming, Edits, Rebuilds, Wanted, Tip
    <2>7. QED
      BY <2>2, <2>4, <2>6
  <1>9. CASE Rebuilds(p)
    <2>1. h.ver <= current
      BY <1>2, <1>5, <1>4, <1>9 DEF Rising, Plain, Limit, Rebuilds, s
    <2>2. Covered(p)'
      <3>1. TagsUpTo(current) \/ Spent
        BY <1>2, <1>9 DEF Covered, Edits, Rebuilds
      <3>2. QED
        BY <1>2, <1>6, <2>1, <3>1 DEF Covered, TagsUpTo
    <2>3. Tip(h.at).body = rows[h.ver]
      BY <1>2, <1>4, <1>5, <1>9 DEF Naming, s
    <2>4. Amends(p)'
      BY <1>2, <1>3, <1>6, <2>3 DEF Amends, Named, Tip
    <2>5. \A i \in 1..Len(t) : Tip(t[i].at).body = rows[t[i].ver]
      BY SMTT(60), <1>2, <1>4, <1>5, <1>9 DEF Naming, s
    <2>6. Naming(p)'
      BY <1>2, <1>3, <1>9, <2>5 DEF Naming, Edits, Rebuilds, Tip
    <2>7. QED
      BY <2>2, <2>4, <2>6
  <1>10. QED
    BY <1>7, <1>8, <1>9 DEF Rebuilds, Modes

\* A git write leaves no tag that names other steps than its row's.
LEMMA GitWriteNames ==
  ASSUME FailsOnce, IInv, NEW p \in Procs, Held(p), Aligned(p), Rising(p), Covered(p),
         Amends(p), Naming(p), GitWrite(p)
  PROVE  Covered(p)' /\ Amends(p)' /\ Naming(p)'
PROOF
  <1>1. CallType /\ StoreType /\ CallInv(p) /\ job[p] \in Job
    BY DEF IInv, CallsInv, CallType
  <1>2. /\ pc[p] \in {"build", "move", "tag"} /\ req[p].kind # "reproject" /\ ~orphan[p]
        /\ job[p].mode \in Modes \ {"none", "project", "restore"}
    BY <1>1 DEF GitWrite, BuildCommits, MoveMain, MoveRefused, SetTag, WriteDone, GitFails,
           TagFails, Held, CallInv, Control, Job, Naming
  <1>3. ASSUME UNCHANGED <<current, rows, tags>>, Spent => Spent', Edits(p) => Spent',
               Rests(p)
        PROVE  Covered(p)' /\ Amends(p)' /\ Naming(p)'
    BY <1>2, <1>3, RestNames
  <1>4. JobFailed(p) => Rests(p)
    BY <1>1, <1>2, EndingGoes DEF Rests
  <1>5. CASE MoveMain(p)
    <2>1. /\ pc[p] = "move" /\ UNCHANGED <<current, rows, tags>> /\ Spent' = Spent
          /\ main' = job[p].tip /\ Step(p, "tag")
      BY <1>5 DEF MoveMain, db, NoFault, budget, Spent
    <2>2. pc'[p] = "tag" /\ job' = job /\ req' = req
      BY <1>1, <1>2, <2>1, EndingGoes DEF local
    <2>3. Covered(p)' /\ Amends(p)'
      BY <2>1 DEF Covered, Edits, TagsUpTo, Amends, Named, Tip
    <2>4. TagsUpTo(current) => \A v \in Versions : v = current + 1 => tags[v] = NoRef
      <3>1. \A v \in Versions : v = current + 1 => ~(v <= current)
        BY <1>1, BoundAssumption DEF StoreType, Versions
      <3>2. QED
        BY <3>1 DEF TagsUpTo
    <2>5. job[p].mode = "web" =>
             /\ Wanted(p, main)'
             /\ \A v \in Versions : v = current + 1 => tags[v] \in {NoRef, main'}
             /\ \A i \in 1..Len(job[p].tags) :
                   job[p].tags[i] = [ver |-> current + 1, at |-> main']
      BY <2>1, <2>2, <2>4 DEF Naming, Wanted, Tip
    <2>6. Rebuilds(p) => \A i \in 1..Len(job[p].tags) :
                            Tip(job[p].tags[i].at).body = rows[job[p].tags[i].ver]
      BY <2>1 DEF Naming
    <2>7. job[p].mode \in {"push", "merge"} => job[p].tags = <<>>
      BY <2>1 DEF Naming
    <2>8. Naming(p)'
      BY <1>2, <2>1, <2>2, <2>5, <2>6, <2>7 DEF Naming, Edits, Rebuilds, Tip
    <2>9. QED
      BY <2>3, <2>8
  <1>6. CASE MoveRefused(p)
    <2>1. /\ pc[p] = "move" /\ UNCHANGED <<current, rows, tags>> /\ Spent' = Spent
      BY <1>6 DEF MoveRefused, db, repo, NoFault, budget, Spent
    <2>2. Rests(p)
      BY <1>1, <1>2, <1>4, <1>6, EndingGoes DEF MoveRefused, Rests
    <2>3. QED
      BY <1>3, <2>1, <2>2 DEF Edits
  <1>7. CASE WriteDone(p)
    <2>1. /\ pc[p] = "tag" /\ UNCHANGED <<current, rows, tags, main>> /\ Spent' = Spent
          /\ JobDone(p)
      BY <1>7 DEF WriteDone, db, repo, NoFault, budget, Spent
    <2>2. CASE job[p].mode = "web"
      <3>1. Step(p, "commit")
        BY <1>2, <2>1, <2>2 DEF JobDone
      <3>2. pc'[p] = "commit" /\ req' = req /\ Edits(p)
        BY <1>1, <1>2, <2>1, <2>2, <3>1, EndingGoes DEF local, Edits
      <3>3. Wanted(p, main)' /\ \A v \in Versions : v = current + 1 => tags[v] \in {NoRef, main}
        BY <2>1, <3>2 DEF Naming, Wanted, Tip
      <3>4. Naming(p)'
        BY <2>1, <3>2, <3>3 DEF Naming, Edits, Rebuilds
      <3>5. Covered(p)' /\ Amends(p)'
        BY <2>1, <3>2 DEF Covered, Edits, Amends, Named, Tip
      <3>6. QED
        BY <3>4, <3>5
    <2>3. CASE job[p].mode # "web"
      <3>1. Rests(p)
        <4>1. LeaveEnsure(p) \/ LeaveSync(p, "ok") \/ Step(p, "read")
          BY <1>2, <2>1, <2>3 DEF JobDone, Modes
        <4>2. QED
          BY <1>1, <1>2, <4>1, EndingGoes DEF Rests
      <3>2. QED
        BY <1>3, <2>1, <2>3, <3>1 DEF Edits
    <2>4. QED
      BY <2>2, <2>3
  <1>8. CASE GitFails(p) \/ TagFails(p)
    <2>1. UNCHANGED <<current, rows, tags>> /\ JobFailed(p) /\ (Fault("git") \/ Fault("tag"))
      BY <1>8 DEF GitFails, TagFails, db, repo
    <2>2. Spent'
      BY <1>1, <2>1, FaultSpends
    <2>3. QED
      BY <1>3, <1>4, <2>1, <2>2
  <1>9. QED
    BY <1>5, <1>6, <1>7, <1>8, BuildNames, SetTagNames DEF GitWrite

\* A new version takes the tag that stands at its number, on the commit it
\* was made of; or the tag of another commit there, which it is about to move.
LEMMA ProjectNames ==
  ASSUME FailsOnce, IInv, NEW p \in Procs, Held(p), Ordered, Rising(p), Told(p), Covered(p),
         Amends(p), Naming(p), Project(p)
  PROVE  Covered(p)' /\ Amends(p)' /\ Naming(p)'
PROOF
  <1>1. CallType /\ StoreType /\ current \in Versions
    BY DEF IInv, CallsInv, CallType, StoreType
  <1>2. /\ pc[p] \in {"read", "insert", "meta", "mark"} /\ req[p].kind # "reproject"
        /\ ~orphan[p] /\ ~Edits(p) /\ main' = main
    BY DEF Project, ReadTip, InsertVersion, InsertFails, InsertUnanswered, UpdateMeta,
           TagVersion, Held, Edits, repo
  <1>3. \A v \in Versions : v = current + 1 => ~(v <= current) /\ v # current
    BY <1>1, BoundAssumption DEF Versions
  <1>4. ASSUME UNCHANGED <<current, rows, tags>>, Spent => Spent', pc[p] \notin {"meta", "mark"},
               Rests(p)
        PROVE  Covered(p)' /\ Amends(p)' /\ Naming(p)'
    BY <1>2, <1>4, RestNames
  <1>5. ProjectionFailed(p) => Rests(p)
    BY <1>1, <1>2, EndingGoes DEF ProjectionFailed, Goto, CallType, Rests
  <1>6. CASE ReadTip(p)
    <2>1. /\ pc[p] = "read" /\ UNCHANGED <<current, rows, tags>> /\ Spent' = Spent
      BY <1>6 DEF ReadTip, db, repo, NoFault, budget, Spent
    <2>2. Rests(p)
      BY <1>1, <1>2, <1>6, EndingGoes DEF ReadTip, NothingToProject, Rests
    <2>3. QED
      BY <1>4, <2>1, <2>2
  <1>7. ASSUME NewRow(Tip(job[p].tip).body), current < MaxVersion, tags' = tags,
               pc[p] = "insert", Spent => Spent'
        PROVE  /\ Covered(p)'
               /\ \A v \in Versions : Named(v)' \/ (v = current' /\ Spent' /\ ~TagsUpTo(current))
               /\ tags'[current'] \in {NoRef, main} \/ (Spent' /\ ~TagsUpTo(current))
    <2>1. /\ current' = current + 1 /\ job[p].tip = main
          /\ \A v \in Versions : rows'[v] = IF v = current + 1 THEN Tip(main).body ELSE rows[v]
      BY <1>1, <1>7 DEF NewRow, Rising, StoreType
    <2>2. Covered(p)'
      BY <1>7, <2>1 DEF Covered, TagsUpTo, Ordered
    <2>3. TagsUpTo(current) \/ Spent'
      BY <1>2, <1>7 DEF Covered
    <2>4. TagsUpTo(current) => \A v \in Versions : v = current + 1 => tags[v] = NoRef
      BY <1>3 DEF TagsUpTo
    <2>5. \A v \in Versions : v # current + 1 => Named(v)'
      BY <1>2, <1>7, <2>1 DEF Amends, Named, Tip
    <2>6. \A v \in Versions : v = current + 1 => Named(v)' \/ (Spent' /\ ~TagsUpTo(current))
      BY <1>7, <2>1, <2>3, <2>4 DEF Named, Tip
    <2>7. current + 1 \in Versions
      BY <1>1, <1>7, BoundAssumption DEF Versions
    <2>8. QED
      BY <1>7, <2>1, <2>2, <2>3, <2>4, <2>5, <2>6, <2>7
  <1>8. CASE InsertVersion(p)
    <2>1. /\ pc[p] = "insert" /\ pc'[p] = "meta" /\ tags' = tags /\ Spent' = Spent
          /\ current < MaxVersion /\ NewRow(Tip(job[p].tip).body)
      BY <1>1, <1>8 DEF InsertVersion, Goto, CallType, repo, NoFault, budget, Spent
    <2>2. QED
      BY <1>2, <1>7, <2>1 DEF Amends, Naming, Edits
  <1>9. CASE InsertFails(p)
    <2>1. /\ pc[p] = "insert" /\ UNCHANGED <<current, rows, tags>> /\ Spent' /\ Rests(p)
      BY <1>1, <1>5, <1>9, FaultSpends DEF InsertFails, db, repo
    <2>2. QED
      BY <1>4, <2>1
  <1>10. CASE InsertUnanswered(p)
    <2>1. /\ pc[p] = "insert" /\ tags' = tags /\ ~Spent /\ Spent' /\ Rests(p)
          /\ current < MaxVersion /\ NewRow(Tip(job[p].tip).body)
      BY <1>1, <1>5, <1>10, FaultSpends DEF InsertUnanswered, repo
    <2>2. TagsUpTo(current)
      BY <1>2, <2>1 DEF Covered
    <2>3. Naming(p)'
      BY <2>1 DEF Rests, Naming, Edits
    <2>4. QED
      BY <1>7, <2>1, <2>2, <2>3 DEF Amends
  <1>11. CASE UpdateMeta(p)
    <2>1. /\ pc[p] = "meta" /\ pc'[p] = "mark" /\ UNCHANGED <<current, rows, tags>>
      BY <1>1, <1>2, <1>11, EndingGoes DEF UpdateMeta, repo
    <2>2. Spent => Spent'
      <3>1. NoFault \/ Fault("db")
        BY <1>11 DEF UpdateMeta
      <3>2. QED
        BY <1>1, <3>1, FaultSpends DEF NoFault, budget, Spent
    <2>3. Naming(p)'
      BY <1>2, <2>1, <2>2 DEF Naming, Edits
    <2>4. Covered(p)' /\ Amends(p)'
      BY <1>2, <2>1, <2>2 DEF Covered, TagsUpTo, Amends, Named, Tip
    <2>5. QED
      BY <2>3, <2>4
  <1>12. CASE TagVersion(p)
    <2>1. /\ pc[p] = "mark" /\ UNCHANGED <<current, rows>> /\ Projected(p)
      BY <1>2, <1>12 DEF TagVersion, db
    <2>2. Rests(p)
      BY <1>1, <1>2, <2>1, EndingGoes DEF Projected, Rests
    <2>3. Naming(p)'
      BY <2>2 DEF Rests, Naming, Edits
    <2>4. CASE Fault("tag") /\ UNCHANGED tags
      <3>1. ~Spent /\ Spent'
        BY <1>1, <2>4, FaultSpends
      <3>2. Amends(p)'
        BY <2>1, <2>4, <3>1 DEF Amends, Named, Tip
      <3>3. QED
        BY <2>3, <3>1, <3>2 DEF Covered
    <2>5. CASE NoFault /\ tags' = [tags EXCEPT ![ver[p]] = job[p].tip]
      <3>1. /\ job[p].tip = main /\ ver[p] = current /\ TagsUpTo(current)
            /\ rows[current] = Tip(main).body
        BY <2>1 DEF Rising, Told
      <3>2. \A v \in Versions : tags'[v] = IF v = current THEN main ELSE tags[v]
        BY <1>1, <2>5, <3>1 DEF StoreType
      <3>3. current <= current
        BY <1>1, BoundAssumption DEF Versions
      <3>4. Covered(p)'
        BY <2>1, <3>1, <3>2, <3>3 DEF Covered, TagsUpTo
      <3>5. Amends(p)'
        BY <2>1, <3>1, <3>2 DEF Amends, Named, Tip
      <3>6. QED
        BY <2>3, <3>4, <3>5
    <2>6. QED
      BY <1>12, <2>4, <2>5 DEF TagVersion
  <1>13. QED
    BY <1>6, <1>8, <1>9, <1>10, <1>11, <1>12 DEF Project

\* An edit takes its number while no tag stands there, and its row gets the
\* steps its tag names.
LEMMA WebTailNames ==
  ASSUME FailsOnce, IInv, NEW p \in Procs, Held(p), Ordered, Rising(p), Covered(p),
         Amends(p), Naming(p), WebTail(p)
  PROVE  Covered(p)' /\ Amends(p)' /\ Naming(p)'
PROOF
  <1>1. CallType /\ StoreType /\ CallInv(p) /\ current \in Versions
    BY DEF IInv, CallsInv, CallType, StoreType
  <1>2. pc[p] \in {"begin", "commit"} /\ req[p].kind # "reproject" /\ UNCHANGED <<tags, main>>
    BY DEF WebTail, BeginWeb, BeginFails, CommitWeb, CommitFails, Held, repo
  <1>3. CASE BeginWeb(p) /\ req[p].want \in {0, current}
    <2> DEFINE entry == [req[p].entry EXCEPT !.ver = current + 1]
    <2>1. /\ pc[p] = "begin" /\ pc'[p] = "build" /\ job'[p] = Work("web", <<entry>>)
          /\ req' = req /\ UNCHANGED <<current, rows>> /\ Spent' = Spent
      BY <1>1, <1>3 DEF BeginWeb, Goto, CallType, db, NoFault, budget, Spent
    <2>2. job'[p].mode = "web" /\ job'[p].todo = <<entry>>
      BY <2>1 DEF Work
    <2>3. TagsUpTo(current)'
      BY <1>2, <2>1 DEF Rising, TagsUpTo
    <2> HIDE DEF entry
    <2>4. <<entry>> = <<[req[p].entry EXCEPT !.ver = current + 1]>>
      BY DEF entry
    <2>5. Naming(p)'
      BY <2>1, <2>2, <2>3, <2>4 DEF Naming, Edits, Rebuilds
    <2>6. Covered(p)' /\ Amends(p)'
      BY <1>2, <2>1, <2>3 DEF Covered, Amends, Named, Tip
    <2>7. QED
      BY <2>5, <2>6
  <1>4. CASE BeginWeb(p) /\ req[p].want \notin {0, current}
    <2>1. /\ pc[p] = "begin" /\ UNCHANGED <<current, rows>> /\ Spent' = Spent /\ Rests(p)
      BY <1>1, <1>2, <1>4, EndingGoes DEF BeginWeb, db, NoFault, budget, Spent, Rests
    <2>2. QED
      BY <1>2, <2>1, RestNames DEF Edits
  <1>5. CASE BeginFails(p) \/ (CommitFails(p) /\ Fault("db") /\ UNCHANGED db)
    <2>1. UNCHANGED <<current, rows>> /\ Fault("db") /\ Rests(p)
      BY <1>1, <1>2, <1>5, EndingGoes DEF BeginFails, CommitFails, db, Rests
    <2>2. Spent'
      BY <1>1, <2>1, FaultSpends
    <2>3. QED
      BY <1>2, <2>1, <2>2, RestNames
  <1>6. CASE pc[p] = "commit" /\ NewVersion(p) /\ \E a : Finish(p, a)
    <2>1. ver[p] = current + 1 /\ current < MaxVersion
      BY <1>1, <1>6 DEF CallInv, Owns, Open
    <2>2. /\ current' = current + 1
          /\ \A v \in Versions :
                rows'[v] = IF v = current + 1 THEN req[p].entry.body ELSE rows[v]
      BY <1>1, <1>6, <2>1 DEF NewVersion, StoreType
    <2>3. Rests(p)
      BY <1>1, <1>2, <1>6, EndingGoes DEF Rests
    <2>4. Naming(p)'
      BY <2>3 DEF Rests, Naming, Edits
    <2>5. Covered(p)'
      BY <1>2, <2>2 DEF Covered, TagsUpTo, Ordered
    <2>6. Wanted(p, main) /\ \A v \in Versions : v = current + 1 => tags[v] \in {NoRef, main}
      BY <1>6 DEF Naming, Edits
    <2>7. Amends(p)'
      BY <1>2, <1>6, <2>2, <2>6 DEF Amends, Named, Wanted, Tip
    <2>8. QED
      BY <2>4, <2>5, <2>7
  <1>7. QED
    BY <1>3, <1>4, <1>5, <1>6 DEF WebTail, BeginWeb, CommitWeb, CommitFails

\* What a call is about to name stays so while nothing moves.
LEMMA NamingStays ==
  ASSUME NEW q \in Procs, Naming(q), Same(q), UNCHANGED <<db, repo>>, Spent => Spent'
  PROVE  Naming(q)'
PROOF
  <1>1. UNCHANGED <<current, rows, main, tags>>
    BY DEF db, repo
  <1>2. Edits(q)' = Edits(q) /\ Rebuilds(q)' = Rebuilds(q) /\ TagsUpTo(current)' = TagsUpTo(current)
        /\ Wanted(q, main)' = Wanted(q, main) /\ Wanted(q, job[q].tip)' = Wanted(q, job[q].tip)
    BY <1>1 DEF Edits, Rebuilds, TagsUpTo, Wanted, Tip, Same
  <1>3. QED
    BY <1>1, <1>2 DEF Naming, Same, Tip

\* A call that only waits or ends has nothing to name.
LEMMA IdleNames ==
  ASSUME NEW q \in Procs, pc'[q] \in {"idle", "lock"}
  PROVE  Naming(q)'
PROOF
  BY DEF Naming, Edits

\* Every step keeps what the tags name.
LEMMA NameNext ==
  ASSUME GuardIsKept, TagsAreOurs, FailsOnce, IInv, IInv', GuardInv, OrderInv, SaidInv,
         NameInv, [Next]_vars
  PROVE  NameInv'
PROOF
  <1>1. /\ CallType /\ StoreType /\ Ordered
        /\ \A q \in Procs : Held(q) /\ Placed(q) /\ Aligned(q) /\ Rising(q) /\ Told(q) /\ Naming(q)
    BY DEF IInv, CallsInv, GuardInv, OrderInv, SaidInv, NameInv
  <1>2. ASSUME UNCHANGED <<db, repo>>, Spent => Spent',
               \A q \in Procs : Edits(q) => Edits(q)' \/ Spent',
               \A q \in Procs : pc[q] \in {"meta", "mark"} /\ Spent => pc'[q] = pc[q]
        PROVE  /\ (TagsUpTo(current) \/ Spent \/ \E q \in Procs : Edits(q))'
               /\ \A v \in Versions :
                     (Named(v) \/ (v = current /\ Spent /\ \E q \in Procs : pc[q] \in {"meta", "mark"}))'
    <2>1. UNCHANGED <<current, rows, tags>>
      BY <1>2 DEF db, repo
    <2>2. TagsUpTo(current)' = TagsUpTo(current) /\ \A v \in Versions : Named(v)' = Named(v)
      BY <2>1 DEF TagsUpTo, Named, Tip
    <2>3. (TagsUpTo(current) \/ Spent \/ \E q \in Procs : Edits(q))'
      BY <1>2, <2>2 DEF NameInv
    <2>4. QED
      BY <1>2, <2>1, <2>2, <2>3 DEF NameInv
  <1>3. CASE UNCHANGED vars
    <2>1. /\ UNCHANGED <<db, repo>> /\ Spent' = Spent /\ pc' = pc
          /\ \A q \in Procs : Same(q)
      BY <1>3 DEF vars, local, Same, budget, Spent
    <2>2. \A q \in Procs : Naming(q)' /\ Edits(q)' = Edits(q)
      BY <1>1, <2>1, NamingStays DEF Edits, Same
    <2>3. QED
      BY <1>2, <2>1, <2>2 DEF NameInv
  <1>4. ASSUME NEW p \in Procs, StartWeb(p) \/ StartPush(p) \/ StartMerge(p) \/ StartRead(p)
        PROVE  NameInv'
    <2>1. /\ pc[p] = "idle" /\ pc'[p] = "lock" /\ UNCHANGED <<db, repo>>
      BY <1>4, ArrivalDoes
    <2>2. \A q \in Procs \ {p} : Same(q)
      BY <1>4, ActsAlone DEF Acts, Arrive, OnlyOf
    <2>3. Spent' = Spent
      BY <1>4 DEF StartWeb, StartPush, StartMerge, StartRead, Start, Spent
    <2>4. \A q \in Procs : Naming(q)'
      BY <1>1, <2>1, <2>2, <2>3, NamingStays, IdleNames
    <2>5. \A q \in Procs : Edits(q)' = Edits(q) /\ (pc[q] \in {"meta", "mark"} => pc'[q] = pc[q])
      BY <2>1, <2>2 DEF Edits, Same
    <2>6. QED
      BY <1>2, <2>1, <2>3, <2>4, <2>5 DEF NameInv
  <1>5. ASSUME NEW p \in Procs, TakeGuard(p) \/ Proceed(p)
        PROVE  NameInv'
    <2>1. \A q \in Procs \ {p} : pc[q] \in {"idle", "lock"} /\ pc'[q] \in {"idle", "lock"}
      <3>1. \A q \in Procs \ {p} : Same(q)
        BY <1>5, ActsAlone DEF Acts, OnlyOf
      <3>2. guard \in {p, Nobody}
        <4>1. CASE TakeGuard(p)
          BY <4>1 DEF TakeGuard
        <4>2. CASE Proceed(p)
          <5>1. pc[p] \notin {"idle", "lock"}
            BY <4>2 DEF Proceed, Ensure, EnsureMissing, EnsurePresent, Align, ReadCurrent,
                  LookAtRefs, FindMainMissing, CountEqual, CountBehind, CountAhead,
                  SyncFails, GitWrite, BuildCommits, MoveMain, MoveRefused, SetTag,
                  WriteDone, GitFails, TagFails, Project, ReadTip, InsertVersion,
                  InsertFails, InsertUnanswered, UpdateMeta, TagVersion, WebTail,
                  BeginWeb, BeginFails, CommitWeb, CommitFails
          <5>2. QED
            BY <1>1, <5>1 DEF Held
        <4>3. QED
          BY <1>5, <4>1, <4>2
      <3>3. QED
        BY <1>1, <3>1, <3>2, DataAssumption DEF Held, Same
    <2>2. Covered(p) /\ Amends(p)
      BY <2>1 DEF NameInv, Covered, Amends, Edits
    <2>3. Covered(p)' /\ Amends(p)' /\ Naming(p)'
      <3>1. CASE TakeGuard(p) \/ Ensure(p)
        BY <1>1, <2>2, <3>1, EntryNames
      <3>2. CASE Align(p)
        BY <1>1, <2>2, <3>2, AlignNames
      <3>3. CASE GitWrite(p)
        BY <1>1, <2>2, <3>3, GitWriteNames
      <3>4. CASE Project(p)
        BY <1>1, <2>2, <3>4, ProjectNames
      <3>5. CASE WebTail(p)
        BY <1>1, <2>2, <3>5, WebTailNames
      <3>6. QED
        BY <1>5, <3>1, <3>2, <3>3, <3>4, <3>5 DEF Proceed
    <2>4. \A q \in Procs : Naming(q)'
      BY <2>1, <2>3, IdleNames
    <2>5. QED
      BY <2>3, <2>4 DEF NameInv, Covered, Amends, Named, TagsUpTo, Spent, Edits
  <1>6. ASSUME ~Spent
        PROVE  TagsUpTo(current) \/ \E q \in Procs : Edits(q)
    BY <1>6 DEF NameInv
  <1>7. ~Spent => \A v \in Versions : Named(v)
    BY DEF NameInv
  <1>8. CASE Crash
    <2>1. PICK gone \in SUBSET {p \in Procs : pc[p] # "idle"} :
             /\ Fault("crash")
             /\ pc' = [p \in Procs |-> IF p \in gone THEN "idle" ELSE pc[p]]
             /\ req' = [p \in Procs |-> IF p \in gone THEN NoRequest ELSE req[p]]
             /\ phase' = [p \in Procs |-> IF p \in gone THEN "ensure" ELSE phase[p]]
             /\ saw' = [p \in Procs |-> IF p \in gone THEN 0 ELSE saw[p]]
             /\ have' = [p \in Procs |-> IF p \in gone THEN 0 ELSE have[p]]
             /\ job' = [p \in Procs |-> IF p \in gone THEN NoJob ELSE job[p]]
             /\ ver' = [p \in Procs |-> IF p \in gone THEN 0 ELSE ver[p]]
             /\ orphan' = [p \in Procs |-> IF p \in gone THEN FALSE ELSE orphan[p]]
             /\ UNCHANGED <<db, repo>>
      BY <1>8 DEF Crash
    <2>2. ~Spent /\ Spent'
      BY <1>1, <2>1, FaultSpends
    <2>3. \A q \in Procs : Naming(q)'
      <3>1. TAKE q \in Procs
      <3>2. CASE q \in gone
        BY <2>1, <3>2, IdleNames
      <3>3. CASE q \notin gone
        <4>1. Same(q)
          BY <2>1, <3>3 DEF Same
        <4>2. QED
          BY <1>1, <2>1, <2>2, <4>1, NamingStays
      <3>4. QED
        BY <3>2, <3>3
    <2>4. QED
      BY <1>2, <2>1, <2>2, <2>3 DEF NameInv
  <1>9. CASE Damage
    <2>1. \A q \in Procs : Naming(q)'
      BY <1>9, IdleNames DEF Damage, Quiet
    <2>2. UNCHANGED <<current, rows>> /\ (LoseTag \/ LoseDir)
      BY <1>9 DEF Damage, db, TagsAreOurs, LoseMain, ForeignTag, Fault
    <2>3. ~Spent /\ Spent'
      BY <1>1, <2>2, FaultSpends DEF LoseTag, LoseDir
    <2>4. \A v \in Versions : tags'[v] \in {tags[v], NoRef}
      BY <1>1, <2>2 DEF LoseTag, LoseDir, StoreType
    <2>5. \A v \in Versions : Named(v)'
      BY <1>7, <2>2, <2>3, <2>4 DEF Named, Tip
    <2>6. QED
      BY <2>1, <2>3, <2>5 DEF NameInv
  <1>10. QED
    BY <1>3, <1>4, <1>5, <1>8, <1>9, GuardedSteps DEF Next, Acts

\* At the start there is no tag.
LEMMA NameInit == Init => NameInv
PROOF
  BY DEF Init, NameInv, TagsUpTo, Named, Naming, Edits, Rebuilds

\* Whatever single failure happens, no tag above the current version is left
\* but by that failure, and what a call is about to tag has the steps of its
\* row: update_main, the tags and the transaction of an edit come in this
\* order, and a heal commits what load_bundle_data read.
THEOREM NameHolds ==
  ASSUME GuardIsKept, TagsAreOurs, FailsOnce
  PROVE  Spec => []NameInv
PROOF
  <1>1. /\ IInv /\ IInv' /\ GuardInv /\ OrderInv /\ SaidInv /\ NameInv /\ [Next]_vars
           => NameInv'
    BY NameNext
  <1>2. QED
    BY <1>1, NameInit, Invariance, GuardHolds, OrderHolds, SaidHolds, PTL DEF Spec

\* At rest, the commit that a version tag names carries the steps Postgres has
\* for the version, though the number is only in the rows and the content only
\* in git: with one failure, whichever it is, a tag set before its row is
\* either followed by that row or moved by the next projection.
THEOREM TagsName ==
  ASSUME GuardIsKept, TagsAreOurs, FailsOnce
  PROVE  Spec => []TagNamesItsRow
PROOF
  <1>1. NameInv => TagNamesItsRow
    BY DEF NameInv, TagNamesItsRow, Quiet, Named
  <1>2. QED
    BY <1>1, NameHolds, PTL

-----------------------------------------------------------------------------
(* What the next touch can mend, when at most one thing goes wrong under    *)
(* the guard and no branch is merged                                       *)

NoMerges == "merge" \notin Kinds

\* The tag of the next version stands on a tip that can be projected.
Pending == current < MaxVersion /\ tags[current + 1] = main /\ Projectable(main)

\* A push whose pack has not moved main yet.
Waiting(q) == /\ req[q].kind = "push" /\ phase[q] = "work"
              /\ pc[q] \in {"lock", "build", "move"}

\* No push that waits was made on main as it is: none will move it.
Outdated == \A q \in Procs : Waiting(q) => req[q].base # main

\* A call under way is not a merge, and a push was made on a shorter main.
Asked(q) == pc[q] # "idle" =>
    /\ req[q].kind # "merge"
    /\ req[q].kind = "push" => Len(req[q].base) <= Len(main)

\* Whoever is about to move main or to add a version has mended what there
\* was to mend, but a push, which is refused then.
Mending(q) ==
    /\ pc[q] \in {"meta", "mark"} => tags[current] \in {NoRef, main}
    /\ pc[q] \in {"build", "move"} => TagsUpTo(current) \/ job[q].mode = "push"
    /\ pc[q] = "tag" /\ job[q].mode # "web" => TagsUpTo(current)
    /\ pc[q] = "move" /\ job[q].mode = "push" => job[q].parent = main
    /\ pc[q] = "move" /\ job[q].mode = "web" => Len(job[q].parent) < Len(job[q].tip)
    /\ pc[q] \in {"build", "move"} /\ job[q].mode = "push" => Waiting(q)
    /\ pc[q] \in {"build", "move", "tag"} => job[q].mode # "merge"
    /\ pc[q] \in {"read", "insert"} /\ ~Aligning(q) => TagsUpTo(current)

MendInv ==
    /\ TagsUpTo(current) \/ Pending
    /\ ~TagsUpTo(current) \/ (\E q \in Procs : Edits(q)) => Outdated
    /\ \A q \in Procs : Asked(q) /\ Mending(q)

\* The same, seen by the one call that is at work.
Mendable(p) ==
    /\ TagsUpTo(current) \/ Pending
    /\ ~TagsUpTo(current) \/ Edits(p) => Outdated

\* A step that leaves no tag above the current version has nothing to mend.
LEMMA CleanMends ==
  ASSUME NEW p \in Procs, TagsUpTo(current)', ~Edits(p)'
  PROVE  Mendable(p)'
PROOF
  BY DEF Mendable

\* A step that leaves the tags and main alone lets no push wait that did not.
LEMMA SameMends ==
  ASSUME NEW p \in Procs, Mendable(p), OnlyOf(p), UNCHANGED <<current, tags, main>>,
         Edits(p)' => Edits(p), Waiting(p)' => Waiting(p) /\ req'[p] = req[p]
  PROVE  Mendable(p)'
PROOF
  <1>1. /\ TagsUpTo(current)' = TagsUpTo(current) /\ Pending' = Pending
    BY DEF TagsUpTo, Pending, Projectable, Tip
  <1>2. \A q \in Procs : Waiting(q)' => Waiting(q) /\ req'[q] = req[q]
    BY DEF OnlyOf, Same, Waiting
  <1>3. Outdated => Outdated'
    BY <1>2 DEF Outdated
  <1>4. QED
    BY <1>1, <1>3 DEF Mendable

\* A call that rests has nothing in hand that could do harm.
LEMMA RestMends ==
  ASSUME NEW p \in Procs, pc'[p] \in {"idle", "lock", "ensure", "sync", "look", "count", "begin", "commit"}
  PROVE  Mending(p)'
PROOF
  BY DEF Mending

\* A write that fails ends the call, or its alignment.
LEMMA FailureMends ==
  ASSUME CallType, NEW p \in Procs, Held(p), OnlyOf(p), pc[p] \in {"build", "move", "tag"},
         job[p].mode # "restore", Mendable(p), Mending(p),
         UNCHANGED <<current, tags, main>>, JobFailed(p)
  PROVE  Mendable(p)' /\ Mending(p)'
PROOF
  <1>1. req[p].kind # "reproject" /\ ~orphan[p]
    BY DEF Held
  <1>2. pc'[p] \in {"idle", "lock"}
    BY <1>1, EndingGoes
  <1>3. Mending(p)' /\ ~Edits(p)'
    BY <1>2, RestMends DEF Edits
  <1>4. CASE job[p].mode \in {"rebuild", "append"}
    <2>1. TagsUpTo(current)
      BY <1>4 DEF Mending
    <2>2. TagsUpTo(current)'
      BY <2>1 DEF TagsUpTo
    <2>3. QED
      BY <1>3, <2>2, CleanMends
  <1>5. CASE job[p].mode \notin {"rebuild", "append"}
    <2>1. pc'[p] = "idle"
      BY <1>1, <1>5, EndingGoes DEF JobFailed
    <2>2. ~Waiting(p)'
      BY <2>1 DEF Waiting
    <2>3. QED
      BY <1>3, <2>2, SameMends
  <1>6. QED
    BY <1>4, <1>5

\* A call enters; without a directory there is no tag.
LEMMA EntryMends ==
  ASSUME IInv, NEW p \in Procs, Held(p), OnlyOf(p), Ordered, Asked(p), Mendable(p), Mending(p),
         TakeGuard(p) \/ Ensure(p)
  PROVE  Mendable(p)' /\ Mending(p)'
PROOF
  <1>1. CallType /\ CallInv(p) /\ StoreType /\ current \in Versions /\ current \in Int
        /\ 0 <= current
    BY SMTT(60), BoundAssumption DEF IInv, CallsInv, CallType, StoreType, Versions
  <1>2. UNCHANGED <<current, tags, main>>
    BY DEF TakeGuard, Ensure, EnsureMissing, EnsurePresent, db, repo
  <1>3. CASE TakeGuard(p)
    <2>1. CASE pc'[p] \in {"ensure", "sync"}
      BY <1>2, <2>1, SameMends, RestMends DEF Edits, Waiting
    <2>2. CASE /\ pc'[p] = "build" /\ req[p].kind \in {"push", "merge"} /\ req' = req
               /\ phase' = phase /\ pc[p] = "lock" /\ phase[p] = "work"
               /\ job'[p] = Work(req[p].kind, <<req[p].entry>>)
      <3>1. job'[p].mode = "push" /\ req[p].kind = "push"
        BY <2>2 DEF Work, Asked
      <3>2. Waiting(p) /\ Waiting(p)'
        BY <2>2, <3>1 DEF Waiting
      <3>3. Mending(p)'
        BY <2>2, <3>1, <3>2 DEF Mending
      <3>4. QED
        BY <1>2, <2>2, <3>2, <3>3, SameMends DEF Edits
    <2>3. QED
      BY <1>1, <1>3, <2>1, <2>2 DEF TakeGuard, Goto, CallType, CallInv, Control
  <1>4. CASE Ensure(p)
    <2>1. req[p].kind # "reproject"
      BY <1>4 DEF Ensure, EnsureMissing, EnsurePresent, Held
    <2>2. CASE EnsurePresent(p)
      <3>1. pc'[p] = "sync"
        BY <1>1, <2>1, <2>2, EndingGoes DEF EnsurePresent
      <3>2. QED
        BY <1>2, <3>1, SameMends, RestMends DEF Edits, Waiting
    <2>3. CASE EnsureMissing(p)
      <3>1. MaxTag = 0
        BY <1>1, <2>3, NoMainNoTags DEF EnsureMissing, Ordered
      <3>2. TagsUpTo(current)'
        <4>1. TagsUpTo(current)
          BY <1>1, <3>1, HighestTag
        <4>2. QED
          BY <1>2, <4>1 DEF TagsUpTo
      <3>3. CASE LeaveEnsure(p)
        <4>1. pc'[p] \in {"idle", "lock"}
          BY <1>1, <2>1, <3>3, EndingGoes
        <4>2. QED
          BY <3>2, <4>1, CleanMends, RestMends DEF Edits
      <3>4. CASE Hand(p, "build", Work("bootstrap", StoredAbove(0)))
        <4>1. pc'[p] = "build" /\ job'[p].mode = "bootstrap"
          BY <1>1, <2>1, <3>4, EndingGoes DEF Work
        <4>2. QED
          BY <3>2, <4>1, CleanMends DEF Edits, Mending
      <3>5. QED
        BY <2>3, <3>3, <3>4 DEF EnsureMissing
    <2>4. QED
      BY <1>4, <2>2, <2>3 DEF Ensure
  <1>5. QED
    BY <1>3, <1>4

\* The alignment goes on with a tag above the current version only to project
\* the tip it stands on.
LEMMA AlignMends ==
  ASSUME FailsOnce, IInv, NEW p \in Procs, Held(p), Placed(p), Aligned(p), OnlyOf(p), Ordered,
         Covered(p), Mendable(p), Mending(p), Align(p)
  PROVE  Mendable(p)' /\ Mending(p)'
PROOF
  <1>1. CallType /\ CallInv(p) /\ StoreType /\ current \in Int /\ 0 <= current
        /\ current \in Versions
        /\ have[p] \in 0..MaxVersion /\ saw[p] \in 0..MaxVersion
    BY SMTT(60), BoundAssumption DEF IInv, CallsInv, CallType, StoreType, Versions
  <1>2. /\ UNCHANGED <<current, tags>> /\ pc[p] \in {"sync", "look", "count"}
        /\ ~Edits(p) /\ req[p].kind # "reproject" /\ main' = main /\ dir
    BY DEF Align, ReadCurrent, LookAtRefs, FindMainMissing, CountEqual, CountBehind,
           CountAhead, SyncFails, db, repo, Edits, Held, Placed
  <1>3. TagsUpTo(current)' = TagsUpTo(current)
    BY <1>2 DEF TagsUpTo
  <1>4. ASSUME pc'[p] \in {"look", "count"} \/ Step(p, "read")
        PROVE  Mendable(p)' /\ Mending(p)'
    <2>1. CASE pc'[p] \in {"look", "count"}
      BY <1>2, <2>1, SameMends, RestMends DEF Edits, Waiting
    <2>2. CASE Step(p, "read")
      <3>1. pc'[p] = "read" /\ UNCHANGED <<req, phase>>
        BY <1>1, <1>2, <2>2, EndingGoes DEF local
      <3>2. Aligning(p)'
        BY <1>1, <1>2, <3>1 DEF Aligning, CallInv, Control
      <3>3. Mending(p)'
        BY <3>1, <3>2 DEF Mending
      <3>4. QED
        BY <1>2, <3>1, <3>3, SameMends DEF Edits, Waiting
    <2>3. QED
      BY <1>4, <2>1, <2>2
  <1>5. ASSUME NEW a, LeaveSync(p, a), TagsUpTo(current)
        PROVE  Mendable(p)' /\ Mending(p)'
    <2>1. pc'[p] \in {"idle", "lock", "begin"}
      BY <1>1, <1>2, <1>5, EndingGoes
    <2>2. QED
      BY <1>3, <1>5, <2>1, CleanMends, RestMends DEF Edits
  <1>6. ASSUME NEW mode \in {"rebuild", "append"}, NEW todo,
               Hand(p, "build", Work(mode, todo)), TagsUpTo(current)
        PROVE  Mendable(p)' /\ Mending(p)'
    <2>1. pc'[p] = "build" /\ job'[p].mode = mode
      BY <1>1, <1>2, <1>6, EndingGoes DEF Work
    <2>2. QED
      BY <1>3, <1>6, <2>1, CleanMends DEF Edits, Mending
  <1>7. MaxTag <= current => TagsUpTo(current)
    BY <1>1, HighestTag
  <1>8. pc[p] = "count" => saw[p] = current /\ have[p] = MaxTag
    BY DEF Aligned, Fresh
  <1>9. CASE ReadCurrent(p) \/ LookAtRefs(p)
    BY <1>1, <1>2, <1>4, <1>9 DEF ReadCurrent, LookAtRefs, Goto, CallType
  <1>10. CASE FindMainMissing(p)
    <2>1. MaxTag = 0
      BY <1>1, <1>10, NoMainNoTags DEF FindMainMissing
    <2>2. ~((IF MaxTag < saw[p] THEN MaxTag ELSE saw[p]) > 0) /\ TagsUpTo(current)
      BY <1>1, <1>7, <2>1, BoundAssumption
    <2>3. CASE Rebuild(p)
      BY <1>6, <2>2, <2>3 DEF Rebuild
    <2>4. CASE ~Rebuild(p)
      <3>1. Goto(p, "count")
        BY <1>10, <2>2, <2>4 DEF FindMainMissing
      <3>2. QED
        BY <1>1, <1>4, <3>1 DEF Goto, CallType
    <2>5. QED
      BY <2>3, <2>4
  <1>11. CASE CountEqual(p)
    <2>1. TagsUpTo(current)
      BY <1>1, <1>7, <1>8, <1>11 DEF CountEqual
    <2>2. QED
      BY <1>4, <1>5, <1>11, <2>1 DEF CountEqual
  <1>12. CASE CountBehind(p)
    <2>1. TagsUpTo(current)
      BY <1>1, <1>7, <1>8, <1>12 DEF CountBehind
    <2>2. QED
      BY <1>5, <1>6, <1>12, <2>1 DEF CountBehind
  <1>13. CASE CountAhead(p)
    <2>1. CASE TagsUpTo(current)
      BY <1>4, <1>5, <1>13, <2>1 DEF CountAhead
    <2>2. CASE ~TagsUpTo(current)
      <3>1. Pending
        BY <2>2 DEF Mendable
      <3>2. MaxTag <= current + 1 /\ MaxTag \in Int
        BY <1>1, HighestTag, MaxTagBounds DEF Ordered
      <3>3. have[p] = saw[p] + 1 /\ have[p] = current + 1
        BY <1>1, <1>8, <1>13, <3>2 DEF CountAhead
      <3>4. TagOnTip(have[p])
        BY <3>1, <3>3 DEF Pending, TagOnTip
      <3>5. QED
        BY <1>4, <1>13, <3>3, <3>4 DEF CountAhead
    <2>3. QED
      BY <2>1, <2>2
  <1>14. CASE SyncFails(p)
    <2>1. ~Spent
      BY <1>1, <1>14, FaultSpends DEF SyncFails
    <2>2. TagsUpTo(current)
      BY <1>2, <2>1 DEF Covered
    <2>3. QED
      BY <1>5, <1>14, <2>2 DEF SyncFails
  <1>15. QED
    BY <1>9, <1>10, <1>11, <1>12, <1>13, <1>14 DEF Align

\* A git write is built on main as it stands.
LEMMA BuildMends ==
  ASSUME IInv, NEW p \in Procs, Held(p), OnlyOf(p), Naming(p), Mendable(p), Mending(p),
         BuildCommits(p)
  PROVE  Mendable(p)' /\ Mending(p)'
PROOF
  <1>1. /\ CallType /\ StoreType /\ main \in Commit /\ job[p] \in Job /\ CallInv(p)
        /\ req[p] \in Request
    BY DEF IInv, CallsInv, CallType, StoreType
  <1>2. /\ pc[p] = "build" /\ ~Edits(p) /\ UNCHANGED <<current, rows, tags, main>>
        /\ req[p].kind # "reproject" /\ job[p].mode \notin {"restore", "merge"}
    BY DEF BuildCommits, db, repo, Edits, Held, Naming, Mending
  <1> DEFINE mode == job[p].mode
  <1> DEFINE todo == job[p].todo
  <1> DEFINE base == CASE mode \in {"bootstrap", "rebuild"} -> NoRef
                       [] mode = "push"                     -> req[p].base
                       [] OTHER                             -> main
  <1>3. TagsUpTo(current)' = TagsUpTo(current)
    BY <1>2 DEF TagsUpTo
  <1>4. CASE JobFailed(p)
    BY <1>1, <1>2, <1>4, FailureMends
  <1>5. ASSUME NEW s \in {"move", "tag"}, NEW w, Hand(p, s, w), w.mode = mode,
               s = "tag" => mode = "append",
               s = "move" /\ mode = "push" => w.parent = main,
               s = "move" /\ mode = "web" => Len(w.parent) < Len(w.tip)
        PROVE  Mendable(p)' /\ Mending(p)'
    <2>1. pc'[p] = s /\ job'[p] = w /\ req' = req /\ phase' = phase
      BY <1>1, <1>2, <1>5, EndingGoes
    <2>2. mode = "push" => Waiting(p)
      BY <1>2 DEF Mending
    <2>3. mode # "push" => TagsUpTo(current)
      BY <1>2 DEF Mending
    <2>4. Mending(p)'
      BY <1>2, <1>3, <1>5, <2>1, <2>2, <2>3 DEF Mending, Waiting
    <2>5. CASE mode = "push"
      BY <1>2, <1>5, <2>1, <2>2, <2>4, <2>5, SameMends DEF Edits
    <2>6. CASE mode # "push"
      <3>1. CASE s = "tag"
        BY <1>3, <1>5, <2>1, <2>3, <2>4, <2>6, <3>1, CleanMends DEF Edits
      <3>2. CASE s = "move"
        BY <1>3, <1>5, <2>1, <2>3, <2>4, <2>6, <3>2, CleanMends DEF Edits
      <3>3. QED
        BY <3>1, <3>2
    <2>7. QED
      BY <2>5, <2>6
  <1>6. CASE /\ mode = "append" /\ InTail(main, todo)
             /\ Hand(p, "tag", [job[p] EXCEPT !.tags = TagsFor(main, todo)])
    <2> DEFINE w == [job[p] EXCEPT !.tags = TagsFor(main, todo)]
    <2>1. w.mode = mode /\ Hand(p, "tag", w)
      BY <1>1, <1>6 DEF Job
    <2> HIDE DEF w
    <2>2. QED
      BY <1>5, <1>6, <2>1
  <1>7. CASE Hand(p, "move",
                  [job[p] EXCEPT
                     !.parent = IF mode = "push" THEN main ELSE base,
                     !.tip    = base \o todo,
                     !.tags   = IF mode \in {"push", "merge"} THEN <<>>
                                ELSE TagsFor(base \o todo, todo)])
    <2> DEFINE w == [job[p] EXCEPT
                     !.parent = IF mode = "push" THEN main ELSE base,
                     !.tip    = base \o todo,
                     !.tags   = IF mode \in {"push", "merge"} THEN <<>>
                                ELSE TagsFor(base \o todo, todo)]
    <2>1. /\ w.mode = mode /\ w.parent = (IF mode = "push" THEN main ELSE base)
          /\ w.tip = base \o todo /\ Hand(p, "move", w)
      BY <1>1, <1>7 DEF Job
    <2>2. mode = "web" => Len(w.parent) < Len(w.tip)
      <3>1. SUFFICES ASSUME mode = "web"
                     PROVE  Len(main) < Len(main \o todo)
        BY <2>1
      <3>2. Len(todo) = 1 /\ todo \in Commit
        BY <1>1, <1>2, <3>1 DEF Naming, Job
      <3>3. Len(main) \in Nat /\ Len(main \o todo) = Len(main) + Len(todo)
        BY <1>1, <3>2, ConcatProperties, LenProperties DEF Commit
      <3>4. QED
        BY <3>2, <3>3
    <2> HIDE DEF w
    <2>3. QED
      BY <1>5, <2>1, <2>2
  <1>8. QED
    BY <1>4, <1>6, <1>7 DEF BuildCommits

\* Main moves only with nothing left to mend, and then no older push does.
LEMMA MoveMends ==
  ASSUME IInv, NEW p \in Procs, Held(p), OnlyOf(p), Naming(p), Mendable(p), Mending(p),
         \A q \in Procs : Asked(q), MoveMain(p)
  PROVE  Mendable(p)' /\ Mending(p)'
PROOF
  <1>1. /\ CallType /\ StoreType /\ main \in Commit /\ job[p] \in Job /\ CallInv(p)
    BY DEF IInv, CallsInv, CallType, StoreType
  <1>2. /\ pc[p] = "move" /\ UNCHANGED <<current, tags>> /\ main = Expected(p)
        /\ main' = job[p].tip /\ req[p].kind # "reproject"
        /\ job[p].mode \notin {"restore", "merge"}
    BY DEF MoveMain, db, Held, Naming, Mending
  <1>3. pc'[p] = "tag" /\ UNCHANGED <<job, req, phase>>
    BY <1>1, <1>2, EndingGoes DEF MoveMain, local
  <1>4. TagsUpTo(current)
    <2>1. CASE job[p].mode = "push"
      <3>1. Waiting(p) /\ req[p].base = main
        BY <1>2, <2>1 DEF Mending, Expected
      <3>2. QED
        BY <3>1 DEF Mendable, Outdated
    <2>2. CASE job[p].mode # "push"
      BY <1>2, <2>2 DEF Mending
    <2>3. QED
      BY <2>1, <2>2
  <1>5. TagsUpTo(current)'
    BY <1>2, <1>4 DEF TagsUpTo
  <1>6. Mending(p)'
    BY <1>2, <1>3, <1>5 DEF Mending
  <1>7. CASE job[p].mode # "web"
    BY <1>3, <1>5, <1>6, <1>7, CleanMends DEF Edits
  <1>8. CASE job[p].mode = "web"
    <2>1. Len(main) < Len(main')
      BY <1>2, <1>8 DEF Mending, Expected
    <2>2. ASSUME NEW q \in Procs, Waiting(q)'
          PROVE  req'[q].base # main'
      <3>1. Waiting(q) /\ req'[q] = req[q]
        BY <1>3, <2>2 DEF OnlyOf, Same, Waiting
      <3>2. Len(req[q].base) <= Len(main)
        BY <3>1 DEF Waiting, Asked
      <3>3. req[q].base \in Commit
        BY <1>1 DEF CallType, Request
      <3>4. Len(req[q].base) \in Nat /\ Len(main) \in Nat
        BY <1>1, <3>3, LenProperties DEF Commit
      <3>5. Len(req[q].base) # Len(main')
        <4>1. main' \in Commit
          BY <1>1, <1>2 DEF Job
        <4>2. Len(main') \in Nat
          BY <4>1, LenProperties DEF Commit
        <4>3. QED
          BY <2>1, <3>2, <3>4, <4>2
      <3>6. QED
        BY <3>1, <3>5
    <2>3. Outdated'
      BY <2>2 DEF Outdated
    <2>4. QED
      BY <1>5, <1>6, <2>3 DEF Mendable
  <1>9. QED
    BY <1>7, <1>8

\* The tag of an edit stands on its commit, which its row will follow.
LEMMA SetTagMends ==
  ASSUME IInv, NEW p \in Procs, Held(p), OnlyOf(p), Rising(p), Naming(p), Mendable(p), Mending(p),
         SetTag(p)
  PROVE  Mendable(p)' /\ Mending(p)'
PROOF
  <1> DEFINE s == job[p].tags
  <1> DEFINE h == Head(s)
  <1>1. /\ CallType /\ StoreType /\ current \in Versions /\ job[p] \in Job /\ CallInv(p)
        /\ main \in Commit
    BY DEF IInv, CallsInv, CallType, StoreType
  <1>2. /\ pc[p] = "tag" /\ s # <<>> /\ tags' = [tags EXCEPT ![h.ver] = h.at]
        /\ UNCHANGED <<current, main>>
        /\ Hand(p, "tag", [job[p] EXCEPT !.tags = Tail(s)])
    BY DEF SetTag, db
  <1>3. /\ pc'[p] = "tag" /\ job'[p].mode = job[p].mode /\ req' = req /\ phase' = phase
    BY <1>1, <1>2 DEF Hand, Goto, Job, CallType
  <1>4. 1 \in 1..Len(s) /\ h = s[1]
    <2>1. s \in Seq([ver : Versions, at : Commit])
      BY <1>1 DEF Job
    <2> HIDE DEF s
    <2>2. Len(s) \in Nat \ {0} /\ h = s[1]
      BY <1>2, <2>1, LenProperties, EmptySeq
    <2>3. QED
      BY <2>2
  <1>5. \A v \in Versions : tags'[v] = IF v = h.ver THEN h.at ELSE tags[v]
    BY <1>1, <1>2 DEF StoreType
  <1>6. job[p].mode \notin {"push", "merge", "restore"}
    BY <1>2 DEF Naming, Mending
  <1> HIDE DEF s, h
  <1>7. CASE job[p].mode = "web"
    <2>1. h = [ver |-> current + 1, at |-> main]
      BY <1>2, <1>4, <1>7 DEF Naming, s
    <2>2. current < MaxVersion /\ req[p].entry.body \in Bodies
      BY <1>1, <1>2, <1>7 DEF CallInv, Owns, Open, Held, Contents, Control
    <2>3. Projectable(main)
      BY <1>2, <1>7, <2>2, DataAssumption DEF Naming, Edits, Wanted, Projectable
    <2>4. current + 1 \in Versions
      BY <1>1, <2>2, BoundAssumption DEF Versions
    <2>5. Pending'
      BY <1>2, <1>5, <2>1, <2>2, <2>3, <2>4 DEF Pending, Projectable, Tip
    <2>6. Outdated
      BY <1>2, <1>7 DEF Mendable, Edits
    <2>7. \A q \in Procs : Waiting(q)' => Waiting(q) /\ req'[q] = req[q]
      BY <1>3 DEF OnlyOf, Same, Waiting
    <2>8. Outdated'
      BY <1>2, <2>6, <2>7 DEF Outdated
    <2>9. Mending(p)'
      BY <1>3, <1>7 DEF Mending
    <2>10. QED
      BY <2>5, <2>8, <2>9 DEF Mendable
  <1>8. CASE job[p].mode # "web"
    <2>1. h.ver <= current
      BY <1>2, <1>4, <1>8 DEF Rising, Plain, Limit, s
    <2>2. TagsUpTo(current)
      BY <1>2, <1>8 DEF Mending
    <2>3. TagsUpTo(current)'
      BY <1>2, <1>5, <2>1, <2>2 DEF TagsUpTo
    <2>4. Mending(p)'
      BY <1>3, <1>6, <2>3 DEF Mending
    <2>5. QED
      BY <1>3, <1>8, <2>3, <2>4, CleanMends DEF Edits
  <1>9. QED
    BY <1>7, <1>8

\* A git write leaves a tag above the current version only on a tip of main
\* that can be projected, with no push that would move main past it.
LEMMA GitWriteMends ==
  ASSUME IInv, NEW p \in Procs, Held(p), OnlyOf(p), Aligned(p), Rising(p), Naming(p),
         Mendable(p), Mending(p), \A q \in Procs : Asked(q), GitWrite(p)
  PROVE  Mendable(p)' /\ Mending(p)'
PROOF
  <1>1. CallType /\ StoreType /\ CallInv(p) /\ job[p] \in Job
    BY SMTT(60) DEF IInv, CallsInv, CallType
  <1>2. /\ pc[p] \in {"build", "move", "tag"} /\ req[p].kind # "reproject" /\ ~orphan[p]
        /\ job[p].mode \in Modes \ {"none", "project", "restore", "merge"}
    BY <1>1 DEF GitWrite, BuildCommits, MoveMain, MoveRefused, SetTag, WriteDone, GitFails,
           TagFails, Held, CallInv, Control, Job, Naming, Mending
  <1>3. CASE MoveRefused(p)
    <2>1. UNCHANGED <<current, tags, main>> /\ pc[p] = "move"
      BY <1>3 DEF MoveRefused, db, repo
    <2>2. CASE JobFailed(p)
      BY <1>1, <1>2, <2>1, <2>2, FailureMends
    <2>3. CASE ~JobFailed(p)
      <3>1. job[p].parent = main
        BY <1>2, <1>3, <2>1, <2>3 DEF MoveRefused, Mending
      <3>2. Finish(p, "unversioned")
        BY <1>2, <1>3, <2>3, <3>1 DEF MoveRefused
      <3>3. pc'[p] = "idle"
        BY <1>1, <1>2, <3>2, EndingGoes
      <3>4. QED
        BY <2>1, <3>3, SameMends, RestMends DEF Edits, Waiting
    <2>4. QED
      BY <2>2, <2>3
  <1>4. CASE WriteDone(p)
    <2>1. /\ pc[p] = "tag" /\ UNCHANGED <<current, tags, main>> /\ JobDone(p)
      BY <1>4 DEF WriteDone, db, repo
    <2>2. CASE job[p].mode = "web"
      <3>1. Step(p, "commit") /\ Edits(p)
        BY <1>2, <2>1, <2>2 DEF JobDone, Edits
      <3>2. pc'[p] = "commit"
        BY <1>1, <1>2, <3>1, EndingGoes
      <3>3. QED
        BY <2>1, <3>1, <3>2, SameMends, RestMends DEF Waiting
    <2>3. CASE job[p].mode # "web"
      <3>1. TagsUpTo(current)
        BY <2>1, <2>3 DEF Mending
      <3>2. TagsUpTo(current)'
        BY <2>1, <3>1 DEF TagsUpTo
      <3>3. LeaveEnsure(p) \/ LeaveSync(p, "ok") \/ Step(p, "read")
        BY <1>2, <2>1, <2>3 DEF JobDone, Modes
      <3>4. pc'[p] \in {"idle", "lock", "begin", "read"}
        BY <1>1, <1>2, <3>3, EndingGoes
      <3>5. Mending(p)'
        BY <3>2, <3>4 DEF Mending
      <3>6. QED
        BY <3>2, <3>4, <3>5, CleanMends DEF Edits
    <2>4. QED
      BY <2>2, <2>3
  <1>5. CASE GitFails(p) \/ TagFails(p)
    <2>1. UNCHANGED <<current, tags, main>> /\ JobFailed(p)
      BY <1>5 DEF GitFails, TagFails, db, repo
    <2>2. QED
      BY <1>1, <1>2, <2>1, FailureMends
  <1>6. QED
    BY <1>3, <1>4, <1>5, BuildMends, MoveMends, SetTagMends DEF GitWrite

\* With no tag above the current version a call may wait, end, edit or project.
LEMMA CleanRests ==
  ASSUME NEW p \in Procs, TagsUpTo(current)', pc'[p] \in {"idle", "lock", "begin", "read"}
  PROVE  Mendable(p)' /\ Mending(p)'
PROOF
  BY CleanMends DEF Edits, Mending

\* A projection makes the version whose tag stood above the current one.
LEMMA ProjectMends ==
  ASSUME FailsOnce, IInv, NEW p \in Procs, Held(p), OnlyOf(p), Ordered, Aligned(p), Rising(p),
         Covered(p), Mendable(p), Mending(p), Project(p)
  PROVE  Mendable(p)' /\ Mending(p)'
PROOF
  <1>1. CallType /\ StoreType /\ current \in Versions
    BY DEF IInv, CallsInv, CallType, StoreType
  <1>2. /\ pc[p] \in {"read", "insert", "meta", "mark"} /\ req[p].kind # "reproject"
        /\ ~orphan[p] /\ ~Edits(p) /\ main' = main
    BY DEF Project, ReadTip, InsertVersion, InsertFails, InsertUnanswered, UpdateMeta,
           TagVersion, Held, Edits, repo
  <1>3. ProjectionFailed(p) => pc'[p] \in {"idle", "lock", "begin", "read"}
    BY <1>1, <1>2, EndingGoes DEF ProjectionFailed, Goto, CallType
  <1>4. CASE ReadTip(p)
    <2>1. /\ pc[p] = "read" /\ UNCHANGED <<current, tags, main>>
      BY <1>4 DEF ReadTip, db, repo
    <2>2. CASE Projectable(main)
      <3>1. pc'[p] = "insert" /\ UNCHANGED <<req, phase>>
        BY <1>1, <1>2, <1>4, <2>2, EndingGoes DEF ReadTip
      <3>2. Aligning(p)' = Aligning(p) /\ TagsUpTo(current)' = TagsUpTo(current)
        BY <2>1, <3>1 DEF Aligning, TagsUpTo
      <3>3. Mending(p)'
        BY <2>1, <3>1, <3>2 DEF Mending
      <3>4. QED
        BY <2>1, <3>1, <3>3, SameMends DEF Edits, Waiting
    <2>3. CASE ~Projectable(main)
      <3>1. TagsUpTo(current)
        BY <2>3 DEF Mendable, Pending
      <3>2. TagsUpTo(current)'
        BY <2>1, <3>1 DEF TagsUpTo
      <3>3. NothingToProject(p)
        BY <1>4, <2>3 DEF ReadTip
      <3>4. pc'[p] \in {"idle", "lock", "begin"}
        BY <1>1, <1>2, <3>3, EndingGoes DEF NothingToProject
      <3>5. QED
        BY <3>2, <3>4, CleanRests
    <2>4. QED
      BY <2>2, <2>3
  <1>5. ASSUME NewRow(Tip(job[p].tip).body), current < MaxVersion, UNCHANGED repo
        PROVE  TagsUpTo(current)' /\ tags'[current'] \in {NoRef, main}
    <2>1. current' = current + 1 /\ tags' = tags /\ current + 1 \in Versions
      BY <1>1, <1>5, BoundAssumption DEF NewRow, repo, Versions
    <2>2. TagsUpTo(current)'
      BY <2>1 DEF Ordered, TagsUpTo
    <2>3. TagsUpTo(current) => tags[current + 1] = NoRef
      <3>1. ~(current + 1 <= current)
        BY <1>1 DEF Versions
      <3>2. QED
        BY <2>1, <3>1 DEF TagsUpTo
    <2>4. QED
      BY <2>1, <2>2, <2>3 DEF Mendable, Pending
  <1>6. CASE InsertVersion(p)
    <2>1. /\ pc'[p] = "meta" /\ NewRow(Tip(job[p].tip).body) /\ current < MaxVersion
          /\ UNCHANGED repo
      BY <1>1, <1>6 DEF InsertVersion, Goto, CallType
    <2>2. TagsUpTo(current)' /\ tags'[current'] \in {NoRef, main}
      BY <1>5, <2>1
    <2>3. QED
      BY <1>2, <2>1, <2>2, CleanMends DEF Edits, Mending
  <1>7. CASE InsertFails(p)
    <2>1. ProjectionFailed(p) /\ ~Spent /\ UNCHANGED <<current, tags>>
      BY <1>1, <1>7, FaultSpends DEF InsertFails, db, repo
    <2>2. TagsUpTo(current)'
      BY <1>2, <2>1 DEF Covered, TagsUpTo
    <2>3. QED
      BY <1>3, <2>1, <2>2, CleanRests
  <1>8. CASE InsertUnanswered(p)
    <2>1. /\ ProjectionFailed(p) /\ NewRow(Tip(job[p].tip).body) /\ current < MaxVersion
          /\ UNCHANGED repo
      BY <1>8 DEF InsertUnanswered
    <2>2. QED
      BY <1>3, <1>5, <2>1, CleanRests
  <1>9. CASE UpdateMeta(p)
    <2>1. /\ pc[p] = "meta" /\ pc'[p] = "mark" /\ UNCHANGED <<current, tags>>
      BY <1>1, <1>2, <1>9, EndingGoes DEF UpdateMeta, repo
    <2>2. TagsUpTo(current)'
      BY <2>1 DEF Rising, TagsUpTo
    <2>3. Mending(p)'
      BY <1>2, <2>1 DEF Mending
    <2>4. QED
      BY <2>1, <2>2, <2>3, CleanMends DEF Edits
  <1>10. CASE TagVersion(p)
    <2>1. /\ pc[p] = "mark" /\ current' = current /\ Projected(p)
          /\ tags' \in {tags, [tags EXCEPT ![ver[p]] = job[p].tip]}
      BY <1>2, <1>10 DEF TagVersion, db
    <2>2. ver[p] = current /\ TagsUpTo(current)
      BY <2>1 DEF Rising
    <2>3. \A v \in Versions : v # current => tags'[v] = tags[v]
      BY <1>1, <2>1, <2>2 DEF StoreType
    <2>4. current <= current
      BY <1>1 DEF Versions
    <2>5. TagsUpTo(current)'
      BY <2>1, <2>2, <2>3, <2>4 DEF TagsUpTo
    <2>6. pc'[p] \in {"idle", "lock", "begin"}
      BY <1>1, <1>2, <2>1, EndingGoes DEF Projected
    <2>7. QED
      BY <2>5, <2>6, CleanRests
  <1>11. QED
    BY <1>4, <1>6, <1>7, <1>8, <1>9, <1>10 DEF Project

\* An edit opens its transaction with nothing left to mend, and its row follows
\* its tag, unless the transaction is lost.
LEMMA WebTailMends ==
  ASSUME IInv, NEW p \in Procs, Held(p), OnlyOf(p), Ordered, Rising(p), Mendable(p), Mending(p),
         WebTail(p)
  PROVE  Mendable(p)' /\ Mending(p)'
PROOF
  <1>1. CallType /\ StoreType /\ CallInv(p) /\ current \in Versions
    BY DEF IInv, CallsInv, CallType, StoreType
  <1>2. pc[p] \in {"begin", "commit"} /\ req[p].kind # "reproject" /\ UNCHANGED <<tags, main>>
    BY DEF WebTail, BeginWeb, BeginFails, CommitWeb, CommitFails, Held, repo
  <1>3. CASE BeginWeb(p) \/ BeginFails(p)
    <2>1. pc[p] = "begin" /\ current' = current
      BY <1>3 DEF BeginWeb, BeginFails, db
    <2>2. TagsUpTo(current)'
      BY <1>2, <2>1 DEF Rising, TagsUpTo
    <2>3. CASE \E a : Finish(p, a)
      <3>1. pc'[p] = "idle"
        BY <1>1, <1>2, <2>3, EndingGoes
      <3>2. QED
        BY <2>2, <3>1, CleanRests
    <2>4. CASE ~\E a : Finish(p, a)
      <3>1. /\ pc'[p] = "build"
            /\ job'[p] = Work("web", <<[req[p].entry EXCEPT !.ver = current + 1]>>)
        BY <1>1, <1>3, <2>4 DEF BeginWeb, BeginFails, Goto, CallType
      <3>2. job'[p].mode = "web"
        BY <3>1 DEF Work
      <3>3. Mending(p)'
        BY <2>2, <3>1, <3>2 DEF Mending
      <3>4. QED
        BY <2>2, <3>1, <3>3, CleanMends DEF Edits
    <2>5. QED
      BY <2>3, <2>4
  <1>4. CASE pc[p] = "commit" /\ NewVersion(p) /\ \E a : Finish(p, a)
    <2>1. ver[p] = current + 1 /\ current' = ver[p]
      BY <1>1, <1>4 DEF CallInv, Owns, Open, NewVersion
    <2>2. TagsUpTo(current)'
      BY <1>2, <2>1 DEF Ordered, TagsUpTo
    <2>3. pc'[p] = "idle"
      BY <1>1, <1>2, <1>4, EndingGoes
    <2>4. QED
      BY <2>2, <2>3, CleanRests
  <1>5. CASE UNCHANGED db /\ \E a : Finish(p, a)
    <2>1. pc'[p] = "idle"
      BY <1>1, <1>2, <1>5, EndingGoes
    <2>2. QED
      BY <1>2, <1>5, <2>1, SameMends, RestMends DEF Edits, Waiting, db
  <1>6. CASE CommitWeb(p) \/ CommitFails(p)
    <2>1. /\ pc[p] = "commit" /\ (NewVersion(p) \/ UNCHANGED db)
          /\ (Finish(p, "ok") \/ Finish(p, "lost"))
      BY <1>6 DEF CommitWeb, CommitFails
    <2>2. \E a : Finish(p, a)
      BY <2>1
    <2>3. QED
      BY <1>4, <1>5, <2>1, <2>2
  <1>7. QED
    BY <1>3, <1>6 DEF WebTail

\* A call that arrives is no merge, and a push is made on main as it is.
LEMMA ArrivalAsks ==
  ASSUME NoMerges, IInv, NEW p \in Procs,
         StartWeb(p) \/ StartPush(p) \/ StartMerge(p) \/ StartRead(p)
  PROVE  Asked(p)'
PROOF
  <1>1. ASSUME NEW kind, NEW entry, NEW want, NEW base,
               Start(p, kind, entry, want, base), kind = "push" => base = main
        PROVE  Asked(p)'
    <2>1. req'[p] = [kind |-> kind, entry |-> entry, want |-> want, base |-> base]
      BY <1>1 DEF Start, IInv, CallsInv, CallType
    <2>2. kind # "merge" /\ main' = main
      BY <1>1 DEF Start, NoMerges, repo
    <2>3. Len(main) \in Nat
      BY LenProperties DEF IInv, StoreType, Commit
    <2>4. QED
      BY <1>1, <2>1, <2>2, <2>3 DEF Asked
  <1>2. CASE StartWeb(p)
    BY <1>1, <1>2 DEF StartWeb
  <1>3. CASE StartPush(p)
    BY <1>1, <1>3 DEF StartPush
  <1>4. CASE StartMerge(p)
    BY <1>1, <1>4 DEF StartMerge
  <1>5. CASE StartRead(p)
    BY <1>1, <1>5 DEF StartRead
  <1>6. QED
    BY <1>2, <1>3, <1>4, <1>5

\* A call stays what it was, and a push is not younger for a longer main.
LEMMA AskedStays ==
  ASSUME IInv, IInv', NEW q \in Procs, Asked(q), Len(main) <= Len(main'),
         pc'[q] = "idle" \/ (pc[q] # "idle" /\ req'[q] = req[q])
  PROVE  Asked(q)'
PROOF
  <1>1. req[q].base \in Commit /\ main \in Commit /\ main' \in Commit
    BY DEF IInv, StoreType, CallsInv, CallType, Request
  <1>2. Len(req[q].base) \in Nat /\ Len(main) \in Nat /\ Len(main') \in Nat
    BY <1>1, LenProperties DEF Commit
  <1>3. QED
    BY <1>2 DEF Asked

\* A volume that loses a tag or its repository leaves nothing more to mend.
LEMMA DamageMends ==
  ASSUME TagsAreOurs, IInv, Ordered, MendInv, Damage
  PROVE  MendInv'
PROOF
  <1>1. /\ StoreType /\ current \in Versions /\ current' = current
        /\ (LoseTag \/ LoseDir) /\ \A q \in Procs : pc'[q] = "idle"
    BY DEF IInv, StoreType, Damage, Quiet, db, TagsAreOurs, LoseMain, ForeignTag, Fault
  <1>2. \A v \in Versions : tags'[v] \in {tags[v], NoRef}
    BY <1>1 DEF LoseTag, LoseDir, StoreType
  <1>3. Outdated' /\ \A q \in Procs : Asked(q)' /\ Mending(q)'
    BY <1>1, RestMends DEF Outdated, Waiting, Asked
  <1>4. TagsUpTo(current)' \/ Pending'
    <2>1. CASE TagsUpTo(current)
      BY <1>1, <1>2, <2>1 DEF TagsUpTo
    <2>2. CASE LoseDir
      BY <1>1, <2>2 DEF LoseDir, TagsUpTo
    <2>3. CASE Pending /\ LoseTag
      <3>1. PICK v \in Versions : tags' = [tags EXCEPT ![v] = NoRef] /\ main' = main
        BY <2>3 DEF LoseTag
      <3>2. current + 1 \in Versions
        BY <1>1, <2>3, BoundAssumption DEF Pending, Versions
      <3>3. CASE v = current + 1
        <4>1. \A w \in Versions : tags'[w] # NoRef => w # current + 1 /\ w <= current + 1
          BY <1>1, <3>1, <3>3 DEF StoreType, Ordered, TagsUpTo
        <4>2. TagsUpTo(current)'
          BY <1>1, <4>1 DEF TagsUpTo, Versions
        <4>3. QED
          BY <4>2
      <3>4. CASE v # current + 1
        <4>1. tags'[current + 1] = tags[current + 1]
          BY <1>1, <3>1, <3>2, <3>4 DEF StoreType
        <4>2. Pending'
          BY <1>1, <2>3, <3>1, <4>1 DEF Pending, Projectable, Tip
        <4>3. QED
          BY <4>2
      <3>5. QED
        BY <3>3, <3>4
    <2>4. QED
      BY <1>1, <2>1, <2>2, <2>3 DEF MendInv
  <1>5. QED
    BY <1>3, <1>4 DEF MendInv

\* Every step leaves what the next touch can mend.
LEMMA MendNext ==
  ASSUME GuardIsKept, TagsAreOurs, FailsOnce, NoMerges, IInv, IInv', GuardInv, OrderInv,
         NameInv, MendInv, [Next]_vars
  PROVE  MendInv'
PROOF
  <1>1. /\ CallType /\ StoreType /\ Ordered
        /\ \A q \in Procs : /\ Held(q) /\ Placed(q) /\ Aligned(q) /\ Rising(q) /\ Naming(q)
                            /\ Asked(q) /\ Mending(q)
    BY DEF IInv, CallsInv, GuardInv, OrderInv, NameInv, MendInv
  <1>2. Len(main) \in Nat
    BY <1>1, LenProperties DEF StoreType, Commit
  <1>3. ASSUME UNCHANGED <<db, repo>>, \A q \in Procs : Edits(q)' => Edits(q),
               \A q \in Procs : Waiting(q)' => Waiting(q) /\ req'[q] = req[q],
               \A q \in Procs : Asked(q)' /\ Mending(q)'
        PROVE  MendInv'
    <2>1. UNCHANGED <<current, tags, main>>
      BY <1>3 DEF db, repo
    <2>2. /\ TagsUpTo(current)' = TagsUpTo(current) /\ Pending' = Pending
          /\ Outdated => Outdated'
      BY <1>3, <2>1 DEF TagsUpTo, Pending, Projectable, Tip, Outdated
    <2>3. QED
      BY <1>3, <2>2 DEF MendInv
  <1>4. ASSUME NEW q \in Procs, Same(q), UNCHANGED <<db, repo>>
        PROVE  Mending(q)' /\ Asked(q)' /\ Edits(q)' = Edits(q) /\ Waiting(q)' = Waiting(q)
    <2>1. UNCHANGED <<current, tags, main>>
      BY <1>4 DEF db, repo
    <2>2. TagsUpTo(current)' = TagsUpTo(current) /\ Waiting(q)' = Waiting(q)
          /\ Aligning(q)' = Aligning(q) /\ Edits(q)' = Edits(q)
      BY <1>4, <2>1 DEF TagsUpTo, Waiting, Aligning, Edits, Same
    <2>3. Mending(q)'
      BY <1>1, <1>4, <2>1, <2>2 DEF Mending, Same
    <2>4. Asked(q)'
      BY <1>1, <1>4, <2>1 DEF Asked, Same
    <2>5. QED
      BY <2>2, <2>3, <2>4
  <1>5. CASE UNCHANGED vars
    <2>1. UNCHANGED <<db, repo, req>> /\ \A q \in Procs : Same(q)
      BY <1>5 DEF vars, local, Same
    <2>2. QED
      BY <1>3, <1>4, <2>1
  <1>6. ASSUME NEW p \in Procs, StartWeb(p) \/ StartPush(p) \/ StartMerge(p) \/ StartRead(p)
        PROVE  MendInv'
    <2>1. /\ pc'[p] = "lock" /\ phase'[p] = "ensure" /\ UNCHANGED <<db, repo>>
      BY <1>6, ArrivalDoes
    <2>2. \A q \in Procs \ {p} : Same(q)
      BY <1>6, ActsAlone DEF Acts, Arrive, OnlyOf
    <2>3. ~Edits(p)' /\ ~Waiting(p)' /\ Mending(p)' /\ Asked(p)'
      BY <1>6, <2>1, RestMends, ArrivalAsks DEF Edits, Waiting
    <2>4. \A q \in Procs \ {p} : req'[q] = req[q]
      BY <2>2 DEF Same
    <2>5. QED
      BY <1>3, <1>4, <2>1, <2>2, <2>3, <2>4
  <1>7. ASSUME NEW p \in Procs, TakeGuard(p) \/ Proceed(p)
        PROVE  MendInv'
    <2>1. OnlyOf(p)
      BY <1>7, ActsAlone DEF Acts
    <2>2. pc[p] # "idle" /\ (pc'[p] = "idle" \/ req'[p] = req[p]) /\ guard \in {p, Nobody}
      <3>1. CASE TakeGuard(p)
        BY <3>1 DEF TakeGuard
      <3>2. CASE Proceed(p)
        <4>1. pc[p] \notin {"idle", "lock"}
          BY <3>2 DEF Proceed, Ensure, EnsureMissing, EnsurePresent, Align, ReadCurrent,
                LookAtRefs, FindMainMissing, CountEqual, CountBehind, CountAhead,
                SyncFails, GitWrite, BuildCommits, MoveMain, MoveRefused, SetTag,
                WriteDone, GitFails, TagFails, Project, ReadTip, InsertVersion,
                InsertFails, InsertUnanswered, UpdateMeta, TagVersion, WebTail,
                BeginWeb, BeginFails, CommitWeb, CommitFails
        <4>2. Kept(p)
          BY <1>1, <3>2, <4>1, ProceedKeepsGuard DEF Held
        <4>3. QED
          BY <1>1, <4>1, <4>2 DEF Held, Kept
      <3>3. QED
        BY <1>7, <3>1, <3>2
    <2>3. \A q \in Procs \ {p} : pc[q] \in {"idle", "lock"} /\ pc'[q] \in {"idle", "lock"}
      BY <1>1, <2>1, <2>2, DataAssumption DEF Held, OnlyOf, Same
    <2>4. Len(main) <= Len(main')
      <3>1. main' \in Commit /\ main \in Commit
        BY <1>1 DEF IInv, StoreType
      <3>2. ~LoseMain /\ ~LoseDir
        BY <1>7, DirStays DEF LoseMain, LoseDir, Fault, TagsAreOurs, Acts
      <3>3. main' = main \/ IsPrefix(main, main')
        BY <3>2, MainStep
      <3>4. QED
        BY <1>2, <3>1, <3>3, PrefixKeepsEntries
    <2>5. \A q \in Procs : Asked(q)'
      BY <1>1, <2>1, <2>2, <2>4, AskedStays DEF OnlyOf, Same, Asked
    <2>6. Mendable(p) /\ Covered(p)
      BY <2>3 DEF MendInv, Mendable, NameInv, Covered, Edits
    <2>7. Mendable(p)' /\ Mending(p)'
      <3>1. CASE TakeGuard(p) \/ Ensure(p)
        BY <1>1, <2>1, <2>6, <3>1, EntryMends
      <3>2. CASE Align(p)
        BY <1>1, <2>1, <2>6, <3>2, AlignMends
      <3>3. CASE GitWrite(p)
        BY <1>1, <2>1, <2>6, <3>3, GitWriteMends
      <3>4. CASE Project(p)
        BY <1>1, <2>1, <2>6, <3>4, ProjectMends
      <3>5. CASE WebTail(p)
        BY <1>1, <2>1, <2>6, <3>5, WebTailMends
      <3>6. QED
        BY <1>7, <3>1, <3>2, <3>3, <3>4, <3>5 DEF Proceed
    <2>8. \A q \in Procs : Mending(q)'
      BY <2>3, <2>7, RestMends
    <2>9. (\E q \in Procs : Edits(q)') => Edits(p)'
      BY <2>3 DEF Edits
    <2>10. QED
      BY <2>5, <2>7, <2>8, <2>9 DEF MendInv, Mendable
  <1>8. CASE Crash
    <2>1. PICK gone \in SUBSET {p \in Procs : pc[p] # "idle"} :
             /\ pc' = [p \in Procs |-> IF p \in gone THEN "idle" ELSE pc[p]]
             /\ req' = [p \in Procs |-> IF p \in gone THEN NoRequest ELSE req[p]]
             /\ phase' = [p \in Procs |-> IF p \in gone THEN "ensure" ELSE phase[p]]
             /\ saw' = [p \in Procs |-> IF p \in gone THEN 0 ELSE saw[p]]
             /\ have' = [p \in Procs |-> IF p \in gone THEN 0 ELSE have[p]]
             /\ job' = [p \in Procs |-> IF p \in gone THEN NoJob ELSE job[p]]
             /\ ver' = [p \in Procs |-> IF p \in gone THEN 0 ELSE ver[p]]
             /\ orphan' = [p \in Procs |-> IF p \in gone THEN FALSE ELSE orphan[p]]
             /\ UNCHANGED <<db, repo>>
      BY <1>8 DEF Crash
    <2>2. ASSUME NEW q \in Procs
          PROVE  /\ Mending(q)' /\ Asked(q)' /\ (Edits(q)' => Edits(q))
                 /\ (Waiting(q)' => Waiting(q) /\ req'[q] = req[q])
      <3>1. CASE q \in gone
        <4>1. pc'[q] = "idle"
          BY <2>1, <3>1
        <4>2. QED
          BY <4>1, RestMends DEF Asked, Edits, Waiting
      <3>2. CASE q \notin gone
        <4>1. Same(q)
          BY <2>1, <3>2 DEF Same
        <4>2. QED
          BY <1>4, <2>1, <4>1 DEF Same
      <3>3. QED
        BY <3>1, <3>2
    <2>3. QED
      BY <1>3, <2>1, <2>2
  <1>9. CASE Damage
    BY <1>1, <1>9, DamageMends
  <1>10. QED
    BY <1>5, <1>6, <1>7, <1>8, <1>9, GuardedSteps DEF Next, Acts

\* At the start there is nothing to mend.
LEMMA MendInit == Init => MendInv
PROOF
  BY DEF Init, MendInv, TagsUpTo, Outdated, Waiting, Edits, Asked, Mending

\* Whatever single failure happens, what stands above the current version is
\* the tag of the next one, on a tip of main that nobody will move before the
\* alignment has projected it: a push that waits was made on an older main.
THEOREM MendHolds ==
  ASSUME GuardIsKept, TagsAreOurs, FailsOnce, NoMerges
  PROVE  Spec => []MendInv
PROOF
  <1>1. IInv /\ IInv' /\ GuardInv /\ OrderInv /\ NameInv /\ MendInv /\ [Next]_vars => MendInv'
    BY MendNext
  <1>2. QED
    BY <1>1, MendInit, Invariance, GuardHolds, OrderHolds, NameHolds, PTL DEF Spec

\* At rest, no tag stands above the current version except the next one's on
\* an unprojected tip of main: align_by_counters takes anything else for a
\* conflict and leaves it to an operator, so this is what a failed web edit
\* may leave and still be healed by the next read.
THEOREM Healable ==
  ASSUME GuardIsKept, TagsAreOurs, FailsOnce, NoMerges
  PROVE  Spec => []HealableAtRest
PROOF
  <1>1. ASSUME IInv, OrderInv, MendInv
        PROVE  HealableAtRest
    <2>1. StoreType /\ current \in Versions /\ current \in Int /\ 0 <= current
      BY <1>1, BoundAssumption DEF IInv, StoreType, Versions
    <2>2. CASE TagsUpTo(current)
      BY <2>1, <2>2, HighestTag DEF HealableAtRest
    <2>3. CASE Pending
      <3>1. current + 1 \in Versions
        BY <2>1, <2>3, BoundAssumption DEF Pending, Versions
      <3>2. MaxTag <= current + 1 /\ current + 1 <= MaxTag
        BY <1>1, <2>1, <2>3, <3>1, HighestTag DEF OrderInv, Ordered, Pending, Projectable
      <3>3. MaxTag = current + 1
        BY <2>1, <3>2, MaxTagBounds
      <3>4. QED
        BY <2>3, <3>3 DEF Pending, HealableAtRest
    <2>4. QED
      BY <1>1, <2>2, <2>3 DEF MendInv
  <1>2. QED
    BY <1>1, MendHolds, Invariance, OrderHolds, PTL

\* A version tag is never moved to another commit: not by the tags of a heal
\* or of an edit, which are all above those that exist, nor by tag_version,
\* which finds its number untagged or tagged on the tip it projected.
THEOREM TagsStay ==
  ASSUME GuardIsKept, TagsAreOurs, FailsOnce, NoMerges
  PROVE  Spec => TagsNeverMove
PROOF
  <1>1. ASSUME IInv, OrderInv, MendInv, NEW p \in Procs, SetTag(p)
        PROVE  \A v \in Versions : tags[v] # NoRef => tags'[v] = tags[v]
    <2> DEFINE s == job[p].tags
    <2>1. StoreType /\ s \in Seq([ver : Versions, at : Commit])
      BY <1>1 DEF IInv, CallsInv, CallType, Job
    <2>2. s # <<>> /\ tags' = [tags EXCEPT ![Head(s).ver] = Head(s).at] /\ pc[p] = "tag"
      BY <1>1 DEF SetTag
    <2>3. Plain(tags, s, main, Limit(p))
      BY <1>1, <2>2 DEF OrderInv, Rising
    <2> HIDE DEF s
    <2>4. 1 \in 1..Len(s) /\ Head(s) = s[1] /\ s[1].ver \in Versions
      <3>1. Len(s) \in Nat \ {0} /\ Head(s) = s[1]
        BY <2>1, <2>2, LenProperties, EmptySeq
      <3>2. 1 \in 1..Len(s)
        BY <3>1
      <3>3. s[1] \in [ver : Versions, at : Commit]
        BY <2>1, <3>2, ElementOfSeq
      <3>4. QED
        BY <3>1, <3>2, <3>3
    <2>5. \A v \in Versions : tags[v] # NoRef => v < s[1].ver
      BY <2>3, <2>4 DEF Plain
    <2>6. \A v \in Versions : tags[v] # NoRef => v # s[1].ver
      BY <2>4, <2>5 DEF Versions
    <2>7. QED
      BY <2>1, <2>2, <2>4, <2>6 DEF StoreType
  <1>2. ASSUME IInv, OrderInv, MendInv, NEW p \in Procs, TagVersion(p)
        PROVE  \A v \in Versions : tags[v] # NoRef => tags'[v] = tags[v]
    <2>1. /\ StoreType /\ pc[p] = "mark"
          /\ tags' \in {tags, [tags EXCEPT ![ver[p]] = job[p].tip]}
      BY <1>2 DEF TagVersion, IInv
    <2>2. ver[p] = current /\ job[p].tip = main
      BY <1>2, <2>1 DEF OrderInv, Rising
    <2>3. tags[current] \in {NoRef, main}
      BY <1>2, <2>1 DEF MendInv, Mending
    <2>4. QED
      BY <2>1, <2>2, <2>3 DEF StoreType
  <1>3. ASSUME NEW p \in Procs, Proceed(p), ~SetTag(p), ~TagVersion(p)
        PROVE  tags' = tags
    <2>1. CASE Ensure(p) \/ Align(p)
      BY <2>1 DEF Ensure, EnsureMissing, EnsurePresent, Align, ReadCurrent, LookAtRefs,
                  FindMainMissing, CountEqual, CountBehind, CountAhead, SyncFails, repo
    <2>2. CASE GitWrite(p)
      BY <1>3, <2>2 DEF GitWrite, BuildCommits, MoveMain, MoveRefused, WriteDone, GitFails,
                        TagFails, repo
    <2>3. CASE Project(p) \/ WebTail(p)
      BY <1>3, <2>3 DEF Project, ReadTip, InsertVersion, InsertFails, InsertUnanswered,
                        UpdateMeta, WebTail, BeginWeb, BeginFails, CommitWeb, CommitFails,
                        repo
    <2>4. QED
      BY <1>3, <2>1, <2>2, <2>3 DEF Proceed
  <1>4. ASSUME NEW p \in Procs, Arrive(p) \/ TakeGuard(p) \/ Cancel(p)
        PROVE  tags' = tags
    BY <1>4 DEF Arrive, StartWeb, StartPush, StartMerge, StartRead, StartReproject, Start,
                TakeGuard, Cancel, repo
  <1>5. ASSUME StoreType, Damage
        PROVE  \A v \in Versions : tags[v] # NoRef => tags'[v] \in {tags[v], NoRef}
    BY <1>5 DEF Damage, LoseMain, LoseTag, LoseDir, ForeignTag, Fault, TagsAreOurs, StoreType
  <1>6. Crash \/ UNCHANGED vars => tags' = tags
    BY DEF Crash, vars, repo
  <1>7. ASSUME IInv, OrderInv, MendInv, [Next]_vars
        PROVE  \A v \in Versions : tags[v] # NoRef => tags'[v] \in {tags[v], NoRef}
    BY <1>1, <1>2, <1>3, <1>4, <1>5, <1>6, <1>7 DEF Next, IInv
  <1>8. IInv /\ OrderInv /\ MendInv /\ [Next]_vars =>
           [\A v \in Versions : tags[v] # NoRef => tags'[v] \in {tags[v], NoRef}]_tags
    BY <1>7
  <1>9. QED
    BY <1>8, Invariance, OrderHolds, MendHolds, PTL DEF Spec, TagsNeverMove
=============================================================================
