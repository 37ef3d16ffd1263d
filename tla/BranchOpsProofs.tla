---------------------------- MODULE BranchOpsProofs ----------------------------
(***************************************************************************)
(* The references of a repository are what they promise for any number of  *)
(* handlers, drafts and people, and for any pushes: proposals are their    *)
(* authors', version tags stand on main in order, a moved main is tagged,  *)
(* and no call on a branch writes over what it has not read.               *)
(***************************************************************************)
EXTENDS BranchOps, FiniteSetTheorems, SequenceTheorems, WellFoundedInduction, TLAPS

-----------------------------------------------------------------------------
(* Types and control *)

Node == [anc : SUBSET Nat, work : SUBSET Nat, lost : SUBSET Nat]
Ids  == 0..Len(commits)

Steps == {"idle", "lock", "snapshot", "receive", "take", "read", "write", "project", "done"}

Request ==
    [kind : AllKinds \cup {"none"}, name : Names, from : Names, id : People \cup {Nobody},
     role : Roles, targets : SUBSET Targets, what : {"new", "same", "delete"}, base : Nat,
     told : [Targets -> Nat], strict : BOOLEAN, squash : BOOLEAN, version : 1..MaxVersion]

RefsType ==
    /\ commits \in Seq(Node)
    /\ heads \in [Names -> Nat]
    /\ authored \in [Actors -> Nat]
    /\ magic \in Nat
    /\ vtag \in [1..MaxVersion -> Nat]
    /\ release \in Nat

CallType ==
    /\ guard \in Procs \cup {Nobody}
    /\ pc \in [Procs -> Steps]
    /\ req \in [Procs -> Request]
    /\ saw \in [Procs -> [branch : Nat, main : Nat, magic : Nat]]
    /\ orphan \in [Procs -> BOOLEAN]
    /\ calls \in Nat /\ faults \in Nat

GhostType ==
    /\ credit \in [Procs -> Nat]
    /\ sent \in [Actors -> SUBSET Nat]
    /\ kept \in [Drafts -> Nat]
    /\ litter \in BOOLEAN
    /\ dropped \subseteq AllKinds

OnDraft == {"create", "delete", "merge", "update", "commit", "resolve"}

\* Where a call may be, what it asks for there, and who holds the guard.
Control(p) ==
    /\ pc[p] = "idle" <=> req[p].kind = "none"
    /\ pc[p] \in {"snapshot", "receive", "take"} => req[p].kind = "push"
    /\ pc[p] = "project" => ~orphan[p] /\ req[p].kind \in Guarded
    /\ pc[p] = "lock" => req[p].kind \in Guarded
    /\ pc[p] \in {"lock", "read", "write"} /\ req[p].kind \in OnDraft => req[p].name \in Drafts
    /\ orphan[p] => pc[p] \notin {"idle", "lock"} /\ req[p].kind \in dropped
    /\ req[p].kind \in Guarded /\ pc[p] # "lock" /\ ~orphan[p] => guard = p
    /\ dropped # {} => faults > 0

\* The commits a call names are in the graph.
Known(p) ==
    /\ req[p].base \in Ids /\ req[p].told["main"] \in Ids
    /\ saw[p].branch \in Ids /\ saw[p].main \in Ids
    /\ req[p].kind = "push" /\ pc[p] \in {"lock", "snapshot", "receive"} => req[p].base # 0
    /\ pc[p] = "write" => saw[p].branch # 0
    /\ pc[p] = "write" /\ req[p].kind \in Guarded => saw[p].main # 0

\* Ancestors are older, and an ancestor's ancestors are ancestors.
Graph ==
    \A c \in 1..Len(commits) :
        /\ commits[c].anc \subseteq 1..c /\ c \in commits[c].anc
        /\ \A a \in commits[c].anc : commits[a].anc \subseteq commits[c].anc

HeadsKnown == /\ (\A n \in Names : heads[n] \in Ids) /\ heads["main"] # 0
              /\ \A v \in 1..MaxVersion : vtag[v] \in Ids

IInv == /\ RefsType /\ CallType /\ GhostType
        /\ \A p \in Procs : Control(p) /\ Known(p)
        /\ Graph /\ HeadsKnown

-----------------------------------------------------------------------------
(* What each property rests on *)

\* refs/for/main holds another commit than before only while a push that put
\* it there has not taken it apart, and it is that push's own.
Foreign(p) == magic # 0 /\ magic # saw[p].magic
ProposalInv ==
    /\ OwnProposals
    /\ \A p \in Procs :
         /\ pc[p] = "receive" => ~Foreign(p)
         /\ pc[p] = "take" /\ Foreign(p) => magic \in sent[ChooseActor(req[p])]
    /\ litter => faults > 0

\* The tags are those of the first k versions.
TagsTo(k) == \A v \in 1..MaxVersion : vtag[v] # 0 <=> v <= k
TagInv == (\E k \in 2..MaxVersion : TagsTo(k)) /\ VersionTagsAreVersions

\* A main without its tag has a call under way that will set it.
Owes(p) == /\ guard = p
           /\ pc[p] = "project" \/ (pc[p] = "take" /\ heads["main"] # saw[p].main)
MoveInv ==
    faults = 0 /\ vtag[MaxVersion] = 0 =>
        /\ vtag[NextVersion - 1] = heads["main"] \/ \E p \in Procs : Owes(p)
        /\ \A p \in Procs : pc[p] = "receive" => saw[p].main = heads["main"]

\* A branch that is about to be forced still holds what is owed to it.
Forces(p) == pc[p] = "write" /\ req[p].kind = "update"
KeptInv ==
    dropped \cap {"update", "push"} = {} =>
        /\ \A d \in Drafts : kept[d] # 0 => kept[d] \in Anc(heads[d])
        /\ \A p \in Procs : Forces(p) /\ kept[req[p].name] # 0 =>
              kept[req[p].name] \in Anc(saw[p].branch)

\* An edit sent with its tip has read that tip.
StrictInv ==
    \A p \in Procs :
        pc[p] = "write" /\ req[p].kind = "commit" /\ req[p].strict => saw[p].branch = req[p].base

\* Every commit stems from the list's first, and holds the work of all its
\* ancestors but for what some content took away unseen.
Lost == UNION {commits[c].lost : c \in 1..Len(commits)}
WorkInv == \A c \in Ids \ {0} :
               1 \in Anc(c) /\ \A a \in Anc(c) : Work(a) \subseteq Work(c) \cup Lost
-----------------------------------------------------------------------------
(* The graph *)

\* What a step does to the graph: nothing, or one commit more.
Grows == /\ Graph'
         /\ commits' \in Seq(Node) /\ Len(commits) <= Len(commits')
         /\ \A c \in Ids : c \in Ids' /\ Anc(c)' = Anc(c) /\ Work(c)' = Work(c)

\* What a commit of the graph is.
LEMMA NodeOf ==
  ASSUME RefsType, Graph, NEW c \in Ids
  PROVE  /\ c \in Nat /\ Anc(c) \subseteq 1..c /\ Anc(c) \subseteq Ids /\ Work(c) \subseteq Nat
         /\ c # 0 => c \in Anc(c)
         /\ \A a \in Anc(c) : a # 0 /\ a \in Ids /\ Anc(a) \subseteq Anc(c)
PROOF
  <1>1. Len(commits) \in Nat /\ \A d \in 1..Len(commits) : commits[d] \in Node
    BY LenProperties, ElementOfSeq DEF RefsType
  <1>2. CASE c = 0
    BY <1>2 DEF Anc, Work
  <1>3. CASE c # 0
    <2>1. c \in 1..Len(commits) /\ c \in Nat
      BY <1>1, <1>3 DEF Ids
    <2>2. /\ commits[c].anc \subseteq 1..c /\ c \in commits[c].anc
          /\ \A a \in commits[c].anc : commits[a].anc \subseteq commits[c].anc
      BY <2>1 DEF Graph
    <2>3. commits[c] \in Node
      BY <1>1, <2>1
    <2>4. \A a \in 1..c : a # 0 /\ a \in Ids
      BY <1>1, <2>1 DEF Ids
    <2>5. QED
      BY <1>3, <2>1, <2>2, <2>3, <2>4 DEF Anc, Work, Node
  <1>4. QED
    BY <1>2, <1>3

\* A commit on top of others.
LEMMA NodeAdded ==
  ASSUME RefsType, Graph, NEW A \in SUBSET Ids, NEW W \in SUBSET Nat, NEW L \in SUBSET Nat,
         \A a \in A : a # 0 /\ Anc(a) \subseteq A,
         Add([anc |-> {New} \cup A, work |-> W, lost |-> L])
  PROVE  /\ Grows /\ Len(commits') = New
         /\ commits'[New].anc = {New} \cup A /\ commits'[New].work = W
         /\ commits'[New].lost = L
PROOF
  <1> DEFINE node == [anc |-> {New} \cup A, work |-> W, lost |-> L]
  <1>1. Len(commits) \in Nat /\ commits \in Seq(Node)
    BY LenProperties DEF RefsType
  <1>2. node \in Node
    <2>1. New \in Nat /\ \A a \in Ids : a \in Nat
      BY <1>1 DEF New, Ids
    <2>2. {New} \cup A \in SUBSET Nat
      BY <2>1
    <2>3. QED
      BY <2>2 DEF Node
  <1>3. commits' = Append(commits, node)
    BY DEF Add
  <1>4. node.anc = {New} \cup A /\ node.work = W /\ node.lost = L
    OBVIOUS
  <1> HIDE DEF node
  <1>5. /\ commits' \in Seq(Node) /\ Len(commits') = New
        /\ \A i \in 1..Len(commits) : commits'[i] = commits[i]
        /\ commits'[New] = node
    BY <1>1, <1>2, <1>3, AppendProperties DEF New
  <1>6. \A c \in Ids : c \in Ids' /\ Anc(c)' = Anc(c) /\ Work(c)' = Work(c)
    <2>1. \A c \in Ids : c = 0 \/ c \in 1..Len(commits)
      BY <1>1 DEF Ids
    <2>2. \A c \in Ids : c \in Ids'
      BY <1>1, <1>5 DEF Ids, New
    <2>3. QED
      BY <1>5, <2>1, <2>2 DEF Anc, Work
  <1>7. Graph'
    <2>1. SUFFICES ASSUME NEW c \in 1..Len(commits')
                   PROVE  /\ commits'[c].anc \subseteq 1..c /\ c \in commits'[c].anc
                          /\ \A a \in commits'[c].anc :
                                commits'[a].anc \subseteq commits'[c].anc
      BY DEF Graph
    <2>2. CASE c \in 1..Len(commits)
      <3>1. commits'[c] = commits[c] /\ commits[c].anc \subseteq 1..c
        BY <1>5, <2>2 DEF Graph
      <3>2. \A a \in 1..c : a \in 1..Len(commits)
        BY <1>1, <2>2
      <3>3. QED
        BY <1>5, <2>2, <3>1, <3>2 DEF Graph
    <2>3. CASE c = New
      <3>1. \A a \in A : a \in 1..Len(commits) /\ a \in 1..New
        BY <1>1 DEF Ids, New
      <3>2. New \in 1..New
        BY <1>1 DEF New
      <3>3. \A a \in A : commits'[a].anc \subseteq A
        BY <1>5, <3>1 DEF Anc
      <3>4. QED
        BY <1>4, <1>5, <2>3, <3>1, <3>2, <3>3
    <2>4. QED
      BY <1>1, <1>5, <2>2, <2>3 DEF New
  <1>8. Len(commits) <= Len(commits')
    BY <1>1, <1>5 DEF New
  <1>9. QED
    BY <1>4, <1>5, <1>6, <1>7, <1>8 DEF Grows

\* Nothing added.
LEMMA SameGraph ==
  ASSUME RefsType, Graph, commits' = commits
  PROVE  Grows
PROOF
  <1>1. Len(commits) \in Nat
    BY LenProperties DEF RefsType
  <1>2. QED
    BY <1>1 DEF Grows, RefsType, Graph, Ids, Anc, Work

\* A name once taken is never zero.
LEMMA NewIsNew ==
  ASSUME RefsType
  PROVE  New \in Nat \ {0} /\ Len(commits) \in Nat /\ (Len(commits') = New => New \in Ids')
PROOF
  BY LenProperties DEF RefsType, New, Ids

-----------------------------------------------------------------------------
(* Calls *)

\* What is known of a call whose state stays, while the graph grows.
LEMMA KnownStays ==
  ASSUME Grows, NEW p \in Procs, Known(p), req'[p] = req[p], pc'[p] = pc[p], saw'[p] = saw[p]
  PROVE  Known(p)'
PROOF
  BY DEF Known, Grows

\* How a call ends.
LEMMA FinishKeeps ==
  ASSUME CallType, GhostType, Grows, \A q \in Procs : Control(q) /\ Known(q),
         NEW p \in Procs, Finish(p), dropped' = dropped
  PROVE  CallType' /\ credit' \in [Procs -> Nat] /\ \A q \in Procs : Control(q)' /\ Known(q)'
PROOF
  <1>1. 0 \in Ids'
    BY DEF Grows, Ids
  <1>2. NoRequest \in Request /\ NoSight \in [branch : Nat, main : Nat, magic : Nat]
    BY BoundAssumption DEF NoRequest, NoSight, Request, Names, Targets, Roles
  <1>3. CallType'
    BY <1>2 DEF CallType, Finish, Goto, Freed, Steps
  <1>4. credit' \in [Procs -> Nat]
    BY DEF GhostType, Finish
  <1>5. ASSUME NEW q \in Procs \ {p}
        PROVE  Control(q)' /\ Known(q)'
    <2>1. /\ pc'[q] = pc[q] /\ req'[q] = req[q] /\ saw'[q] = saw[q] /\ orphan'[q] = orphan[q]
          /\ guard = q => guard' = q
      BY DEF CallType, Finish, Goto, Freed
    <2>2. Known(q)'
      BY <2>1, KnownStays
    <2>3. Control(q)'
      BY <2>1 DEF Control, Finish
    <2>4. QED
      BY <2>2, <2>3
  <1>6. Control(p)' /\ Known(p)'
    <2>1. pc'[p] = "idle" /\ req'[p] = NoRequest /\ saw'[p] = NoSight /\ orphan'[p] = FALSE
      BY DEF CallType, Finish, Goto
    <2>2. /\ NoRequest.kind = "none" /\ NoRequest.base = 0 /\ NoRequest.told["main"] = 0
          /\ NoSight.branch = 0 /\ NoSight.main = 0
      BY DEF NoRequest, NoSight, Targets
    <2>3. Known(p)'
      BY <1>1, <2>1, <2>2 DEF Known
    <2>4. Control(p)'
      <3>1. dropped' # {} => faults' > 0
        BY DEF Control, Finish
      <3>2. QED
        BY <2>1, <2>2, <3>1 DEF Control, Guarded, OnDraft
    <2>5. QED
      BY <2>3, <2>4
  <1>7. QED
    BY <1>3, <1>4, <1>5, <1>6

\* How a call goes on.
LEMMA ContinueKeeps ==
  ASSUME CallType, GhostType, Grows, \A q \in Procs : Control(q) /\ Known(q),
         NEW p \in Procs, NEW s \in {"receive", "take", "write", "project", "done"},
         Continue(p, s), NEW x \in [branch : Nat, main : Nat, magic : Nat],
         saw' = [saw EXCEPT ![p] = x], dropped' = dropped,
         x.branch \in Ids', x.main \in Ids',
         pc[p] \notin {"idle", "lock"},
         s \in {"receive", "take"} => req[p].kind = "push",
         s = "project" => ~orphan[p] /\ req[p].kind \in Guarded,
         s = "receive" => pc[p] = "snapshot",
         s = "write" => /\ pc[p] = "read" /\ x.branch # 0
                        /\ req[p].kind \in Guarded => x.main # 0
  PROVE  CallType' /\ \A q \in Procs : Control(q)' /\ Known(q)'
PROOF
  <1>1. 0 \in Ids' /\ \A c \in Ids : c \in Ids'
    BY DEF Grows, Ids
  <1>2. /\ req[p] \in Request /\ Spent(req[p]) \in Request
        /\ Spent(req[p]).kind = req[p].kind
        /\ Spent(req[p]).base = 0 /\ Spent(req[p]).told["main"] = 0
    <2>1. req[p] \in Request
      BY DEF CallType
    <2>2. /\ req[p].kind \in AllKinds \cup {"none"} /\ req[p].id \in People \cup {Nobody}
          /\ req[p].role \in Roles
      BY <2>1 DEF Request
    <2>3. NoRequest \in Request
      BY BoundAssumption DEF NoRequest, Request, Names, Targets, Roles
    <2>4. /\ \A r \in Request, k \in AllKinds \cup {"none"} :
               /\ [r EXCEPT !.kind = k] \in Request /\ [r EXCEPT !.kind = k].kind = k
               /\ [r EXCEPT !.kind = k].base = r.base /\ [r EXCEPT !.kind = k].told = r.told
          /\ \A r \in Request, i \in People \cup {Nobody} :
               /\ [r EXCEPT !.id = i] \in Request /\ [r EXCEPT !.id = i].kind = r.kind
               /\ [r EXCEPT !.id = i].base = r.base /\ [r EXCEPT !.id = i].told = r.told
          /\ \A r \in Request, o \in Roles :
               /\ [r EXCEPT !.role = o] \in Request /\ [r EXCEPT !.role = o].kind = r.kind
               /\ [r EXCEPT !.role = o].base = r.base /\ [r EXCEPT !.role = o].told = r.told
      BY DEF Request
    <2> DEFINE a == [NoRequest EXCEPT !.kind = req[p].kind]
    <2> DEFINE b == [a EXCEPT !.id = req[p].id]
    <2> DEFINE c == [b EXCEPT !.role = req[p].role]
    <2>5. NoRequest.base = 0 /\ NoRequest.told["main"] = 0
      BY DEF NoRequest, Targets
    <2>6. /\ a \in Request /\ a.kind = req[p].kind /\ a.base = 0 /\ a.told["main"] = 0
      BY SMTT(60), <2>2, <2>3, <2>4, <2>5
    <2>7. /\ b \in Request /\ b.kind = req[p].kind /\ b.base = 0 /\ b.told["main"] = 0
      <3> HIDE DEF a
      <3>1. QED
        BY <2>2, <2>4, <2>6
    <2>8. /\ c \in Request /\ c.kind = req[p].kind /\ c.base = 0 /\ c.told["main"] = 0
      <3> HIDE DEF a, b
      <3>1. QED
        BY <2>2, <2>4, <2>7
    <2>9. Spent(req[p]) = c
      BY DEF Spent
    <2> HIDE DEF c
    <2>10. QED
      BY <2>1, <2>8, <2>9
  <1>3. /\ req' = [req EXCEPT ![p] = req'[p]] /\ req'[p] \in Request
        /\ req'[p] = req[p] \/ (s \in {"take", "project", "done"} /\ req'[p] = Spent(req[p]))
        /\ pc' = [pc EXCEPT ![p] = s]
        /\ guard' = guard /\ orphan' = orphan /\ calls' = calls /\ faults' = faults
    BY <1>2 DEF CallType, Continue, Goto
  <1>4. CallType'
    BY <1>3 DEF CallType, Steps
  <1>5. ASSUME NEW q \in Procs \ {p}
        PROVE  Control(q)' /\ Known(q)'
    <2>1. /\ pc'[q] = pc[q] /\ req'[q] = req[q] /\ saw'[q] = saw[q] /\ orphan'[q] = orphan[q]
      BY <1>3 DEF CallType
    <2>2. Known(q)'
      BY <2>1, KnownStays
    <2>3. Control(q)'
      BY <1>3, <2>1 DEF Control
    <2>4. QED
      BY <2>2, <2>3
  <1>6. Control(p)' /\ Known(p)'
    <2>1. pc'[p] = s /\ saw'[p] = x /\ orphan'[p] = orphan[p] /\ req'[p].kind = req[p].kind
      BY <1>2, <1>3 DEF CallType
    <2>2. Known(p)'
      BY <1>1, <1>2, <1>3, <2>1 DEF Known
    <2>3. Control(p)'
      BY <1>3, <2>1 DEF Control
    <2>4. QED
      BY <2>2, <2>3
  <1>7. QED
    BY <1>4, <1>5, <1>6

-----------------------------------------------------------------------------
(* The invariant, action by action *)

\* At the start there are two versions and no call.
LEMMA InitInv == Init => IInv
PROOF
  <1> SUFFICES ASSUME Init PROVE IInv
    OBVIOUS
  <1> DEFINE a == [anc |-> {1}, work |-> {1}, lost |-> {}]
  <1> DEFINE b == [anc |-> {1, 2}, work |-> {1, 2}, lost |-> {}]
  <1> DEFINE c == [anc |-> {1, 3}, work |-> {1, 3}, lost |-> {}]
  <1>1. commits = <<a, b, c>> /\ a \in Node /\ b \in Node /\ c \in Node
    BY DEF Init, Node
  <1>2. a.anc = {1} /\ b.anc = {1, 2} /\ c.anc = {1, 3}
    OBVIOUS
  <1> HIDE DEF a, b, c
  <1>3. /\ commits \in Seq(Node) /\ Len(commits) = 3
        /\ commits[1] = a /\ commits[2] = b /\ commits[3] = c
    BY <1>1
  <1>4. Graph
    BY <1>2, <1>3 DEF Graph
  <1>5. NoRequest \in Request /\ NoSight \in [branch : Nat, main : Nat, magic : Nat]
    BY BoundAssumption DEF NoRequest, NoSight, Request, Names, Targets, Roles
  <1>6. /\ NoRequest.kind = "none" /\ NoRequest.base = 0 /\ NoRequest.told["main"] = 0
        /\ NoSight.branch = 0 /\ NoSight.main = 0
    BY DEF NoRequest, NoSight, Targets
  <1>7. RefsType
    BY <1>3 DEF Init, RefsType
  <1>8. CallType /\ GhostType
    BY <1>5 DEF Init, CallType, GhostType, Steps
  <1>9. HeadsKnown
    BY <1>3 DEF Init, HeadsKnown, Ids, Names
  <1>10. \A p \in Procs : Control(p) /\ Known(p)
    BY <1>3, <1>6 DEF Init, Control, Known, Ids, Guarded, OnDraft
  <1>11. QED
    BY <1>4, <1>7, <1>8, <1>9, <1>10 DEF IInv

\* A request arrives.
LEMMA StartKeeps ==
  ASSUME IInv, NEW p \in Procs, NEW r \in Request, Start(p, r), r.kind \in AllKinds,
         r.base \in Ids, r.told["main"] \in Ids, r.kind = "push" => r.base # 0,
         r.kind \in OnDraft => r.name \in Drafts
  PROVE  IInv'
PROOF
  <1>1. RefsType /\ CallType /\ GhostType /\ Graph /\ HeadsKnown
        /\ \A q \in Procs : Control(q) /\ Known(q)
    BY DEF IInv
  <1>2. commits' = commits /\ Grows
    BY <1>1, SameGraph DEF Start
  <1>3. RefsType' /\ GhostType' /\ HeadsKnown'
    BY <1>1 DEF Start, RefsType, GhostType, HeadsKnown, refs, ghosts, Ids
  <1>4. CallType'
    BY <1>1 DEF Start, Goto, CallType, Steps
  <1>5. ASSUME NEW q \in Procs \ {p}
        PROVE  Control(q)' /\ Known(q)'
    <2>1. pc'[q] = pc[q] /\ req'[q] = req[q] /\ saw'[q] = saw[q] /\ orphan'[q] = orphan[q]
          /\ guard' = guard /\ dropped' = dropped /\ faults' = faults
      BY <1>1 DEF Start, Goto, CallType, ghosts
    <2>2. QED
      BY <1>1, <1>2, <2>1, KnownStays DEF Control
  <1>6. Control(p)' /\ Known(p)'
    <2>1. /\ pc[p] = "idle" /\ req'[p] = r /\ saw'[p] = saw[p] /\ orphan'[p] = orphan[p]
          /\ pc'[p] = IF r.kind \in Guarded THEN "lock" ELSE "read"
          /\ dropped' = dropped /\ faults' = faults
      BY <1>1 DEF Start, Goto, CallType, ghosts
    <2>2. Known(p)'
      BY <1>1, <1>2, <2>1 DEF Known, Ids
    <2>3. Control(p)'
      <3>1. Control(p)
        BY <1>1
      <3>2. ~orphan[p] /\ r.kind # "none"
        BY <2>1, <3>1 DEF Control, AllKinds
      <3>3. QED
        BY <2>1, <3>1, <3>2 DEF Control
    <2>4. QED
      BY <2>2, <2>3
  <1>7. QED
    BY <1>2, <1>3, <1>4, <1>5, <1>6 DEF IInv, Grows

\* What a client was told of the references.
LEMMA ToldIsKnown ==
  ASSUME IInv, NEW ts
  PROVE  Told(ts) \in [Targets -> Nat] /\ Told(ts)["main"] \in Ids
PROOF
  <1>1. RefsType /\ HeadsKnown /\ 0 \in Ids /\ 0 \in Nat
    BY LenProperties DEF IInv, Ids, RefsType
  <1>2. \A t \in Targets : RefNow(t) \in Nat
    BY <1>1, BoundAssumption DEF RefNow, RefsType, Targets, Names
  <1>3. "main" \in Targets /\ "main" \in Names /\ RefNow("main") = heads["main"]
    BY DEF Targets, Names, RefNow
  <1>4. heads["main"] \in Ids
    BY <1>1, <1>3 DEF HeadsKnown
  <1>5. QED
    BY <1>1, <1>2, <1>3, <1>4 DEF Told

\* Calls arrive.
LEMMA ArriveKeeps ==
  ASSUME IInv, NEW p \in Procs,
         \/ StartPush(p) \/ StartCreate(p) \/ StartDelete(p) \/ StartTag(p)
         \/ StartMerge(p) \/ StartUpdate(p) \/ StartCommit(p) \/ StartResolve(p)
  PROVE  IInv'
PROOF
  <1> DEFINE Good(r) == /\ r \in Request /\ r.kind \in AllKinds /\ r.base \in Ids
                        /\ r.told["main"] \in Ids /\ (r.kind = "push" => r.base # 0)
                        /\ (r.kind \in OnDraft => r.name \in Drafts)
  <1>1. /\ 0 \in Ids /\ heads \in [Names -> Nat] /\ (\A n \in Names : heads[n] \in Ids)
        /\ Drafts \subseteq Names /\ "main" \in Names
    BY LenProperties DEF IInv, Ids, RefsType, HeadsKnown, Names
  <1>2. /\ NoRequest \in Request /\ NoRequest.base = 0 /\ NoRequest.told["main"] = 0
    BY BoundAssumption DEF NoRequest, Request, Names, Targets, Roles
  <1> DEFINE R == NoRequest
  <1> HIDE DEF R
  <1>3. R \in Request /\ R.base = 0 /\ R.told["main"] = 0
    BY <1>2 DEF R
  <1>4. ASSUME NEW r, Start(p, r), Good(r)
        PROVE  IInv'
    BY <1>4, StartKeeps
  <1>5. CASE StartPush(p)
    <2>1. PICK m \in Pushes, b \in {heads[n] : n \in Names} \ {0} :
             Start(p, [NoRequest EXCEPT !.kind = "push", !.id = m.id, !.role = m.role, !.targets = m.targets, !.what = m.what, !.base = b, !.told = Told(m.targets)])
      BY <1>5 DEF StartPush
    <2> DEFINE r == [R EXCEPT !.kind = "push", !.id = m.id, !.role = m.role, !.targets = m.targets, !.what = m.what, !.base = b, !.told = Told(m.targets)]
    <2>2. Start(p, r)
      BY <2>1 DEF R
    <2>3. /\ m.id \in People \cup {Nobody} /\ m.role \in Roles
          /\ m.targets \in SUBSET Targets /\ m.what \in {"new", "same", "delete"}
      BY NameAssumption
    <2>4. b \in Nat /\ b \in Ids /\ b # 0
      BY <1>1
    <2>5. Told(m.targets) \in [Targets -> Nat] /\ Told(m.targets)["main"] \in Ids
      BY ToldIsKnown
    <2>6. r \in Request
      BY <1>3, <2>3, <2>4, <2>5 DEF Request, AllKinds
    <2>7. r.kind = "push" /\ r.base = b /\ r.told = Told(m.targets)
      BY <1>3 DEF Request
    <2> HIDE DEF r
    <2>8. Good(r)
      BY <2>4, <2>5, <2>6, <2>7 DEF AllKinds, OnDraft
    <2>9. QED
      BY <1>4, <2>2, <2>8
  <1>6. CASE StartCreate(p)
    <2>1. PICK d \in Drafts, f \in Names :
             Start(p, [NoRequest EXCEPT !.kind = "create", !.name = d, !.from = f])
      BY <1>6 DEF StartCreate
    <2> DEFINE r == [R EXCEPT !.kind = "create", !.name = d, !.from = f]
    <2>2. Start(p, r)
      BY <2>1 DEF R
    <2>3. r \in Request
      BY <1>1, <1>3 DEF Request, AllKinds
    <2>4. r.kind = "create" /\ r.base = R.base /\ r.told = R.told /\ r.name = d
      BY <1>3 DEF Request
    <2> HIDE DEF r
    <2>5. Good(r)
      BY <1>1, <1>3, <2>3, <2>4 DEF AllKinds, OnDraft
    <2>6. QED
      BY <1>4, <2>2, <2>5
  <1>7. CASE StartDelete(p)
    <2>1. PICK d \in Drafts :
             Start(p, [NoRequest EXCEPT !.kind = "delete", !.name = d])
      BY <1>7 DEF StartDelete, Seen
    <2> DEFINE r == [R EXCEPT !.kind = "delete", !.name = d]
    <2>2. Start(p, r)
      BY <2>1 DEF R
    <2>3. r \in Request
      BY <1>1, <1>3 DEF Request, AllKinds
    <2>4. r.kind = "delete" /\ r.base = R.base /\ r.told = R.told /\ r.name = d
      BY <1>3 DEF Request
    <2> HIDE DEF r
    <2>5. Good(r)
      BY <1>1, <1>3, <2>3, <2>4 DEF AllKinds, OnDraft
    <2>6. QED
      BY <1>4, <2>2, <2>5
  <1>8. CASE StartTag(p)
    <2>1. PICK v \in 1..MaxVersion :
             Start(p, [NoRequest EXCEPT !.kind = "tag", !.version = v])
      BY <1>8 DEF StartTag
    <2> DEFINE r == [R EXCEPT !.kind = "tag", !.version = v]
    <2>2. Start(p, r)
      BY <2>1 DEF R
    <2>3. r \in Request
      BY <1>1, <1>3 DEF Request, AllKinds
    <2>4. r.kind = "tag" /\ r.base = R.base /\ r.told = R.told
      BY <1>3 DEF Request
    <2> HIDE DEF r
    <2>5. Good(r)
      BY <1>1, <1>3, <2>3, <2>4 DEF AllKinds, OnDraft
    <2>6. QED
      BY <1>4, <2>2, <2>5
  <1>9. CASE StartMerge(p)
    <2>1. PICK d \in Drafts, s \in BOOLEAN :
             Start(p, [NoRequest EXCEPT !.kind = "merge", !.name = d, !.squash = s])
      BY <1>9 DEF StartMerge, Seen
    <2> DEFINE r == [R EXCEPT !.kind = "merge", !.name = d, !.squash = s]
    <2>2. Start(p, r)
      BY <2>1 DEF R
    <2>3. r \in Request
      BY <1>1, <1>3 DEF Request, AllKinds
    <2>4. r.kind = "merge" /\ r.base = R.base /\ r.told = R.told /\ r.name = d
      BY <1>3 DEF Request
    <2> HIDE DEF r
    <2>5. Good(r)
      BY <1>1, <1>3, <2>3, <2>4 DEF AllKinds, OnDraft
    <2>6. QED
      BY <1>4, <2>2, <2>5
  <1>10. CASE StartUpdate(p)
    <2>1. PICK d \in Drafts :
             Start(p, [NoRequest EXCEPT !.kind = "update", !.name = d])
      BY <1>10 DEF StartUpdate, Seen
    <2> DEFINE r == [R EXCEPT !.kind = "update", !.name = d]
    <2>2. Start(p, r)
      BY <2>1 DEF R
    <2>3. r \in Request
      BY <1>1, <1>3 DEF Request, AllKinds
    <2>4. r.kind = "update" /\ r.base = R.base /\ r.told = R.told /\ r.name = d
      BY <1>3 DEF Request
    <2> HIDE DEF r
    <2>5. Good(r)
      BY <1>1, <1>3, <2>3, <2>4 DEF AllKinds, OnDraft
    <2>6. QED
      BY <1>4, <2>2, <2>5
  <1>11. CASE StartCommit(p)
    <2>1. PICK d \in Drafts, s \in BOOLEAN, w \in {"new", "same"} :
             Start(p, [NoRequest EXCEPT !.kind = "commit", !.name = d, !.strict = s, !.what = w, !.base = heads[d]])
      BY <1>11 DEF StartCommit, Seen
    <2> DEFINE r == [R EXCEPT !.kind = "commit", !.name = d, !.strict = s, !.what = w, !.base = heads[d]]
    <2>2. Start(p, r)
      BY <2>1 DEF R
    <2>3. r \in Request
      BY <1>1, <1>3 DEF Request, AllKinds
    <2>4. r.kind = "commit" /\ r.base = heads[d] /\ r.told = R.told /\ r.name = d
      BY <1>3 DEF Request
    <2> HIDE DEF r
    <2>5. Good(r)
      BY <1>1, <1>3, <2>3, <2>4 DEF AllKinds, OnDraft
    <2>6. QED
      BY SMTT(60), <1>4, <2>2, <2>5
  <1>12. CASE StartResolve(p)
    <2>1. PICK d \in Drafts, s \in BOOLEAN :
             Start(p, [NoRequest EXCEPT !.kind = "resolve", !.name = d, !.squash = s, !.base = heads[d], !.told = Told({"main"})])
      BY <1>12 DEF StartResolve, Seen
    <2> DEFINE r == [R EXCEPT !.kind = "resolve", !.name = d, !.squash = s, !.base = heads[d], !.told = Told({"main"})]
    <2>2. Start(p, r)
      BY <2>1 DEF R
    <2>3. r \in Request
      BY <1>1, <1>3, ToldIsKnown DEF Request, AllKinds
    <2>4. r.kind = "resolve" /\ r.base = heads[d] /\ r.told = Told({"main"}) /\ r.name = d
      BY <1>3 DEF Request
    <2> HIDE DEF r
    <2>5. Good(r)
      BY <1>1, <1>3, <2>3, <2>4, ToldIsKnown DEF AllKinds, OnDraft
    <2>6. QED
      BY <1>4, <2>2, <2>5
  <1>13. QED
    BY <1>5, <1>6, <1>7, <1>8, <1>9, <1>10, <1>11, <1>12

\* An answer that changes nothing.
LEMMA RefuseKeeps ==
  ASSUME IInv, NEW p \in Procs, Refuse(p)
  PROVE  IInv'
PROOF
  <1>1. RefsType /\ CallType /\ GhostType /\ Graph /\ HeadsKnown
        /\ \A q \in Procs : Control(q) /\ Known(q)
    BY DEF IInv
  <1>2. Grows /\ Finish(p) /\ dropped' = dropped
    BY <1>1, SameGraph DEF Refuse
  <1>3. CallType' /\ credit' \in [Procs -> Nat] /\ \A q \in Procs : Control(q)' /\ Known(q)'
    BY <1>1, <1>2, FinishKeeps
  <1>4. RefsType' /\ GhostType' /\ HeadsKnown'
    BY <1>1, <1>3 DEF Refuse, RefsType, GhostType, HeadsKnown, refs, Ids
  <1>5. QED
    BY <1>2, <1>3, <1>4 DEF IInv, Grows

\* A branch moves and the call ends.
LEMMA MoveBranchKeeps ==
  ASSUME IInv, Grows, NEW p \in Procs, pc[p] = "write", req[p].kind \in OnDraft,
         NEW tip \in Nat, tip \in Ids', MoveBranch(p, tip)
  PROVE  IInv'
PROOF
  <1>1. RefsType /\ CallType /\ GhostType /\ Graph /\ HeadsKnown
        /\ \A q \in Procs : Control(q) /\ Known(q)
    BY DEF IInv
  <1>2. Finish(p) /\ dropped' = dropped
    BY DEF MoveBranch
  <1>3. CallType' /\ credit' \in [Procs -> Nat] /\ \A q \in Procs : Control(q)' /\ Known(q)'
    BY <1>1, <1>2, FinishKeeps
  <1>4. req[p].name \in Drafts /\ "main" \notin Drafts /\ Drafts \subseteq Names
        /\ "main" \in Names
    BY <1>1, NameAssumption DEF Control, Names
  <1>5. heads' = [heads EXCEPT ![req[p].name] = tip] /\ heads \in [Names -> Nat]
    BY <1>1 DEF MoveBranch, RefsType
  <1>6. RefsType' /\ GhostType'
    BY <1>1, <1>3, <1>5 DEF MoveBranch, RefsType, GhostType, Grows
  <1>7. HeadsKnown'
    BY <1>1, <1>4, <1>5 DEF HeadsKnown, Grows, MoveBranch
  <1>8. QED
    BY <1>3, <1>6, <1>7 DEF IInv, Grows

\* main moves and the call goes on to project it.
LEMMA MoveMainKeeps ==
  ASSUME IInv, Grows, NEW p \in Procs, pc[p] = "write", req[p].kind \in Guarded,
         NEW tip \in Nat \ {0}, tip \in Ids', MoveMain(p, tip)
  PROVE  IInv'
PROOF
  <1>1. RefsType /\ CallType /\ GhostType /\ Graph /\ HeadsKnown
        /\ \A q \in Procs : Control(q) /\ Known(q)
    BY DEF IInv
  <1>2. CallType' /\ credit' \in [Procs -> Nat] /\ \A q \in Procs : Control(q)' /\ Known(q)'
    <2>1. CASE orphan[p]
      BY <1>1, <2>1, FinishKeeps DEF MoveMain
    <2>2. CASE ~orphan[p]
      <3>1. NoSight \in [branch : Nat, main : Nat, magic : Nat]
            /\ NoSight.branch \in Ids' /\ NoSight.main \in Ids'
        BY DEF NoSight, Grows, Ids
      <3>2. /\ Continue(p, "project") /\ saw' = [saw EXCEPT ![p] = NoSight]
            /\ dropped' = dropped /\ credit' = credit
        BY <2>2 DEF MoveMain
      <3>3. CallType' /\ \A q \in Procs : Control(q)' /\ Known(q)'
        BY <1>1, <2>2, <3>1, <3>2, ContinueKeeps
      <3>4. QED
        BY <1>1, <3>2, <3>3 DEF GhostType
    <2>3. QED
      BY <2>1, <2>2
  <1>3. heads' = [heads EXCEPT !["main"] = tip] /\ heads \in [Names -> Nat] /\ "main" \in Names
    BY <1>1 DEF MoveMain, RefsType, Names
  <1>4. RefsType' /\ GhostType'
    BY <1>1, <1>2, <1>3 DEF MoveMain, RefsType, GhostType, Grows
  <1>5. HeadsKnown'
    BY <1>1, <1>3 DEF HeadsKnown, Grows, MoveMain
  <1>6. QED
    BY <1>2, <1>4, <1>5 DEF IInv, Grows

\* What a call that holds its tips puts on top of them.
LEMMA MergedKeeps ==
  ASSUME IInv, NEW a \in Ids, NEW b \in Ids, NEW parents \in SUBSET Ids,
         Add(Merged(a, b, parents))
  PROVE  /\ Grows /\ Len(commits') = New /\ New \in Nat \ {0} /\ New \in Ids'
         /\ \A c \in parents : Anc(c) \subseteq commits'[New].anc
         /\ \A c \in parents : c # 0 => c \in commits'[New].anc
PROOF
  <1>1. RefsType /\ Graph
    BY DEF IInv
  <1> DEFINE A == UNION {Anc(c) : c \in parents}
  <1> DEFINE W == {New} \cup MergedWork(a, b)
  <1>2. New \in Nat \ {0}
    BY <1>1, NewIsNew
  <1>3. W \in SUBSET Nat
    <2>1. Work(a) \subseteq Nat /\ Work(b) \subseteq Nat
      BY <1>1, NodeOf
    <2>2. MergedWork(a, b) \subseteq Nat
      BY <2>1 DEF MergedWork
    <2>3. QED
      BY <1>2, <2>2
  <1>4. A \in SUBSET Ids /\ \A c \in A : c # 0 /\ Anc(c) \subseteq A
    <2>1. \A c \in parents : Anc(c) \subseteq Ids /\ \A d \in Anc(c) : d # 0 /\ Anc(d) \subseteq Anc(c)
      BY <1>1, NodeOf
    <2>2. QED
      BY <2>1
  <1>5. Add([anc |-> {New} \cup A, work |-> W, lost |-> {}])
    BY DEF Merged
  <1> HIDE DEF A, W
  <1>6. Grows /\ Len(commits') = New /\ commits'[New].anc = {New} \cup A
    <2>1. {} \in SUBSET Nat
      OBVIOUS
    <2> DEFINE L == {}
    <2>2. L \in SUBSET Nat /\ Add([anc |-> {New} \cup A, work |-> W, lost |-> L])
      BY <1>5, <2>1
    <2> HIDE DEF L
    <2>3. QED
      BY <1>1, <1>3, <1>4, <2>2, NodeAdded
  <1>7. \A c \in parents : Anc(c) \subseteq A /\ (c # 0 => c \in Anc(c))
    BY <1>1, NodeOf DEF A
  <1>8. QED
    BY <1>1, <1>2, <1>6, <1>7, NewIsNew

\* Calls on a branch that take the guard, at their write.
LEMMA BranchWriteKeeps ==
  ASSUME IInv, NEW p \in Procs,
         \/ MergeSquash(p) \/ MergeForward(p) \/ MergeCommit(p) \/ Resolve(p)
         \/ UpdateForward(p) \/ UpdateCommit(p) \/ CommitList(p)
  PROVE  IInv' /\ Grows
PROOF
  <1>1. RefsType /\ CallType /\ Graph /\ Control(p) /\ Known(p) /\ req[p] \in Request
    BY DEF IInv, CallType
  <1>2. /\ pc[p] = "write" /\ req[p].kind \in Guarded /\ req[p].kind \in OnDraft
    BY DEF MergeSquash, MergeForward, MergeCommit, Resolve, UpdateForward, UpdateCommit,
           CommitList, Guarded, OnDraft
  <1>3. saw[p].branch \in Ids \ {0} /\ saw[p].main \in Ids \ {0} /\ saw[p].branch \in Nat
        /\ saw[p].main \in Nat
    BY <1>1, <1>2 DEF Known, CallType
  <1> DEFINE a == saw[p].main
  <1> DEFINE b == saw[p].branch
  <1>4. /\ a \in Ids \ {0} /\ b \in Ids \ {0} /\ a \in Nat /\ b \in Nat
        /\ {a} \in SUBSET Ids /\ {a, b} \in SUBSET Ids
    BY <1>3
  <1>5. CASE MergeSquash(p)
    <2>1. Grows /\ New \in Nat \ {0} /\ New \in Ids'
      BY <1>4, <1>5, MergedKeeps DEF MergeSquash
    <2>2. QED
      BY <1>2, <1>5, <2>1, MoveMainKeeps DEF MergeSquash
  <1>6. CASE MergeForward(p)
    <2>1. Grows
      BY <1>1, <1>6, SameGraph DEF MergeForward
    <2>2. b \in Ids'
      BY <1>4, <2>1 DEF Grows
    <2>3. QED
      BY <1>2, <1>4, <1>6, <2>1, <2>2, MoveMainKeeps DEF MergeForward
  <1>7. CASE MergeCommit(p)
    <2>1. Grows /\ New \in Nat \ {0} /\ New \in Ids'
      BY <1>4, <1>7, MergedKeeps DEF MergeCommit
    <2>2. QED
      BY <1>2, <1>7, <2>1, MoveMainKeeps DEF MergeCommit
  <1>8. CASE Resolve(p)
    <2> DEFINE parents == {a} \cup (IF req[p].squash THEN {} ELSE {b})
    <2> DEFINE A == UNION {Anc(c) : c \in parents}
    <2> DEFINE W == {New} \cup MergedWork(req[p].told["main"], req[p].base)
    <2> DEFINE L == (UNION {Work(c) : c \in parents}) \ W
    <2>1. \A c \in parents : /\ Anc(c) \subseteq Ids /\ Work(c) \subseteq Nat
                             /\ \A d \in Anc(c) : d # 0 /\ Anc(d) \subseteq Anc(c)
      BY <1>1, <1>4, NodeOf
    <2>2. A \in SUBSET Ids /\ \A c \in A : c # 0 /\ Anc(c) \subseteq A
      BY <2>1
    <2>3. Work(req[p].told["main"]) \subseteq Nat /\ Work(req[p].base) \subseteq Nat
      BY <1>1, NodeOf DEF Known
    <2>4. New \in Nat \ {0}
      BY <1>1, NewIsNew
    <2>5. W \in SUBSET Nat /\ L \in SUBSET Nat
      BY <2>1, <2>3, <2>4 DEF MergedWork
    <2>7. Add([anc |-> {New} \cup A, work |-> W, lost |-> L])
      BY <1>8 DEF Resolve
    <2> HIDE DEF A, W, L, parents
    <2>8. Grows /\ Len(commits') = New
      BY <1>1, <2>2, <2>5, <2>7, NodeAdded
    <2>9. New \in Ids'
      BY <1>1, <2>8, NewIsNew
    <2>10. QED
      BY <1>2, <1>8, <2>4, <2>8, <2>9, MoveMainKeeps DEF Resolve
  <1>9. CASE UpdateForward(p)
    <2>1. Grows
      BY <1>1, <1>9, SameGraph DEF UpdateForward
    <2>2. a \in Ids'
      BY <1>4, <2>1 DEF Grows
    <2>3. QED
      BY <1>2, <1>4, <1>9, <2>1, <2>2, MoveBranchKeeps DEF UpdateForward
  <1>10. CASE UpdateCommit(p)
    <2>1. Grows /\ New \in Nat \ {0} /\ New \in Ids'
      BY <1>4, <1>10, MergedKeeps DEF UpdateCommit
    <2>2. QED
      BY <1>2, <1>10, <2>1, MoveBranchKeeps DEF UpdateCommit
  <1>11. CASE CommitList(p)
    <2> DEFINE A == Anc(b)
    <2> DEFINE W == Work(req[p].base) \cup (IF req[p].what = "new" THEN {New} ELSE {})
    <2> DEFINE L == Work(b) \ W
    <2>1. A \in SUBSET Ids /\ \A c \in A : c # 0 /\ Anc(c) \subseteq A
      BY <1>1, <1>4, NodeOf
    <2>2. Work(b) \subseteq Nat /\ Work(req[p].base) \subseteq Nat
      BY <1>1, <1>4, NodeOf DEF Known
    <2>3. New \in Nat \ {0}
      BY <1>1, NewIsNew
    <2>4. W \in SUBSET Nat /\ L \in SUBSET Nat
      BY <2>2, <2>3
    <2>5. Add([anc |-> {New} \cup A, work |-> W, lost |-> L])
      BY <1>11 DEF CommitList
    <2> HIDE DEF A, W, L
    <2>6. Grows /\ Len(commits') = New
      BY <1>1, <2>1, <2>4, <2>5, NodeAdded
    <2>7. New \in Ids'
      BY <1>1, <2>6, NewIsNew
    <2>8. QED
      BY <1>2, <1>11, <2>3, <2>6, <2>7, MoveBranchKeeps DEF CommitList
  <1>12. QED
    BY <1>5, <1>6, <1>7, <1>8, <1>9, <1>10, <1>11

\* A read of the references, and the way on to the write.
LEMMA ReadKeeps ==
  ASSUME IInv, NEW p \in Procs,
         CreateRead(p) \/ DeleteRead(p) \/ TagRead(p) \/ ReadTips(p)
  PROVE  IInv' /\ Grows
PROOF
  <1>1. RefsType /\ CallType /\ GhostType /\ Graph /\ HeadsKnown
        /\ \A q \in Procs : Control(q) /\ Known(q)
    BY DEF IInv
  <1>2. /\ pc[p] = "read" /\ commits' = commits /\ UNCHANGED <<refs, ghosts>>
        /\ Continue(p, "write")
    BY DEF CreateRead, DeleteRead, TagRead, ReadTips
  <1>3. Grows /\ Ids' = Ids
    BY <1>1, <1>2, SameGraph DEF Ids
  <1>4. PICK x \in [branch : Nat, main : Nat, magic : Nat] :
           /\ saw' = [saw EXCEPT ![p] = x]
           /\ x.branch # 0 /\ x.main \in Ids
           /\ req[p].kind \in Guarded => x.main # 0
           /\ x.branch \in Ids
    <2>1. saw[p] \in [branch : Nat, main : Nat, magic : Nat] /\ saw[p].main \in Ids
          /\ req[p] \in Request
      BY <1>1 DEF CallType, Known
    <2>2. CASE CreateRead(p) \/ DeleteRead(p) \/ TagRead(p)
      <3>1. PICK b \in Nat \ {0} : /\ saw' = [saw EXCEPT ![p].branch = b]
                                   /\ b \in Ids
                                   /\ req[p].kind \in {"create", "delete", "tag"}
        <4>1. CASE CreateRead(p)
          BY <1>1, <2>1, <4>1 DEF CreateRead, RefsType, HeadsKnown, Request
        <4>2. CASE DeleteRead(p)
          BY <1>1, <2>1, <4>2 DEF DeleteRead, RefsType, HeadsKnown, Request
        <4>3. CASE TagRead(p)
          BY <1>1, <2>1, <4>3 DEF TagRead, RefsType, HeadsKnown, Request
        <4>4. QED
          BY <2>2, <4>1, <4>2, <4>3
      <3> DEFINE x == [saw[p] EXCEPT !.branch = b]
      <3>2. x \in [branch : Nat, main : Nat, magic : Nat] /\ x.branch = b /\ x.main = saw[p].main
        BY <2>1
      <3>3. saw' = [saw EXCEPT ![p] = x]
        BY <3>1
      <3> HIDE DEF x
      <3>4. QED
        BY <2>1, <3>1, <3>2, <3>3 DEF Guarded
    <2>3. CASE ReadTips(p)
      <3>1. req[p].name \in Names
        BY <2>1 DEF Request
      <3> DEFINE b == heads[req[p].name]
      <3> DEFINE m == heads["main"]
      <3>2. b \in Nat \ {0} /\ m \in Nat \ {0} /\ b \in Ids /\ m \in Ids
        BY <1>1, <2>3, <3>1 DEF ReadTips, Pointless, RefsType, HeadsKnown, Names
      <3> HIDE DEF b, m
      <3> DEFINE x == [NoSight EXCEPT !.branch = b, !.main = m]
      <3>3. x \in [branch : Nat, main : Nat, magic : Nat] /\ x.branch = b /\ x.main = m
        BY <3>2 DEF NoSight
      <3>4. saw' = [saw EXCEPT ![p] = x]
        BY <2>3 DEF ReadTips, Tips, b, m
      <3> HIDE DEF x
      <3>5. QED
        BY <3>2, <3>3, <3>4
    <2>4. QED
      BY <2>2, <2>3
  <1>6. dropped' = dropped
    BY <1>2 DEF ghosts
  <1>7. CallType' /\ \A q \in Procs : Control(q)' /\ Known(q)'
    BY <1>1, <1>2, <1>3, <1>4, <1>6, ContinueKeeps
  <1>8. RefsType' /\ GhostType' /\ HeadsKnown'
    BY <1>1, <1>2 DEF RefsType, GhostType, HeadsKnown, refs, ghosts, Ids
  <1>9. QED
    BY <1>3, <1>7, <1>8 DEF IInv, Grows

\* The writes that take no guard.
LEMMA PlainWriteKeeps ==
  ASSUME IInv, NEW p \in Procs, CreateWrite(p) \/ DeleteWrite(p) \/ TagWrite(p)
  PROVE  IInv' /\ Grows
PROOF
  <1>1. RefsType /\ CallType /\ GhostType /\ Graph /\ HeadsKnown
        /\ \A q \in Procs : Control(q) /\ Known(q)
    BY DEF IInv
  <1>2. commits' = commits /\ Finish(p) /\ dropped' = dropped /\ pc[p] = "write"
    BY DEF CreateWrite, DeleteWrite, TagWrite
  <1>3. Grows /\ Ids' = Ids
    BY <1>1, <1>2, SameGraph DEF Ids
  <1>4. CallType' /\ credit' \in [Procs -> Nat] /\ \A q \in Procs : Control(q)' /\ Known(q)'
    BY <1>1, <1>2, <1>3, FinishKeeps
  <1>5. saw[p].branch \in Ids /\ saw[p].branch \in Nat
    BY <1>1 DEF Known, CallType
  <1>6. CASE CreateWrite(p) \/ DeleteWrite(p)
    <2>1. req[p].name \in Drafts /\ "main" \notin Drafts /\ Drafts \subseteq Names
          /\ "main" \in Names
      BY <1>1, <1>2, <1>6, NameAssumption DEF CreateWrite, DeleteWrite, Control, OnDraft, Names
    <2>2. \E tip \in Ids : tip \in Nat /\ heads' = [heads EXCEPT ![req[p].name] = tip]
      BY <1>1, <1>5, <1>6 DEF CreateWrite, DeleteWrite, Ids, RefsType
    <2>3. RefsType' /\ HeadsKnown'
      BY <1>1, <1>2, <1>3, <1>6, <2>1, <2>2, ZenonT(60)
         DEF CreateWrite, DeleteWrite, RefsType, HeadsKnown
    <2>4. GhostType'
      BY <1>1, <1>4, <1>6 DEF CreateWrite, DeleteWrite, GhostType
    <2>5. QED
      BY <1>3, <1>4, <2>3, <2>4 DEF IInv, Grows
  <1>7. CASE TagWrite(p)
    <2>1. RefsType' /\ HeadsKnown' /\ GhostType'
      BY <1>1, <1>3, <1>4, <1>5, <1>7 DEF TagWrite, RefsType, HeadsKnown, GhostType
    <2>2. QED
      BY <1>3, <1>4, <2>1 DEF IInv, Grows
  <1>8. QED
    BY <1>6, <1>7

\* The guard is taken.
LEMMA TakeGuardKeeps ==
  ASSUME IInv, NEW p \in Procs, TakeGuard(p)
  PROVE  IInv' /\ Grows
PROOF
  <1>1. RefsType /\ CallType /\ GhostType /\ Graph /\ HeadsKnown
        /\ \A q \in Procs : Control(q) /\ Known(q)
    BY DEF IInv
  <1>2. Grows /\ Ids' = Ids
    BY <1>1, SameGraph DEF TakeGuard, Ids
  <1>3. RefsType' /\ GhostType' /\ HeadsKnown'
    BY <1>1 DEF TakeGuard, RefsType, GhostType, HeadsKnown, refs, ghosts, Ids
  <1>4. CallType'
    BY <1>1 DEF TakeGuard, Goto, CallType, Steps
  <1>5. ASSUME NEW q \in Procs
        PROVE  Control(q)' /\ Known(q)'
    <2>1. /\ req'[q] = req[q] /\ saw'[q] = saw[q] /\ orphan'[q] = orphan[q]
          /\ dropped' = dropped /\ faults' = faults
          /\ pc'[q] = IF q # p THEN pc[q]
                      ELSE IF req[p].kind = "push" THEN "snapshot" ELSE "read"
          /\ guard' = p /\ (guard = Nobody) /\ q # Nobody
      BY <1>1, NameAssumption DEF TakeGuard, Goto, CallType, ghosts
    <2>2. pc[p] = "lock" /\ Control(q) /\ Known(q)
      BY <1>1 DEF TakeGuard
    <2>3. Known(q)'
      BY <1>2, <2>1, <2>2 DEF Known
    <2>4. Control(q)'
      BY <2>1, <2>2 DEF Control, Guarded
    <2>5. QED
      BY <2>3, <2>4
  <1>6. QED
    BY <1>2, <1>3, <1>4, <1>5 DEF IInv, Grows

\* A push reads what is there, and may be refused.
LEMMA PushWaitsKeeps ==
  ASSUME IInv, NEW p \in Procs, Snapshot(p) \/ SnapshotFails(p) \/ HookRefuses(p)
  PROVE  IInv' /\ Grows
PROOF
  <1>1. RefsType /\ CallType /\ GhostType /\ Graph /\ HeadsKnown
        /\ \A q \in Procs : Control(q) /\ Known(q)
    BY DEF IInv
  <1>2. /\ commits' = commits /\ UNCHANGED <<refs, ghosts>> /\ pc[p] \in {"snapshot", "receive"}
        /\ req[p].kind = "push"
    BY <1>1 DEF Snapshot, SnapshotFails, HookRefuses, Control
  <1>3. Grows /\ Ids' = Ids /\ 0 \in Ids
    BY <1>1, <1>2, SameGraph, LenProperties DEF Ids, RefsType
  <1>4. RefsType' /\ GhostType' /\ HeadsKnown'
    BY <1>1, <1>2 DEF RefsType, GhostType, HeadsKnown, refs, ghosts, Ids
  <1>5. CallType' /\ \A q \in Procs : Control(q)' /\ Known(q)'
    <2>1. CASE HookRefuses(p)
      <3>1. /\ Continue(p, "take") /\ saw' = [saw EXCEPT ![p] = saw[p]] /\ dropped' = dropped
            /\ saw[p] \in [branch : Nat, main : Nat, magic : Nat]
            /\ saw[p].branch \in Ids' /\ saw[p].main \in Ids'
        BY <1>1, <1>2, <1>3, <2>1 DEF HookRefuses, ghosts, CallType, Known
      <3>2. QED
        BY <1>1, <1>2, <1>3, <3>1, ContinueKeeps
    <2>2. CASE Snapshot(p)
      <3> DEFINE m == heads["main"]
      <3>1. m \in Nat /\ m \in Ids /\ magic \in Nat
        BY <1>1 DEF RefsType, HeadsKnown, Names
      <3> HIDE DEF m
      <3> DEFINE x == [NoSight EXCEPT !.main = m, !.magic = magic]
      <3>2. x \in [branch : Nat, main : Nat, magic : Nat] /\ x.branch = 0 /\ x.main = m
        BY <3>1 DEF NoSight
      <3>3. Continue(p, "receive") /\ saw' = [saw EXCEPT ![p] = x] /\ dropped' = dropped
        BY <2>2 DEF Snapshot, ghosts, m
      <3> HIDE DEF x
      <3>4. pc[p] = "snapshot"
        BY <2>2 DEF Snapshot
      <3>5. QED
        BY <1>1, <1>2, <1>3, <3>1, <3>2, <3>3, <3>4, ContinueKeeps
    <2>3. CASE SnapshotFails(p)
      <3> DEFINE m == heads["main"]
      <3>1. m \in Nat /\ m \in Ids
        BY <1>1 DEF RefsType, HeadsKnown, Names
      <3> HIDE DEF m
      <3> DEFINE x == [NoSight EXCEPT !.main = m]
      <3>2. x \in [branch : Nat, main : Nat, magic : Nat] /\ x.branch = 0 /\ x.main = m
        BY <3>1 DEF NoSight
      <3>3. /\ saw' = [saw EXCEPT ![p] = x] /\ dropped' = dropped /\ faults' = faults + 1
            /\ pc' = [pc EXCEPT ![p] = "receive"] /\ pc[p] = "snapshot"
            /\ guard' = guard /\ req' = req /\ orphan' = orphan /\ calls' = calls
        BY <2>3 DEF SnapshotFails, Goto, ghosts, m
      <3> HIDE DEF x
      <3>4. CallType'
        BY <1>1, <3>2, <3>3 DEF CallType, Steps
      <3>5. faults \in Nat
        BY <1>1 DEF CallType
      <3>6. ASSUME NEW q \in Procs \ {p}
            PROVE  Control(q)' /\ Known(q)'
        <4>1. pc'[q] = pc[q] /\ saw'[q] = saw[q]
          BY <1>1, <3>3 DEF CallType
        <4>2. QED
          BY <1>1, <1>3, <3>3, <3>5, <4>1 DEF Control, Known
      <3>7. pc'[p] = "receive" /\ saw'[p] = x
        BY <1>1, <3>3 DEF CallType
      <3>8. Control(p)' /\ Known(p)'
        BY <1>1, <1>2, <1>3, <3>1, <3>2, <3>3, <3>5, <3>7 DEF Control, Known
      <3>9. QED
        BY <3>4, <3>6, <3>8
    <2>4. QED
      BY <2>1, <2>2, <2>3
  <1>6. QED
    BY <1>3, <1>4, <1>5 DEF IInv, Grows

\* What a push that is let in does to the graph and to main.
LEMMA ReceiveDoes ==
  ASSUME IInv, NEW p \in Procs, Receive(p)
  PROVE  /\ Grows
         /\ \E tip \in Nat :
              /\ tip = PushedTip(req[p]) /\ tip \in Ids'
              /\ Lands("main", req[p]) => tip # 0 /\ heads["main"] \in Anc(tip)'
PROOF
  <1> DEFINE r == req[p]
  <1>1. /\ RefsType /\ Graph /\ HeadsKnown /\ Control(p) /\ Known(p) /\ r \in Request
        /\ pc[p] = "receive"
    BY DEF IInv, CallType, Receive
  <1>2. r.kind = "push" /\ r.base \in Ids \ {0} /\ r.base \in Nat
        /\ r.what \in {"new", "same", "delete"}
    BY <1>1 DEF Control, Known, Request
  <1>3. 0 \in Ids /\ "main" \in Names /\ Len(commits) \in Nat
    BY <1>1, LenProperties DEF Ids, RefsType, Names
  <1>4. Lands("main", r) => r.what # "delete" /\ heads["main"] \in Anc(r.base)
    <2>1. RefNow("main") = heads["main"]
      BY <1>3 DEF RefNow
    <2>2. Lands("main", r) => "main" \in r.targets /\ r.told["main"] = heads["main"]
      BY <2>1 DEF Lands
    <2>3. ~BreaksMain(r)
      BY DEF Receive, HookAccepts
    <2>4. QED
      BY <2>2, <2>3 DEF BreaksMain, Contains
  <1>5. CASE r.what = "new"
    <2> DEFINE A == Anc(r.base)
    <2> DEFINE W == Work(r.base) \cup {New}
    <2> DEFINE L == {}
    <2>1. /\ A \in SUBSET Ids /\ \A c \in A : c # 0 /\ Anc(c) \subseteq A
          /\ Work(r.base) \subseteq Nat /\ r.base \in A
      BY <1>1, <1>2, NodeOf
    <2>2. New \in Nat \ {0}
      BY <1>1, NewIsNew
    <2>3. W \in SUBSET Nat /\ L \in SUBSET Nat
      BY <2>1, <2>2
    <2>4. A \cup {New} = {New} \cup A
      OBVIOUS
    <2>5. Add([anc |-> {New} \cup A, work |-> W, lost |-> L])
      BY <1>5, <2>4 DEF Receive
    <2>6. Lands("main", r) => heads["main"] \in A
      BY <1>4
    <2> HIDE DEF A, W, L
    <2>7. Grows /\ Len(commits') = New /\ commits'[New].anc = {New} \cup A
      BY <1>1, <2>1, <2>3, <2>5, NodeAdded
    <2>8. PushedTip(r) = New
      BY <1>5 DEF PushedTip
    <2>9. New \in Ids'
      BY <1>1, <2>7, NewIsNew
    <2>10. PICK tip \in Nat : tip = New
      BY <2>2
    <2>11. Anc(tip)' = commits'[tip].anc
      BY <2>2, <2>10 DEF Anc
    <2>12. QED
      BY <2>2, <2>6, <2>7, <2>8, <2>9, <2>10, <2>11
  <1>6. CASE r.what # "new"
    <2>1. commits' = commits
      BY <1>6 DEF Receive
    <2>2. Grows
      BY <1>1, <2>1, SameGraph
    <2>3. PushedTip(r) = IF r.what = "same" THEN r.base ELSE 0
      BY <1>2, <1>6 DEF PushedTip
    <2>4. PICK tip \in Nat : tip = PushedTip(r) /\ tip \in Ids
      BY <1>2, <1>3, <2>3
    <2>5. tip \in Ids' /\ Anc(tip)' = Anc(tip)
      BY <2>2, <2>4 DEF Grows
    <2>6. Lands("main", r) => tip = r.base /\ tip # 0
      BY <1>2, <1>4, <1>6, <2>3, <2>4
    <2>7. QED
      BY <1>4, <2>2, <2>4, <2>5, <2>6
  <1>7. QED
    BY <1>5, <1>6

\* A push is let in.
LEMMA ReceiveKeeps ==
  ASSUME IInv, NEW p \in Procs, Receive(p)
  PROVE  IInv' /\ Grows
PROOF
  <1>1. RefsType /\ CallType /\ GhostType /\ Graph /\ HeadsKnown
        /\ \A q \in Procs : Control(q) /\ Known(q)
    BY DEF IInv
  <1>2. PICK tip \in Nat :
              /\ tip = PushedTip(req[p]) /\ tip \in Ids'
              /\ Lands("main", req[p]) => tip # 0
    BY ReceiveDoes
  <1>3. Grows
    BY ReceiveDoes
  <1>4. /\ ~Lands("vtag", req[p]) /\ pc[p] = "receive" /\ req[p].kind = "push"
    BY <1>1 DEF Receive, HookAccepts, NamesVersion, Lands, Control
  <1>5. /\ heads' = [n \in Names |-> IF Lands(n, req[p]) THEN tip ELSE heads[n]]
        /\ magic' = IF Lands("for", req[p]) THEN tip ELSE magic
        /\ vtag' = vtag
        /\ release' = IF Lands("release", req[p]) THEN tip ELSE release
        /\ authored' = authored /\ credit' = credit /\ litter' = litter /\ dropped' = dropped
        /\ kept' = [d \in Drafts |-> IF Lands(d, req[p]) THEN tip ELSE kept[d]]
        /\ sent' = [a \in Actors |->
                       IF Lands("for", req[p]) /\ a = ChooseActor(req[p]) THEN sent[a] \cup {tip}
                       ELSE sent[a]]
    BY <1>2, <1>4 DEF Receive
  <1>6. RefsType' /\ GhostType' /\ HeadsKnown'
    <2>1. commits' \in Seq(Node) /\ \A c \in Ids : c \in Ids'
      BY <1>3 DEF Grows
    <2>2. "main" \in Names
      BY DEF Names
    <2>3. RefsType'
      BY <1>1, <1>5, <2>1 DEF RefsType
    <2>4. GhostType'
      BY <1>1, <1>5 DEF GhostType
    <2>5. HeadsKnown'
      BY <1>1, <1>2, <1>5, <2>1, <2>2 DEF HeadsKnown
    <2>6. QED
      BY <2>3, <2>4, <2>5
  <1>7. CallType' /\ \A q \in Procs : Control(q)' /\ Known(q)'
    <2>1. /\ Continue(p, "take") /\ saw' = [saw EXCEPT ![p] = saw[p]]
          /\ saw[p] \in [branch : Nat, main : Nat, magic : Nat]
          /\ saw[p].branch \in Ids /\ saw[p].main \in Ids
      BY <1>1 DEF Receive, CallType, Known
    <2>2. saw[p].branch \in Ids' /\ saw[p].main \in Ids'
      BY <1>3, <2>1 DEF Grows
    <2>3. QED
      BY <1>1, <1>3, <1>4, <1>5, <2>1, <2>2, ContinueKeeps
  <1>8. QED
    BY <1>3, <1>6, <1>7 DEF IInv, Grows

\* Who pushes is somebody the repository knows, or nobody.
LEMMA ActorOf ==
  ASSUME NEW r \in Request
  PROVE  ChooseActor(r) \in Actors \cup {Nobody}
PROOF
  BY DEF ChooseActor, Request, Actors

\* The references of a push are taken apart.
LEMMA TakeKeeps ==
  ASSUME IInv, NEW p \in Procs, Take(p) \/ TakeFails(p)
  PROVE  IInv' /\ Grows
PROOF
  <1>1. RefsType /\ CallType /\ GhostType /\ Graph /\ HeadsKnown
        /\ \A q \in Procs : Control(q) /\ Known(q)
    BY DEF IInv
  <1>2. /\ commits' = commits /\ heads' = heads /\ vtag' = vtag /\ release' = release
        /\ pc[p] = "take" /\ dropped' = dropped /\ sent' = sent /\ kept' = kept
    BY DEF Take, TakeFails
  <1>3. Grows /\ Ids' = Ids /\ 0 \in Ids
    BY <1>1, <1>2, SameGraph, LenProperties DEF Ids, RefsType
  <1>4. /\ magic' \in {magic, 0} /\ litter' \in BOOLEAN
        /\ authored' \in {authored, [authored EXCEPT ![ChooseActor(req[p])] = magic]}
        /\ credit' \in {credit, [credit EXCEPT ![p] = magic]}
    BY <1>1 DEF Take, TakeFails, Remains, GhostType
  <1>5. RefsType' /\ GhostType' /\ HeadsKnown'
    <2>1. authored' \in [Actors -> Nat] /\ magic' \in Nat
      BY <1>1, <1>4 DEF RefsType
    <2>2. credit' \in [Procs -> Nat]
      BY <1>1, <1>4 DEF RefsType, GhostType
    <2>3. RefsType'
      BY <1>1, <1>2, <2>1 DEF RefsType
    <2>4. GhostType'
      BY <1>1, <1>2, <1>4, <2>2 DEF GhostType
    <2>5. HeadsKnown'
      BY <1>1, <1>2, <1>3 DEF HeadsKnown
    <2>6. QED
      BY <2>3, <2>4, <2>5
  <1>6. CallType' /\ \A q \in Procs : Control(q)' /\ Known(q)'
    <2>1. CASE Take(p)
      <3>1. PICK s \in {"project", "done"} : /\ Continue(p, s)
                                             /\ s = "project" => ~orphan[p]
        BY <2>1 DEF Take
      <3>2. /\ saw' = [saw EXCEPT ![p] = NoSight]
            /\ NoSight \in [branch : Nat, main : Nat, magic : Nat]
            /\ NoSight.branch \in Ids' /\ NoSight.main \in Ids'
        BY <1>3, <2>1 DEF Take, NoSight
      <3>3. req[p].kind \in Guarded
        BY <1>1, <1>2 DEF Control, Guarded
      <3>4. s \in {"receive", "take", "write", "project", "done"} /\ s # "receive"
            /\ s # "take" /\ s # "write"
        BY <3>1
      <3>5. QED
        BY <1>1, <1>2, <1>3, <3>1, <3>2, <3>3, <3>4, ContinueKeeps
    <2>2. CASE TakeFails(p)
      <3>1. /\ faults' = faults + 1 /\ pc' = [pc EXCEPT ![p] = "done"]
            /\ guard' = guard /\ req' = req /\ saw' = saw /\ orphan' = orphan /\ calls' = calls
        BY <2>2 DEF TakeFails, Goto
      <3>2. CallType'
        BY <1>1, <3>1 DEF CallType, Steps
      <3>3. faults \in Nat
        BY <1>1 DEF CallType
      <3>4. ASSUME NEW q \in Procs
            PROVE  Control(q)' /\ Known(q)'
        <4>1. pc'[q] = IF q = p THEN "done" ELSE pc[q]
          BY <1>1, <3>1 DEF CallType
        <4>2. Control(q) /\ Known(q)
          BY <1>1
        <4>3. Known(q)'
          BY <1>3, <3>1, <4>1, <4>2 DEF Known
        <4>4. Control(q)'
          BY <1>2, <3>1, <3>3, <4>1, <4>2 DEF Control
        <4>5. QED
          BY <4>3, <4>4
      <3>5. QED
        BY <3>2, <3>4
    <2>3. QED
      BY <2>1, <2>2
  <1>7. QED
    BY <1>3, <1>5, <1>6 DEF IInv, Grows

\* The version of a moved main gets its tag.
LEMMA ProjectKeeps ==
  ASSUME IInv, NEW p \in Procs, Project(p)
  PROVE  IInv' /\ Grows
PROOF
  <1>1. RefsType /\ CallType /\ GhostType /\ Graph /\ HeadsKnown
        /\ \A q \in Procs : Control(q) /\ Known(q)
    BY DEF IInv
  <1>2. /\ commits' = commits /\ heads' = heads /\ authored' = authored /\ magic' = magic
        /\ release' = release /\ saw' = [saw EXCEPT ![p] = saw[p]] /\ pc[p] = "project"
        /\ Continue(p, "done") /\ UNCHANGED ghosts
    BY <1>1 DEF Project, CallType
  <1>3. Grows /\ Ids' = Ids
    BY <1>1, <1>2, SameGraph DEF Ids
  <1>4. heads["main"] \in Ids /\ heads["main"] \in Nat
    BY <1>1 DEF HeadsKnown, RefsType, Names
  <1>5. vtag' \in {vtag, [vtag EXCEPT ![NextVersion] = heads["main"]]}
    BY DEF Project
  <1>6. RefsType' /\ GhostType' /\ HeadsKnown'
    <2>1. /\ vtag' \in [1..MaxVersion -> Nat]
          /\ \A v \in 1..MaxVersion : vtag'[v] \in {vtag[v], heads["main"]}
      BY <1>1, <1>4, <1>5 DEF RefsType
    <2>2. RefsType'
      BY <1>1, <1>2, <2>1 DEF RefsType
    <2>3. GhostType'
      BY <1>1, <1>2 DEF GhostType, ghosts
    <2>4. HeadsKnown'
      BY <1>1, <1>2, <1>3, <1>4, <2>1 DEF HeadsKnown
    <2>5. QED
      BY <2>2, <2>3, <2>4
  <1>7. CallType' /\ \A q \in Procs : Control(q)' /\ Known(q)'
    <2>1. /\ saw[p] \in [branch : Nat, main : Nat, magic : Nat]
          /\ saw[p].branch \in Ids' /\ saw[p].main \in Ids' /\ dropped' = dropped
      BY <1>1, <1>2, <1>3 DEF CallType, Known, ghosts
    <2>2. QED
      BY <1>1, <1>2, <1>3, <2>1, ContinueKeeps
  <1>8. QED
    BY <1>3, <1>6, <1>7 DEF IInv, Grows

\* A call dies with its instance, or its handler is dropped.
LEMMA FailureKeeps ==
  ASSUME IInv, NEW p \in Procs, Crash(p) \/ Cancel(p)
  PROVE  IInv' /\ Grows
PROOF
  <1>1. RefsType /\ CallType /\ GhostType /\ Graph /\ HeadsKnown
        /\ \A q \in Procs : Control(q) /\ Known(q)
    BY DEF IInv
  <1>2. Grows /\ Ids' = Ids /\ 0 \in Ids
    BY <1>1, SameGraph, LenProperties DEF Crash, Cancel, Ids, RefsType
  <1>3. RefsType' /\ HeadsKnown'
    BY <1>1, <1>2 DEF Crash, Cancel, RefsType, HeadsKnown, refs
  <1>4. NoRequest \in Request /\ NoSight \in [branch : Nat, main : Nat, magic : Nat]
    BY BoundAssumption DEF NoRequest, NoSight, Request, Names, Targets, Roles
  <1>5. /\ NoRequest.kind = "none" /\ NoRequest.base = 0 /\ NoRequest.told["main"] = 0
        /\ NoSight.branch = 0 /\ NoSight.main = 0
    BY DEF NoRequest, NoSight, Targets
  <1>6. faults \in Nat /\ faults' = faults + 1
    BY <1>1 DEF Crash, Cancel, CallType
  <1>7. CASE Crash(p)
    <2>1. CallType' /\ GhostType'
      BY <1>1, <1>4, <1>6, <1>7 DEF Crash, Goto, Freed, CallType, GhostType, Steps
    <2>2. ASSUME NEW q \in Procs
          PROVE  Control(q)' /\ Known(q)'
      <3>1. Control(q) /\ Known(q)
        BY <1>1
      <3>2. CASE q = p
        <4>1. /\ pc'[q] = "idle" /\ req'[q] = NoRequest /\ saw'[q] = NoSight
              /\ orphan'[q] = FALSE /\ dropped' = dropped
          BY <1>1, <1>7, <3>2 DEF Crash, Goto, CallType
        <4>2. Known(q)'
          BY <1>2, <1>5, <4>1 DEF Known
        <4>3. Control(q)'
          BY <1>5, <1>6, <4>1 DEF Control, Guarded, OnDraft
        <4>4. QED
          BY <4>2, <4>3
      <3>3. CASE q # p
        <4>1. /\ pc'[q] = pc[q] /\ req'[q] = req[q] /\ saw'[q] = saw[q]
              /\ orphan'[q] = orphan[q] /\ dropped' = dropped /\ (guard = q => guard' = q)
          BY <1>1, <1>7, <3>3 DEF Crash, Goto, Freed, CallType
        <4>2. Known(q)'
          BY <1>2, <3>1, <4>1, KnownStays
        <4>3. Control(q)'
          BY <1>6, <3>1, <4>1 DEF Control
        <4>4. QED
          BY <4>2, <4>3
      <3>4. QED
        BY <3>2, <3>3
    <2>3. QED
      BY <1>2, <1>3, <2>1, <2>2 DEF IInv, Grows
  <1>8. CASE Cancel(p)
    <2>1. req[p].kind \in AllKinds
      <3>1. req[p] \in Request /\ req[p].kind # "none"
        BY <1>1, <1>8 DEF Cancel, CallType, Control
      <3>2. QED
        BY <3>1 DEF Request
    <2>2. CallType' /\ GhostType'
      BY <1>1, <1>6, <1>8, <2>1 DEF Cancel, Freed, CallType, GhostType
    <2>3. ASSUME NEW q \in Procs
          PROVE  Control(q)' /\ Known(q)'
      <3>1. Control(q) /\ Known(q)
        BY <1>1
      <3>2. /\ pc'[q] = pc[q] /\ req'[q] = req[q] /\ saw'[q] = saw[q]
            /\ dropped' = dropped \cup {req[p].kind} /\ guard = p /\ guard' = Nobody
            /\ orphan'[q] = (IF q = p THEN TRUE ELSE orphan[q])
            /\ pc[p] \in {"snapshot", "receive", "take", "read", "write"}
        BY <1>1, <1>8 DEF Cancel, Freed, CallType
      <3>3. Known(q)'
        BY <1>2, <3>1, <3>2, KnownStays
      <3>4. Control(q)'
        BY <1>6, <3>1, <3>2 DEF Control
      <3>5. QED
        BY <3>3, <3>4
    <2>4. QED
      BY <1>2, <1>3, <2>2, <2>3 DEF IInv, Grows
  <1>9. QED
    BY <1>7, <1>8


\* A call that changes no reference and no graph: it arrives, or it is answered.
Arrives(p) ==
    \/ StartPush(p) \/ StartCreate(p) \/ StartDelete(p) \/ StartTag(p)
    \/ StartMerge(p) \/ StartUpdate(p) \/ StartCommit(p) \/ StartResolve(p)
Refuses(p) ==
    \/ CreateRefused(p) \/ DeleteRefused(p) \/ TagRefused(p)
    \/ NothingToDo(p) \/ WriteRefused(p) \/ Answer(p)
Writes(p) ==
    \/ MergeSquash(p) \/ MergeForward(p) \/ MergeCommit(p) \/ Resolve(p)
    \/ UpdateForward(p) \/ UpdateCommit(p) \/ CommitList(p)
PlainWrites(p) == CreateWrite(p) \/ DeleteWrite(p) \/ TagWrite(p)
Reads(p) == CreateRead(p) \/ DeleteRead(p) \/ TagRead(p) \/ ReadTips(p)
Waits(p) == Snapshot(p) \/ SnapshotFails(p) \/ HookRefuses(p)

\* Every step is one of these.
LEMMA StepCases ==
  ASSUME [Next]_vars
  PROVE  \/ UNCHANGED vars
         \/ \E p \in Procs :
              \/ Arrives(p) \/ Refuses(p) \/ TakeGuard(p) \/ Waits(p) \/ Receive(p)
              \/ Take(p) \/ TakeFails(p) \/ Reads(p) \/ PlainWrites(p) \/ Writes(p)
              \/ Project(p) \/ Crash(p) \/ Cancel(p)
PROOF
  BY DEF Next, Rest, Arrives, Refuses, Waits, Reads, PlainWrites, Writes

\* What an answer without effect is.
LEMMA RefusesIs ==
  ASSUME NEW p \in Procs, Refuses(p)
  PROVE  Refuse(p) /\ pc[p] \in {"read", "write", "done"}
PROOF
  BY SMTT(60)
     DEF Refuses, CreateRefused, DeleteRefused, TagRefused, NothingToDo, WriteRefused, Answer

\* What an arrival is.
LEMMA ArrivesIs ==
  ASSUME NEW p \in Procs, Arrives(p)
  PROVE  \E r : Start(p, r)
PROOF
  BY DEF Arrives, StartPush, StartCreate, StartDelete, StartTag, StartMerge, StartUpdate,
         StartCommit, StartResolve

\* The control of every call, and a graph that only grows.
LEMMA NextInv ==
  ASSUME IInv, [Next]_vars
  PROVE  IInv' /\ Grows
PROOF
  <1>1. RefsType /\ Graph
    BY DEF IInv
  <1>2. CASE UNCHANGED vars
    <2>1. IInv'
      BY <1>2 DEF IInv, vars, refs, ghosts, RefsType, CallType, GhostType, Control, Known,
                  Graph, HeadsKnown, Ids
    <2>2. commits' = commits
      BY <1>2 DEF vars
    <2>3. QED
      BY <1>1, <2>1, <2>2, SameGraph
  <1>3. ASSUME NEW p \in Procs,
               \/ Arrives(p) \/ Refuses(p) \/ TakeGuard(p) \/ Waits(p) \/ Receive(p)
               \/ Take(p) \/ TakeFails(p) \/ Reads(p) \/ PlainWrites(p) \/ Writes(p)
               \/ Project(p) \/ Crash(p) \/ Cancel(p)
        PROVE  IInv' /\ Grows
    <2>1. CASE Arrives(p)
      <3>1. commits' = commits
        BY <2>1, ArrivesIs DEF Start
      <3>2. IInv'
        BY <2>1, ArriveKeeps DEF Arrives
      <3>3. QED
        BY <1>1, <3>1, <3>2, SameGraph
    <2>2. CASE Refuses(p)
      <3>1. Refuse(p)
        BY <2>2, RefusesIs
      <3>2. commits' = commits
        BY <3>1 DEF Refuse
      <3>3. QED
        BY <1>1, <3>1, <3>2, SameGraph, RefuseKeeps
    <2>3. CASE TakeGuard(p)
      BY <2>3, TakeGuardKeeps
    <2>4. CASE Waits(p)
      BY <2>4, PushWaitsKeeps DEF Waits
    <2>5. CASE Receive(p)
      BY <2>5, ReceiveKeeps
    <2>6. CASE Take(p) \/ TakeFails(p)
      BY <2>6, TakeKeeps
    <2>7. CASE Reads(p)
      BY <2>7, ReadKeeps DEF Reads
    <2>8. CASE PlainWrites(p)
      BY <2>8, PlainWriteKeeps DEF PlainWrites
    <2>9. CASE Writes(p)
      BY <2>9, BranchWriteKeeps DEF Writes
    <2>10. CASE Project(p)
      BY <2>10, ProjectKeeps
    <2>11. CASE Crash(p) \/ Cancel(p)
      BY <2>11, FailureKeeps
    <2>12. QED
      BY <1>3, <2>1, <2>2, <2>3, <2>4, <2>5, <2>6, <2>7, <2>8, <2>9, <2>10, <2>11
  <1>4. QED
    BY <1>2, <1>3, StepCases

\* Types and control hold throughout: the references name commits of the graph,
\* ancestors are older, and a call past its lock holds repo_guard unless its
\* handler was dropped.
THEOREM Invariance == Spec => []IInv
PROOF
  <1>1. Init => IInv
    BY InitInv
  <1>2. IInv /\ [Next]_vars => IInv'
    BY NextInv
  <1>3. QED
    BY <1>1, <1>2, PTL DEF Spec

-----------------------------------------------------------------------------
(* What a step leaves alone *)

StepOf(p) ==
    \/ Arrives(p) \/ Refuses(p) \/ TakeGuard(p) \/ Waits(p) \/ Receive(p)
    \/ Take(p) \/ TakeFails(p) \/ Reads(p) \/ PlainWrites(p) \/ Writes(p)
    \/ Project(p) \/ Crash(p) \/ Cancel(p)

\* A step is one call's: the others are where they were, and who holds the
\* guard keeps it.
LEMMA Others ==
  ASSUME IInv, NEW p \in Procs, StepOf(p), NEW q \in Procs, q # p
  PROVE  /\ pc'[q] = pc[q] /\ req'[q] = req[q] /\ saw'[q] = saw[q] /\ orphan'[q] = orphan[q]
         /\ credit'[q] = credit[q] /\ (guard = q => guard' = q)
PROOF
  <1>1. /\ pc \in [Procs -> Steps] /\ req \in [Procs -> Request] /\ orphan \in [Procs -> BOOLEAN]
        /\ saw \in [Procs -> [branch : Nat, main : Nat, magic : Nat]]
        /\ credit \in [Procs -> Nat]
    BY DEF IInv, CallType, GhostType
  <1>2. CASE Arrives(p)
    BY <1>1, <1>2, ArrivesIs DEF Start, Goto, ghosts
  <1>3. CASE Refuses(p)
    BY <1>1, <1>3, RefusesIs DEF Refuse, Finish, Goto, Freed
  <1>4. CASE TakeGuard(p)
    BY <1>1, <1>4, NameAssumption DEF TakeGuard, Goto, ghosts
  <1>5. CASE Waits(p)
    BY <1>1, <1>5 DEF Waits, Snapshot, SnapshotFails, HookRefuses, Continue, Goto, ghosts
  <1>6. CASE Receive(p)
    BY <1>1, <1>6 DEF Receive, Continue, Goto
  <1>7. CASE Take(p)
    <2>1. credit' \in {credit, [credit EXCEPT ![p] = magic]} /\ saw' = [saw EXCEPT ![p] = NoSight]
      BY <1>7 DEF Take
    <2>2. PICK s : Continue(p, s)
      BY <1>7 DEF Take
    <2>3. QED
      BY <1>1, <2>1, <2>2 DEF Continue, Goto
  <1>8. CASE TakeFails(p)
    BY <1>1, <1>8 DEF TakeFails, Goto
  <1>9. CASE Reads(p)
    BY <1>1, <1>9 DEF Reads, CreateRead, DeleteRead, TagRead, ReadTips, Continue, Goto, ghosts
  <1>10. CASE PlainWrites(p)
    BY <1>1, <1>10 DEF PlainWrites, CreateWrite, DeleteWrite, TagWrite, Finish, Goto, Freed
  <1>11. CASE Writes(p)
    <2>1. \/ \E tip : MoveMain(p, tip)
          \/ \E tip : MoveBranch(p, tip)
      BY <1>11 DEF Writes, MergeSquash, MergeForward, MergeCommit, Resolve, UpdateForward,
                   UpdateCommit, CommitList
    <2>2. Finish(p) \/ (Continue(p, "project") /\ saw' = [saw EXCEPT ![p] = NoSight]
                        /\ credit' = credit)
      BY <2>1 DEF MoveMain, MoveBranch
    <2>3. QED
      BY <1>1, <2>2 DEF Finish, Continue, Goto, Freed
  <1>12. CASE Project(p)
    BY <1>1, <1>12 DEF Project, Continue, Goto, ghosts
  <1>13. CASE Crash(p)
    BY <1>1, <1>13 DEF Crash, Goto, Freed
  <1>14. CASE Cancel(p)
    BY <1>1, <1>14 DEF Cancel, Freed
  <1>15. QED
    BY <1>2, <1>3, <1>4, <1>5, <1>6, <1>7, <1>8, <1>9, <1>10, <1>11, <1>12, <1>13, <1>14
       DEF StepOf

\* Only pushes, and failures of theirs, touch refs/for/main and what is kept of
\* it; a step that is none of these is not of a push past its hook.
LEMMA ProposalsStay ==
  ASSUME IInv, NEW p \in Procs,
         \/ Arrives(p) \/ Refuses(p) \/ TakeGuard(p) \/ Waits(p)
         \/ Reads(p) \/ PlainWrites(p) \/ Writes(p) \/ Project(p)
  PROVE  /\ magic' = magic /\ litter' = litter /\ sent' = sent /\ authored' = authored
         /\ pc[p] # "take"
PROOF
  <1>1. CASE Arrives(p)
    BY <1>1, ArrivesIs DEF Start, ghosts, refs
  <1>2. CASE Refuses(p)
    BY <1>2, RefusesIs DEF Refuse, refs
  <1>3. CASE TakeGuard(p) \/ Waits(p) \/ Reads(p)
    BY <1>3 DEF TakeGuard, Waits, Snapshot, SnapshotFails, HookRefuses, Reads, CreateRead,
                DeleteRead, TagRead, ReadTips, refs, ghosts
  <1>4. CASE PlainWrites(p)
    BY <1>4 DEF PlainWrites, CreateWrite, DeleteWrite, TagWrite
  <1>5. CASE Writes(p)
    <2>1. /\ pc[p] = "write"
          /\ \/ \E tip : MoveMain(p, tip)
             \/ \E tip : MoveBranch(p, tip)
      BY <1>5 DEF Writes, MergeSquash, MergeForward, MergeCommit, Resolve, UpdateForward,
                  UpdateCommit, CommitList
    <2>2. QED
      BY <2>1 DEF MoveMain, MoveBranch
  <1>6. CASE Project(p)
    BY <1>6 DEF Project, ghosts
  <1>7. QED
    BY <1>1, <1>2, <1>3, <1>4, <1>5, <1>6

\* Who made the call is known to its end.
LEMMA SameActor ==
  ASSUME NEW r
  PROVE  ChooseActor(Spent(r)) = ChooseActor(r)
PROOF
  BY DEF ChooseActor, Spent, NoRequest

-----------------------------------------------------------------------------
(* refs/for/main *)

\* What is seen of refs/for/main is a push under way or left by a failure.
LEMMA MagicStep ==
  ASSUME IInv, MagicIsTransient, [Next]_vars
  PROVE  MagicIsTransient'
PROOF
  <1>1. CASE UNCHANGED vars
    BY <1>1 DEF vars, refs, ghosts, MagicIsTransient, ChooseActor
  <1>2. ASSUME NEW p \in Procs, StepOf(p)
        PROVE  MagicIsTransient'
    <2>1. /\ pc \in [Procs -> Steps] /\ req \in [Procs -> Request]
      BY DEF IInv, CallType
    <2> DEFINE Taker(q) == pc[q] = "take" /\ ChooseActor(req[q]) # Nobody
    <2>2. ASSUME NEW q \in Procs, q # p, Taker(q)
          PROVE  Taker(q)'
      BY <1>2, <2>2, Others DEF ChooseActor
    <2>3. ASSUME magic' = magic, litter => litter', pc[p] # "take" \/ ChooseActor(req[p]) = Nobody
          PROVE  MagicIsTransient'
      BY <2>2, <2>3 DEF MagicIsTransient
    <2>4. CASE \/ Arrives(p) \/ Refuses(p) \/ TakeGuard(p) \/ Waits(p)
               \/ Reads(p) \/ PlainWrites(p) \/ Writes(p) \/ Project(p)
      BY <2>3, <2>4, ProposalsStay
    <2>5. CASE Receive(p)
      <3>1. pc[p] = "receive" /\ litter' = litter
        BY <2>5 DEF Receive
      <3>2. CASE Lands("for", req[p])
        <4>1. ChooseActor(req[p]) # Nobody
          BY <2>5, <3>2 DEF Receive, HookAccepts, Lands
        <4>2. pc'[p] = "take" /\ req'[p] = Spent(req[p])
          BY <2>1, <2>5 DEF Receive, Continue, Goto
        <4>3. Taker(p)'
          BY <4>1, <4>2, SameActor DEF ChooseActor
        <4>4. QED
          BY <4>3 DEF MagicIsTransient
      <3>3. CASE ~Lands("for", req[p])
        BY <2>3, <2>5, <3>1, <3>3 DEF Receive
      <3>4. QED
        BY <3>2, <3>3
    <2>6. CASE Take(p)
      <3>1. CASE ChooseActor(req[p]) = Nobody
        BY <2>3, <2>6, <3>1 DEF Take
      <3>2. CASE ChooseActor(req[p]) # Nobody
        BY <2>6, <3>2 DEF Take, Remains, MagicIsTransient
      <3>3. QED
        BY <3>1, <3>2
    <2>7. CASE TakeFails(p)
      BY <2>7 DEF TakeFails, MagicIsTransient
    <2>8. CASE Crash(p)
      <3>1. magic' = magic /\ litter' = (litter \/ (pc[p] = "take" /\ magic # 0))
            /\ litter \in BOOLEAN
        BY <2>8 DEF Crash, refs, IInv, GhostType
      <3>2. CASE pc[p] = "take"
        BY <3>1, <3>2 DEF MagicIsTransient
      <3>3. CASE pc[p] # "take"
        BY <2>3, <3>1, <3>3
      <3>4. QED
        BY <3>2, <3>3
    <2>9. CASE Cancel(p)
      BY <2>9 DEF Cancel, refs, MagicIsTransient, ChooseActor
    <2>10. QED
      BY <1>2, <2>4, <2>5, <2>6, <2>7, <2>8, <2>9 DEF StepOf
  <1>3. QED
    BY <1>1, <1>2, StepCases DEF StepOf

\* refs/for/main is seen only while its push is being taken apart, unless a
\* failure left it there (magic::take_magic_pushes clears it for every known
\* actor, and the hook lets no unknown one write it).
THEOREM MagicIsSeenInFlight == Spec => []MagicIsTransient
PROOF
  <1>1. Init => IInv /\ MagicIsTransient
    <2>1. Init => MagicIsTransient
      BY DEF Init, MagicIsTransient
    <2>2. QED
      BY <2>1, InitInv
  <1>2. (IInv /\ MagicIsTransient) /\ [Next]_vars => (IInv /\ MagicIsTransient)'
    BY NextInv, MagicStep
  <1>3. QED
    BY <1>1, <1>2, PTL DEF Spec

-----------------------------------------------------------------------------
(* Proposals *)

\* A repository that fails never, or once: a first failure may leave a proposal
\* in refs/for/main, and it takes a second, of the snapshot, to forget it is
\* there.
FailsOnce == "git" \notin Faults \/ MaxFaults <= 1

\* A call is credited only after its references were taken apart, and it is
\* somebody's.
CreditedLate ==
    \A p \in Procs : credit[p] # 0 =>
        pc[p] \in {"project", "done"} /\ ChooseActor(req[p]) # Nobody

CreditInv == CreditedLate /\ ("push" \notin dropped => ProposalInv)

\* While no push lost its handler, only one is between its lock and its answer.
LEMMA OnePush ==
  ASSUME IInv, "push" \notin dropped, NEW p \in Procs, NEW q \in Procs,
         pc[p] \in {"snapshot", "receive", "take"}, pc[q] \in {"snapshot", "receive", "take"}
  PROVE  p = q
PROOF
  <1>1. Control(p) /\ Control(q)
    BY DEF IInv
  <1>2. guard = p /\ guard = q
    BY <1>1 DEF Control, Guarded
  <1>3. QED
    BY <1>2

\* The push's own steps before it is taken apart are no other call's.
LEMMA WaitsAlone ==
  ASSUME NEW p \in Procs,
         \/ Arrives(p) \/ Refuses(p) \/ TakeGuard(p)
         \/ Reads(p) \/ PlainWrites(p) \/ Writes(p) \/ Project(p)
  PROVE  ~Waits(p)
PROOF
  <1>1. Waits(p) => pc[p] \in {"snapshot", "receive"}
    BY DEF Waits, Snapshot, SnapshotFails, HookRefuses
  <1>2. pc[p] \notin {"snapshot", "receive"}
    BY RefusesIs, ArrivesIs DEF Start, TakeGuard, Reads, CreateRead, DeleteRead, TagRead,
       ReadTips, PlainWrites, CreateWrite, DeleteWrite, TagWrite, Writes, MergeSquash,
       MergeForward, MergeCommit, Resolve, UpdateForward, UpdateCommit, CommitList, Project
  <1>3. QED
    BY <1>1, <1>2

\* What steps that are no push's past its hook do to the call that takes them.
LEMMA CreditStays ==
  ASSUME IInv, CreditedLate, NEW p \in Procs,
         \/ Arrives(p) \/ Refuses(p) \/ TakeGuard(p) \/ Waits(p)
         \/ Reads(p) \/ PlainWrites(p) \/ Writes(p) \/ Project(p)
  PROVE  /\ credit'[p] # 0 => /\ credit'[p] = credit[p]
                              /\ ChooseActor(req'[p]) = ChooseActor(req[p])
                              /\ pc'[p] \in {"project", "done"}
         /\ ~Waits(p) => pc'[p] \notin {"receive", "take"}
PROOF
  <1>1. /\ pc \in [Procs -> Steps] /\ req \in [Procs -> Request] /\ credit \in [Procs -> Nat]
    BY DEF IInv, CallType, GhostType
  <1>2. CASE Arrives(p)
    <2>1. PICK r : Start(p, r)
      BY <1>2, ArrivesIs
    <2>2. credit'[p] = 0 /\ pc'[p] \notin {"receive", "take"}
      BY <1>1, <2>1 DEF Start, Goto, ghosts, CreditedLate
    <2>3. QED
      BY <2>2
  <1>3. CASE Refuses(p)
    BY <1>1, <1>3, RefusesIs DEF Refuse, Finish, Goto
  <1>4. CASE TakeGuard(p)
    BY <1>1, <1>4 DEF TakeGuard, Goto, ghosts, CreditedLate
  <1>5. CASE Waits(p)
    BY <1>1, <1>5 DEF Waits, Snapshot, SnapshotFails, HookRefuses, ghosts, CreditedLate
  <1>6. CASE Reads(p)
    <2>1. pc[p] = "read" /\ credit' = credit /\ pc'[p] = "write"
      BY <1>1, <1>6 DEF Reads, CreateRead, DeleteRead, TagRead, ReadTips, ghosts, Continue, Goto
    <2>2. QED
      BY <2>1 DEF CreditedLate
  <1>7. CASE PlainWrites(p)
    BY <1>1, <1>7 DEF PlainWrites, CreateWrite, DeleteWrite, TagWrite, Finish, Goto
  <1>8. CASE Writes(p)
    <2>1. /\ pc[p] = "write"
          /\ \/ \E tip : MoveMain(p, tip)
             \/ \E tip : MoveBranch(p, tip)
      BY <1>8 DEF Writes, MergeSquash, MergeForward, MergeCommit, Resolve, UpdateForward,
                  UpdateCommit, CommitList
    <2>2. Finish(p) \/ (Continue(p, "project") /\ credit' = credit)
      BY <2>1 DEF MoveMain, MoveBranch
    <2>3. credit[p] = 0
      BY <2>1 DEF CreditedLate
    <2>4. credit'[p] = 0 /\ pc'[p] \notin {"receive", "take"}
      BY <1>1, <2>2, <2>3 DEF Finish, Continue, Goto
    <2>5. QED
      BY <2>4
  <1>9. CASE Project(p)
    <2>1. pc'[p] = "done" /\ credit' = credit /\ req'[p] = Spent(req[p])
      BY <1>1, <1>9 DEF Project, Continue, Goto, ghosts
    <2>2. QED
      BY <2>1, SameActor
  <1>10. QED
    BY <1>2, <1>3, <1>4, <1>5, <1>6, <1>7, <1>8, <1>9

\* Only a push that took its references apart is credited, to somebody.
LEMMA CreditStep ==
  ASSUME IInv, CreditedLate, [Next]_vars
  PROVE  CreditedLate'
PROOF
  <1>1. /\ pc \in [Procs -> Steps] /\ credit \in [Procs -> Nat] /\ req \in [Procs -> Request]
    BY DEF IInv, CallType, GhostType
  <1>2. CASE UNCHANGED vars
    BY <1>2 DEF vars, ghosts, CreditedLate, ChooseActor
  <1>3. ASSUME NEW p \in Procs, StepOf(p), NEW q \in Procs, credit'[q] # 0
        PROVE  pc'[q] \in {"project", "done"} /\ ChooseActor(req'[q]) # Nobody
    <2>1. CASE q # p
      BY <1>3, <2>1, Others DEF CreditedLate
    <2>2. CASE q = p
      <3>1. CASE \/ Arrives(p) \/ Refuses(p) \/ TakeGuard(p) \/ Waits(p)
                 \/ Reads(p) \/ PlainWrites(p) \/ Writes(p) \/ Project(p)
        BY <1>3, <2>2, <3>1, CreditStays DEF CreditedLate
      <3>2. CASE Receive(p)
        BY <1>3, <2>2, <3>2 DEF Receive, CreditedLate
      <3>3. CASE Take(p) \/ TakeFails(p)
        <4>1. credit[p] = 0
          BY <3>3 DEF Take, TakeFails, CreditedLate
        <4>2. TakeFails(p) => credit' = credit
          BY DEF TakeFails
        <4>3. Take(p)
          BY <1>3, <2>2, <3>3, <4>1, <4>2
        <4>4. ChooseActor(req[p]) # Nobody
          BY <1>3, <2>2, <4>1, <4>3 DEF Take
        <4>5. PICK s \in {"project", "done"} : Continue(p, s)
          BY <4>3 DEF Take
        <4>6. pc'[p] = s /\ req'[p] = Spent(req[p])
          BY <1>1, <4>5 DEF Continue, Goto
        <4>7. QED
          BY <2>2, <4>4, <4>6, SameActor
      <3>4. CASE Crash(p)
        BY <1>1, <1>3, <2>2, <3>4 DEF Crash
      <3>5. CASE Cancel(p)
        BY <1>3, <2>2, <3>5 DEF Cancel, CreditedLate
      <3>6. QED
        BY <1>3, <3>1, <3>2, <3>3, <3>4, <3>5 DEF StepOf
    <2>3. QED
      BY <2>1, <2>2
  <1>4. \A q \in Procs : ChooseActor(req[q])' = ChooseActor(req'[q])
    BY DEF ChooseActor
  <1>5. QED
    BY <1>2, <1>3, <1>4, StepCases DEF StepOf, CreditedLate

\* A call that lost its handler stays recorded.
LEMMA DroppedStays ==
  ASSUME [Next]_vars
  PROVE  dropped \subseteq dropped'
PROOF
  <1>1. CASE UNCHANGED vars
    BY <1>1 DEF vars, ghosts
  <1>2. ASSUME NEW p \in Procs, StepOf(p)
        PROVE  dropped \subseteq dropped'
    <2>1. CASE Cancel(p)
      BY <2>1 DEF Cancel
    <2>2. CASE ~Cancel(p)
      <3>1. dropped' = dropped
        BY <1>2, <2>2, ZenonT(60) DEF StepOf, Arrives, StartPush, StartCreate, StartDelete, StartTag,
           StartMerge, StartUpdate, StartCommit, StartResolve, Start, Refuses, CreateRefused,
           DeleteRefused, TagRefused, NothingToDo, WriteRefused, Answer, Refuse, TakeGuard,
           Waits, Snapshot, SnapshotFails, HookRefuses, Receive, Take, TakeFails, Reads,
           CreateRead, DeleteRead, TagRead, ReadTips, PlainWrites, CreateWrite, DeleteWrite,
           TagWrite, Writes, MergeSquash, MergeForward, MergeCommit, Resolve, UpdateForward,
           UpdateCommit, CommitList, MoveMain, MoveBranch, Project, Crash, ghosts
      <3>2. QED
        BY <3>1
    <2>3. QED
      BY <2>1, <2>2
  <1>3. QED
    BY <1>1, <1>2, StepCases DEF StepOf

\* While failures leave no trace a snapshot misses, a push finds its own proposal
\* in refs/for/main or none that is new to it.
LEMMA ProposalStep ==
  ASSUME FailsOnce, IInv, MagicIsTransient, CreditedLate, ProposalInv, [Next]_vars,
         "push" \notin dropped'
  PROVE  ProposalInv'
PROOF
  <1>1. /\ pc \in [Procs -> Steps] /\ req \in [Procs -> Request] /\ credit \in [Procs -> Nat]
        /\ saw \in [Procs -> [branch : Nat, main : Nat, magic : Nat]]
        /\ authored \in [Actors -> Nat] /\ sent \in [Actors -> SUBSET Nat]
        /\ \A p \in Procs : Control(p)
    BY DEF IInv, CallType, GhostType, RefsType
  <1>2. /\ \A a \in Actors : authored[a] \in {0} \cup sent[a]
        /\ \A p \in Procs : credit[p] # 0 => credit[p] \in sent[ChooseActor(req[p])]
        /\ \A p \in Procs : pc[p] = "receive" => ~Foreign(p)
        /\ \A p \in Procs : pc[p] = "take" /\ Foreign(p) => magic \in sent[ChooseActor(req[p])]
        /\ litter => faults > 0
    BY DEF ProposalInv, OwnProposals
  <1>3. CASE UNCHANGED vars
    BY <1>3 DEF vars, refs, ghosts, ProposalInv, OwnProposals, Foreign, ChooseActor
  <1>4. ASSUME NEW p \in Procs, StepOf(p)
        PROVE  ProposalInv'
    <2> DEFINE r == req[p]
    <2> DEFINE actor == ChooseActor(r)
    <2>1. \A q \in Procs : q # p =>
             /\ pc'[q] = pc[q] /\ req'[q] = req[q] /\ saw'[q] = saw[q] /\ credit'[q] = credit[q]
             /\ ChooseActor(req'[q]) = ChooseActor(req[q])
      BY <1>4, Others
    <2>2. "push" \notin dropped
      BY <1>4, DroppedStays DEF StepOf
    <2>3. ASSUME magic' = magic, sent' = sent, authored' = authored,
                 credit'[p] # 0 => credit'[p] = credit[p] /\ ChooseActor(req'[p]) = actor,
                 pc'[p] = "receive" => ~Foreign(p)',
                 pc'[p] = "take" => ~Foreign(p)' \/ (pc[p] = "take" /\ ChooseActor(req'[p]) = actor
                                                     /\ saw'[p] = saw[p]),
                 litter' => faults' > 0
          PROVE  ProposalInv'
      <3>1. \A q \in Procs : q # p => (Foreign(q)' <=> Foreign(q))
        BY <2>1, <2>3 DEF Foreign
      <3>2. \A q \in Procs : credit'[q] # 0 => credit'[q] \in sent[ChooseActor(req'[q])]
        BY <1>2, <2>1, <2>3
      <3>3. \A q \in Procs : pc'[q] = "receive" => ~Foreign(q)'
        BY <1>2, <2>1, <2>3, <3>1
      <3>4. ASSUME NEW q \in Procs, pc'[q] = "take", Foreign(q)'
            PROVE  magic' \in sent'[ChooseActor(req'[q])]
        <4>1. CASE q # p
          BY <1>2, <2>1, <2>3, <3>1, <3>4, <4>1
        <4>2. CASE q = p
          <5>1. pc[p] = "take" /\ ChooseActor(req'[p]) = actor /\ saw'[p] = saw[p]
            BY <2>3, <3>4, <4>2
          <5>2. Foreign(p)
            BY <2>3, <3>4, <4>2, <5>1 DEF Foreign
          <5>3. QED
            BY <1>2, <2>3, <4>2, <5>1, <5>2
        <4>3. QED
          BY <4>1, <4>2
      <3>5. \A q \in Procs : ChooseActor(req[q])' = ChooseActor(req'[q])
        BY DEF ChooseActor
      <3>6. OwnProposals'
        BY <1>2, <2>3, <3>2, <3>5 DEF OwnProposals
      <3>7. QED
        BY <2>3, <3>3, <3>4, <3>5, <3>6 DEF ProposalInv
    <2>4. \A q \in Procs : ChooseActor(req[q])' = ChooseActor(req'[q])
      BY DEF ChooseActor
    <2>5. CASE \/ Arrives(p) \/ Refuses(p) \/ TakeGuard(p)
               \/ Reads(p) \/ PlainWrites(p) \/ Writes(p) \/ Project(p)
      <3>1. /\ magic' = magic /\ litter' = litter /\ sent' = sent /\ authored' = authored
            /\ credit'[p] # 0 => credit'[p] = credit[p] /\ ChooseActor(req'[p]) = actor
            /\ pc'[p] \notin {"receive", "take"} \/ Waits(p)
        BY <1>1, <2>5, ProposalsStay, CreditStays
      <3>2. faults' = faults
        BY <2>5, ZenonT(60) DEF Arrives, StartPush, StartCreate, StartDelete, StartTag, StartMerge,
           StartUpdate, StartCommit, StartResolve, Start, Refuses, CreateRefused, DeleteRefused,
           TagRefused, NothingToDo, WriteRefused, Answer, Refuse, TakeGuard, Reads, CreateRead,
           DeleteRead, TagRead, ReadTips, PlainWrites, CreateWrite, DeleteWrite, TagWrite,
           Writes, MergeSquash, MergeForward, MergeCommit, Resolve, UpdateForward,
           UpdateCommit, CommitList, MoveMain, MoveBranch, Project, Finish, Continue
      <3>3. ~Waits(p)
        BY <2>5, WaitsAlone
      <3>4. QED
        BY <1>2, <2>3, <3>1, <3>2, <3>3
    <2>6. CASE Waits(p)
      <3>1. /\ magic' = magic /\ litter' = litter /\ sent' = sent /\ authored' = authored
            /\ credit'[p] # 0 => credit'[p] = credit[p] /\ ChooseActor(req'[p]) = actor
        BY <1>1, <2>6, ProposalsStay, CreditStays
      <3>2. faults \in Nat /\ (faults' = faults \/ faults' = faults + 1)
        BY <2>6 DEF Waits, Snapshot, SnapshotFails, HookRefuses, Continue, IInv, CallType
      <3>3. CASE Snapshot(p)
        <4>1. pc'[p] = "receive" /\ saw'[p].magic = magic
          BY <1>1, <3>3 DEF Snapshot, Continue, Goto, NoSight
        <4>2. ~Foreign(p)'
          BY <3>1, <4>1 DEF Foreign
        <4>3. QED
          BY <1>2, <2>3, <3>1, <3>2, <4>1, <4>2
      <3>4. CASE SnapshotFails(p)
        <4>1. /\ pc'[p] = "receive" /\ pc[p] = "snapshot" /\ faults < MaxFaults /\ "git" \in Faults
          BY <1>1, <3>4 DEF SnapshotFails, Goto
        <4>2. faults = 0
          BY <3>2, <4>1, BoundAssumption DEF FailsOnce
        <4>3. ~litter
          BY <1>2, <4>2
        <4>4. magic = 0
          <5>1. SUFFICES ASSUME magic # 0 PROVE FALSE
            OBVIOUS
          <5>2. PICK q \in Procs : pc[q] = "take"
            BY <4>3, <5>1 DEF MagicIsTransient
          <5>3. q = p
            BY <2>2, <4>1, <5>2, OnePush
          <5>4. QED
            BY <4>1, <5>2, <5>3
        <4>5. ~Foreign(p)'
          BY <3>1, <4>4 DEF Foreign
        <4>6. QED
          BY <1>2, <2>3, <3>1, <3>2, <4>1, <4>5
      <3>5. CASE HookRefuses(p)
        <4>1. pc'[p] = "take" /\ pc[p] = "receive" /\ saw' = saw
          BY <1>1, <3>5 DEF HookRefuses, Continue, Goto
        <4>2. ~Foreign(p)'
          BY <1>2, <3>1, <4>1 DEF Foreign
        <4>3. QED
          BY <1>2, <2>3, <3>1, <3>2, <4>1, <4>2
      <3>6. QED
        BY <2>6, <3>3, <3>4, <3>5 DEF Waits
    <2>7. CASE Receive(p)
      <3>1. /\ pc[p] = "receive" /\ pc'[p] = "take" /\ req'[p] = Spent(r)
            /\ saw' = saw /\ credit' = credit /\ authored' = authored /\ litter' = litter
            /\ faults' = faults
        BY <1>1, <2>7 DEF Receive, Continue, Goto
      <3>2. ChooseActor(req'[p]) = actor
        BY <3>1, SameActor
      <3>3. \A a \in Actors : sent[a] \subseteq sent'[a]
        BY <2>7 DEF Receive
      <3>4. \A q \in Procs : credit[q] # 0 => ChooseActor(req[q]) \in Actors
        <4>1. SUFFICES ASSUME NEW q \in Procs, credit[q] # 0 PROVE ChooseActor(req[q]) \in Actors
          OBVIOUS
        <4>2. req[q] \in Request /\ ChooseActor(req[q]) # Nobody
          BY <1>1, <4>1 DEF CreditedLate
        <4>3. QED
          BY <4>2, ActorOf
      <3>5. OwnProposals'
        BY <1>2, <2>1, <2>4, <3>1, <3>2, <3>3, <3>4 DEF OwnProposals
      <3>6. \A q \in Procs : pc'[q] \in {"receive", "take"} => q = p
        <4>1. \A q \in Procs : pc[q] \in {"receive", "take"} => q = p
          BY <2>2, <3>1, OnePush
        <4>2. QED
          BY <2>1, <4>1
      <3>7. ASSUME Foreign(p)'
            PROVE  magic' \in sent'[actor]
        <4>1. CASE Lands("for", r)
          <5>1. actor # Nobody /\ actor \in Actors
            <6>1. r \in Request
              BY <1>1
            <6>2. actor # Nobody
              BY <2>7, <4>1 DEF Receive, HookAccepts, Lands
            <6>3. QED
              BY <6>1, <6>2, ActorOf
          <5>2. magic' = PushedTip(r) /\ sent'[actor] = sent[actor] \cup {PushedTip(r)}
            BY <2>7, <4>1, <5>1 DEF Receive
          <5>3. QED
            BY <5>2
        <4>2. CASE ~Lands("for", r)
          <5>1. magic' = magic
            BY <2>7, <4>2 DEF Receive
          <5>2. QED
            BY <1>2, <3>1, <3>7, <5>1 DEF Foreign
        <4>3. QED
          BY <4>1, <4>2
      <3>8. QED
        BY <1>2, <2>4, <3>1, <3>2, <3>5, <3>6, <3>7 DEF ProposalInv
    <2>8. CASE Take(p) \/ TakeFails(p)
      <3>1. /\ pc[p] = "take" /\ pc'[p] \in {"project", "done"} /\ sent' = sent
            /\ req'[p] \in {r, Spent(r)}
        <4>1. CASE Take(p)
          <5>1. PICK s \in {"project", "done"} : Continue(p, s)
            BY <4>1 DEF Take
          <5>2. QED
            BY <1>1, <4>1, <5>1 DEF Take, Continue, Goto
        <4>2. CASE TakeFails(p)
          BY <1>1, <4>2 DEF TakeFails, Goto
        <4>3. QED
          BY <2>8, <4>1, <4>2
      <3>2. ChooseActor(req'[p]) = actor
        BY <3>1, SameActor
      <3>3. \A q \in Procs : pc'[q] \notin {"receive", "take"}
        <4>1. \A q \in Procs : pc[q] \in {"receive", "take"} => q = p
          BY <2>2, <3>1, OnePush
        <4>2. QED
          BY <2>1, <3>1, <4>1
      <3>4. Mine(p) <=> Foreign(p)
        BY DEF Mine, Foreign
      <3>5. /\ authored' \in {authored, [authored EXCEPT ![actor] = magic]}
            /\ authored' # authored => Foreign(p)
        BY <2>8, <3>4 DEF Take, TakeFails
      <3>6. \A a \in Actors : authored'[a] \in {0} \cup sent[a]
        BY <1>1, <1>2, <3>1, <3>5
      <3>7. /\ credit' \in {credit, [credit EXCEPT ![p] = magic]}
            /\ credit' # credit => Foreign(p)
        BY <2>8, <3>4 DEF Take, TakeFails
      <3>8. credit'[p] # 0 => credit'[p] \in sent[actor]
        BY <1>1, <1>2, <3>1, <3>7
      <3>9. OwnProposals'
        BY <1>2, <2>1, <2>4, <3>1, <3>2, <3>6, <3>8 DEF OwnProposals
      <3>10. litter' => faults' > 0
        <4>1. faults \in Nat
          BY DEF IInv, CallType
        <4>2. CASE Take(p)
          BY <1>2, <4>2 DEF Take, Continue
        <4>3. CASE TakeFails(p)
          BY <4>1, <4>3 DEF TakeFails
        <4>4. QED
          BY <2>8, <4>2, <4>3
      <3>11. QED
        BY <3>3, <3>9, <3>10 DEF ProposalInv
    <2>9. CASE Crash(p)
      <3>1. /\ magic' = magic /\ sent' = sent /\ authored' = authored
            /\ credit'[p] = 0 /\ pc'[p] = "idle"
        BY <1>1, <2>9 DEF Crash, Goto, refs
      <3>2. litter' => faults' > 0
        BY <2>9 DEF Crash, IInv, CallType
      <3>3. QED
        BY <2>3, <3>1, <3>2
    <2>10. CASE Cancel(p)
      <3>1. /\ magic' = magic /\ sent' = sent /\ authored' = authored /\ req' = req /\ pc' = pc
            /\ saw' = saw /\ credit' = credit /\ litter' = litter
        BY <2>10 DEF Cancel, refs
      <3>2. faults' > 0
        BY <2>10 DEF Cancel, IInv, CallType
      <3>3. pc[p] = "receive" => ~Foreign(p)'
        BY <1>2, <3>1 DEF Foreign
      <3>4. QED
        BY <2>3, <3>1, <3>2, <3>3
    <2>11. QED
      BY <1>4, <2>5, <2>6, <2>7, <2>8, <2>9, <2>10 DEF StepOf
  <1>5. QED
    BY <1>3, <1>4, StepCases DEF StepOf

\* A proposal is its author's own while no push outlives its handler: what a
\* push is credited with, and what u/<actor>/main names, this actor sent
\* (git_core/mod.rs takes magic references apart in the critical section that
\* received them; magic::snapshot tells the push's own from a leftover).
THEOREM CreditHolds == ASSUME FailsOnce PROVE Spec => []CreditedIsOwn
PROOF
  <1> DEFINE Inv == IInv /\ MagicIsTransient /\ CreditInv
  <1>1. Init => Inv
    <2>1. SUFFICES ASSUME Init PROVE MagicIsTransient /\ CreditInv
      BY InitInv
    <2>2. MagicIsTransient /\ CreditedLate
      BY <2>1 DEF Init, MagicIsTransient, CreditedLate
    <2>3. ProposalInv
      BY <2>1 DEF Init, ProposalInv, OwnProposals
    <2>4. QED
      BY <2>2, <2>3 DEF CreditInv
  <1>2. Inv /\ [Next]_vars => Inv'
    <2>1. SUFFICES ASSUME IInv, MagicIsTransient, CreditInv, [Next]_vars
                   PROVE  IInv' /\ MagicIsTransient' /\ CreditInv'
      OBVIOUS
    <2>2. IInv' /\ MagicIsTransient' /\ CreditedLate'
      BY <2>1, NextInv, MagicStep, CreditStep DEF CreditInv
    <2>3. "push" \notin dropped' => ProposalInv'
      BY <2>1, ProposalStep, DroppedStays DEF CreditInv
    <2>4. QED
      BY <2>2, <2>3 DEF CreditInv
  <1>3. Inv => CreditedIsOwn
    BY DEF CreditInv, ProposalInv, CreditedIsOwn
  <1> HIDE DEF Inv
  <1>4. QED
    BY <1>1, <1>2, <1>3, PTL DEF Spec

-----------------------------------------------------------------------------
(* Where references move *)

\* A write moves main or the call's branch onto a commit that has what was read
\* of that reference among its ancestors.
LEMMA WriteDoes ==
  ASSUME IInv, NEW p \in Procs, Writes(p)
  PROVE  /\ pc[p] = "write" /\ saw[p].branch \in Ids \ {0} /\ saw[p].main \in Ids \ {0}
         /\ \/ \E tip \in Nat : /\ MoveMain(p, tip) /\ tip \in Ids' \ {0}
                                /\ saw[p].main \in Anc(tip)'
            \/ \E tip \in Nat : /\ MoveBranch(p, tip) /\ tip \in Ids' \ {0}
                                /\ saw[p].branch \in Anc(tip)'
                                /\ req[p].kind \in {"update", "commit"}
                                /\ req[p].kind = "commit" => StillThere(p)
PROOF
  <1>1. RefsType /\ CallType /\ Graph /\ Control(p) /\ Known(p) /\ req[p] \in Request
    BY DEF IInv, CallType
  <1>2. Grows
    BY BranchWriteKeeps DEF Writes
  <1>3. /\ pc[p] = "write" /\ req[p].kind \in Guarded
    BY DEF Writes, MergeSquash, MergeForward, MergeCommit, Resolve, UpdateForward, UpdateCommit,
           CommitList, Guarded
  <1>4. /\ saw[p].branch \in Ids \ {0} /\ saw[p].main \in Ids \ {0} /\ saw[p].branch \in Nat
        /\ saw[p].main \in Nat
    BY <1>1, <1>3 DEF Known, CallType
  <1>5. PICK a \in Ids \ {0} : a = saw[p].main
    BY <1>4
  <1>6. PICK b \in Ids \ {0} : b = saw[p].branch
    BY <1>4
  <1>7. /\ a \in Nat /\ b \in Nat /\ a \in Anc(a) /\ b \in Anc(b)
        /\ a \in Ids' /\ b \in Ids' /\ Anc(a)' = Anc(a) /\ Anc(b)' = Anc(b)
    BY <1>1, <1>2, <1>4, <1>5, <1>6, NodeOf DEF Grows
  <1>8. PICK n \in Nat \ {0} : n = New
    BY <1>1, NewIsNew
  <1>9. ASSUME NEW r, Add(r)
        PROVE  n \in Ids' /\ Anc(n)' = r.anc
    <2>1. commits' = Append(commits, r) /\ Len(commits) \in Nat /\ New = Len(commits) + 1
      BY <1>1, <1>9, LenProperties DEF Add, RefsType, New
    <2>2. Len(commits') = New /\ commits'[New] = r
      BY <1>1, <2>1 DEF RefsType
    <2>3. Anc(n)' = commits'[n].anc
      BY <1>8 DEF Anc
    <2>4. QED
      BY <1>1, <1>8, <2>2, <2>3, NewIsNew
  <1>10. CASE \/ MergeSquash(p) \/ MergeCommit(p) \/ Resolve(p)
    <2>1. PICK r : Add(r) /\ Anc(a) \subseteq r.anc /\ MoveMain(p, n)
      BY <1>5, <1>8, <1>10 DEF MergeSquash, MergeCommit, Resolve, Merged
    <2>2. n \in Ids' \ {0} /\ a \in Anc(n)'
      BY <1>7, <1>9, <2>1
    <2>3. QED
      BY <1>3, <1>4, <1>5, <2>1, <2>2
  <1>11. CASE MergeForward(p)
    <2>1. a \in Anc(b) /\ MoveMain(p, b)
      BY <1>5, <1>6, <1>11 DEF MergeForward, Contains
    <2>2. QED
      BY <1>3, <1>4, <1>5, <1>7, <2>1
  <1>12. CASE UpdateForward(p)
    <2>1. b \in Anc(a) /\ MoveBranch(p, a) /\ req[p].kind = "update"
      BY <1>5, <1>6, <1>12 DEF UpdateForward, Contains
    <2>2. QED
      BY <1>3, <1>4, <1>6, <1>7, <2>1
  <1>13. CASE UpdateCommit(p) \/ CommitList(p)
    <2>1. PICK r : Add(r) /\ Anc(b) \subseteq r.anc /\ MoveBranch(p, n)
      BY <1>6, <1>8, <1>13 DEF UpdateCommit, CommitList, Merged
    <2>2. n \in Ids' \ {0} /\ b \in Anc(n)'
      BY <1>7, <1>9, <2>1
    <2>3. req[p].kind \in {"update", "commit"} /\ StillThere(p)
      BY <1>13 DEF UpdateCommit, CommitList
    <2>4. QED
      BY <1>3, <1>4, <1>6, <2>1, <2>2, <2>3
  <1>14. QED
    BY <1>10, <1>11, <1>12, <1>13 DEF Writes

\* Calls that take no guard leave main alone, and so do those that only wait.
LEMMA PlainHeads ==
  ASSUME IInv, NEW p \in Procs,
         \/ Arrives(p) \/ Refuses(p) \/ TakeGuard(p) \/ Waits(p) \/ Reads(p) \/ PlainWrites(p)
  PROVE  heads'["main"] = heads["main"]
PROOF
  <1>1. /\ heads \in [Names -> Nat] /\ "main" \in Names /\ "main" \notin Drafts /\ Control(p)
    BY NameAssumption DEF IInv, RefsType, Names
  <1>2. CASE PlainWrites(p)
    <2>1. pc[p] = "write" /\ (req[p].kind \in {"create", "delete"} \/ heads' = heads)
      BY <1>2 DEF PlainWrites, CreateWrite, DeleteWrite, TagWrite
    <2>2. req[p].name # "main" \/ heads' = heads
      BY <1>1, <2>1 DEF Control, OnDraft
    <2>3. QED
      BY <1>1, <1>2, <2>2 DEF PlainWrites, CreateWrite, DeleteWrite, TagWrite
  <1>3. CASE Arrives(p) \/ Refuses(p) \/ TakeGuard(p) \/ Waits(p) \/ Reads(p)
    BY <1>3, ArrivesIs, RefusesIs DEF Start, Refuse, TakeGuard, Waits, Snapshot, SnapshotFails,
       HookRefuses, Reads, CreateRead, DeleteRead, TagRead, ReadTips, refs
  <1>4. QED
    BY <1>2, <1>3

\* Main moves forward only.
LEMMA MainMoves ==
  ASSUME IInv, [Next]_vars
  PROVE  heads'["main"] = heads["main"] \/ heads["main"] \in Anc(heads["main"])'
PROOF
  <1>1. /\ heads \in [Names -> Nat] /\ "main" \in Names /\ "main" \notin Drafts
        /\ \A p \in Procs : Control(p)
    BY NameAssumption DEF IInv, RefsType, Names
  <1>2. ASSUME NEW tip \in Nat, heads'["main"] = tip, heads["main"] \in Anc(tip)'
        PROVE  heads["main"] \in Anc(heads["main"])'
    BY <1>2 DEF Anc
  <1>3. ASSUME NEW p \in Procs, StepOf(p), heads'["main"] # heads["main"]
        PROVE  heads["main"] \in Anc(heads["main"])'
    <2>1. CASE Receive(p)
      <3>1. PICK tip \in Nat :
               /\ tip = PushedTip(req[p])
               /\ Lands("main", req[p]) => heads["main"] \in Anc(tip)'
        BY <2>1, ReceiveDoes
      <3>2. Lands("main", req[p]) /\ heads'["main"] = tip
        BY <1>1, <1>3, <2>1, <3>1 DEF Receive
      <3>3. QED
        BY <1>2, <3>1, <3>2
    <2>2. CASE Writes(p)
      <3>1. CASE \E tip \in Nat : MoveMain(p, tip) /\ saw[p].main \in Anc(tip)'
        <4>1. PICK tip \in Nat : MoveMain(p, tip) /\ saw[p].main \in Anc(tip)'
          BY <3>1
        <4>2. heads["main"] = saw[p].main /\ heads'["main"] = tip
          BY <1>1, <4>1 DEF MoveMain
        <4>3. QED
          BY <1>2, <4>1, <4>2
      <3>2. CASE \E tip \in Nat : MoveBranch(p, tip) /\ req[p].kind \in {"update", "commit"}
        <4>1. req[p].name # "main"
          BY <1>1, <2>2, <3>2, WriteDoes DEF Control, OnDraft
        <4>2. QED
          BY <1>1, <1>3, <3>2, <4>1 DEF MoveBranch
      <3>3. QED
        BY <2>2, <3>1, <3>2, WriteDoes
    <2>3. CASE \/ Arrives(p) \/ Refuses(p) \/ TakeGuard(p) \/ Waits(p)
               \/ Reads(p) \/ PlainWrites(p)
      BY <1>3, <2>3, PlainHeads
    <2>4. CASE Take(p) \/ TakeFails(p) \/ Project(p) \/ Crash(p) \/ Cancel(p)
      BY <1>3, <2>4 DEF Take, TakeFails, Project, Crash, Cancel, refs
    <2>5. QED
      BY <1>3, <2>1, <2>2, <2>3, <2>4 DEF StepOf
  <1>4. CASE UNCHANGED vars
    BY <1>4 DEF vars, refs
  <1>5. QED
    BY <1>3, <1>4, StepCases DEF StepOf

\* Only a projection moves a version tag: the hook lets no push name one.
LEMMA TagsMoveByProjection ==
  ASSUME IInv, [Next]_vars
  PROVE  vtag' = vtag \/ \E p \in Procs : Project(p)
PROOF
  <1>1. CASE UNCHANGED vars
    BY <1>1 DEF vars, refs
  <1>2. ASSUME NEW p \in Procs, StepOf(p), ~Project(p)
        PROVE  vtag' = vtag
    <2>1. CASE Receive(p)
      BY <2>1 DEF Receive, HookAccepts, NamesVersion, Lands
    <2>2. CASE Writes(p)
      <3>1. (\E tip : MoveMain(p, tip)) \/ (\E tip : MoveBranch(p, tip))
        BY <2>2, WriteDoes
      <3>2. QED
        BY <3>1 DEF MoveMain, MoveBranch
    <2>3. CASE \/ Arrives(p) \/ Refuses(p) \/ TakeGuard(p) \/ Waits(p) \/ Take(p) \/ TakeFails(p)
               \/ Reads(p) \/ PlainWrites(p) \/ Crash(p) \/ Cancel(p)
      BY <2>3, ArrivesIs, RefusesIs DEF Start, Refuse, TakeGuard, Waits, Snapshot,
         SnapshotFails, HookRefuses, Take, TakeFails, Reads, CreateRead, DeleteRead, TagRead,
         ReadTips, PlainWrites, CreateWrite, DeleteWrite, TagWrite, Crash, Cancel, refs
    <2>4. QED
      BY <1>2, <2>1, <2>2, <2>3 DEF StepOf
  <1>3. QED
    BY <1>1, <1>2, StepCases DEF StepOf

\* The next version follows the tags that are there, before a step and after it.
LEMMA CountTo ==
  ASSUME NEW f, NEW k \in 2..MaxVersion, \A v \in 1..MaxVersion : f[v] # 0 <=> v <= k
  PROVE  1 + Cardinality({v \in 1..MaxVersion : f[v] # 0}) = k + 1
PROOF
  <1>1. {v \in 1..MaxVersion : f[v] # 0} = 1..k
    BY BoundAssumption
  <1>2. k \in Nat /\ Cardinality(1..k) = k
    BY BoundAssumption, FS_Interval
  <1>3. 1 + Cardinality({v \in 1..MaxVersion : f[v] # 0}) = 1 + Cardinality(1..k)
    BY <1>1, Zenon
  <1>4. QED
    BY <1>2, <1>3

LEMMA NextAfter ==
  ASSUME NEW k \in 2..MaxVersion
  PROVE  /\ TagsTo(k) => NextVersion = k + 1
         /\ TagsTo(k)' => NextVersion' = k + 1
PROOF
  <1>1. TagsTo(k) => NextVersion = k + 1
    BY CountTo DEF TagsTo, NextVersion
  <1>2. ASSUME TagsTo(k)'
        PROVE  NextVersion' = k + 1
    <2>1. \A v \in 1..MaxVersion : vtag'[v] # 0 <=> v <= k
      BY <1>2 DEF TagsTo
    <2>2. 1 + Cardinality({v \in 1..MaxVersion : vtag'[v] # 0}) = k + 1
      BY <2>1, CountTo
    <2>3. QED
      BY <2>2 DEF NextVersion
  <1>3. QED
    BY <1>1, <1>2

-----------------------------------------------------------------------------
(* Version tags *)

\* Ancestry is transitive in the next state, too.
LEMMA NextTransitive ==
  ASSUME Grows, NEW c \in Ids'
  PROVE  \A a \in Anc(c)' : Anc(a)' \subseteq Anc(c)'
PROOF
  <1>1. Len(commits') \in Nat /\ Graph'
    BY LenProperties DEF Grows
  <1>2. CASE c = 0
    BY <1>2 DEF Anc
  <1>3. CASE c # 0
    <2>1. c \in 1..Len(commits')
      BY <1>1, <1>3 DEF Ids
    <2>2. /\ Anc(c)' = commits'[c].anc
          /\ \A a \in commits'[c].anc : commits'[a].anc \subseteq commits'[c].anc
      BY <1>1, <1>3, <2>1 DEF Graph, Anc
    <2>3. \A a : Anc(a)' \subseteq commits'[a].anc
      BY DEF Anc
    <2>4. QED
      BY <2>2, <2>3
  <1>4. QED
    BY <1>2, <1>3

\* Each tag names a commit of main, later ones later commits, and none is
\* missing before the last.
LEMMA TagStep ==
  ASSUME IInv, TagInv, [Next]_vars
  PROVE  TagInv'
PROOF
  <1>1. /\ vtag \in [1..MaxVersion -> Nat] /\ Graph /\ RefsType /\ HeadsKnown
        /\ "main" \in Names
    BY DEF IInv, RefsType, Names
  <1>2. IInv' /\ Grows
    BY NextInv
  <1>3. /\ heads["main"] \in Ids \ {0} /\ \A v \in 1..MaxVersion : vtag[v] \in Ids
    BY <1>1 DEF HeadsKnown
  <1>4. PICK m \in Ids \ {0} : m = heads["main"]
    BY <1>3
  <1>5. PICK k \in 2..MaxVersion : TagsTo(k)
    BY DEF TagInv
  <1>6. \A v \in 1..MaxVersion : vtag[v] # 0 =>
           /\ vtag[v] \in Anc(m)
           /\ \A w \in 1..(v-1) : vtag[w] # 0 /\ vtag[w] \in Anc(vtag[v])
    BY <1>4 DEF TagInv, VersionTagsAreVersions
  <1>7. PICK m2 : m2 = heads'["main"]
    OBVIOUS
  <1>8. m2 \in Ids'
    BY <1>1, <1>2, <1>7 DEF IInv, HeadsKnown
  <1>9. m \in Anc(m) /\ Anc(m)' = Anc(m) /\ Anc(m) \subseteq Anc(m2)'
    <2>1. m \in Anc(m) /\ Anc(m)' = Anc(m)
      BY <1>1, <1>2, <1>4, NodeOf DEF Grows
    <2>2. m2 = m \/ m \in Anc(m2)'
      BY <1>4, <1>7, MainMoves DEF Anc
    <2>3. \A a \in Anc(m2)' : Anc(a)' \subseteq Anc(m2)'
      BY <1>2, <1>8, NextTransitive
    <2>4. QED
      BY <2>1, <2>2, <2>3
  <1>10. \A c \in Ids : Anc(c)' = Anc(c)
    BY <1>2 DEF Grows
  <1>11. ASSUME NEW j \in 2..MaxVersion, TagsTo(j)',
                \A v \in 1..MaxVersion : vtag'[v] # 0 =>
                   /\ vtag'[v] \in Ids /\ vtag'[v] \in Anc(m)
                   /\ \A w \in 1..(v-1) : vtag'[w] # 0 /\ vtag'[w] \in Anc(vtag'[v])
         PROVE  TagInv'
    <2>1. SUFFICES ASSUME NEW v \in 1..MaxVersion, vtag'[v] # 0
                   PROVE  /\ vtag'[v] \in Anc(heads["main"])'
                          /\ \A w \in 1..(v-1) : vtag'[w] # 0 /\ vtag'[w] \in Anc(vtag[v])'
      BY <1>11 DEF TagInv, VersionTagsAreVersions
    <2>2. PICK c \in Ids : c = vtag'[v]
      BY <1>11, <2>1
    <2>3. Anc(heads["main"])' = Anc(m2)' /\ Anc(vtag[v])' = Anc(c)' /\ Anc(c)' = Anc(c)
      BY <1>7, <1>10, <2>2 DEF Anc
    <2>4. c \in Anc(m) /\ \A w \in 1..(v-1) : vtag'[w] # 0 /\ vtag'[w] \in Anc(c)
      BY <1>11, <2>1, <2>2
    <2>5. QED
      BY <1>9, <2>2, <2>3, <2>4
  <1>12. CASE vtag' = vtag
    <2>1. TagsTo(k)'
      BY <1>5, <1>12 DEF TagsTo
    <2>2. QED
      BY <1>3, <1>6, <1>11, <1>12, <2>1
  <1>13. ASSUME NEW p \in Procs, Project(p), vtag' # vtag
         PROVE  TagInv'
    <2>1. NextVersion = k + 1 /\ k \in Nat
      BY <1>1, <1>5, NextAfter
    <2>2. k + 1 \in 1..MaxVersion /\ vtag' = [vtag EXCEPT ![k + 1] = m]
      BY <1>4, <1>13, <2>1 DEF Project
    <2>3. k + 1 \in 2..MaxVersion /\ MaxVersion \in Nat
      BY <2>1, <2>2, BoundAssumption
    <2>4. \A v \in 1..MaxVersion : vtag'[v] = IF v = k + 1 THEN m ELSE vtag[v]
      BY <1>1, <2>2
    <2>5. \A v \in 1..MaxVersion : vtag[v] # 0 <=> v <= k
      BY <1>5 DEF TagsTo
    <2>6. TagsTo(k + 1)'
      <3>1. \A v \in 1..MaxVersion : vtag'[v] # 0 <=> v <= k + 1
        BY <1>4, <2>1, <2>4, <2>5
      <3>2. QED
        BY <3>1 DEF TagsTo
    <2>7. ASSUME NEW v \in 1..MaxVersion, vtag'[v] # 0
          PROVE  /\ vtag'[v] \in Ids /\ vtag'[v] \in Anc(m)
                 /\ \A w \in 1..(v-1) : vtag'[w] # 0 /\ vtag'[w] \in Anc(vtag'[v])
      <3>1. CASE v = k + 1
        <4>1. \A w \in 1..(v-1) : w \in 1..MaxVersion /\ w <= k /\ w # k + 1
          BY <2>1, <2>3, <3>1
        <4>2. \A w \in 1..(v-1) : vtag'[w] = vtag[w] /\ vtag[w] # 0 /\ vtag[w] \in Anc(m)
          BY <1>6, <2>4, <2>5, <4>1
        <4>3. vtag'[v] = m
          BY <2>4, <3>1
        <4>4. QED
          BY <1>9, <4>2, <4>3
      <3>2. CASE v # k + 1
        <4>1. vtag'[v] = vtag[v] /\ vtag[v] # 0 /\ v <= k
          BY <2>4, <2>5, <2>7, <3>2
        <4>2. \A w \in 1..(v-1) : w \in 1..MaxVersion /\ w # k + 1
          BY <2>1, <2>3, <4>1
        <4>3. QED
          BY <1>3, <1>6, <2>4, <4>1, <4>2
      <3>3. QED
        BY <3>1, <3>2
    <2>8. QED
      BY <1>11, <2>3, <2>6, <2>7
  <1>14. QED
    BY <1>12, <1>13, TagsMoveByProjection

\* The initial tags are the two versions'.
LEMMA TagInit == Init => TagInv
PROOF
  <1> SUFFICES ASSUME Init PROVE TagInv
    OBVIOUS
  <1> DEFINE a == [anc |-> {1}, work |-> {1}, lost |-> {}]
  <1> DEFINE b == [anc |-> {1, 2}, work |-> {1, 2}, lost |-> {}]
  <1> DEFINE c == [anc |-> {1, 3}, work |-> {1, 3}, lost |-> {}]
  <1>1. commits = <<a, b, c>> /\ a.anc = {1} /\ b.anc = {1, 2}
    BY DEF Init
  <1> HIDE DEF a, b, c
  <1>2. Anc(1) = {1} /\ Anc(2) = {1, 2}
    BY <1>1 DEF Anc
  <1>3. \A v \in 1..MaxVersion : vtag[v] = IF v <= 2 THEN v ELSE 0
    BY DEF Init
  <1>4. heads["main"] = 2
    BY DEF Init, Names
  <1>5. TagsTo(2) /\ 2 \in 2..MaxVersion
    BY <1>3, BoundAssumption DEF TagsTo
  <1>6. ASSUME NEW v \in 1..MaxVersion, vtag[v] # 0
        PROVE  /\ vtag[v] \in Anc(2)
               /\ \A w \in 1..(v-1) : vtag[w] # 0 /\ vtag[w] \in Anc(vtag[v])
    <2>1. v \in {1, 2} /\ vtag[v] = v
      BY <1>3, <1>6
    <2>2. CASE v = 1
      BY <1>2, <2>1, <2>2
    <2>3. CASE v = 2
      <3>1. \A w \in 1..(v-1) : w = 1
        BY <2>3
      <3>2. vtag[1] = 1
        BY <1>3, BoundAssumption
      <3>3. QED
        BY <1>2, <2>1, <2>3, <3>1, <3>2
    <2>4. QED
      BY <2>1, <2>2, <2>3
  <1>7. QED
    BY <1>4, <1>5, <1>6 DEF TagInv, VersionTagsAreVersions

\* Version tags are the core's: each names a commit of main, later versions later
\* commits, whatever pushes name and whatever fails (the hook's reserved names,
\* is_version_tag, and a main that only moves forward).
THEOREM TagsHold == Spec => []VersionTagsAreVersions
PROOF
  <1>1. Init => IInv /\ TagInv
    BY InitInv, TagInit
  <1>2. (IInv /\ TagInv) /\ [Next]_vars => (IInv /\ TagInv)'
    BY NextInv, TagStep
  <1>3. TagInv => VersionTagsAreVersions
    BY DEF TagInv
  <1>4. QED
    BY <1>1, <1>2, <1>3, PTL DEF Spec

-----------------------------------------------------------------------------
(* Every move of main is versioned *)

\* Without faults nobody outlives its handler: who is past its lock holds it.
LEMMA HoldsGuard ==
  ASSUME IInv, faults = 0, NEW p \in Procs, req[p].kind \in Guarded, pc[p] # "lock"
  PROVE  guard = p /\ ~orphan[p]
PROOF
  <1>1. Control(p) /\ faults \in Nat
    BY DEF IInv, CallType
  <1>2. ~orphan[p]
    BY <1>1 DEF Control
  <1>3. QED
    BY <1>1, <1>2 DEF Control

\* Main carries its tag, or the call that moved it is on its way to set it.
LEMMA MoveStep ==
  ASSUME IInv, TagInv, MoveInv, [Next]_vars, faults' = 0, vtag'[MaxVersion] = 0
  PROVE  MoveInv'
PROOF
  <1>1. /\ pc \in [Procs -> Steps] /\ req \in [Procs -> Request]
        /\ saw \in [Procs -> [branch : Nat, main : Nat, magic : Nat]]
        /\ heads \in [Names -> Nat] /\ vtag \in [1..MaxVersion -> Nat] /\ "main" \in Names
        /\ faults \in Nat /\ \A p \in Procs : Control(p)
    BY DEF IInv, CallType, RefsType, Names
  <1>2. PICK k \in 2..MaxVersion : TagsTo(k)
    BY DEF TagInv
  <1>3. NextVersion = k + 1 /\ k \in Nat /\ MaxVersion \in Nat \ {0, 1} /\ k \in 1..MaxVersion
    BY <1>2, NextAfter, BoundAssumption
  <1>4. CASE UNCHANGED vars
    BY <1>4 DEF vars, refs, MoveInv, Owes, NextVersion
  <1>5. ASSUME NEW p \in Procs, StepOf(p)
        PROVE  MoveInv'
    <2>1. faults = 0 /\ ~Crash(p) /\ ~Cancel(p) /\ ~TakeFails(p) /\ ~SnapshotFails(p)
      <3>1. ASSUME Crash(p) \/ Cancel(p) \/ TakeFails(p) \/ SnapshotFails(p)
            PROVE  FALSE
        <4>1. faults' = faults + 1
          BY <3>1 DEF Crash, Cancel, TakeFails, SnapshotFails
        <4>2. QED
          BY <1>1, <4>1
      <3>2. faults' = faults
        BY <1>5, <3>1, ZenonT(60) DEF StepOf, Arrives, StartPush, StartCreate, StartDelete, StartTag,
           StartMerge, StartUpdate, StartCommit, StartResolve, Start, Refuses, CreateRefused,
           DeleteRefused, TagRefused, NothingToDo, WriteRefused, Answer, Refuse, TakeGuard,
           Waits, Snapshot, HookRefuses, Receive, Take, Reads,
           CreateRead, DeleteRead, TagRead, ReadTips, PlainWrites, CreateWrite, DeleteWrite,
           TagWrite, Writes, MergeSquash, MergeForward, MergeCommit, Resolve, UpdateForward,
           UpdateCommit, CommitList, MoveMain, MoveBranch, Project, Finish, Continue
      <3>3. QED
        BY <3>1, <3>2
    <2>2. k < MaxVersion
      <3>1. vtag[MaxVersion] = 0
        <4>1. CASE vtag' = vtag
          BY <4>1
        <4>2. CASE vtag' # vtag
          <5>1. k + 1 \in 1..MaxVersion
            BY <1>3, <4>2, TagsMoveByProjection DEF Project
          <5>2. QED
            BY <1>2, <1>3, <5>1 DEF TagsTo
        <4>3. QED
          BY <4>1, <4>2
      <3>2. QED
        BY <1>2, <1>3, <3>1 DEF TagsTo
    <2>3. vtag[MaxVersion] = 0
      BY <1>2, <1>3, <2>2 DEF TagsTo
    <2>4. /\ vtag[k] = heads["main"] \/ \E q \in Procs : Owes(q)
          /\ \A q \in Procs : pc[q] = "receive" => saw[q].main = heads["main"]
      BY <1>3, <2>1, <2>3 DEF MoveInv
    <2>5. \A q \in Procs : q # p =>
             /\ pc'[q] = pc[q] /\ saw'[q] = saw[q] /\ (guard = q => guard' = q)
      BY <1>5, Others
    <2>6. \A q \in Procs : pc[q] \in {"receive", "take", "project"} => guard = q /\ ~orphan[q]
      BY <1>1, <2>1, HoldsGuard DEF Control, Guarded
    <2>7. ASSUME vtag' = vtag
          PROVE  NextVersion' = NextVersion
      BY <2>7 DEF NextVersion
    <2>8. ASSUME vtag' = vtag, heads'["main"] = heads["main"],
                 Owes(p) => Owes(p)', pc'[p] = "receive" => saw'[p].main = heads["main"]
          PROVE  MoveInv'
      <3>1. \A q \in Procs : Owes(q) => Owes(q)'
        BY <2>5, <2>8 DEF Owes
      <3>2. \A q \in Procs : pc'[q] = "receive" => saw'[q].main = heads'["main"]
        BY <2>4, <2>5, <2>8
      <3>3. vtag'[k] = heads'["main"] \/ \E q \in Procs : Owes(q)'
        BY <2>4, <2>8, <3>1
      <3>4. NextVersion' - 1 = k
        BY <1>3, <2>7, <2>8
      <3>5. QED
        BY <3>2, <3>3, <3>4 DEF MoveInv
    <2>9. ASSUME vtag' = vtag, Owes(p)', \A q \in Procs : pc'[q] = "receive" => q = p,
                 pc'[p] # "receive"
          PROVE  MoveInv'
      BY <2>9 DEF MoveInv
    <2>10. CASE Arrives(p) \/ Refuses(p) \/ TakeGuard(p) \/ Waits(p) \/ Reads(p) \/ PlainWrites(p)
      <3>1. vtag' = vtag
        BY <2>10, ArrivesIs, RefusesIs DEF Start, Refuse, TakeGuard, Waits, Snapshot,
           SnapshotFails, HookRefuses, Reads, CreateRead, DeleteRead, TagRead, ReadTips,
           PlainWrites, CreateWrite, DeleteWrite, TagWrite, refs
      <3>2. heads'["main"] = heads["main"]
        BY <1>1, <2>10, PlainHeads
      <3>3. pc[p] \notin {"take", "project"}
        BY <2>10, ArrivesIs, RefusesIs DEF Start, TakeGuard, Waits, Snapshot, SnapshotFails,
           HookRefuses, Reads, CreateRead, DeleteRead, TagRead, ReadTips, PlainWrites,
           CreateWrite, DeleteWrite, TagWrite
      <3>4. pc'[p] = "receive" => Snapshot(p)
        <4>1. CASE Arrives(p)
          <5>1. PICK r : Start(p, r)
            BY <4>1, ArrivesIs
          <5>2. QED
            BY <1>1, <5>1 DEF Start, Goto
        <4>2. CASE Refuses(p)
          BY <1>1, <4>2, RefusesIs DEF Refuse, Finish, Goto
        <4>3. CASE TakeGuard(p)
          BY <1>1, <4>3 DEF TakeGuard, Goto
        <4>4. CASE Waits(p)
          BY <1>1, <2>1, <4>4 DEF Waits, HookRefuses, Continue, Goto
        <4>5. CASE Reads(p)
          BY <1>1, <4>5 DEF Reads, CreateRead, DeleteRead, TagRead, ReadTips, Continue, Goto
        <4>6. CASE PlainWrites(p)
          BY <1>1, <4>6 DEF PlainWrites, CreateWrite, DeleteWrite, TagWrite, Finish, Goto
        <4>7. QED
          BY <2>10, <4>1, <4>2, <4>3, <4>4, <4>5, <4>6
      <3>5. Snapshot(p) => saw'[p].main = heads["main"]
        BY <1>1 DEF Snapshot, NoSight
      <3>6. QED
        BY <2>8, <3>1, <3>2, <3>3, <3>4, <3>5 DEF Owes
    <2>11. CASE Receive(p)
      <3>1. /\ pc[p] = "receive" /\ pc'[p] = "take" /\ saw' = saw /\ guard' = guard
        BY <1>1, <2>11 DEF Receive, Continue, Goto
      <3>2. guard = p /\ saw[p].main = heads["main"] /\ vtag' = vtag
        BY <2>4, <2>6, <2>11, <3>1 DEF Receive, HookAccepts, NamesVersion, Lands
      <3>3. CASE heads'["main"] = heads["main"]
        BY <2>8, <3>1, <3>2, <3>3 DEF Owes
      <3>4. CASE heads'["main"] # heads["main"]
        <4>1. Owes(p)'
          BY <3>1, <3>2, <3>4 DEF Owes
        <4>2. \A q \in Procs : pc'[q] = "receive" => q = p
          BY <2>5, <2>6, <3>2
        <4>3. QED
          BY <2>9, <3>1, <3>2, <4>1, <4>2
      <3>5. QED
        BY <3>3, <3>4
    <2>12. CASE Take(p)
      <3>1. /\ pc[p] = "take" /\ heads' = heads /\ vtag' = vtag /\ guard' = guard
            /\ pc'[p] = IF Moved(p) /\ ~orphan[p] THEN "project" ELSE "done"
        BY <1>1, <2>12 DEF Take, Continue, Goto
      <3>2. guard = p /\ ~orphan[p]
        BY <2>6, <3>1
      <3>3. Owes(p) => Owes(p)'
        BY <3>1, <3>2 DEF Owes, Moved
      <3>4. QED
        BY <2>8, <3>1, <3>3
    <2>13. CASE Writes(p)
      <3>1. pc[p] = "write" /\ guard = p /\ ~orphan[p]
        <4>1. req[p].kind \in Guarded /\ pc[p] = "write"
          BY <2>13 DEF Writes, MergeSquash, MergeForward, MergeCommit, Resolve, UpdateForward,
             UpdateCommit, CommitList, Guarded
        <4>2. QED
          BY <2>1, <4>1, HoldsGuard
      <3>2. CASE \E tip \in Nat : MoveMain(p, tip)
        <4>1. /\ pc'[p] = "project" /\ guard' = guard /\ vtag' = vtag
          BY <1>1, <3>1, <3>2 DEF MoveMain, Continue, Goto
        <4>2. \A q \in Procs : pc'[q] = "receive" => q = p
          BY <2>5, <2>6, <3>1
        <4>3. Owes(p)'
          BY <3>1, <4>1 DEF Owes
        <4>4. QED
          BY <2>9, <4>1, <4>2, <4>3
      <3>3. CASE \E tip \in Nat : MoveBranch(p, tip) /\ req[p].kind \in {"update", "commit"}
        <4>1. /\ pc'[p] = "idle" /\ vtag' = vtag
          BY <1>1, <3>3 DEF MoveBranch, Finish, Goto
        <4>2. req[p].name # "main"
          BY <1>1, <3>1, <3>3, NameAssumption DEF Control, OnDraft
        <4>3. heads'["main"] = heads["main"]
          BY <1>1, <3>3, <4>2 DEF MoveBranch
        <4>4. QED
          BY <2>8, <3>1, <4>1, <4>3 DEF Owes
      <3>4. QED
        BY <2>13, <3>2, <3>3, WriteDoes
    <2>14. CASE Project(p)
      <3>1. /\ heads' = heads /\ pc'[p] = "done"
            /\ vtag' = [vtag EXCEPT ![k + 1] = heads["main"]]
        BY <1>1, <1>3, <2>2, <2>14 DEF Project, Continue, Goto
      <3>2. k + 1 \in 2..MaxVersion /\ k + 1 \in 1..MaxVersion /\ k + 1 \in Nat
        BY <1>3, <2>2
      <3>3. heads["main"] # 0
        BY DEF IInv, HeadsKnown
      <3>4. \A v \in 1..MaxVersion : vtag'[v] # 0 <=> v <= k + 1
        BY <1>1, <1>2, <1>3, <3>1, <3>3 DEF TagsTo
      <3>5. TagsTo(k + 1)'
        BY <3>4 DEF TagsTo
      <3>6. NextVersion' = (k + 1) + 1
        BY <3>2, <3>5, NextAfter
      <3>7. NextVersion' - 1 = k + 1 /\ vtag'[k + 1] = heads'["main"]
        BY <1>1, <3>1, <3>2, <3>6
      <3>8. \A q \in Procs : pc'[q] = "receive" => saw'[q].main = heads'["main"]
        BY <2>4, <2>5, <3>1
      <3>9. QED
        BY <3>7, <3>8 DEF MoveInv
    <2>15. QED
      BY <1>5, <2>1, <2>10, <2>11, <2>12, <2>13, <2>14 DEF StepOf
  <1>6. QED
    BY <1>4, <1>5, StepCases DEF StepOf

\* While nothing fails, every move of main is versioned by whichever call moved
\* it, also when the same push carries a proposal, for as long as the model's
\* bound leaves a version to give (receive-pack, merges and resolved merges all
\* project in the critical section that moved main).
THEOREM MovesAreVersioned == Spec => [](vtag[MaxVersion] = 0 => EveryMoveIsVersioned)
PROOF
  <1> DEFINE Inv == IInv /\ TagInv /\ MoveInv
  <1>1. Init => Inv
    <2>1. SUFFICES ASSUME Init PROVE MoveInv
      BY InitInv, TagInit
    <2>2. TagsTo(2) /\ 2 \in 2..MaxVersion
      BY <2>1, BoundAssumption DEF Init, TagsTo
    <2>3. NextVersion = 3
      BY <2>2, NextAfter
    <2>4. vtag[2] = 2 /\ heads["main"] = 2 /\ \A p \in Procs : pc[p] = "idle"
      BY <2>1, BoundAssumption DEF Init, Names
    <2>5. QED
      BY <2>3, <2>4 DEF MoveInv
  <1>2. Inv /\ [Next]_vars => Inv'
    <2>1. SUFFICES ASSUME IInv, TagInv, MoveInv, [Next]_vars
                   PROVE  IInv' /\ TagInv' /\ MoveInv'
      OBVIOUS
    <2>2. IInv' /\ TagInv'
      BY <2>1, NextInv, TagStep
    <2>3. faults' = 0 /\ vtag'[MaxVersion] = 0 => MoveInv'
      BY <2>1, MoveStep
    <2>4. MoveInv'
      BY <2>3 DEF MoveInv
    <2>5. QED
      BY <2>2, <2>4
  <1>3. Inv => (vtag[MaxVersion] = 0 => EveryMoveIsVersioned)
    BY DEF MoveInv, EveryMoveIsVersioned, Owes
  <1> HIDE DEF Inv
  <1>4. QED
    BY <1>1, <1>2, <1>3, PTL DEF Spec

-----------------------------------------------------------------------------
(* What is owed to a draft *)

\* A call comes to its write only by a read, and stays there only if it is its
\* handler that goes away.
LEMMA ComesToWrite ==
  ASSUME IInv, NEW p \in Procs, StepOf(p), pc'[p] = "write"
  PROVE  /\ req'[p] = req[p]
         /\ \/ Reads(p)
            \/ Cancel(p) /\ pc[p] = "write" /\ saw'[p] = saw[p]
PROOF
  <1>1. pc \in [Procs -> Steps] /\ req \in [Procs -> Request]
    BY DEF IInv, CallType
  <1>2. CASE Reads(p)
    <2>1. Continue(p, "write")
      BY <1>2 DEF Reads, CreateRead, DeleteRead, TagRead, ReadTips
    <2>2. QED
      BY <1>2, <2>1 DEF Continue
  <1>3. CASE Cancel(p)
    BY <1>3 DEF Cancel
  <1>4. CASE Arrives(p)
    <2>1. PICK r : Start(p, r)
      BY <1>4, ArrivesIs
    <2>2. QED
      BY <1>1, <2>1 DEF Start, Goto
  <1>5. CASE Refuses(p) \/ PlainWrites(p)
    <2>1. Finish(p)
      BY <1>5, RefusesIs DEF Refuse, PlainWrites, CreateWrite, DeleteWrite, TagWrite
    <2>2. QED
      BY <1>1, <2>1 DEF Finish, Goto
  <1>6. CASE TakeGuard(p)
    BY <1>1, <1>6 DEF TakeGuard, Goto
  <1>7. CASE Waits(p) \/ Receive(p) \/ TakeFails(p) \/ Project(p) \/ Crash(p)
    BY <1>1, <1>7 DEF Waits, Snapshot, SnapshotFails, HookRefuses, Receive, TakeFails, Project,
                     Crash, Continue, Goto
  <1>8. CASE Take(p)
    <2>1. PICK s \in {"project", "done"} : Continue(p, s)
      BY <1>8 DEF Take
    <2>2. QED
      BY <1>1, <2>1 DEF Continue, Goto
  <1>9. CASE Writes(p)
    <2>1. (\E tip : MoveMain(p, tip)) \/ (\E tip : MoveBranch(p, tip))
      BY <1>9, WriteDoes
    <2>2. Finish(p) \/ Continue(p, "project")
      BY <2>1 DEF MoveMain, MoveBranch
    <2>3. QED
      BY <1>1, <2>2 DEF Finish, Continue, Goto
  <1>10. QED
    BY <1>2, <1>3, <1>4, <1>5, <1>6, <1>7, <1>8, <1>9 DEF StepOf

\* A draft holds what is owed to it, and a call that will force it has read a
\* tip that held it.
LEMMA KeptStep ==
  ASSUME IInv, KeptInv, [Next]_vars, dropped' \cap {"update", "push"} = {}
  PROVE  KeptInv'
PROOF
  <1>1. /\ pc \in [Procs -> Steps] /\ req \in [Procs -> Request]
        /\ saw \in [Procs -> [branch : Nat, main : Nat, magic : Nat]]
        /\ heads \in [Names -> Nat] /\ kept \in [Drafts -> Nat]
        /\ Drafts \subseteq Names /\ "main" \notin Drafts
        /\ RefsType /\ Graph /\ (\A n \in Names : heads[n] \in Ids)
        /\ \A p \in Procs : Control(p) /\ Known(p)
    BY NameAssumption DEF IInv, CallType, GhostType, RefsType, Names, HeadsKnown
  <1>2. IInv' /\ Grows
    BY NextInv
  <1>3. \A c \in Ids : c \in Ids' /\ Anc(c)' = Anc(c)
    BY <1>2 DEF Grows
  <1>4. dropped \cap {"update", "push"} = {}
    BY DroppedStays
  <1>5. /\ \A d \in Drafts : kept[d] # 0 => kept[d] \in Anc(heads[d])
        /\ \A p \in Procs : Forces(p) /\ kept[req[p].name] # 0 =>
              kept[req[p].name] \in Anc(saw[p].branch)
    BY <1>4 DEF KeptInv
  <1>6. \A p \in Procs : saw[p].branch \in Ids
    BY <1>1 DEF Known
  <1>7. CASE UNCHANGED vars
    BY <1>5, <1>7 DEF vars, refs, ghosts, KeptInv, Forces, Anc
  <1>8. ASSUME NEW p \in Procs, StepOf(p)
        PROVE  KeptInv'
    <2>1. \A q \in Procs : q # p => pc'[q] = pc[q] /\ req'[q] = req[q] /\ saw'[q] = saw[q]
      BY <1>8, Others
    <2>2. ASSUME \A d \in Drafts : kept'[d] # 0 =>
                    \/ kept'[d] = kept[d] /\ heads'[d] = heads[d]
                    \/ \E c \in Ids' : c = heads'[d] /\ kept'[d] \in Anc(c)',
                 \A q \in Procs : Forces(q)' /\ kept'[req'[q].name] # 0 =>
                    \E c \in Ids : c = saw'[q].branch /\ kept'[req'[q].name] \in Anc(c)
          PROVE  KeptInv'
      <3>1. ASSUME NEW d \in Drafts, kept'[d] # 0
            PROVE  kept'[d] \in Anc(heads[d])'
        <4>1. CASE kept'[d] = kept[d] /\ heads'[d] = heads[d]
          <5>1. PICK c \in Ids : c = heads[d]
            BY <1>1
          <5>2. kept[d] \in Anc(c) /\ Anc(c)' = Anc(c)
            BY <1>3, <1>5, <3>1, <4>1, <5>1
          <5>3. Anc(heads[d])' = Anc(c)'
            BY <4>1, <5>1 DEF Anc
          <5>4. QED
            BY <4>1, <5>2, <5>3
        <4>2. CASE \E c \in Ids' : c = heads'[d] /\ kept'[d] \in Anc(c)'
          BY <4>2 DEF Anc
        <4>3. QED
          BY <2>2, <3>1, <4>1, <4>2
      <3>2. ASSUME NEW q \in Procs, Forces(q)', kept'[req'[q].name] # 0
            PROVE  kept'[req'[q].name] \in Anc(saw[q].branch)'
        <4>1. PICK c \in Ids : c = saw'[q].branch /\ kept'[req'[q].name] \in Anc(c)
          BY <2>2, <3>2
        <4>2. Anc(saw[q].branch)' = Anc(c)' /\ Anc(c)' = Anc(c)
          BY <1>3, <4>1 DEF Anc
        <4>3. QED
          BY <4>1, <4>2
      <3>3. QED
        BY <3>1, <3>2 DEF KeptInv
    <2>3. ASSUME NEW q \in Procs, Forces(q)', kept'[req'[q].name] # 0,
                 \A d \in Drafts : kept'[d] # 0 => kept'[d] = kept[d]
          PROVE  \E c \in Ids : c = saw'[q].branch /\ kept'[req'[q].name] \in Anc(c)
      <3>1. pc'[q] = "write" /\ req'[q].kind = "update"
        BY <2>3 DEF Forces
      <3>2. CASE pc[q] = "write" /\ req'[q] = req[q] /\ saw'[q] = saw[q]
        <4>1. req[q].name \in Drafts
          BY <1>1, <3>1, <3>2 DEF Control, OnDraft
        <4>2. kept'[req'[q].name] = kept[req[q].name] /\ Forces(q)
          BY <2>3, <3>1, <3>2, <4>1 DEF Forces
        <4>3. QED
          BY <1>5, <1>6, <2>3, <3>2, <4>2
      <3>3. CASE q = p /\ Reads(p)
        <4>1. req'[p] = req[p] /\ req[p].kind = "update"
          BY <1>8, <3>1, <3>3, ComesToWrite
        <4>2. ReadTips(p)
          BY <3>3, <4>1 DEF Reads, CreateRead, DeleteRead, TagRead
        <4>3. saw'[p].branch = heads[req[p].name] /\ pc[p] = "read"
          BY <1>1, <4>2 DEF ReadTips, Tips, NoSight
        <4>4. req[p].name \in Drafts
          BY <1>1, <4>1, <4>3 DEF Control, OnDraft
        <4>5. kept[req[p].name] \in Anc(heads[req[p].name]) /\ heads[req[p].name] \in Ids
          BY <1>1, <1>5, <2>3, <3>3, <4>1, <4>4
        <4>6. QED
          BY <2>3, <3>3, <4>1, <4>3, <4>4, <4>5
      <3>4. QED
        BY <1>8, <2>1, <3>1, <3>2, <3>3, ComesToWrite
    <2>4. ASSUME kept' = kept, \A d \in Drafts : kept[d] # 0 => heads'[d] = heads[d]
          PROVE  KeptInv'
      BY <2>2, <2>3, <2>4
    <2>5. CASE Receive(p)
      <3>1. pc[p] = "receive" /\ req[p].kind = "push" /\ guard = p
        BY <1>1, <1>4, <2>5 DEF Receive, Control, Guarded
      <3>2. PICK tip \in Nat : tip = PushedTip(req[p]) /\ tip \in Ids'
        BY <2>5, ReceiveDoes
      <3>3. \A d \in Drafts : /\ kept'[d] = IF Lands(d, req[p]) THEN tip ELSE kept[d]
                              /\ heads'[d] = IF Lands(d, req[p]) THEN tip ELSE heads[d]
        BY <1>1, <2>5, <3>2 DEF Receive
      <3>4. tip # 0 => tip \in Anc(tip)'
        <4>1. Len(commits') \in Nat /\ Graph'
          BY <1>2, LenProperties DEF Grows
        <4>2. QED
          BY <3>2, <4>1 DEF Ids, Graph, Anc
      <3>5. \A q \in Procs : ~Forces(q)'
        <4>1. SUFFICES ASSUME NEW q \in Procs, Forces(q)' PROVE FALSE
          OBVIOUS
        <4>2. pc'[p] = "take"
          BY <1>1, <2>5 DEF Receive, Continue, Goto
        <4>3. q # p
          BY <4>1, <4>2 DEF Forces
        <4>4. pc[q] = "write" /\ req[q].kind = "update"
          BY <2>1, <4>1, <4>3 DEF Forces
        <4>5. guard = q
          BY <1>1, <1>4, <4>4 DEF Control, Guarded
        <4>6. QED
          BY <3>1, <4>3, <4>5
      <3>6. QED
        BY <2>2, <3>2, <3>3, <3>4, <3>5
    <2>6. CASE Writes(p)
      <3>1. PICK b \in Ids : b = saw[p].branch
        BY <1>6
      <3>2. pc[p] = "write"
        BY <2>6, WriteDoes
      <3>3. CASE \E tip \in Nat : MoveMain(p, tip)
        <4>1. kept' = kept /\ \A d \in Drafts : heads'[d] = heads[d]
          BY <1>1, <3>3 DEF MoveMain
        <4>2. QED
          BY <2>4, <4>1
      <3>4. CASE \E tip \in Nat : /\ MoveBranch(p, tip) /\ tip \in Ids' \ {0}
                                  /\ saw[p].branch \in Anc(tip)'
                                  /\ req[p].kind \in {"update", "commit"}
                                  /\ req[p].kind = "commit" => StillThere(p)
        <4>1. PICK tip \in Nat : /\ MoveBranch(p, tip) /\ tip \in Ids' \ {0}
                                 /\ saw[p].branch \in Anc(tip)'
                                 /\ req[p].kind \in {"update", "commit"}
                                 /\ req[p].kind = "commit" => StillThere(p)
          BY <3>4
        <4>2. PICK n \in Drafts : n = req[p].name
          BY <1>1, <3>2, <4>1 DEF Control, OnDraft
        <4>3. kept' = kept /\ heads' = [heads EXCEPT ![n] = tip]
          BY <4>1, <4>2 DEF MoveBranch
        <4>4. kept[n] # 0 => kept[n] \in Anc(b)
          <5>1. CASE req[p].kind = "update"
            BY <1>5, <3>1, <3>2, <4>2, <5>1 DEF Forces
          <5>2. CASE req[p].kind = "commit"
            <6>1. heads[n] = 0 \/ heads[n] = b
              BY <3>1, <4>1, <4>2, <5>2 DEF StillThere
            <6>2. kept[n] # 0 => kept[n] \in Anc(heads[n])
              BY <1>5
            <6>3. QED
              BY <6>1, <6>2 DEF Anc
          <5>3. QED
            BY <4>1, <5>1, <5>2
        <4>5. Anc(b) \subseteq Anc(tip)'
          <5>1. Anc(b)' \subseteq Anc(tip)'
            BY <1>2, <3>1, <4>1, NextTransitive
          <5>2. QED
            BY <1>3, <3>1, <5>1
        <4>6. \A d \in Drafts : kept'[d] # 0 =>
                    \/ kept'[d] = kept[d] /\ heads'[d] = heads[d]
                    \/ \E c \in Ids' : c = heads'[d] /\ kept'[d] \in Anc(c)'
          BY <1>1, <4>1, <4>3, <4>4, <4>5
        <4>7. QED
          BY <2>2, <2>3, <4>3, <4>6
      <3>5. QED
        BY <2>6, <3>3, <3>4, WriteDoes
    <2>7. CASE PlainWrites(p)
      <3>1. CASE CreateWrite(p)
        <4>1. PICK n \in Drafts : n = req[p].name
          BY <1>1, <3>1 DEF CreateWrite, Control, OnDraft
        <4>2. heads[n] = 0
          BY <3>1, <4>1 DEF CreateWrite
        <4>3. kept[n] = 0
          BY <1>5, <4>2 DEF Anc
        <4>4. kept' = kept /\ \A d \in Drafts : d # n => heads'[d] = heads[d]
          BY <1>1, <3>1, <4>1 DEF CreateWrite
        <4>5. QED
          BY <2>4, <4>3, <4>4
      <3>2. CASE DeleteWrite(p)
        <4>1. PICK n \in Drafts : n = req[p].name
          BY <1>1, <3>2 DEF DeleteWrite, Control, OnDraft
        <4>2. \A d \in Drafts : kept'[d] # 0 => kept'[d] = kept[d] /\ heads'[d] = heads[d]
          BY <1>1, <3>2, <4>1 DEF DeleteWrite
        <4>3. QED
          BY <2>2, <2>3, <4>2
      <3>3. CASE TagWrite(p)
        BY <2>4, <3>3 DEF TagWrite
      <3>4. QED
        BY <2>7, <3>1, <3>2, <3>3 DEF PlainWrites
    <2>8. CASE \/ Arrives(p) \/ Refuses(p) \/ TakeGuard(p) \/ Waits(p) \/ Take(p) \/ TakeFails(p)
               \/ Reads(p) \/ Project(p) \/ Crash(p) \/ Cancel(p)
      <3>1. heads' = heads /\ kept' = kept
        BY <2>8, ArrivesIs, RefusesIs DEF Start, Refuse, TakeGuard, Waits, Snapshot,
           SnapshotFails, HookRefuses, Take, TakeFails, Reads, CreateRead, DeleteRead, TagRead,
           ReadTips, Project, Crash, Cancel, refs, ghosts
      <3>2. QED
        BY <2>4, <3>1
    <2>9. QED
      BY <1>8, <2>5, <2>6, <2>7, <2>8 DEF StepOf
  <1>9. QED
    BY <1>7, <1>8, StepCases DEF StepOf

\* What was pushed to a draft stays in it until somebody pushes over it or
\* deletes it, as long as no push and no update_branch outlives its handler
\* (update_branch and commit_to_branch read the tip under the guard; repo.commit
\* refuses a reference that moved).
THEOREM DraftsHold == Spec => []PushedDraftIsKept
PROOF
  <1>1. Init => IInv /\ KeptInv
    <2>1. Init => KeptInv
      BY DEF Init, KeptInv, Forces
    <2>2. QED
      BY <2>1, InitInv
  <1>2. (IInv /\ KeptInv) /\ [Next]_vars => (IInv /\ KeptInv)'
    <2>1. SUFFICES ASSUME IInv, KeptInv, [Next]_vars PROVE IInv' /\ KeptInv'
      OBVIOUS
    <2>2. dropped' \cap {"update", "push"} = {} => KeptInv'
      BY <2>1, KeptStep
    <2>3. KeptInv'
      BY <2>2 DEF KeptInv
    <2>4. QED
      BY <2>1, <2>3, NextInv
  <1>3. KeptInv => PushedDraftIsKept
    BY DEF KeptInv, PushedDraftIsKept
  <1>4. QED
    BY <1>1, <1>2, <1>3, PTL DEF Spec

-----------------------------------------------------------------------------
(* Strict edits *)

\* An edit sent with its tip comes to its write only if it has read that tip.
LEMMA StrictStep ==
  ASSUME IInv, StrictInv, [Next]_vars
  PROVE  StrictInv'
PROOF
  <1>1. /\ pc \in [Procs -> Steps] /\ req \in [Procs -> Request]
        /\ saw \in [Procs -> [branch : Nat, main : Nat, magic : Nat]]
    BY DEF IInv, CallType
  <1>2. CASE UNCHANGED vars
    BY <1>2 DEF vars, StrictInv
  <1>3. ASSUME NEW p \in Procs, StepOf(p), NEW q \in Procs,
               pc'[q] = "write", req'[q].kind = "commit", req'[q].strict
        PROVE  saw'[q].branch = req'[q].base
    <2>1. CASE pc[q] = "write" /\ req'[q] = req[q] /\ saw'[q] = saw[q]
      BY <1>3, <2>1 DEF StrictInv
    <2>2. CASE q = p /\ Reads(p)
      <3>1. req'[p] = req[p]
        BY <1>3, <2>2, ComesToWrite
      <3>2. ReadTips(p)
        BY <1>3, <2>2, <3>1 DEF Reads, CreateRead, DeleteRead, TagRead
      <3>3. saw'[p].branch = heads[req[p].name] /\ ~Stale(req[p])
        BY <1>1, <3>2 DEF ReadTips, Tips, NoSight, Pointless
      <3>4. QED
        BY <1>3, <2>2, <3>1, <3>3 DEF Stale
    <2>3. QED
      BY <1>3, <2>1, <2>2, Others, ComesToWrite
  <1>4. QED
    BY <1>2, <1>3, StepCases DEF StepOf, StrictInv

\* An edit sent with the tip it was made on takes nothing away from the branch,
\* whoever moved it meanwhile and even when its closure outlives the handler
\* (write::commit_list_json compares the tip and repo.commit compares it again).
THEOREM StrictHolds == Spec => StrictEditKeepsBranch
PROOF
  <1> DEFINE Kept == \A p \in Procs, n \in Drafts :
         (pc[p] = "write" /\ req[p].kind = "commit" /\ req[p].strict /\ req[p].name = n
            /\ pc'[p] = "idle" /\ heads'[n] # heads[n])
         => Work(heads[n]) \subseteq Work(heads[n])'
  <1>1. Init => IInv /\ StrictInv
    <2>1. Init => StrictInv
      BY DEF Init, StrictInv
    <2>2. QED
      BY <2>1, InitInv
  <1>2. (IInv /\ StrictInv) /\ [Next]_vars => (IInv /\ StrictInv)'
    BY NextInv, StrictStep
  <1>3. IInv /\ StrictInv /\ [Next]_vars => [Kept]_vars
    <2>1. SUFFICES ASSUME IInv, StrictInv, [Next]_vars, NEW p \in Procs, NEW n \in Drafts,
                          pc[p] = "write", req[p].kind = "commit", req[p].strict,
                          req[p].name = n, pc'[p] = "idle", heads'[n] # heads[n]
                   PROVE  Work(heads[n]) \subseteq Work(heads[n])'
      BY DEF Kept
    <2>2. /\ RefsType /\ Graph /\ HeadsKnown /\ Control(p) /\ Known(p) /\ n \in Names
          /\ heads \in [Names -> Nat] /\ pc \in [Procs -> Steps]
      <3>1. RefsType /\ CallType /\ Graph /\ HeadsKnown /\ Control(p) /\ Known(p)
        BY <2>1 DEF IInv
      <3>2. n \in Names
        BY DEF Names
      <3>3. heads \in [Names -> Nat] /\ pc \in [Procs -> Steps]
        BY <3>1 DEF RefsType, CallType
      <3>4. QED
        BY <3>1, <3>2, <3>3
    <2>3. Grows
      BY <2>1, NextInv
    <2>4. PICK q \in Procs : StepOf(q)
      <3>1. ~UNCHANGED vars
        BY <2>1 DEF vars
      <3>2. QED
        BY <2>1, <3>1, StepCases DEF StepOf
    <2>5. q = p
      BY <2>1, <2>4, Others
    <2>6. CommitList(p)
      <3>1. Refuses(p) => heads' = heads
        BY RefusesIs DEF Refuse, refs
      <3>2. Cancel(p) => heads' = heads
        BY DEF Cancel, refs
      <3>3. Arrives(p) => pc[p] = "idle"
        BY ArrivesIs DEF Start
      <3>4. Writes(p) \/ PlainWrites(p)
        BY <2>1, <2>4, <2>5, <3>1, <3>2, <3>3 DEF StepOf, TakeGuard, Waits, Snapshot,
           SnapshotFails, HookRefuses, Receive, Take, TakeFails, Reads, CreateRead, DeleteRead,
           TagRead, ReadTips, Project, Crash
      <3>5. ~PlainWrites(p)
        BY <2>1 DEF PlainWrites, CreateWrite, DeleteWrite, TagWrite
      <3>6. QED
        BY <2>1, <3>4, <3>5 DEF Writes, MergeSquash, MergeForward, MergeCommit, Resolve,
           UpdateForward, UpdateCommit
    <2>7. PICK b \in Ids : b = saw[p].branch /\ b = req[p].base
      BY <2>1, <2>2 DEF Known, StrictInv
    <2>8. PICK new \in Nat \ {0} : new = New
      BY <2>2, NewIsNew
    <2>9. PICK node : /\ Add(node) /\ Work(b) \subseteq node.work
                      /\ heads' = [heads EXCEPT ![n] = new]
      BY <2>1, <2>6, <2>7, <2>8 DEF CommitList, MoveBranch
    <2>10. Work(heads[n])' = node.work
      <3>1. heads'[n] = new
        BY <2>2, <2>9
      <3>2. commits' = Append(commits, node) /\ Len(commits) \in Nat /\ new = Len(commits) + 1
        BY <2>2, <2>8, <2>9, LenProperties DEF Add, RefsType, New
      <3>3. commits'[new] = node
        BY <2>2, <3>2 DEF RefsType
      <3>4. QED
        BY <2>8, <3>1, <3>3 DEF Work
    <2>11. Work(heads[n]) \subseteq Work(b)
      <3>1. heads[n] = 0 \/ heads[n] = b
        BY <2>1, <2>6, <2>7 DEF CommitList, StillThere
      <3>2. QED
        BY <3>1 DEF Work
    <2>12. QED
      BY <2>9, <2>10, <2>11
  <1> HIDE DEF Kept
  <1>4. QED
    <2>1. Spec => [](IInv /\ StrictInv)
      BY <1>1, <1>2, PTL DEF Spec
    <2>2. Spec => [][Kept]_vars
      BY <1>3, <2>1, PTL DEF Spec
    <2>3. QED
      BY <2>2 DEF Kept, StrictEditKeepsBranch

-----------------------------------------------------------------------------
(* Work *)

\* A set of numbers below a bound has a greatest one.
LEMMA GreatestExists ==
  ASSUME NEW n \in Nat, NEW S, S \subseteq 0..n, S # {}
  PROVE  \E m \in S : \A k \in S : k <= m
PROOF
  <1> DEFINE Down == {d \in Nat : n - d \in S}
  <1>1. Down \subseteq Nat /\ Down # {}
    <2>1. PICK k \in S : TRUE
      OBVIOUS
    <2>2. k \in Nat /\ n - k \in Nat /\ n - (n - k) = k
      BY <2>1
    <2>3. n - k \in Down
      BY <2>1, <2>2
    <2>4. QED
      BY <2>3
  <1>2. PICK d \in Down : \A e \in Down : ~(<<e, d>> \in OpToRel(<, Nat))
    <2> HIDE DEF Down
    <2>1. QED
      BY <1>1, NatLessThanWellFounded, WFMin, Zenon
  <1>3. \A e \in Down : ~(e < d)
    BY <1>1, <1>2 DEF OpToRel
  <1>4. ASSUME NEW k \in S
        PROVE  k <= n - d
    <2>1. k \in Nat /\ n - k \in Nat /\ n - (n - k) = k
      OBVIOUS
    <2>0. d \in Nat
      BY <1>1, <1>2, Zenon
    <2>2. n - k \in Down
      BY <2>1
    <2>3. ~(n - k < d)
      BY <1>3, <2>2
    <2>4. QED
      BY <2>1, <2>0, <2>3
  <1>5. QED
    BY <1>2, <1>4

\* What two commits have in common as their latest ancestor.
LEMMA BaseIsCommon ==
  ASSUME IInv, WorkInv, NEW a \in Ids \ {0}, NEW b \in Ids \ {0}
  PROVE  MergeBase(a, b) \in Anc(a) \cap Anc(b)
PROOF
  <1> DEFINE S == Anc(a) \cap Anc(b)
  <1>1. a \in Nat /\ Anc(a) \subseteq 1..a
    BY NodeOf DEF IInv
  <1>2. S \subseteq 0..a /\ S # {}
    BY <1>1 DEF WorkInv
  <1> HIDE DEF S
  <1>3. \E m \in S : \A k \in S : k <= m
    BY <1>1, <1>2, GreatestExists
  <1>4. QED
    BY <1>3 DEF MergeBase, S

\* A merge keeps the work of both sides: what one of them lacks of their common
\* ancestor was taken away unseen before.
LEMMA MergeKeepsBoth ==
  ASSUME IInv, WorkInv, NEW a \in Ids \ {0}, NEW b \in Ids \ {0}
  PROVE  Work(a) \cup Work(b) \subseteq MergedWork(a, b) \cup Lost
PROOF
  <1>1. PICK c \in Anc(a) \cap Anc(b) : c = MergeBase(a, b)
    BY BaseIsCommon
  <1>2. Work(c) \subseteq Work(a) \cup Lost /\ Work(c) \subseteq Work(b) \cup Lost
    BY <1>1 DEF WorkInv
  <1>3. MergedWork(a, b) = (Work(a) \cap Work(b)) \cup (Work(a) \ Work(c)) \cup (Work(b) \ Work(c))
    BY <1>1 DEF MergedWork
  <1>4. QED
    BY <1>2, <1>3

\* A new commit that says what it takes away from its parents.
LEMMA NodeKeepsWork ==
  ASSUME IInv, WorkInv, NEW P \in SUBSET (Ids \ {0}), P # {},
         NEW W \in SUBSET Nat, NEW L \in SUBSET Nat,
         \A c \in P : Work(c) \subseteq W \cup L \cup Lost,
         Add([anc |-> {New} \cup UNION {Anc(c) : c \in P}, work |-> W, lost |-> L])
  PROVE  WorkInv'
PROOF
  <1> DEFINE A == UNION {Anc(c) : c \in P}
  <1>1. RefsType /\ Graph /\ Len(commits) \in Nat /\ commits \in Seq(Node)
    BY LenProperties DEF IInv, RefsType
  <1>2. \A c \in P : Anc(c) \subseteq Ids /\ \A d \in Anc(c) : d # 0 /\ Anc(d) \subseteq Anc(c)
    BY <1>1, NodeOf
  <1>3. A \in SUBSET Ids /\ \A d \in A : d # 0 /\ Anc(d) \subseteq A
    BY <1>2
  <1>4. Add([anc |-> {New} \cup A, work |-> W, lost |-> L])
    OBVIOUS
  <1>5. 1 \in A /\ \A d \in A : Work(d) \subseteq W \cup L \cup Lost
    BY DEF WorkInv
  <1> DEFINE node == [anc |-> {New} \cup A, work |-> W, lost |-> L]
  <1>6. node.anc = {New} \cup A /\ node.work = W /\ node.lost = L
    OBVIOUS
  <1> HIDE DEF A
  <1>7. Grows /\ commits'[New].anc = {New} \cup A /\ commits'[New].work = W
        /\ commits'[New].lost = L /\ Len(commits') = New
    BY <1>1, <1>3, <1>4, NodeAdded
  <1>8. commits' = Append(commits, node)
    BY <1>4 DEF Add
  <1> HIDE DEF node
  <1>9. \A c \in 1..Len(commits) : c \in 1..Len(commits') /\ commits'[c] = commits[c]
    BY <1>1, <1>7, <1>8 DEF New
  <1>10. New \in Nat \ {0} /\ New \in 1..Len(commits')
    BY <1>1, <1>7 DEF New
  <1>11. Lost \cup L \subseteq Lost'
    <2>1. ASSUME NEW c \in 1..Len(commits)
          PROVE  commits[c].lost \subseteq Lost'
      BY <1>9 DEF Lost
    <2>2. L \subseteq Lost'
      BY <1>7, <1>10 DEF Lost
    <2>3. QED
      BY <2>1, <2>2 DEF Lost
  <1>12. ASSUME NEW c \in Ids \ {0}
         PROVE  1 \in Anc(c)' /\ \A a \in Anc(c)' : Work(a)' \subseteq Work(c)' \cup Lost'
    <2>1. 1 \in Anc(c) /\ \A a \in Anc(c) : Work(a) \subseteq Work(c) \cup Lost
      BY DEF WorkInv
    <2>2. \A a \in Anc(c) : a \in Ids
      BY <1>1, NodeOf
    <2>3. Anc(c)' = Anc(c) /\ Work(c)' = Work(c) /\ \A a \in Anc(c) : Work(a)' = Work(a)
      BY <1>7, <2>2 DEF Grows
    <2>4. QED
      BY <1>11, <2>1, <2>3
  <1>13. ASSUME NEW c \in Nat, c = New
         PROVE  1 \in Anc(c)' /\ \A a \in Anc(c)' : Work(a)' \subseteq Work(c)' \cup Lost'
    <2>1. Anc(c)' = {c} \cup A /\ Work(c)' = W
      BY <1>7, <1>10, <1>13 DEF Anc, Work
    <2>2. \A a \in A : Work(a)' = Work(a)
      BY <1>3, <1>7 DEF Grows
    <2>3. QED
      BY <1>5, <1>11, <2>1, <2>2
  <1>14. \A c \in Ids' \ {0} : c \in Ids \ {0} \/ (c \in Nat /\ c = New)
    BY <1>1, <1>7 DEF Ids, New
  <1>15. QED
    BY <1>12, <1>13, <1>14 DEF WorkInv

\* No step adds a commit without the work of its parents, unless it says what it
\* took away.
LEMMA WorkStep ==
  ASSUME IInv, WorkInv, [Next]_vars
  PROVE  WorkInv'
PROOF
  <1>1. RefsType /\ Graph /\ New \in Nat \ {0}
    BY NewIsNew DEF IInv
  <1>2. CASE commits' = commits
    BY <1>2 DEF WorkInv, Lost, Ids, Anc, Work
  <1>3. ASSUME NEW p \in Procs, StepOf(p), commits' # commits
        PROVE  WorkInv'
    <2>1. Receive(p) \/ Writes(p)
      <3>1. CASE Arrives(p) \/ Refuses(p)
        BY <1>3, <3>1, ArrivesIs, RefusesIs DEF Start, Refuse
      <3>2. CASE \/ TakeGuard(p) \/ Waits(p) \/ Reads(p) \/ PlainWrites(p) \/ Project(p)
                 \/ Take(p) \/ TakeFails(p) \/ Crash(p) \/ Cancel(p)
        BY <1>3, <3>2 DEF TakeGuard, Waits, Snapshot, SnapshotFails, HookRefuses, Reads,
           CreateRead, DeleteRead, TagRead, ReadTips, PlainWrites, CreateWrite, DeleteWrite,
           TagWrite, Project, Take, TakeFails, Crash, Cancel
      <3>3. QED
        BY <1>3, <3>1, <3>2 DEF StepOf
    <2>2. CASE Receive(p)
      <3>1. /\ req[p].base \in Ids \ {0} /\ req[p].what = "new"
        BY <1>3, <2>2 DEF IInv, Control, Known, Receive
      <3>2. PICK b \in Ids \ {0} : b = req[p].base
        BY <3>1
      <3> DEFINE P == {b}
      <3> DEFINE W == Work(b) \cup {New}
      <3> DEFINE L == {}
      <3>3. UNION {Anc(c) : c \in P} = Anc(b)
        OBVIOUS
      <3>4. Add([anc |-> Anc(b) \cup {New}, work |-> W, lost |-> L])
        BY <2>2, <3>1, <3>2 DEF Receive
      <3>5. Add([anc |-> {New} \cup UNION {Anc(c) : c \in P}, work |-> W, lost |-> L])
        <4>1. Anc(b) \cup {New} = {New} \cup UNION {Anc(c) : c \in P}
          BY <3>3
        <4>2. QED
          BY <3>4, <4>1
      <3>6. W \in SUBSET Nat /\ L \in SUBSET Nat
        BY <1>1, NodeOf
      <3>7. P \in SUBSET (Ids \ {0}) /\ P # {} /\ \A c \in P : Work(c) \subseteq W \cup L \cup Lost
        OBVIOUS
      <3> HIDE DEF P, W, L
      <3>8. QED
        BY <3>5, <3>6, <3>7, NodeKeepsWork
    <2>3. CASE Writes(p)
      <3>1. saw[p].main \in Ids \ {0} /\ saw[p].branch \in Ids \ {0}
        BY <2>3, WriteDoes
      <3>2. PICK a \in Ids \ {0} : a = saw[p].main
        BY <3>1
      <3>3. PICK b \in Ids \ {0} : b = saw[p].branch
        BY <3>1
      <3>4. Work(a) \subseteq Nat /\ Work(b) \subseteq Nat
        BY <1>1, NodeOf
      <3>5. ASSUME NEW m \in Ids \ {0}, NEW n \in Ids \ {0}, {m, n} = {a, b},
                   NEW P \in SUBSET {a, b}, P # {}, Add(Merged(m, n, P))
            PROVE  WorkInv'
        <4> DEFINE W == {New} \cup MergedWork(m, n)
        <4> DEFINE L == {}
        <4>1. Add([anc |-> {New} \cup UNION {Anc(c) : c \in P}, work |-> W, lost |-> L])
          BY <3>5 DEF Merged
        <4>2. Work(m) \cup Work(n) \subseteq W \cup L \cup Lost
          BY MergeKeepsBoth
        <4>3. \A c \in P : c = m \/ c = n
          BY <3>5
        <4>4. P \in SUBSET (Ids \ {0}) /\ \A c \in P : Work(c) \subseteq W \cup L \cup Lost
          BY <4>2, <4>3
        <4>5. W \in SUBSET Nat /\ L \in SUBSET Nat
          <5>1. Work(m) \subseteq Nat /\ Work(n) \subseteq Nat
            BY <3>4, <3>5
          <5>2. MergedWork(m, n) \subseteq Work(m) \cup Work(n)
            BY DEF MergedWork
          <5>3. QED
            BY <1>1, <5>1, <5>2
        <4> HIDE DEF W, L
        <4>6. QED
          BY <3>5, <4>1, <4>4, <4>5, NodeKeepsWork
      <3>6. ASSUME NEW P \in SUBSET {a, b}, P # {}, NEW W \in SUBSET Nat, NEW A, NEW U,
                   A = UNION {Anc(c) : c \in P}, U = UNION {Work(c) : c \in P},
                   Add([anc |-> {New} \cup A, work |-> W, lost |-> U \ W])
            PROVE  WorkInv'
        <4>1. \A c \in P : Work(c) \subseteq U
          BY <3>6
        <4>2. P \in SUBSET (Ids \ {0}) /\ U \ W \in SUBSET Nat
          BY <3>4, <3>6
        <4>3. \A c \in P : Work(c) \subseteq W \cup (U \ W) \cup Lost
          BY <4>1
        <4> DEFINE L == U \ W
        <4>4. Add([anc |-> {New} \cup UNION {Anc(c) : c \in P}, work |-> W, lost |-> L])
          BY <3>6
        <4>5. L \in SUBSET Nat /\ (\A c \in P : Work(c) \subseteq W \cup L \cup Lost) /\ P # {}
          BY <3>6, <4>2, <4>3
        <4> HIDE DEF L
        <4>6. QED
          BY <4>2, <4>4, <4>5, NodeKeepsWork
      <3>7. CASE MergeSquash(p)
        <4>1. Add(Merged(a, b, {a}))
          BY <3>2, <3>3, <3>7 DEF MergeSquash
        <4>2. QED
          BY <3>5, <4>1
      <3>8. CASE MergeCommit(p)
        <4>1. Add(Merged(a, b, {a, b}))
          BY <3>2, <3>3, <3>8 DEF MergeCommit
        <4>2. QED
          BY <3>5, <4>1
      <3>9. CASE UpdateCommit(p)
        <4>1. Add(Merged(b, a, {a, b}))
          BY <3>2, <3>3, <3>9 DEF UpdateCommit
        <4>2. QED
          BY <3>5, <4>1
      <3>10. CASE MergeForward(p) \/ UpdateForward(p)
        BY <1>3, <3>10 DEF MergeForward, UpdateForward
      <3>11. CASE Resolve(p)
        <4> DEFINE P == {saw[p].main} \cup (IF req[p].squash THEN {} ELSE {saw[p].branch})
        <4> DEFINE W == {New} \cup MergedWork(req[p].told["main"], req[p].base)
        <4>1. Add([anc  |-> {New} \cup UNION {Anc(c) : c \in P},
                   work |-> W,
                   lost |-> (UNION {Work(c) : c \in P}) \ W])
          BY <3>11 DEF Resolve
        <4>2. req[p].told["main"] \in Ids /\ req[p].base \in Ids
          BY DEF IInv, Known
        <4>3. Work(req[p].told["main"]) \subseteq Nat /\ Work(req[p].base) \subseteq Nat
          BY <1>1, <4>2, NodeOf
        <4>4. W \in SUBSET Nat
          BY <1>1, <4>3 DEF MergedWork
        <4>5. P \in SUBSET {a, b} /\ P # {}
          BY <3>2, <3>3
        <4> HIDE DEF P, W
        <4> DEFINE A == UNION {Anc(c) : c \in P}
        <4> DEFINE U == UNION {Work(c) : c \in P}
        <4>6. A = UNION {Anc(c) : c \in P} /\ U = UNION {Work(c) : c \in P}
          OBVIOUS
        <4>7. Add([anc |-> {New} \cup A, work |-> W, lost |-> U \ W])
          BY <4>1
        <4> HIDE DEF A, U
        <4>8. QED
          BY <3>6, <4>4, <4>5, <4>6, <4>7
      <3>12. CASE CommitList(p)
        <4> DEFINE P == {b}
        <4> DEFINE W == Work(req[p].base) \cup (IF req[p].what = "new" THEN {New} ELSE {})
        <4> DEFINE A == Anc(b)
        <4> DEFINE U == Work(b)
        <4>1. A = UNION {Anc(c) : c \in P} /\ U = UNION {Work(c) : c \in P}
          OBVIOUS
        <4>2. Add([anc |-> {New} \cup A, work |-> W, lost |-> U \ W])
          BY <3>3, <3>12 DEF CommitList
        <4>3. Work(req[p].base) \subseteq Nat
          BY <1>1, NodeOf DEF IInv, Known
        <4>4. W \in SUBSET Nat
          BY <1>1, <4>3
        <4>5. P \in SUBSET {a, b} /\ P # {}
          OBVIOUS
        <4> HIDE DEF P, W, A, U
        <4>6. QED
          BY <3>6, <4>1, <4>2, <4>4, <4>5
      <3>13. QED
        BY <2>3, <3>7, <3>8, <3>9, <3>10, <3>11, <3>12 DEF Writes
    <2>4. QED
      BY <2>1, <2>2, <2>3
  <1>4. CASE UNCHANGED vars
    BY <1>2, <1>4 DEF vars
  <1>5. QED
    BY <1>2, <1>3, <1>4, StepCases DEF StepOf

\* The three commits a run starts with.
LEMMA WorkInit == Init => WorkInv
PROOF
  <1> SUFFICES ASSUME Init
               PROVE  WorkInv
    OBVIOUS
  <1>1. /\ Len(commits) = 3
        /\ commits[1] = [anc |-> {1}, work |-> {1}, lost |-> {}]
        /\ commits[2] = [anc |-> {1, 2}, work |-> {1, 2}, lost |-> {}]
        /\ commits[3] = [anc |-> {1, 3}, work |-> {1, 3}, lost |-> {}]
    BY DEF Init
  <1>2. \A c \in Ids \ {0} : c \in {1, 2, 3}
    BY <1>1 DEF Ids
  <1>3. /\ Anc(1) = {1} /\ Anc(2) = {1, 2} /\ Anc(3) = {1, 3}
        /\ Work(1) = {1} /\ Work(2) = {1, 2} /\ Work(3) = {1, 3}
    BY <1>1 DEF Anc, Work
  <1>4. QED
    BY <1>2, <1>3 DEF WorkInv

\* A step adds one commit, or none.
LEMMA CommitsGrowByOne ==
  ASSUME [Next]_vars
  PROVE  commits' = commits \/ \E r : commits' = Append(commits, r)
PROOF
  <1>1. CASE UNCHANGED vars
    BY <1>1 DEF vars
  <1>2. ASSUME NEW p \in Procs, StepOf(p)
        PROVE  commits' = commits \/ \E r : commits' = Append(commits, r)
    <2>1. CASE Arrives(p) \/ Refuses(p)
      BY <2>1, ArrivesIs, RefusesIs DEF Start, Refuse
    <2>2. CASE \/ TakeGuard(p) \/ Waits(p) \/ Reads(p) \/ PlainWrites(p) \/ Project(p)
               \/ Take(p) \/ TakeFails(p) \/ Crash(p) \/ Cancel(p)
      BY <2>2 DEF TakeGuard, Waits, Snapshot, SnapshotFails, HookRefuses, Reads,
         CreateRead, DeleteRead, TagRead, ReadTips, PlainWrites, CreateWrite, DeleteWrite,
         TagWrite, Project, Take, TakeFails, Crash, Cancel
    <2>3. CASE Receive(p) \/ Writes(p)
      <3>1. commits' = commits \/ \E r : Add(r)
        BY <2>3 DEF Receive, Writes, MergeSquash, MergeForward, MergeCommit, Resolve,
           UpdateForward, UpdateCommit, CommitList
      <3>2. QED
        BY <3>1 DEF Add
    <2>4. QED
      BY <1>2, <2>1, <2>2, <2>3 DEF StepOf
  <1>3. QED
    BY <1>1, <1>2, StepCases DEF StepOf

\* What main contains leaves it only where a person's content was put over a tip
\* that person had not seen: no merge, squash, push or edit of a branch takes
\* work away from main, in whatever order they come and whichever is cut off
\* (merge_commits works from the common ancestor, update_main moves forward).
THEOREM MainKeeps == Spec => MainKeepsWork
PROOF
  <1> DEFINE Kept == \A x \in Work(heads["main"]) :
         \/ x \in Work(heads["main"])'
         \/ \E c \in 1..Len(commits) : x \in commits[c].lost
         \/ x \in commits'[Len(commits')].lost
  <1>1. Init => IInv /\ WorkInv
    BY InitInv, WorkInit
  <1>2. (IInv /\ WorkInv) /\ [Next]_vars => (IInv /\ WorkInv)'
    BY NextInv, WorkStep
  <1>3. IInv /\ WorkInv /\ [Next]_vars => [Kept]_vars
    <2> SUFFICES ASSUME IInv, WorkInv, [Next]_vars, NEW x \in Work(heads["main"])
                   PROVE  \/ x \in Work(heads["main"])'
                          \/ \E c \in 1..Len(commits) : x \in commits[c].lost
                          \/ x \in commits'[Len(commits')].lost
      BY DEF Kept
    <2>2. IInv' /\ Grows /\ WorkInv'
      BY NextInv, WorkStep
    <2>3. PICK m \in Ids \ {0} : m = heads["main"]
      BY DEF IInv, HeadsKnown, Names
    <2>4. PICK n \in Ids' \ {0} : n = heads'["main"]
      BY <2>2 DEF IInv, HeadsKnown, Names
    <2>5. m = n \/ m \in Anc(n)'
      <3>1. heads'["main"] = heads["main"] \/ heads["main"] \in Anc(heads["main"])'
        BY MainMoves
      <3>2. Anc(heads["main"])' = Anc(n)'
        BY <2>4 DEF Anc
      <3>3. QED
        BY <2>3, <2>4, <3>1, <3>2
    <2>6. x \in Work(m)'
      <3>1. x \in Work(m)
        BY <2>3
      <3>2. QED
        BY <2>2, <3>1 DEF Grows
    <2>7. x \in Work(n)' \cup Lost'
      <3>1. \A k \in Anc(n)' : Work(k)' \subseteq Work(n)' \cup Lost'
        BY <2>2, <2>4 DEF WorkInv
      <3>2. QED
        BY <2>5, <2>6, <3>1
    <2>8. Work(heads["main"])' = Work(n)'
      BY <2>4 DEF Work
    <2>9. ASSUME NEW c \in 1..Len(commits'), x \in commits'[c].lost
          PROVE  \/ \E d \in 1..Len(commits) : x \in commits[d].lost
                 \/ x \in commits'[Len(commits')].lost
      <3>1. \/ commits' = commits
            \/ \E r : commits' = Append(commits, r)
        BY CommitsGrowByOne
      <3>2. CASE commits' = commits
        BY <2>9, <3>2
      <3>3. CASE \E r : commits' = Append(commits, r)
        <4>1. PICK r : commits' = Append(commits, r)
          BY <3>3
        <4>2. commits \in Seq(Node) /\ Len(commits) \in Nat
          BY LenProperties DEF IInv, RefsType
        <4>3. Len(commits') = Len(commits) + 1 /\ \A i \in 1..Len(commits) : commits'[i] = commits[i]
          BY <4>1, <4>2
        <4>4. c = Len(commits') \/ c \in 1..Len(commits)
          BY <4>2, <4>3
        <4>5. QED
          BY <2>9, <4>3, <4>4
      <3>4. QED
        BY <3>1, <3>2, <3>3
    <2>10. CASE x \in Lost'
      <3>1. PICK c \in 1..Len(commits') : x \in commits'[c].lost
        BY <2>10 DEF Lost
      <3>2. QED
        BY <2>9, <3>1
    <2>11. QED
      BY <2>7, <2>8, <2>10
  <1> HIDE DEF Kept
  <1>4. QED
    <2>1. Spec => [](IInv /\ WorkInv)
      BY <1>1, <1>2, PTL DEF Spec
    <2>2. Spec => [][Kept]_vars
      BY <1>3, <2>1, PTL DEF Spec
    <2>3. QED
      BY <2>2 DEF Kept, MainKeepsWork

=============================================================================
