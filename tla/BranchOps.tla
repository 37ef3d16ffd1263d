----------------------------- MODULE BranchOps -----------------------------
(***************************************************************************)
(* The references of one list's repository and the calls that move them:   *)
(* pushes (with the pre-receive hook and the magic reference               *)
(* refs/for/main), branches, merges into main and out of it, single        *)
(* commits on a branch, resolved merges and release tags:                  *)
(* src/services/git_core/mod.rs, git_core/merge.rs, git_core/actor.rs,     *)
(* git/magic.rs, git/write.rs and the hook in git/bundle.rs.               *)
(*                                                                         *)
(* A commit is a number; commits[c] holds its ancestors, itself among      *)
(* them, the work its tree contains (the numbers of the commits whose      *)
(* contribution is still there) and the work its content took away from    *)
(* its parents unseen.  0 is no commit.  Alignment with Postgres is        *)
(* VersionSync's; here a projection only sets the next version tag.        *)
(***************************************************************************)
EXTENDS Integers, Sequences, FiniteSets

CONSTANTS
    Procs,        \* handlers in flight
    Drafts,       \* names of branches other than main
    People,       \* identifiers of users
    Nick,         \* the handle an old frontend sends; people may reuse it
    Nobody,       \* no actor, no holder
    Pushes,       \* what is pushed and by whom: identity fields, references
    Kinds,        \* the calls a run explores
    Faults,       \* the faults a run explores
    MaxVersion,   \* bound on version tags
    MaxCalls,     \* bound on calls
    MaxFaults     \* bound on faults

Actors    == People \cup {Nick}
Roles     == {"owner", "collaborator", "contributor", "guest", ""}
Targets   == Drafts \cup {"main", "for", "vtag", "release"}
AllKinds  == {"push", "create", "delete", "tag", "merge", "update", "commit", "resolve"}
Guarded   == {"push", "merge", "update", "commit", "resolve"}

ASSUME NameAssumption ==
    /\ {"main", "for", "vtag", "release"} \cap Drafts = {}
    /\ Nick \notin People /\ Nobody \notin Actors /\ Nobody \notin Procs
    /\ Pushes \subseteq [id : People \cup {Nobody}, role : Roles, targets : SUBSET Targets,
                          what : {"new", "same", "delete"}]
    /\ Kinds \subseteq AllKinds
    /\ Faults \subseteq {"crash", "cancel", "git"}
ASSUME BoundAssumption ==
    MaxVersion \in Nat \ (0..1) /\ MaxCalls \in Nat /\ MaxFaults \in Nat

VARIABLES
    commits,    \* the graph
    heads,      \* refs/heads/main and the drafts
    authored,   \* refs/heads/u/<actor>/main
    magic,      \* refs/for/main
    vtag,       \* refs/tags/v<n>
    release,    \* a release tag set by hand
    guard,      \* holder of repo_guard
    pc, req,
    saw,        \* what the call has read: the branch's tip, main's, refs/for/main
    orphan,     \* the handler was dropped, its closure goes on
    credit,     \* the commit the call reported as a proposal of its actor
    sent,       \* actor -> commits it has pushed to refs/for/main
    kept,       \* draft -> the last commit pushed to it and still owed
    litter,     \* refs/for/main was left behind by a failure
    dropped,    \* the calls whose closure outlived its handler
    calls, faults

refs   == <<heads, authored, magic, vtag, release>>
ghosts == <<credit, sent, kept, litter, dropped>>
vars   == <<commits, refs, guard, pc, req, saw, orphan, ghosts, calls, faults>>

-----------------------------------------------------------------------------
(* Data *)

Names      == {"main"} \cup Drafts
Anc(c)     == IF c = 0 THEN {} ELSE commits[c].anc
Work(c)    == IF c = 0 THEN {} ELSE commits[c].work
New        == Len(commits) + 1

\* graph_ahead_behind: commits of b that a lacks
Ahead(b, a) == Anc(b) \ Anc(a)
\* graph_descendant_of, and equal
Contains(c, a) == a \in Anc(c)

NoRequest == [kind |-> "none", name |-> "main", from |-> "main", id |-> Nobody,
              role |-> "", targets |-> {}, what |-> "new", base |-> 0,
              told |-> [t \in Targets |-> 0], strict |-> FALSE, squash |-> FALSE, version |-> 1]
NoSight   == [branch |-> 0, main |-> 0, magic |-> 0]

RefNow(t) == CASE t \in Names     -> heads[t]
               [] t = "for"      -> magic
               [] t = "release"  -> release
               [] t = "vtag"     -> vtag[MaxVersion]
Told(ts)  == [t \in Targets |-> IF t \in ts THEN RefNow(t) ELSE 0]

NextVersion == 1 + Cardinality({v \in 1..MaxVersion : vtag[v] # 0})

\* What a push sends: a new commit on base, base itself, or a deletion.
PushedTip(r) == CASE r.what = "new"    -> New
                  [] r.what = "same"   -> r.base
                  [] r.what = "delete" -> 0

\* actor::choose_actor: the handle serves only a frontend that sends no role
ChooseActor(r) == IF r.id # Nobody THEN r.id
                  ELSE IF r.role = "" THEN Nick ELSE Nobody

-----------------------------------------------------------------------------
\* A list of two versions; a draft, if there is one, left main after the first.
Init ==
    /\ commits = <<[anc |-> {1}, work |-> {1}, lost |-> {}],
                   [anc |-> {1, 2}, work |-> {1, 2}, lost |-> {}],
                   [anc |-> {1, 3}, work |-> {1, 3}, lost |-> {}]>>
    /\ \E there \in SUBSET Drafts :
          heads = [n \in Names |-> IF n = "main" THEN 2 ELSE IF n \in there THEN 3 ELSE 0]
    /\ authored = [a \in Actors |-> 0]
    /\ magic = 0
    /\ vtag = [v \in 1..MaxVersion |-> IF v <= 2 THEN v ELSE 0]
    /\ release = 0
    /\ guard = Nobody
    /\ pc = [p \in Procs |-> "idle"]
    /\ req = [p \in Procs |-> NoRequest]
    /\ saw = [p \in Procs |-> NoSight]
    /\ orphan = [p \in Procs |-> FALSE]
    /\ credit = [p \in Procs |-> 0]
    /\ sent = [a \in Actors |-> {}]
    /\ kept = [d \in Drafts |-> 0]
    /\ litter = FALSE /\ dropped = {}
    /\ calls = 0 /\ faults = 0

Add(c) == commits' = Append(commits, c)
Goto(p, s) == pc' = [pc EXCEPT ![p] = s]
Freed(p) == IF guard = p THEN Nobody ELSE guard

\* The call is over; its guard, if any, is dropped.
Finish(p) ==
    /\ Goto(p, "idle")
    /\ guard' = Freed(p)
    /\ req' = [req EXCEPT ![p] = NoRequest]
    /\ saw' = [saw EXCEPT ![p] = NoSight]
    /\ orphan' = [orphan EXCEPT ![p] = FALSE]
    /\ credit' = [credit EXCEPT ![p] = 0]
    /\ UNCHANGED <<calls, faults>>

\* An answer without any change to the repository.
Refuse(p) == Finish(p) /\ UNCHANGED <<commits, refs, sent, kept, litter, dropped>>

\* The next step of the same call.  After its write a call needs of its request
\* only who made it.
Spent(r) == [NoRequest EXCEPT !.kind = r.kind, !.id = r.id, !.role = r.role]
Continue(p, s) ==
    /\ Goto(p, s)
    /\ req' = IF s \in {"take", "project", "done"} THEN [req EXCEPT ![p] = Spent(@)] ELSE req
    /\ UNCHANGED <<guard, orphan, calls, faults>>

-----------------------------------------------------------------------------
(* Arrival *)

Start(p, r) ==
    /\ r.kind \in Kinds
    /\ pc[p] = "idle"
    /\ calls < MaxCalls
    /\ calls' = calls + 1
    /\ req' = [req EXCEPT ![p] = r]
    /\ Goto(p, IF r.kind \in Guarded THEN "lock" ELSE "read")
    /\ UNCHANGED <<commits, refs, guard, saw, orphan, ghosts, faults>>

\* The commit is built on some head the client has; told is what the client
\* was told of the references when it fetched.
StartPush(p) ==
    \E m \in Pushes, b \in {heads[n] : n \in Names} \ {0} :
        /\ m.what = "delete" => b = heads["main"]
        /\ Start(p, [NoRequest EXCEPT !.kind = "push", !.id = m.id, !.role = m.role,
                                      !.targets = m.targets, !.what = m.what, !.base = b,
                                      !.told = Told(m.targets)])

StartCreate(p) ==
    \E d \in Drafts, f \in Names :
        Start(p, [NoRequest EXCEPT !.kind = "create", !.name = d, !.from = f])
\* A client names a branch it has seen; main is protected, and a name that is
\* not one of a branch is refused.
Seen == {d \in Drafts : heads[d] # 0}
StartDelete(p) ==
    \E d \in Seen : Start(p, [NoRequest EXCEPT !.kind = "delete", !.name = d])
\* The latest version or one that is not there yet; a name of a version is
\* refused (is_version_tag).
StartTag(p) ==
    \E v \in {NextVersion - 1, NextVersion} \cap 1..MaxVersion :
        Start(p, [NoRequest EXCEPT !.kind = "tag", !.version = v])
StartMerge(p) ==
    \E d \in Seen, s \in BOOLEAN :
        Start(p, [NoRequest EXCEPT !.kind = "merge", !.name = d, !.squash = s])
StartUpdate(p) ==
    \E d \in Seen : Start(p, [NoRequest EXCEPT !.kind = "update", !.name = d])
\* The content was edited on the tip the client sees now; expected_tip may be
\* empty, and the content may be the one it saw.
StartCommit(p) ==
    \E d \in Seen, s \in BOOLEAN, w \in {"new", "same"} :
        Start(p, [NoRequest EXCEPT !.kind = "commit", !.name = d, !.strict = s,
                                   !.what = w, !.base = heads[d]])
\* A person resolved the two tips get_merge_state showed.
StartResolve(p) ==
    \E d \in Seen, s \in BOOLEAN :
        Start(p, [NoRequest EXCEPT !.kind = "resolve", !.name = d, !.squash = s,
                                   !.base = heads[d], !.told = Told({"main"})])

TakeGuard(p) ==
    /\ pc[p] = "lock"
    /\ guard = Nobody
    /\ guard' = p
    /\ Goto(p, IF req[p].kind = "push" THEN "snapshot" ELSE "read")
    /\ UNCHANGED <<commits, refs, req, saw, orphan, ghosts, calls, faults>>

-----------------------------------------------------------------------------
(* A push *)

Snapshot(p) ==
    /\ pc[p] = "snapshot"
    /\ saw' = [saw EXCEPT ![p] = [NoSight EXCEPT !.main = heads["main"], !.magic = magic]]
    /\ Continue(p, "receive")
    /\ UNCHANGED <<commits, refs, ghosts>>

\* magic::snapshot fails: unwrap_or_default, as if there were none
SnapshotFails(p) ==
    /\ "git" \in Faults /\ faults < MaxFaults
    /\ pc[p] = "snapshot"
    /\ faults' = faults + 1
    /\ saw' = [saw EXCEPT ![p] = [NoSight EXCEPT !.main = heads["main"]]]
    /\ Goto(p, "receive")
    /\ UNCHANGED <<commits, refs, guard, req, orphan, ghosts, calls>>

Restricted(role) == role \notin {"owner", "collaborator", ""}

NamesVersion_Never(r) == FALSE                                          \* mutant
NamesVersion(r) == "vtag" \in r.targets

BreaksMain(r) == "main" \in r.targets /\ (r.what = "delete" \/ ~Contains(r.base, r.told["main"]))

\* pre-receive: one refused reference refuses the push.
HookAccepts(r) ==
    LET actor == ChooseActor(r)
    IN  /\ Restricted(r.role) => actor # Nobody /\ r.targets = {"for"}
        /\ "for" \in r.targets => actor # Nobody
        /\ ~NamesVersion(r) /\ ~BreaksMain(r)

\* git compares a reference with what the client was told, and may force it.
Lands(t, r) == t \in r.targets /\ RefNow(t) = r.told[t]

\* Objects and references of an accepted push.
Receive(p) ==
    LET r == req[p]
        tip == PushedTip(r)
    IN  /\ pc[p] = "receive"
        /\ HookAccepts(r)
        /\ IF r.what = "new"
           THEN Add([anc |-> Anc(r.base) \cup {New}, work |-> Work(r.base) \cup {New}, lost |-> {}])
           ELSE UNCHANGED commits
        /\ heads' = [n \in Names |-> IF Lands(n, r) THEN tip ELSE heads[n]]
        /\ magic' = IF Lands("for", r) THEN tip ELSE magic
        /\ vtag' = IF Lands("vtag", r) THEN [vtag EXCEPT ![MaxVersion] = tip] ELSE vtag
        /\ release' = IF Lands("release", r) THEN tip ELSE release
        /\ sent' = [a \in Actors |->
                       IF Lands("for", r) /\ a = ChooseActor(r) THEN sent[a] \cup {tip}
                       ELSE sent[a]]
        /\ kept' = [d \in Drafts |-> IF Lands(d, r) THEN tip ELSE kept[d]]
        /\ Continue(p, "take")
        /\ UNCHANGED <<authored, saw, credit, litter, dropped>>

\* The hook refuses, for one of these rules or for the tree or the content it
\* carries: nothing lands, and the closure goes on to take_magic.
HookRefuses(p) ==
    /\ pc[p] = "receive"
    /\ Continue(p, "take")
    /\ UNCHANGED <<commits, refs, saw, ghosts>>

Mine_Any(p) == magic # 0                                                \* mutant
Mine(p) == magic # 0 /\ magic # saw[p].magic

Remains_Stale(p) == IF Mine(p) THEN 0 ELSE magic                        \* mutant
Remains(p) == 0

Moved_NoProposal(p) == heads["main"] # saw[p].main /\ ~Mine(p)          \* mutant
Moved(p) == heads["main"] # saw[p].main

\* magic::take_magic_pushes, and whether main has moved
Take(p) ==
    LET actor == ChooseActor(req[p])
    IN  /\ pc[p] = "take"
        /\ IF actor = Nobody
           THEN UNCHANGED <<authored, magic, credit, litter>>
           ELSE /\ authored' = IF Mine(p) THEN [authored EXCEPT ![actor] = magic] ELSE authored
                /\ credit' = IF Mine(p) THEN [credit EXCEPT ![p] = magic] ELSE credit
                /\ magic' = Remains(p)
                /\ litter' = FALSE
        /\ saw' = [saw EXCEPT ![p] = NoSight]
        /\ Continue(p, IF Moved(p) /\ ~orphan[p] THEN "project" ELSE "done")
        /\ UNCHANGED <<commits, heads, vtag, release, sent, kept, dropped>>

\* libgit2 fails while the magic references are sorted out, before or after
\* the author's branch moved: the error leaves the handler before it projects.
TakeFails(p) ==
    LET actor == ChooseActor(req[p])
    IN  /\ "git" \in Faults /\ faults < MaxFaults
        /\ pc[p] = "take" /\ magic # 0 /\ actor # Nobody
        /\ faults' = faults + 1
        /\ litter' = TRUE
        /\ authored' \in {authored, IF Mine(p) THEN [authored EXCEPT ![actor] = magic]
                                   ELSE authored}
        /\ Goto(p, "done")
        /\ UNCHANGED <<commits, heads, magic, vtag, release, guard, req, saw, orphan,
                       credit, sent, kept, dropped, calls>>

-----------------------------------------------------------------------------
(* Branches and tags, without the guard *)

CreateRead(p) ==
    /\ pc[p] = "read" /\ req[p].kind = "create"
    /\ heads[req[p].from] # 0
    /\ saw' = [saw EXCEPT ![p].branch = heads[req[p].from]]
    /\ Continue(p, "write")
    /\ UNCHANGED <<commits, refs, ghosts>>
\* force = false
CreateWrite(p) ==
    /\ pc[p] = "write" /\ req[p].kind = "create"
    /\ heads[req[p].name] = 0
    /\ heads' = [heads EXCEPT ![req[p].name] = saw[p].branch]
    /\ Finish(p)
    /\ UNCHANGED <<commits, authored, magic, vtag, release, sent, kept, litter, dropped>>
CreateRefused(p) ==
    /\ req[p].kind = "create"
    /\ \/ pc[p] = "read" /\ heads[req[p].from] = 0
       \/ pc[p] = "write" /\ heads[req[p].name] # 0
    /\ Refuse(p)

DeleteRead(p) ==
    /\ pc[p] = "read" /\ req[p].kind = "delete"
    /\ heads[req[p].name] # 0
    /\ saw' = [saw EXCEPT ![p].branch = heads[req[p].name]]
    /\ Continue(p, "write")
    /\ UNCHANGED <<commits, refs, ghosts>>
\* libgit2 deletes a reference only where it was found
DeleteWrite(p) ==
    /\ pc[p] = "write" /\ req[p].kind = "delete"
    /\ heads[req[p].name] = saw[p].branch
    /\ heads' = [heads EXCEPT ![req[p].name] = 0]
    /\ kept' = [kept EXCEPT ![req[p].name] = 0]
    /\ Finish(p)
    /\ UNCHANGED <<commits, authored, magic, vtag, release, sent, litter, dropped>>
DeleteRefused(p) ==
    /\ req[p].kind = "delete"
    /\ \/ pc[p] = "read" /\ heads[req[p].name] = 0
       \/ pc[p] = "write" /\ heads[req[p].name] # saw[p].branch
    /\ Refuse(p)

TagRead(p) ==
    /\ pc[p] = "read" /\ req[p].kind = "tag"
    /\ vtag[req[p].version] # 0
    /\ saw' = [saw EXCEPT ![p].branch = vtag[req[p].version]]
    /\ Continue(p, "write")
    /\ UNCHANGED <<commits, refs, ghosts>>
TagWrite(p) ==
    /\ pc[p] = "write" /\ req[p].kind = "tag"
    /\ release' = saw[p].branch
    /\ Finish(p)
    /\ UNCHANGED <<commits, heads, authored, magic, vtag, sent, kept, litter, dropped>>
TagRefused(p) ==
    /\ pc[p] = "read" /\ req[p].kind = "tag"
    /\ vtag[req[p].version] = 0
    /\ Refuse(p)

-----------------------------------------------------------------------------
(* Guarded work on a branch: the tips are read, then one reference moves *)

Tips(p) == [NoSight EXCEPT !.branch = heads[req[p].name], !.main = heads["main"]]

Stale_Never(r) == FALSE                                                 \* mutant
Stale(r) == r.kind = "commit" /\ r.strict /\ heads[r.name] # r.base

\* Early returns, on the tips as they are when the guard is held.
Pointless(p) ==
    LET r == req[p]
        b == heads[r.name]
        m == heads["main"]
    IN  \/ b = 0
        \/ r.kind = "merge"   /\ Ahead(b, m) = {}
        \/ r.kind = "update"  /\ Contains(b, m)
        \/ r.kind = "resolve" /\ b = m
        \/ Stale(r)
        \/ r.kind = "commit"  /\ r.what = "same" /\ Work(b) = Work(r.base)

ReadTips(p) ==
    /\ pc[p] = "read" /\ req[p].kind \in Guarded
    /\ ~Pointless(p)
    /\ saw' = [saw EXCEPT ![p] = Tips(p)]
    /\ Continue(p, "write")
    /\ UNCHANGED <<commits, refs, ghosts>>
NothingToDo(p) ==
    /\ pc[p] = "read" /\ req[p].kind \in Guarded
    /\ Pointless(p)
    /\ Refuse(p)

StillThere_Forced(p) == TRUE                                            \* mutant
\* repo.commit(Some(ref)): the ref must still be at the first parent, or gone
StillThere(p) == heads[req[p].name] \in {0, saw[p].branch}

MovesMain(r) == r.kind \in {"merge", "resolve"}

\* The trees do not merge cleanly, the result breaks a rule of update_main, or
\* the reference is not where it was read.
WriteRefused(p) ==
    /\ pc[p] = "write" /\ req[p].kind \in Guarded
    /\ \/ MovesMain(req[p])
       \/ req[p].kind = "update" /\ ~Contains(saw[p].main, saw[p].branch)
       \/ req[p].kind = "commit" /\ ~StillThere(p)
    /\ Refuse(p)

\* update_main: compare and set, fast-forward only
MoveMain(p, tip) ==
    /\ heads["main"] = saw[p].main
    /\ heads' = [heads EXCEPT !["main"] = tip]
    /\ IF orphan[p] THEN Finish(p)
       ELSE /\ Continue(p, "project")
            /\ saw' = [saw EXCEPT ![p] = NoSight]
            /\ UNCHANGED credit
    /\ UNCHANGED <<authored, magic, vtag, release, sent, kept, litter, dropped>>

MergedWork_Theirs(a, b) == Work(b)                                      \* mutant
\* merge_commits: three ways, from the latest common ancestor.
MergeBase(a, b) == CHOOSE c \in Anc(a) \cap Anc(b) : \A d \in Anc(a) \cap Anc(b) : d <= c
MergedWork(a, b) ==
    LET base == Work(MergeBase(a, b))
    IN  (Work(a) \cap Work(b)) \cup (Work(a) \ base) \cup (Work(b) \ base)

\* The tree is merged, not taken from the branch.
Merged(a, b, parents) ==
    [anc  |-> {New} \cup UNION {Anc(c) : c \in parents},
     work |-> {New} \cup MergedWork(a, b),
     lost |-> {}]

MergeSquash(p) ==
    /\ pc[p] = "write" /\ req[p].kind = "merge" /\ req[p].squash
    /\ Add(Merged(saw[p].main, saw[p].branch, {saw[p].main}))
    /\ MoveMain(p, New)
MergeForward(p) ==
    /\ pc[p] = "write" /\ req[p].kind = "merge" /\ ~req[p].squash
    /\ Contains(saw[p].branch, saw[p].main)
    /\ UNCHANGED commits
    /\ MoveMain(p, saw[p].branch)
MergeCommit(p) ==
    /\ pc[p] = "write" /\ req[p].kind = "merge" /\ ~req[p].squash
    /\ ~Contains(saw[p].branch, saw[p].main)
    /\ Add(Merged(saw[p].main, saw[p].branch, {saw[p].main, saw[p].branch}))
    /\ MoveMain(p, New)

\* merge::commit_resolved: main's tree with the list.json the person sent
Resolve(p) ==
    LET r    == req[p]
        work == {New} \cup MergedWork(r.told["main"], r.base)
        parents == {saw[p].main} \cup (IF r.squash THEN {} ELSE {saw[p].branch})
    IN  /\ pc[p] = "write" /\ r.kind = "resolve"
        /\ Add([anc  |-> {New} \cup UNION {Anc(c) : c \in parents},
                work |-> work,
                lost |-> (UNION {Work(c) : c \in parents}) \ work])
        /\ MoveMain(p, New)

\* A branch moves, main does not: no version.
MoveBranch(p, tip) ==
    /\ heads' = [heads EXCEPT ![req[p].name] = tip]
    /\ Finish(p)
    /\ UNCHANGED <<authored, magic, vtag, release, sent, kept, litter, dropped>>

\* The branch has nothing of its own: forced to main's tip.
UpdateForward(p) ==
    /\ pc[p] = "write" /\ req[p].kind = "update"
    /\ Contains(saw[p].main, saw[p].branch)
    /\ UNCHANGED commits
    /\ MoveBranch(p, saw[p].main)
UpdateCommit(p) ==
    /\ pc[p] = "write" /\ req[p].kind = "update"
    /\ ~Contains(saw[p].main, saw[p].branch)
    /\ StillThere(p)
    /\ Add(Merged(saw[p].branch, saw[p].main, {saw[p].main, saw[p].branch}))
    /\ MoveBranch(p, New)

\* write::commit_list_json: the content replaces the tip's
CommitList(p) ==
    LET r    == req[p]
        work == Work(r.base) \cup (IF r.what = "new" THEN {New} ELSE {})
    IN  /\ pc[p] = "write" /\ r.kind = "commit"
        /\ StillThere(p)
        /\ Add([anc  |-> {New} \cup Anc(saw[p].branch),
                work |-> work,
                lost |-> Work(saw[p].branch) \ work])
        /\ MoveBranch(p, New)

-----------------------------------------------------------------------------
(* The version of a moved main, and the end of the call *)

Project(p) ==
    /\ pc[p] = "project"
    /\ IF NextVersion \in 1..MaxVersion
       THEN vtag' = [vtag EXCEPT ![NextVersion] = heads["main"]]
       ELSE UNCHANGED vtag
    /\ Continue(p, "done")
    /\ UNCHANGED <<commits, heads, authored, magic, release, saw, ghosts>>

Answer(p) == pc[p] = "done" /\ Refuse(p)

\* The instance dies, handler and closure together.  Before anything was
\* written it is as if the call had not been made.
Crash(p) ==
    /\ "crash" \in Faults /\ faults < MaxFaults
    /\ pc[p] \in {"take", "project"}
    /\ faults' = faults + 1
    /\ Goto(p, "idle")
    /\ guard' = Freed(p)
    /\ req' = [req EXCEPT ![p] = NoRequest]
    /\ saw' = [saw EXCEPT ![p] = NoSight]
    /\ orphan' = [orphan EXCEPT ![p] = FALSE]
    /\ credit' = [credit EXCEPT ![p] = 0]
    /\ litter' = (litter \/ (pc[p] = "take" /\ magic # 0))
    /\ UNCHANGED <<commits, refs, sent, kept, dropped, calls>>

\* The client goes away: the handler is dropped and with it the guard, if it
\* has one; a closure on the blocking pool runs to its end.
Cancel(p) ==
    /\ "cancel" \in Faults /\ faults < MaxFaults
    /\ guard = p
    /\ pc[p] \in {"snapshot", "receive", "take", "read", "write"}
    /\ faults' = faults + 1
    /\ orphan' = [orphan EXCEPT ![p] = TRUE]
    /\ dropped' = dropped \cup {req[p].kind}
    /\ guard' = Freed(p)
    /\ UNCHANGED <<commits, refs, pc, req, saw, credit, sent, kept, litter, calls>>

\* Nothing more to do within the bounds.
Rest ==
    /\ calls = MaxCalls
    /\ \A p \in Procs : pc[p] = "idle"
    /\ UNCHANGED vars

Next ==
    \/ \E p \in Procs :
        \/ StartPush(p) \/ StartCreate(p) \/ StartDelete(p) \/ StartTag(p)
        \/ StartMerge(p) \/ StartUpdate(p) \/ StartCommit(p) \/ StartResolve(p)
        \/ TakeGuard(p)
        \/ Snapshot(p) \/ SnapshotFails(p) \/ Receive(p) \/ HookRefuses(p) \/ Take(p) \/ TakeFails(p)
        \/ CreateRead(p) \/ CreateWrite(p) \/ CreateRefused(p)
        \/ DeleteRead(p) \/ DeleteWrite(p) \/ DeleteRefused(p)
        \/ TagRead(p) \/ TagWrite(p) \/ TagRefused(p)
        \/ ReadTips(p) \/ NothingToDo(p) \/ WriteRefused(p)
        \/ MergeSquash(p) \/ MergeForward(p) \/ MergeCommit(p) \/ Resolve(p)
        \/ UpdateForward(p) \/ UpdateCommit(p) \/ CommitList(p)
        \/ Project(p) \/ Answer(p) \/ Crash(p) \/ Cancel(p)
    \/ Rest

Spec == Init /\ [][Next]_vars

-----------------------------------------------------------------------------
(* Properties *)

\* A proposal is its author's own: the branch u/<actor>/main and the answer of
\* a push name only commits that this actor sent to refs/for/main, whatever a
\* broken push left there (magic::snapshot, take_magic_pushes, choose_actor).
\* It is claimed of every push: git_core/mod.rs takes magic references apart in
\* the critical section that received them.
OwnProposals ==
    /\ \A a \in Actors : authored[a] \in {0} \cup sent[a]
    /\ \A p \in Procs : credit[p] # 0 => credit[p] \in sent[ChooseActor(req[p])]

\* It holds as long as no push goes on without its handler's guard.
CreditedIsOwn == "push" \notin dropped => OwnProposals

\* refs/for/main is seen only while its push is being taken apart, unless a
\* failure left it there; the next push of a known actor clears it.
MagicIsTransient ==
    magic # 0 => litter \/ \E p \in Procs : pc[p] = "take" /\ ChooseActor(req[p]) # Nobody

\* Version tags are the core's: each names a commit of main, later versions
\* later commits, whatever pushes and release tags name (the hook's reserved
\* names, is_version_tag).
VersionTagsAreVersions ==
    \A v \in 1..MaxVersion : vtag[v] # 0 =>
        /\ vtag[v] \in Anc(heads["main"])
        /\ \A w \in 1..(v-1) : vtag[w] # 0 /\ vtag[w] \in Anc(vtag[v])

\* Every move of main is versioned, by whichever call moved it, also when the
\* same push carries a proposal.
EveryMoveIsVersioned ==
    (faults = 0 /\ \A p \in Procs : pc[p] = "idle") => vtag[NextVersion - 1] = heads["main"]

\* What was pushed to a draft stays in it until somebody pushes over it or
\* deletes it: no call on the branch writes over a tip it has not read
\* (update_branch and commit_to_branch read the tip under the guard).  A
\* dropped push or update_branch is excluded: the fast-forward is forced.
PushedDraftIsKept ==
    dropped \cap {"update", "push"} = {} =>
        \A d \in Drafts : kept[d] # 0 => kept[d] \in Anc(heads[d])

\* What main contains leaves it only where a person's content was put over a
\* tip that person had not seen: merges and squashes never take work away.
MainKeepsWork ==
    [][\A x \in Work(heads["main"]) :
         \/ x \in Work(heads["main"])'
         \/ \E c \in 1..Len(commits) : x \in commits[c].lost
         \/ x \in commits'[Len(commits')].lost]_vars

\* An edit sent with the tip it was made on takes nothing away from the branch,
\* even when its closure outlives the handler (write::commit_list_json).
StrictEditKeepsBranch ==
    [][\A p \in Procs, n \in Drafts :
         (pc[p] = "write" /\ req[p].kind = "commit" /\ req[p].strict /\ req[p].name = n
            /\ pc'[p] = "idle" /\ heads'[n] # heads[n])
         => Work(heads[n]) \subseteq Work(heads[n])']_vars
=============================================================================
