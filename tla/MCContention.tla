----------------------------- MODULE MCContention -----------------------------
(***************************************************************************)
(* Instances for TLC of the two places where handlers wait for each other  *)
(* outside a list's own history: the guard with its pools, and the rows    *)
(* and keys of tasks, proposals and stars.  A behaviour picks one of them  *)
(* and leaves the other where it starts.                                   *)
(***************************************************************************)
EXTENDS Collab, RepoGuard

CONSTANTS c1, c2, c3, h1, h2, h3

VARIABLE part

\* Two lists whose numbering shares a key; one person per star and list.
MCClients == {c1, c2, c3}
MCKeyOf   == [b \in {"b1", "b2"} |-> "k"]
MCAsks    == {<<"issue", "b1", "p1">>, <<"suggestion", "b1", "p1">>, <<"suggestion", "b2", "p1">>,
              <<"star", "b1", "p1">>, <<"star", "b1", "p2">>}

\* Two handlers of one instance and one of another; two lists, one key.
MCHandlers == {h1, h2, h3}
MCHome     == [h \in MCHandlers |-> IF h = h3 THEN "i2" ELSE "i1"]
MCKey      == [r \in {"r1", "r2"} |-> "k"]

Init == /\ part \in {"collab", "guard"}
        /\ CollabInit /\ GuardInit
        /\ part = "collab" => wants = [h \in Handlers |-> "r1"]

CollabPart == part = "collab" /\ CollabNext /\ UNCHANGED <<part, guardVars>>
GuardPart  == part = "guard" /\ GuardNext /\ UNCHANGED <<part, collabVars>>

Next == CollabPart \/ GuardPart

FairSpec == Init /\ [][Next]_<<part, collabVars, guardVars>> /\ CollabFair /\ GuardFair

\* Every call of a task, a proposal or a star ends, and so does every call under
\* the guard, whose connection comes back to its pool: no set of handlers waits
\* on each other's keys, rows or connections.
EveryCallEnds == EveryAskEnds /\ EveryGuardEnds /\ SessionsComeBack
=============================================================================
