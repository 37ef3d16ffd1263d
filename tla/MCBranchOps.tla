----------------------------- MODULE MCBranchOps -----------------------------
(* Instance of BranchOps for TLC: one draft next to main, two users, pushers *)
(* of the kinds the hook tells apart.                                        *)
EXTENDS BranchOps, TLC

CONSTANTS p1, p2, A, B, nick, nobody

MCProcs  == {p1, p2}
MCDrafts == {"b"}
MCPeople == {A, B}

Push(i, r, ts, w) == [id |-> i, role |-> r, targets |-> ts, what |-> w]

\* The owner, an outsider, and an old frontend (no role, no identifier).
MCPushes ==
    {Push(A, "owner", {"b"}, "new"),           Push(A, "owner", {"b"}, "same"),
     Push(A, "owner", {"for", "main"}, "new"), Push(A, "owner", {"b", "vtag"}, "new"),
     Push(B, "contributor", {"for"}, "new"),   Push(B, "guest", {"main"}, "delete"),
     Push(nobody, "", {"for"}, "same")}

Symmetry == Permutations(MCProcs)
=============================================================================
