------------------------------ MODULE CanonLog ------------------------------
(***************************************************************************)
(* What the versioning of one list promises, whoever writes and whatever   *)
(* fails while the volume is intact: the canon only grows, the published   *)
(* versions are an append-only log, and a version is published only with   *)
(* content that already is in the canon ("git first").                     *)
(***************************************************************************)
EXTENDS Integers, Sequences, SequencesExt

CONSTANT Contents

VARIABLES
    canon,  \* the contents of the commits of main, oldest first
    log     \* the contents of the published versions, oldest first

Init ==
    /\ canon = <<>>
    /\ log \in {<<>>} \cup {<<c>> : c \in Contents}

Grow ==
    /\ canon' # canon
    /\ IsPrefix(canon, canon')
    /\ UNCHANGED log

Publish ==
    /\ \E n \in 1..Len(canon) : log' = Append(log, canon[n])
    /\ UNCHANGED canon

Next == Grow \/ Publish

Spec == Init /\ [][Next]_<<canon, log>>
=============================================================================
