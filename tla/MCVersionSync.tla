--------------------------- MODULE MCVersionSync ---------------------------
(* Small instances of VersionSync.                                         *)
EXTENDS VersionSync

CONSTANTS p1, p2, b1, b2, t1, t2

\* The list keeps being read, by a reader that is always there.
ReadersCome == WF_vars(StartRead(p1))
ReadSpec == FairSpec /\ ReadersCome

\* Processes and steps are interchangeable.
Symmetry == Permutations({p1, p2}) \cup Permutations({b1, b2})
=============================================================================
