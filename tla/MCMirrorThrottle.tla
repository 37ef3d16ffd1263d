-------------------------- MODULE MCMirrorThrottle --------------------------
(* Small instances of MirrorThrottle.                                      *)
EXTENDS MirrorThrottle

CONSTANTS i1, w1, w2, c1, g1, g2

\* One instance.
OneHome == [t \in {w1, w2, c1} |-> i1]

=============================================================================
