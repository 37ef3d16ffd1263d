------------------------- MODULE VersionSyncClaims -------------------------
(* What a comment of the code says of it, to be held against VersionSync.  *)
EXTENDS MCVersionSync

\* project.rs, project_pushed_commit: without its tag a version may be put on
\* top once more, "noise in the history, not a loss of data".  A commit the
\* alignment adds to main repeats the steps and the title of the tip it finds.
HealIsOnlyNoise ==
    [][\A p \in Procs :
          pc[p] = "move" /\ job[p].mode = "append" /\ main' # main
          /\ Projectable(main) =>
             /\ Tip(main').body = Tip(main).body
             /\ Tip(main').title = Tip(main).title]_main
=============================================================================
