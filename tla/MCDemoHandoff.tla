---------------------------- MODULE MCDemoHandoff ----------------------------
(***************************************************************************)
(* A small instance of DemoHandoff: two selections, two requests at a time *)
(* and three session keys, over two rows of drafts.                        *)
(***************************************************************************)
EXTENDS DemoHandoff, TLC

CONSTANTS d1, d2, c1, m1, m2, k1, s1, s2, s3, r1, r2

\* The model treats rows, keys, selections and requests alike, and the run
\* checks no liveness.
Alike ==
  Permutations(Draft) \cup Permutations(Demo) \cup Permutations(Session)
    \cup Permutations(Handler)
=============================================================================
