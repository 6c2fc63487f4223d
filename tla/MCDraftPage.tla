----------------------------- MODULE MCDraftPage -----------------------------
(***************************************************************************)
(* A small instance of DraftPage: two requests under way, two rows, a      *)
(* field that is answered or not, two revisions, three decisions, one lost *)
(* request or answer, one step of others.                                  *)
(***************************************************************************)
EXTENDS DraftPage, TLC

CONSTANTS d1, d2, a1, k1, w1, w2

\* The model treats all rows and all slots alike, and the run checks no liveness.
Alike == Permutations(Draft) \cup Permutations(Slot)
=============================================================================
