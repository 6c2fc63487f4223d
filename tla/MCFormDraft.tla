----------------------------- MODULE MCFormDraft -----------------------------
(***************************************************************************)
(* A small instance of FormDraft: two rows, two contents, one selection.   *)
(***************************************************************************)
EXTENDS FormDraft

CONSTANTS d1, d2, c1, c2, demo, k1, k2
=============================================================================
