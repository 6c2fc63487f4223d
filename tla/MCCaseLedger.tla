----------------------------- MODULE MCCaseLedger -----------------------------
(***************************************************************************)
(* A small instance of CaseLedger: two requests of three contents, saved   *)
(* three times by two processes, and two customers.                        *)
(***************************************************************************)
EXTENDS CaseLedger, TLC

CONSTANTS x1, x2, a, b, z, ph1, em1, em2, c1, c2, w1, w2

Alike ==
  Permutations(Customer) \cup Permutations(Worker) \cup Permutations(Request)
  \cup Permutations(Content) \cup Permutations(Email)
=============================================================================
