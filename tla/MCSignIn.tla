------------------------------ MODULE MCSignIn ------------------------------
(***************************************************************************)
(* A small instance of SignIn: two session keys, two requests at once,     *)
(* three sign-ins, one new password and one link.                          *)
(***************************************************************************)
EXTENDS SignIn, TLC

CONSTANTS s1, s2, r1, r2

Alike == Permutations(Session) \cup Permutations(Request)
=============================================================================
