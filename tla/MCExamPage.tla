----------------------------- MODULE MCExamPage -----------------------------
(***************************************************************************)
(* A small instance of ExamPage: a gift attempt, two choices, one absence. *)
(***************************************************************************)
EXTENDS ExamPage

CONSTANTS gift, a, b, k, leave

SomeAway == {1}
SomePace == {0}
=============================================================================
