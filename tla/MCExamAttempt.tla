--------------------------- MODULE MCExamAttempt ---------------------------
(***************************************************************************)
(* A small instance of ExamAttempt: a gift and a paid entitlement compete  *)
(* for one start a day; both may be copied from and pasted into.           *)
(***************************************************************************)
EXTENDS ExamAttempt

CONSTANTS gift, paid, a, k1, k2, burst

NoPoints == {0}
SomePace == {0, 2}
=============================================================================
