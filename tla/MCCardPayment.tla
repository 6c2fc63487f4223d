--------------------------- MODULE MCCardPayment ---------------------------
(***************************************************************************)
(* A small instance of CardPayment: two orders of one customer, for two    *)
(* exams, compete for two bank references and for the welcome credit.      *)
(***************************************************************************)
EXTENDS CardPayment, TLC

CONSTANTS u1, exam, exam2, o1, o2

MCSlotOf == (o1 :> <<u1, exam>>) @@ (o2 :> <<u1, exam2>>)
=============================================================================
