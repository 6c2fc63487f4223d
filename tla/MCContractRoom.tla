--------------------------- MODULE MCContractRoom ---------------------------
(***************************************************************************)
(* A small instance of ContractRoom: questionnaires of two sections, two   *)
(* versions, one manager's request and one device at a time.               *)
(***************************************************************************)
EXTENDS ContractRoom

CONSTANTS m1, b1, p1, t1, c1
=============================================================================
