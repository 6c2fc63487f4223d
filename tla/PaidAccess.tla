------------------------------ MODULE PaidAccess ------------------------------
(***************************************************************************)
(* What the assessment shop promises (ADR-0001 and the docstrings of       *)
(* verify_gateway_payment, approve_manual_payment and                      *)
(* redeem_welcome_assessment), with no dispatcher, alert or cart in it:    *)
(* access to an order is closed, claimed by a receipt, or open; it opens   *)
(* once and stays open; every opening uses up a bank reference of its own  *)
(* or the one gift its owner was given.                                    *)
(***************************************************************************)
CONSTANTS User, Order, Ref, OwnerOf

VARIABLES access, spent, gifted

vars == <<access, spent, gifted>>

Init ==
  /\ access = [o \in Order |-> "closed"]
  /\ spent = {}
  /\ gifted = {}

\* The customer says a transfer was made for this order.
Claim(o) ==
  /\ access[o] = "closed"
  /\ access' = [access EXCEPT ![o] = "claimed"]
  /\ UNCHANGED <<spent, gifted>>

\* The claim is turned down; the customer may claim again.
Decline(o) ==
  /\ access[o] = "claimed"
  /\ access' = [access EXCEPT ![o] = "closed"]
  /\ UNCHANGED <<spent, gifted>>

\* The claim is honoured, against a reference never used before.
Sell(o, ref) ==
  /\ access[o] = "claimed"
  /\ ref \notin spent
  /\ access' = [access EXCEPT ![o] = "open"]
  /\ spent' = spent \cup {ref}
  /\ UNCHANGED gifted

Gift(o) ==
  /\ access[o] = "closed"
  /\ OwnerOf[o] \notin gifted
  /\ access' = [access EXCEPT ![o] = "open"]
  /\ gifted' = gifted \cup {OwnerOf[o]}
  /\ UNCHANGED spent

Settle(o) == Decline(o) \/ \E ref \in Ref : Sell(o, ref)

Next == \E o \in Order : Claim(o) \/ Settle(o) \/ Gift(o)

Spec == Init /\ [][Next]_vars

\* No claim stays undecided.
FairSpec == Spec /\ \A o \in Order : WF_vars(Settle(o))
=============================================================================
