----------------------- MODULE MCNotificationDispatch -----------------------
(***************************************************************************)
(* A small instance of NotificationDispatch: one manager of the alert's    *)
(* role and one other, one phone, one kill.                                *)
(***************************************************************************)
EXTENDS NotificationDispatch

CONSTANTS m1, m2, p1
=============================================================================
