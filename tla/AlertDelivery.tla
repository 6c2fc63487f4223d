---------------------------- MODULE AlertDelivery ----------------------------
(***************************************************************************)
(* What the managers are promised of an alert: while it stands, those it   *)
(* wants and who have not seen it are called; who is called is rung, one   *)
(* after the other, and nobody again before it is noted or forgotten; what *)
(* is noted was rung; and who looked, slept or dismissed is not called.    *)
(***************************************************************************)
CONSTANT Manager

VARIABLES
  alert,   \* whether it stands
  notice,  \* how each manager has it
  called,  \* who is to be rung next
  bell     \* of each manager; "stale" is a ring from before it was asked anew

delivery == <<alert, notice, called, bell>>

Init ==
  /\ alert = "not yet"
  /\ notice = [m \in Manager |-> "none"]
  /\ called = {}
  /\ bell = [m \in Manager |-> "silent"]

\* Rung, and not noted so far.
Ringing == {m \in Manager : bell[m] \in {"rung", "stale"}}

Raise ==
  /\ alert = "not yet" /\ alert' = "stands"
  /\ UNCHANGED <<notice, called, bell>>

Settle ==
  /\ alert = "stands" /\ alert' = "over"
  /\ UNCHANGED <<notice, called, bell>>

\* Those who have no notice of it get one.
Invite(some) ==
  /\ alert = "stands"
  /\ notice' = [m \in Manager |->
       IF m \in some /\ notice[m] = "none" THEN "unseen" ELSE notice[m]]
  /\ UNCHANGED <<alert, called, bell>>

SeenBy(m) == IF notice[m] = "dismissed" THEN "dismissed" ELSE "seen"

Look(m) ==
  /\ alert = "stands"
  /\ notice' = [notice EXCEPT ![m] = SeenBy(m)]
  /\ UNCHANGED <<alert, called, bell>>

Dismiss(m) ==
  /\ alert = "stands"
  /\ notice' = [notice EXCEPT ![m] = "dismissed"]
  /\ UNCHANGED <<alert, called, bell>>

\* What a bell is once its manager is to be rung anew.
Anew(m) == IF m \in Ringing THEN "stale" ELSE "silent"

Sleep(m) ==
  /\ alert = "stands"
  /\ notice' = [notice EXCEPT ![m] = "asleep"]
  /\ bell' = [bell EXCEPT ![m] = Anew(m)]
  /\ UNCHANGED <<alert, called>>

Wake(m) ==
  /\ notice[m] = "asleep"
  /\ notice' = [notice EXCEPT ![m] = "unseen"]
  /\ UNCHANGED <<alert, called, bell>>

\* It is somebody's: the others have seen it.  It may get no further.
Assign(m) ==
  LET passed == [n \in Manager |->
        IF n = m \/ notice[n] = "none" THEN notice[n] ELSE SeenBy(n)]
  IN
  /\ alert = "stands"
  /\ \/ /\ notice' = [passed EXCEPT ![m] = "unseen"]
        /\ bell' = [bell EXCEPT ![m] = Anew(m)]
     \/ notice' = passed /\ bell' = bell
  /\ UNCHANGED <<alert, called>>

Call(some) ==
  /\ alert = "stands"
  /\ called = {} /\ Ringing = {}
  /\ \A m \in some : notice[m] = "unseen" /\ bell[m] = "silent"
  /\ called' = some
  /\ UNCHANGED <<alert, notice, bell>>

Ring(m) ==
  /\ m \in called /\ Ringing = {} /\ bell[m] = "silent"
  /\ called' = called \ {m}
  /\ bell' = [bell EXCEPT ![m] = "rung"]
  /\ UNCHANGED <<alert, notice>>

\* Nothing can be rung.
Miss(m) ==
  /\ m \in called
  /\ called' = called \ {m}
  /\ UNCHANGED <<alert, notice, bell>>

Note(m) ==
  /\ m \in Ringing
  /\ bell' = [bell EXCEPT ![m] = "noted"]
  /\ UNCHANGED <<alert, notice, called>>

\* Who is called and who was rung last.
Forget ==
  /\ called' = {}
  /\ bell' = [m \in Manager |-> IF m \in Ringing THEN "silent" ELSE bell[m]]
  /\ UNCHANGED <<alert, notice>>

Next ==
  \/ Raise \/ Settle \/ Forget
  \/ \E some \in SUBSET Manager : Invite(some) \/ Call(some)
  \/ \E m \in Manager :
       \/ Look(m) \/ Dismiss(m) \/ Sleep(m) \/ Wake(m) \/ Assign(m)
       \/ Ring(m) \/ Miss(m) \/ Note(m)

Spec == Init /\ [][Next]_delivery
=============================================================================
