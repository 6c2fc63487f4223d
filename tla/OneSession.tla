----------------------------- MODULE OneSession -----------------------------
(***************************************************************************)
(* What the one-session rule promises (accounts/middleware.py): whoever    *)
(* starts to act for an account holds it.  Nobody takes the account from   *)
(* its holder but a new sign-in; it is claimed only while it is free, and  *)
(* it is freed only by a sign-out of the holder: one it asked for, or one  *)
(* that was imposed on it while it was not the holder.                     *)
(***************************************************************************)
CONSTANTS
  Session,   \* session keys
  NoSession, \* no session
  Request    \* requests that may be under way at a time

VARIABLES
  holder,  \* the session that has the account
  acting,  \* the session each request acts for
  refused  \* the session each request was refused to act for

vars == <<holder, acting, refused>>

Nobody == [r \in Request |-> NoSession]

Init == holder = NoSession /\ acting = Nobody /\ refused = Nobody

\* A session signs in, new or again; requests that act already go on.
TakeOver(s) ==
  /\ holder' = s
  /\ UNCHANGED <<acting, refused>>

Start(r, s) ==
  /\ acting[r] = NoSession /\ refused[r] = NoSession
  /\ holder \in {s, NoSession}
  /\ holder' = s
  /\ acting' = [acting EXCEPT ![r] = s]
  /\ UNCHANGED refused

Refuse(r, s) ==
  /\ acting[r] = NoSession /\ refused[r] = NoSession
  /\ holder \notin {s, NoSession}
  /\ refused' = [refused EXCEPT ![r] = s]
  /\ UNCHANGED <<holder, acting>>

Stop(r) ==
  /\ acting' = [acting EXCEPT ![r] = NoSession]
  /\ UNCHANGED <<holder, refused>>

\* A sign-out frees the account if its session holds it.
SignOut(r) ==
  /\ acting[r] # NoSession \/ refused[r] # NoSession
  /\ holder' = IF holder \in {acting[r], refused[r]} THEN NoSession ELSE holder
  /\ acting' = [acting EXCEPT ![r] = NoSession]
  /\ refused' = [refused EXCEPT ![r] = NoSession]

Next ==
  \/ \E s \in Session : TakeOver(s)
  \/ \E r \in Request :
       \/ Stop(r) \/ SignOut(r)
       \/ \E s \in Session : Start(r, s) \/ Refuse(r, s)

Spec == Init /\ [][Next]_vars
=============================================================================
