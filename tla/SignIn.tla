------------------------------- MODULE SignIn -------------------------------
(***************************************************************************)
(* One customer's account: sign-up, sign-in, the one-session rule, staff   *)
(* decisions about the account, the profile, and the links of password     *)
(* mails (accounts/, account_approval of management_portal/views.py).      *)
(*                                                                         *)
(* Several requests are under way at once.  Each is cut where the code     *)
(* commits or reads without a lock: the row of the user it has in memory   *)
(* and later saves; the middleware's look at the pointer, its decision     *)
(* under the lock of the user's row, the sign-out after it; the session    *)
(* row of a sign-in, the pointer and the answer that saves the session.    *)
(***************************************************************************)
EXTENDS Naturals, FiniteSets

CONSTANTS
  Session,    \* session keys
  NoSession,  \* no pointer; a browser that is not signed in to the account
  Request,    \* requests that may be under way at a time
  MaxSignIns, \* bound: sign-ins
  MaxResets,  \* bound: passwords set after the first
  MaxMails    \* bound: different links sent

ASSUME SessionAssumption ==
  /\ NoSession \notin Session
  /\ MaxSignIns \in Nat \ {0} /\ MaxResets \in Nat /\ MaxMails \in Nat

VARIABLES
  account,   \* the User row
  session,   \* the Session rows
  hash,      \* the password each session was signed in with
  pointer,   \* ActiveSession.session_key
  request,   \* where each request is, and the User row it has in memory
  mailed,    \* links sent: the password and sign-in they were made for
  signIns,   \* sign-ins so far: last_login is the number of one
  passwords, \* passwords set so far
  latest     \* history: the session that signed in last, while it holds

vars == <<account, session, hash, pointer, request, mailed, signIns, passwords,
          latest>>

Account ==
  [status: {"none", "inactive", "active"},
   login: 0..MaxSignIns,   \* last_login: the sign-in, 0 if there was none
   password: 0..MaxResets, \* its hash, salted afresh whenever it is set
   verified: BOOLEAN,      \* mobile_verified_at is set
   retired: BOOLEAN]       \* left by the retired flow: an unused PhoneVerification

NoAccount ==
  [status |-> "none", login |-> 0, password |-> 0, verified |-> FALSE,
   retired |-> FALSE]

Stage ==
  {"idle",
   "signing up",  \* RegistrationForm is valid; seen is the account it read
   "entering",    \* login() is about to run
   "cycled",      \* login() has settled the session's key
   "pointed",     \* the pointer is moved, the session not saved
   "loaded",      \* the session is authenticated; the middleware is next
   "mismatched",  \* the lock-free read saw another pointer, or none
   "expelled",    \* the read under the lock did: logout() is next
   "admitted",    \* the view runs, with seen as its request.user
   "shut out",    \* the view runs, for nobody: the session's user is inactive
   "resetting",   \* the link of a mail is good for a new password
   "opening",     \* the link of a mail is good for opening the account
   "leaving"}     \* logout() has sent its signal, the flush is next

Handler ==
  [stage: Stage, session: Session \cup {NoSession}, seen: Account]

Idle == [stage |-> "idle", session |-> NoSession, seen |-> NoAccount]

Mail == [password: 0..MaxResets, login: 0..MaxSignIns]

TypeOK ==
  /\ account \in Account
  /\ session \in [Session -> {"none", "new", "in", "out"}]
  /\ hash \in [Session -> 0..MaxResets]
  /\ pointer \in Session \cup {NoSession}
  /\ request \in [Request -> Handler]
  /\ mailed \subseteq Mail
  /\ signIns \in 0..MaxSignIns
  /\ passwords \in 0..MaxResets
  /\ latest \in Session \cup {NoSession}

\* No account yet, one left by the retired sign-up, or one in use, with
\* sessions from before the pointers were introduced.
Init ==
  /\ \/ account = NoAccount
     \/ account = [NoAccount EXCEPT !.status = "inactive", !.retired = TRUE]
     \/ account = [NoAccount EXCEPT !.status = "active", !.login = 1]
  /\ \E signedIn \in SUBSET Session :
       /\ account.login = 0 => signedIn = {}
       /\ session = [s \in Session |-> IF s \in signedIn THEN "in" ELSE "none"]
  /\ hash = [s \in Session |-> 0]
  /\ pointer = NoSession
  /\ request = [r \in Request |-> Idle]
  /\ mailed = {}
  /\ signIns = account.login
  /\ passwords = 0
  /\ latest = NoSession

At(r, stage) == request[r].stage = stage

Go(r, stage) == request' = [request EXCEPT ![r].stage = stage]

\* Goes on with the User row as it is.
Reads(r, stage) ==
  request' = [request EXCEPT ![r].stage = stage, ![r].seen = account]

\* Goes on to a stage that has no more use for that row.
Forgets(r, stage) ==
  request' = [request EXCEPT ![r].stage = stage, ![r].seen = NoAccount]

End(r) == request' = [request EXCEPT ![r] = Idle]

\* The view runs: in a browser not signed in to the account, or in one whose
\* session is, as its user or as nobody.
Viewing(r) == request[r].stage \in {"idle", "admitted", "shut out"}

\* The bound on sign-ins, for the requests that lead to one.
MoreSignIns == signIns < MaxSignIns

counters == <<mailed, signIns, passwords>>

-----------------------------------------------------------------------------
(* Sign-up and sign-in. *)

\* Variant for the mutation runs: any inactive account is taken up again.
ResumableInactive == account.status = "inactive"

\* An account of the retired flow nobody ever signed in to.
Resumable ==
  /\ account.status = "inactive"
  /\ account.retired
  /\ account.login = 0

\* RegistrationForm.is_valid()
CheckSignUp(r) ==
  /\ Viewing(r) /\ MoreSignIns
  /\ account.status = "none" \/ Resumable
  /\ Reads(r, "signing up")
  /\ UNCHANGED <<account, session, hash, pointer, counters, latest>>

\* RegistrationForm.save(): a row that was read is saved with every column as
\* it was read.
SaveSignUp(r) ==
  /\ At(r, "signing up")
  /\ request[r].seen.status = "none" => account.status = "none"
  /\ account' = [request[r].seen EXCEPT !.status = "active"]
  /\ Go(r, "entering")
  /\ UNCHANGED <<session, hash, pointer, counters, latest>>

\* The address or the number is taken by now: IntegrityError.
FailSignUp(r) ==
  /\ At(r, "signing up")
  /\ request[r].seen.status = "none" /\ account.status # "none"
  /\ End(r)
  /\ UNCHANGED <<account, session, hash, pointer, counters, latest>>

\* The right password of an active account, in a browser that is signed out or
\* (the sign-in page does not mind) signed in.
Authenticate(r) ==
  /\ Viewing(r) /\ MoreSignIns
  /\ account.status = "active"
  /\ Reads(r, "entering")
  /\ UNCHANGED <<account, session, hash, pointer, counters, latest>>

\* The session is this user's already, by the same password.
SameUser(r) ==
  /\ request[r].session # NoSession
  /\ hash[request[r].session] = request[r].seen.password

\* login() in a session of the same user: the key stays.
KeepKey(r) ==
  /\ At(r, "entering") /\ SameUser(r)
  /\ Forgets(r, "cycled")
  /\ UNCHANGED <<account, session, hash, pointer, counters, latest>>

\* login() elsewhere: cycle_key(), or flush() and the receiver's save(): a new
\* row, of which no browser knows before the answer, and the old one is deleted.
Cycle(r, s) ==
  /\ At(r, "entering") /\ ~SameUser(r)
  /\ session[s] = "none"
  /\ session' = [t \in Session |->
       IF t = s THEN "new"
       ELSE IF t = request[r].session THEN "out" ELSE session[t]]
  /\ hash' = [hash EXCEPT ![s] = request[r].seen.password]
  /\ request' = [request EXCEPT ![r] =
                   [stage |-> "cycled", session |-> s, seen |-> NoAccount]]
  /\ latest' = IF latest = request[r].session THEN NoSession ELSE latest
  /\ UNCHANGED <<account, pointer, counters>>

\* A session on its way out, or gone: another request of it is past the lock, or
\* past its sign-out.
Doomed(s) ==
  \/ session[s] = "out"
  \/ \E q \in Request : /\ request[q].session = s
                        /\ At(q, "expelled") \/ At(q, "leaving")

\* user_logged_in: update_last_login, and enforce_single_session_on_login.
Point(r) ==
  LET s == request[r].session IN
  /\ At(r, "cycled") /\ MoreSignIns
  /\ signIns' = signIns + 1
  /\ account' = [account EXCEPT !.login = signIns + 1]
  /\ pointer' = s
  /\ latest' = IF Doomed(s) THEN NoSession ELSE s
  /\ Go(r, "pointed")
  /\ UNCHANGED <<session, hash, mailed, passwords>>

\* SessionMiddleware saves the session with the user's id and goes to the
\* browser; a row that was deleted stays so (UpdateError).
Answer(r) ==
  /\ At(r, "pointed")
  /\ session' = [session EXCEPT ![request[r].session] =
                   IF @ = "new" THEN "in" ELSE @]
  /\ End(r)
  /\ UNCHANGED <<account, hash, pointer, counters, latest>>

-----------------------------------------------------------------------------
(* AuthenticationMiddleware: the session is there.                           *)

\* Its user is active, and has the password it was signed in with.
Load(r, s) ==
  /\ At(r, "idle") /\ session[s] = "in"
  /\ account.status = "active" /\ hash[s] = account.password
  /\ request' = [request EXCEPT ![r] =
                   [stage |-> "loaded", session |-> s, seen |-> account]]
  /\ UNCHANGED <<account, session, hash, pointer, counters, latest>>

\* Its user is inactive: nobody is signed in, but the session keeps its user.
ShutOut(r, s) ==
  /\ At(r, "idle") /\ session[s] = "in"
  /\ account.status = "inactive"
  /\ request' = [request EXCEPT ![r] =
                   [stage |-> "shut out", session |-> s, seen |-> NoAccount]]
  /\ UNCHANGED <<account, session, hash, pointer, counters, latest>>

\* Its user has another password by now: the session is flushed, and the request
\* goes on without one.  The pointer stays.
DropVoid(s) ==
  /\ session[s] = "in"
  /\ account.status = "active" /\ hash[s] # account.password
  /\ session' = [session EXCEPT ![s] = "out"]
  /\ latest' = IF latest = s THEN NoSession ELSE latest
  /\ UNCHANGED <<account, hash, pointer, request, counters>>

-----------------------------------------------------------------------------
(* SingleSessionMiddleware, before every authenticated request. *)

\* The fast path: a read without a lock.
Look(r) ==
  /\ At(r, "loaded")
  /\ Go(r, IF pointer = request[r].session THEN "admitted" ELSE "mismatched")
  /\ UNCHANGED <<account, session, hash, pointer, counters, latest>>

\* Variant for the mutation runs: the first read is not repeated.
AdmittedIfFree(r) == pointer = NoSession

\* get_or_create under the lock, and the second look.
AdmittedUnderLock(r) == pointer \in {NoSession, request[r].session}

Decide(r) ==
  /\ At(r, "mismatched")
  /\ IF AdmittedUnderLock(r)
     THEN pointer' = request[r].session /\ Go(r, "admitted")
     ELSE Forgets(r, "expelled") /\ UNCHANGED pointer
  /\ UNCHANGED <<account, session, hash, counters, latest>>

-----------------------------------------------------------------------------
(* Sign-out. *)

\* Variant for the mutation runs: the user's pointer, whatever it names.
ReleasedByUser(s) == NoSession

\* release_active_session_on_logout: the row with this user and this key.
Released(s) == IF pointer = s THEN NoSession ELSE pointer

\* logout(): the signal goes out before the session is flushed.  The caller is
\* the sign-out view, or the middleware.
Release(r) ==
  LET s == request[r].session IN
  /\ At(r, "admitted") \/ At(r, "expelled")
  /\ pointer' = Released(s)
  /\ latest' = IF At(r, "admitted") /\ latest = s THEN NoSession ELSE latest
  /\ Forgets(r, "leaving")
  /\ UNCHANGED <<account, session, hash, counters>>

\* The sign-out view, for nobody: no user, no release.
ReleaseNothing(r) ==
  /\ At(r, "shut out")
  /\ latest' = IF latest = request[r].session THEN NoSession ELSE latest
  /\ Forgets(r, "leaving")
  /\ UNCHANGED <<account, session, hash, pointer, counters>>

Flush(r) ==
  /\ At(r, "leaving")
  /\ session' = [session EXCEPT ![request[r].session] = "out"]
  /\ End(r)
  /\ UNCHANGED <<account, hash, pointer, counters, latest>>

-----------------------------------------------------------------------------
(* Other views. *)

\* ProfileIdentityView: the names are changed on request.user, and every column
\* is saved as the session's request has loaded it.
SaveProfile(r) ==
  /\ At(r, "admitted")
  /\ account' = request[r].seen
  /\ End(r)
  /\ UNCHANGED <<session, hash, pointer, counters, latest>>

\* Those that leave the account alone.
Finish(r) ==
  /\ At(r, "admitted") \/ At(r, "shut out")
  /\ End(r)
  /\ UNCHANGED <<account, session, hash, pointer, counters, latest>>

\* PasswordResetForm: links are sent to active accounts.
RequestReset ==
  /\ account.status = "active" /\ Cardinality(mailed) < MaxMails
  /\ mailed' = mailed \cup {[password |-> account.password, login |-> account.login]}
  /\ UNCHANGED <<account, session, hash, pointer, request, signIns, passwords,
                 latest>>

\* default_token_generator.check_token: neither a sign-in nor a new password
\* since.
LinkGood ==
  /\ account.status # "none"
  /\ [password |-> account.password, login |-> account.login] \in mailed

\* AccountPasswordResetConfirmView.dispatch, of an account in any state ...
CheckReset(r) ==
  /\ Viewing(r) /\ LinkGood /\ passwords < MaxResets
  /\ Reads(r, "resetting")
  /\ UNCHANGED <<account, session, hash, pointer, counters, latest>>

\* ... and SetPasswordForm.save(): every column, as dispatch has read it.
SaveReset(r) ==
  /\ At(r, "resetting") /\ passwords < MaxResets
  /\ passwords' = passwords + 1
  /\ account' = [request[r].seen EXCEPT !.password = passwords + 1]
  /\ End(r)
  /\ UNCHANGED <<session, hash, pointer, mailed, signIns, latest>>

\* verify_email takes the same links, for a verified number.
Openable == LinkGood /\ account.verified

CheckOpening(r) ==
  /\ Viewing(r) /\ Openable /\ MoreSignIns
  /\ Reads(r, "opening")
  /\ UNCHANGED <<account, session, hash, pointer, counters, latest>>

\* save(update_fields=["email_verified", "is_active"]), and login() next.
Open(r) ==
  /\ At(r, "opening")
  /\ account' = [account EXCEPT !.status = "active"]
  /\ Go(r, "entering")
  /\ UNCHANGED <<session, hash, pointer, counters, latest>>

-----------------------------------------------------------------------------
(* The staff, with the row locked, save the columns they change.             *)

\* account_approval: approve
Approve ==
  /\ account.status # "none"
  /\ account' = [account EXCEPT !.status = "active", !.verified = TRUE]
  /\ UNCHANGED <<session, hash, pointer, request, counters, latest>>

\* approve_accounts of the admin site.
ApproveInAdmin ==
  /\ account.status = "inactive"
  /\ account' = [account EXCEPT !.status = "active"]
  /\ UNCHANGED <<session, hash, pointer, request, counters, latest>>

\* account_approval: reject, which is also how an account is suspended.
Reject ==
  /\ account.status # "none"
  /\ account' = [account EXCEPT !.status = "inactive"]
  /\ UNCHANGED <<session, hash, pointer, request, counters, latest>>

\* account_approval: verify_mobile
VerifyMobile ==
  /\ account.status = "active" /\ ~account.verified
  /\ account' = [account EXCEPT !.verified = TRUE]
  /\ UNCHANGED <<session, hash, pointer, request, counters, latest>>

-----------------------------------------------------------------------------
Next ==
  \/ Approve \/ ApproveInAdmin \/ Reject \/ VerifyMobile \/ RequestReset
  \/ \E r \in Request :
       \/ CheckSignUp(r) \/ SaveSignUp(r) \/ FailSignUp(r)
       \/ Authenticate(r) \/ KeepKey(r) \/ Point(r) \/ Answer(r)
       \/ Look(r) \/ Decide(r) \/ Release(r) \/ ReleaseNothing(r) \/ Flush(r)
       \/ SaveProfile(r) \/ Finish(r)
       \/ CheckReset(r) \/ SaveReset(r) \/ CheckOpening(r) \/ Open(r)
       \/ \E s \in Session : Cycle(r, s) \/ Load(r, s) \/ ShutOut(r, s)
  \/ \E s \in Session : DropVoid(s)

Spec == Init /\ [][Next]_vars

-----------------------------------------------------------------------------
(* Properties. *)

\* Whoever signed in last has the account until it signs out by itself or its
\* password is replaced: no sign-out or claim of an older session takes the
\* pointer from it or deletes its row, however late it comes, and the middleware
\* never signs it out.  But a sign-in that keeps its session's key can come too
\* late for it (see Doomed): a request of that key that was expelled before
\* takes the pointer back and deletes the row.
LastSignInHolds ==
  latest # NoSession =>
    /\ pointer = latest
    /\ session[latest] # "out"
    /\ \A r \in Request :
         At(r, "expelled") \/ At(r, "leaving") => request[r].session # latest

\* "A public signup may only resume an account left by the retired OTP flow,
\* never an arbitrary deactivated customer account": whoever has once signed
\* in and is suspended comes back by the staff, or by a request of its own only
\* if that is a sign-up that has checked before there was any sign-in; a
\* profile or a password that is saved with the row as it was before the
\* suspension; or the link of a mail sent before it, for a verified number.
SuspendedUntilApproved ==
  [][account.login # 0 /\ account.status = "inactive"
       /\ account'.status = "active" =>
     \/ UNCHANGED request
     \/ \E r \in Request :
          LET seen == request[r].seen IN
          \/ At(r, "signing up") /\ seen.login = 0
          \/ (At(r, "admitted") \/ At(r, "resetting")) /\ seen.status = "active"
          \/ /\ At(r, "opening") /\ seen.verified
             /\ [password |-> seen.password, login |-> seen.login] \in mailed]_vars

SessionAt(stage) ==
  [r \in Request |-> IF At(r, stage) THEN request[r].session ELSE NoSession]

\* Only the account's session starts to act, and the account passes from one
\* to another only by a sign-in or through a sign-out, which leaves the account
\* alone if another session has it by then.
Rule == INSTANCE OneSession
  WITH holder <- pointer, acting <- SessionAt("admitted"),
       refused <- SessionAt("expelled")
KeepsOneSession == Rule!Spec
=============================================================================
