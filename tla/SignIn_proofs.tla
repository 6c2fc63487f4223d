--------------------------- MODULE SignIn_proofs ---------------------------
(***************************************************************************)
(* Theorems of SignIn, for any session keys and any number of requests at  *)
(* a time.                                                                 *)
(***************************************************************************)
EXTENDS SignIn, TLAPS

\* The stages of a request that has a session of the account.
WithSession ==
  {"cycled", "pointed", "loaded", "mismatched", "expelled", "admitted",
   "shut out", "leaving"}

RequestsHaveSessions ==
  \A r \in Request :
    request[r].stage \in WithSession => request[r].session # NoSession

\* What the rows in memory tell of their requests: a sign-up that passed its
\* checks read an account nobody had signed in to, a view runs for an account
\* that was active, and a link is good for an account that was there.
RowsInMemory ==
  \A r \in Request :
    LET seen == request[r].seen IN
    /\ At(r, "signing up") => seen.login = 0
    /\ request[r].stage \in {"loaded", "mismatched", "admitted"} =>
         seen.status = "active"
    /\ At(r, "resetting") => seen.status # "none"
    /\ At(r, "opening") =>
         /\ seen.verified
         /\ [password |-> seen.password, login |-> seen.login] \in mailed

\* Nothing but a sign-up is under way for an account that is not there.
NobodysAccount ==
  account.status = "none" =>
    /\ account.login = 0
    /\ \A r \in Request : At(r, "idle") \/ At(r, "signing up")

SessionInv ==
  /\ TypeOK
  /\ LastSignInHolds
  /\ RequestsHaveSessions

IndInv == SessionInv /\ RowsInMemory /\ NobodysAccount

LEMMA AccountTypes ==
  /\ NoAccount \in Account
  /\ Idle \in Handler
  /\ \A a \in Account :
       /\ [a EXCEPT !.status = "active"] \in Account
       /\ [a EXCEPT !.status = "inactive"] \in Account
       /\ [a EXCEPT !.verified = TRUE] \in Account
       /\ [a EXCEPT !.status = "active", !.verified = TRUE] \in Account
       /\ \A n \in 0..MaxSignIns : [a EXCEPT !.login = n] \in Account
       /\ \A n \in 0..MaxResets : [a EXCEPT !.password = n] \in Account
<1>1. 0 \in 0..MaxSignIns /\ 0 \in 0..MaxResets
  BY SessionAssumption
<1>2. NoAccount \in Account
  BY <1>1 DEF NoAccount, Account
<1>3. Idle \in Handler
  BY <1>2 DEF Idle, Handler, Stage
<1>4. ASSUME NEW a \in Account
      PROVE  /\ [a EXCEPT !.status = "active"] \in Account
             /\ [a EXCEPT !.status = "inactive"] \in Account
             /\ [a EXCEPT !.verified = TRUE] \in Account
             /\ [a EXCEPT !.status = "active", !.verified = TRUE] \in Account
  BY DEF Account
<1>5. ASSUME NEW a \in Account, NEW n \in 0..MaxSignIns
      PROVE  [a EXCEPT !.login = n] \in Account
  BY DEF Account
<1>6. ASSUME NEW a \in Account, NEW n \in 0..MaxResets
      PROVE  [a EXCEPT !.password = n] \in Account
  BY DEF Account
<1> QED
  BY <1>2, <1>3, <1>4, <1>5, <1>6

LEMMA InitialAccounts ==
  ASSUME Init
  PROVE  /\ account \in Account
         /\ account.status = "none" => account.login = 0
<1>1. CASE account = NoAccount
  BY <1>1, AccountTypes DEF NoAccount
<1>2. CASE account = [NoAccount EXCEPT !.status = "inactive", !.retired = TRUE]
  <2>1. 0 \in 0..MaxSignIns /\ 0 \in 0..MaxResets
    BY SessionAssumption
  <2> QED
    BY <1>2, <2>1 DEF NoAccount, Account
<1>3. CASE account = [NoAccount EXCEPT !.status = "active", !.login = 1]
  <2>1. 1 \in 0..MaxSignIns /\ 0 \in 0..MaxResets
    BY SessionAssumption
  <2> QED
    BY <1>3, <2>1 DEF NoAccount, Account
<1> QED
  BY <1>1, <1>2, <1>3 DEF Init

LEMMA InitInv == Init => IndInv
<1> SUFFICES ASSUME Init  PROVE  IndInv
  OBVIOUS
<1> USE SessionAssumption
<1>1. \A r \in Request : request[r] = Idle
  BY DEF Init
<1>2. /\ session \in [Session -> {"none", "new", "in", "out"}]
      /\ pointer \in Session \cup {NoSession}
      /\ latest = NoSession
      /\ hash \in [Session -> 0..MaxResets]
      /\ mailed \subseteq Mail /\ passwords \in 0..MaxResets
  BY DEF Init
<1>4. request \in [Request -> Handler]
  BY AccountTypes DEF Init
<1>3. signIns \in 0..MaxSignIns
  BY InitialAccounts DEF Init, Account
<1>5. TypeOK
  BY <1>2, <1>3, <1>4, InitialAccounts DEF TypeOK
<1>6. \A r \in Request : request[r].stage = "idle"
  BY <1>1 DEF Idle
<1>7. SessionInv
  BY <1>2, <1>5, <1>6 DEF SessionInv, LastSignInHolds, RequestsHaveSessions,
                          WithSession
<1>8. RowsInMemory
  BY <1>6 DEF RowsInMemory, At
<1>9. NobodysAccount
  BY <1>6, InitialAccounts DEF NobodysAccount, At
<1> QED
  BY <1>7, <1>8, <1>9 DEF IndInv

-----------------------------------------------------------------------------
(* What a step does to the request that makes it. *)

LEMMA Went ==
  ASSUME TypeOK, NEW r \in Request, NEW stage \in Stage, Go(r, stage)
  PROVE  /\ request' \in [Request -> Handler]
         /\ request'[r].stage = stage
         /\ request'[r].session = request[r].session
         /\ request'[r].seen = request[r].seen
         /\ \A q \in Request \ {r} : request'[q] = request[q]
BY DEF TypeOK, Handler, Go

LEMMA HasRead ==
  ASSUME TypeOK, NEW r \in Request, NEW stage \in Stage, Reads(r, stage)
  PROVE  /\ request' \in [Request -> Handler]
         /\ request'[r].stage = stage
         /\ request'[r].session = request[r].session
         /\ request'[r].seen = account
         /\ \A q \in Request \ {r} : request'[q] = request[q]
BY DEF TypeOK, Handler, Reads

LEMMA Forgot ==
  ASSUME TypeOK, NEW r \in Request, NEW stage \in Stage, Forgets(r, stage)
  PROVE  /\ request' \in [Request -> Handler]
         /\ request'[r].stage = stage
         /\ request'[r].session = request[r].session
         /\ \A q \in Request \ {r} : request'[q] = request[q]
BY AccountTypes DEF TypeOK, Handler, Forgets

LEMMA Ended ==
  ASSUME TypeOK, NEW r \in Request, End(r)
  PROVE  /\ request' \in [Request -> Handler]
         /\ request'[r].stage = "idle"
         /\ request'[r].session = NoSession
         /\ \A q \in Request \ {r} : request'[q] = request[q]
BY AccountTypes DEF TypeOK, Handler, End, Idle

LEMMA Came ==
  ASSUME TypeOK, NEW r \in Request, NEW stage \in Stage, NEW s \in Session,
         NEW a \in Account,
         request' = [request EXCEPT ![r] =
                      [stage |-> stage, session |-> s, seen |-> a]]
  PROVE  /\ request' \in [Request -> Handler]
         /\ request'[r].stage = stage
         /\ request'[r].session = s
         /\ request'[r].seen = a
         /\ \A q \in Request \ {r} : request'[q] = request[q]
BY DEF TypeOK, Handler

LEMMA OfTypes ==
  ASSUME TypeOK, NEW r \in Request
  PROVE  /\ account \in Account /\ request[r].seen \in Account
         /\ request[r].stage \in Stage
         /\ request[r].session \in Session \cup {NoSession}
         /\ request[r].seen.password \in 0..MaxResets
BY DEF TypeOK, Handler, Account

\* The common case: a request moves on, and the rows of sessions and the pointer
\* are left alone.
LEMMA QuietMove ==
  ASSUME SessionInv, NEW r \in Request,
         request' \in [Request -> Handler],
         \A q \in Request \ {r} : request'[q] = request[q],
         request'[r].stage \in WithSession => request'[r].session # NoSession,
         request'[r].stage \notin {"expelled", "leaving"},
         account' \in Account, mailed' \subseteq Mail,
         passwords' \in 0..MaxResets,
         UNCHANGED <<session, hash, pointer, signIns, latest>>
  PROVE  SessionInv'
BY DEF SessionInv, TypeOK, LastSignInHolds, RequestsHaveSessions, At

LEMMA StepSessionInv == SessionInv /\ [Next]_vars => SessionInv'
<1> SUFFICES ASSUME SessionInv, [Next]_vars  PROVE  SessionInv'
  OBVIOUS
<1> USE SessionAssumption
<1>t. TypeOK
  BY DEF SessionInv
<1>c. counters = <<mailed, signIns, passwords>>
  BY DEF counters
<1>1. CASE UNCHANGED vars
  BY <1>1 DEF vars, SessionInv, TypeOK, LastSignInHolds, RequestsHaveSessions, At
<1>2. CASE Approve \/ ApproveInAdmin \/ Reject \/ VerifyMobile \/ RequestReset
  <2>1. account' \in Account
    BY <1>t, <1>2, AccountTypes
    DEF TypeOK, Approve, ApproveInAdmin, Reject, VerifyMobile, RequestReset
  <2>2. mailed' \subseteq Mail
    BY <1>t, <1>2 DEF TypeOK, Approve, ApproveInAdmin, Reject, VerifyMobile,
                      RequestReset, counters, Mail, Account
  <2>3. UNCHANGED <<session, hash, pointer, request, signIns, passwords, latest>>
    BY <1>2 DEF Approve, ApproveInAdmin, Reject, VerifyMobile, RequestReset,
                counters
  <2> QED
    BY <2>1, <2>2, <2>3 DEF SessionInv, TypeOK, LastSignInHolds,
                            RequestsHaveSessions, At
<1>3. ASSUME NEW r \in Request,
             CheckSignUp(r) \/ Authenticate(r) \/ CheckReset(r) \/ CheckOpening(r)
      PROVE  SessionInv'
  <2>1. /\ UNCHANGED <<account, session, hash, pointer, counters, latest>>
        /\ \E stage \in Stage \ WithSession : Reads(r, stage)
    BY <1>3 DEF CheckSignUp, Authenticate, CheckReset, CheckOpening, Stage,
                WithSession
  <2>2. PICK stage \in Stage \ WithSession : Reads(r, stage)
    BY <2>1
  <2>3. stage \notin {"expelled", "leaving"}
    BY DEF WithSession
  <2> QED
    BY <1>t, <2>1, <2>2, <2>3, HasRead, QuietMove DEF TypeOK, counters
<1>4. ASSUME NEW r \in Request, SaveSignUp(r) \/ Open(r)
      PROVE  SessionInv'
  <2>1. /\ UNCHANGED <<session, hash, pointer, counters, latest>>
        /\ Go(r, "entering") /\ "entering" \in Stage \ WithSession
    BY <1>4 DEF SaveSignUp, Open, Stage, WithSession
  <2>2. account' \in Account
    <3>1. account \in Account /\ request[r].seen \in Account
      BY <1>t, OfTypes
    <3> QED
      BY <1>4, <3>1, AccountTypes DEF SaveSignUp, Open
  <2> QED
    BY <1>t, <2>1, <2>2, Went, QuietMove DEF TypeOK, counters
<1>5. ASSUME NEW r \in Request,
             FailSignUp(r) \/ Finish(r) \/ SaveProfile(r) \/ SaveReset(r)
      PROVE  SessionInv'
  <2>1. End(r) /\ UNCHANGED <<session, hash, pointer, mailed, signIns, latest>>
    BY <1>5 DEF FailSignUp, Finish, SaveProfile, SaveReset, counters
  <2>2. account' \in Account /\ passwords' \in 0..MaxResets
    <3>1. CASE SaveReset(r)
      <4>1. passwords + 1 \in 0..MaxResets
        BY <1>t, <3>1 DEF SaveReset, TypeOK
      <4> QED
        BY <1>t, <3>1, <4>1, OfTypes, AccountTypes DEF SaveReset
    <3>2. CASE FailSignUp(r) \/ Finish(r) \/ SaveProfile(r)
      BY <1>t, <3>2, OfTypes DEF FailSignUp, Finish, SaveProfile, counters, TypeOK
    <3> QED
      BY <1>5, <3>1, <3>2
  <2> QED
    BY <1>t, <2>1, <2>2, Ended, QuietMove DEF TypeOK, WithSession
<1>6. ASSUME NEW r \in Request, KeepKey(r)
      PROVE  SessionInv'
  <2>1. /\ UNCHANGED <<account, session, hash, pointer, counters, latest>>
        /\ Forgets(r, "cycled") /\ "cycled" \in Stage
        /\ request[r].session # NoSession
    BY <1>6 DEF KeepKey, SameUser, Stage
  <2> QED
    BY <1>t, <2>1, Forgot, QuietMove DEF TypeOK, counters
<1>7. ASSUME NEW r \in Request, NEW s \in Session, Cycle(r, s)
      PROVE  SessionInv'
  <2>1. "cycled" \in Stage /\ NoAccount \in Account
    BY AccountTypes DEF Stage
  <2>2. request' = [request EXCEPT ![r] =
                     [stage |-> "cycled", session |-> s, seen |-> NoAccount]]
    BY <1>7 DEF Cycle
  <2>3. /\ request' \in [Request -> Handler]
        /\ request'[r].stage = "cycled" /\ request'[r].session = s
        /\ \A q \in Request \ {r} : request'[q] = request[q]
    BY <1>t, <2>1, <2>2, Came
  <2>4. /\ session' \in [Session -> {"none", "new", "in", "out"}]
        /\ hash' \in [Session -> 0..MaxResets]
        /\ UNCHANGED <<account, pointer, counters>>
    BY <1>t, <1>7, OfTypes DEF Cycle, TypeOK
  <2>5. /\ latest' \in {latest, NoSession}
        /\ latest' # NoSession => session'[latest] # "out"
    BY <1>t, <1>7 DEF Cycle, SessionInv, LastSignInHolds, TypeOK
  <2>6. TypeOK'
    BY <1>t, <2>3, <2>4, <2>5 DEF TypeOK, counters
  <2> QED
    BY <2>3, <2>4, <2>5, <2>6 DEF SessionInv, LastSignInHolds,
                                  RequestsHaveSessions, At
<1>8. ASSUME NEW r \in Request, Point(r)
      PROVE  SessionInv'
  <2> DEFINE s == request[r].session
  <2>1. /\ Go(r, "pointed") /\ At(r, "cycled") /\ "pointed" \in Stage
        /\ pointer' = s /\ latest' = IF Doomed(s) THEN NoSession ELSE s
        /\ UNCHANGED <<session, hash, mailed, passwords>>
        /\ signIns' = signIns + 1 /\ signIns' \in 0..MaxSignIns
        /\ account' = [account EXCEPT !.login = signIns + 1]
    BY <1>t, <1>8 DEF Point, MoreSignIns, Stage, TypeOK
  <2>2. account' \in Account
    BY <1>t, <2>1, OfTypes, AccountTypes
  <2>3. s \in Session \cup {NoSession}
    BY <1>t, OfTypes
  <2>4. TypeOK'
    BY <1>t, <2>1, <2>2, <2>3, Went DEF TypeOK
  <2>5. LastSignInHolds'
    BY <1>t, <2>1, Went DEF LastSignInHolds, At, Doomed
  <2> QED
    BY <1>t, <2>1, <2>4, <2>5, Went DEF SessionInv, RequestsHaveSessions, At,
                                        WithSession
<1>9. ASSUME NEW r \in Request, Answer(r)
      PROVE  SessionInv'
  <2> DEFINE s == request[r].session
  <2>1. /\ At(r, "pointed") /\ End(r)
        /\ UNCHANGED <<account, hash, pointer, counters, latest>>
        /\ session' = [session EXCEPT ![s] = IF @ = "new" THEN "in" ELSE @]
    BY <1>9 DEF Answer
  <2>2. s \in Session
    BY <1>t, <2>1, OfTypes DEF SessionInv, RequestsHaveSessions, At, WithSession
  <2>3. /\ session' \in [Session -> {"none", "new", "in", "out"}]
        /\ \A t \in Session : session[t] # "out" => session'[t] # "out"
    BY <1>t, <2>1, <2>2 DEF TypeOK
  <2>4. TypeOK'
    BY <1>t, <2>1, <2>3, Ended DEF TypeOK, counters
  <2>5. LastSignInHolds'
    BY <1>t, <2>1, <2>3, Ended DEF SessionInv, LastSignInHolds, At, TypeOK
  <2> QED
    BY <1>t, <2>1, <2>4, <2>5, Ended DEF SessionInv, RequestsHaveSessions,
                                         WithSession
<1>10. ASSUME NEW r \in Request, NEW s \in Session, Load(r, s) \/ ShutOut(r, s)
       PROVE  SessionInv'
  <2>1. UNCHANGED <<account, session, hash, pointer, counters, latest>>
    BY <1>10 DEF Load, ShutOut
  <2>2. /\ request' \in [Request -> Handler]
        /\ request'[r].stage \in {"loaded", "shut out"}
        /\ request'[r].session = s
        /\ \A q \in Request \ {r} : request'[q] = request[q]
    <3>1. CASE Load(r, s)
      BY <1>t, <3>1, Came, OfTypes DEF Load, Stage
    <3>2. CASE ShutOut(r, s)
      BY <1>t, <3>2, Came, AccountTypes DEF ShutOut, Stage
    <3> QED
      BY <1>10, <3>1, <3>2
  <2> QED
    BY <1>t, <2>1, <2>2, QuietMove DEF TypeOK, counters
<1>11. ASSUME NEW s \in Session, DropVoid(s)
       PROVE  SessionInv'
  BY <1>t, <1>11 DEF DropVoid, SessionInv, TypeOK, LastSignInHolds,
                     RequestsHaveSessions, At, counters
<1>12. ASSUME NEW r \in Request, Look(r)
       PROVE  SessionInv'
  <2>1. /\ At(r, "loaded")
        /\ UNCHANGED <<account, session, hash, pointer, counters, latest>>
        /\ \E stage \in {"admitted", "mismatched"} : Go(r, stage)
    BY <1>12 DEF Look
  <2>2. request[r].session # NoSession /\ {"admitted", "mismatched"} \subseteq Stage
    BY <2>1 DEF SessionInv, RequestsHaveSessions, At, WithSession, Stage
  <2> QED
    BY <1>t, <2>1, <2>2, Went, QuietMove DEF TypeOK, counters
<1>13. ASSUME NEW r \in Request, Decide(r)
       PROVE  SessionInv'
  <2>1. /\ At(r, "mismatched")
        /\ UNCHANGED <<account, session, hash, counters, latest>>
        /\ request[r].session \in Session
    BY <1>t, <1>13, OfTypes DEF Decide, At, SessionInv, RequestsHaveSessions,
                                WithSession
  <2>2. "admitted" \in Stage /\ "expelled" \in Stage
    BY DEF Stage
  <2>3. CASE AdmittedUnderLock(r)
    <3>1. Go(r, "admitted") /\ pointer' = request[r].session
      BY <1>13, <2>3 DEF Decide
    <3>2. latest # NoSession => pointer' = latest
      BY <2>3, <3>1 DEF AdmittedUnderLock, SessionInv, LastSignInHolds
    <3> QED
      BY <1>t, <2>1, <2>2, <3>1, <3>2, Went DEF SessionInv, TypeOK,
         LastSignInHolds, RequestsHaveSessions, At, counters
  <2>4. CASE ~AdmittedUnderLock(r)
    <3>1. Forgets(r, "expelled") /\ UNCHANGED pointer
      BY <1>13, <2>4 DEF Decide
    <3>2. latest # NoSession => request[r].session # latest
      BY <2>4 DEF AdmittedUnderLock, SessionInv, LastSignInHolds
    <3> QED
      BY <1>t, <2>1, <2>2, <3>1, <3>2, Forgot DEF SessionInv, TypeOK,
         LastSignInHolds, RequestsHaveSessions, At, counters
  <2> QED
    BY <2>3, <2>4
<1>14. ASSUME NEW r \in Request, Release(r) \/ ReleaseNothing(r)
       PROVE  SessionInv'
  <2>1. /\ Forgets(r, "leaving") /\ "leaving" \in Stage
        /\ UNCHANGED <<account, session, hash, counters>>
        /\ request[r].session # NoSession
    BY <1>14 DEF Release, ReleaseNothing, Stage, SessionInv,
                 RequestsHaveSessions, WithSession, At
  <2>2. /\ pointer' \in Session \cup {NoSession}
        /\ latest' \in {latest, NoSession}
    BY <1>t, <1>14 DEF Release, ReleaseNothing, Released, TypeOK
  <2>3. latest' # NoSession => /\ latest # request[r].session
                               /\ pointer' = pointer
    BY <1>14 DEF Release, ReleaseNothing, Released, SessionInv, LastSignInHolds
  <2>4. TypeOK'
    BY <1>t, <2>1, <2>2, Forgot DEF TypeOK, counters
  <2>5. LastSignInHolds'
    BY <1>t, <2>1, <2>2, <2>3, Forgot DEF SessionInv, LastSignInHolds, At
  <2> QED
    BY <1>t, <2>1, <2>4, <2>5, Forgot DEF SessionInv, RequestsHaveSessions
<1>15. ASSUME NEW r \in Request, Flush(r)
       PROVE  SessionInv'
  <2>1. /\ At(r, "leaving") /\ End(r)
        /\ UNCHANGED <<account, hash, pointer, counters, latest>>
        /\ session' = [session EXCEPT ![request[r].session] = "out"]
    BY <1>15 DEF Flush
  <2>2. latest # NoSession => latest # request[r].session
    BY <2>1 DEF SessionInv, LastSignInHolds
  <2>3. /\ session' \in [Session -> {"none", "new", "in", "out"}]
        /\ latest # NoSession => session'[latest] = session[latest]
    BY <1>t, <2>1, <2>2 DEF TypeOK
  <2>4. TypeOK'
    BY <1>t, <2>1, <2>3, Ended DEF TypeOK, counters
  <2>5. LastSignInHolds'
    BY <1>t, <2>1, <2>3, Ended DEF SessionInv, LastSignInHolds, At
  <2> QED
    BY <1>t, <2>1, <2>4, <2>5, Ended DEF SessionInv, RequestsHaveSessions,
                                         WithSession
<1> QED
  BY <1>1, <1>2, <1>3, <1>4, <1>5, <1>6, <1>7, <1>8, <1>9, <1>10, <1>11,
     <1>12, <1>13, <1>14, <1>15 DEF Next

\* A request that moves on without a row that tells anything.
LEMMA RowsKept ==
  ASSUME TypeOK, RowsInMemory, NEW r \in Request,
         \A q \in Request \ {r} : request'[q] = request[q],
         request'[r].stage \notin {"signing up", "loaded", "mismatched",
                                  "admitted", "resetting", "opening"},
         UNCHANGED mailed
  PROVE  RowsInMemory'
BY DEF RowsInMemory, At

LEMMA StepRows ==
  ASSUME TypeOK, RowsInMemory, NobodysAccount, [Next]_vars
  PROVE  RowsInMemory'
<1>r. ASSUME NEW r \in Request, UNCHANGED mailed,
             \A q \in Request \ {r} : request'[q] = request[q],
             request'[r].stage = "signing up" => request'[r].seen.login = 0,
             request'[r].stage \in {"loaded", "mismatched", "admitted"} =>
               request'[r].seen.status = "active",
             request'[r].stage = "resetting" => request'[r].seen.status # "none",
             request'[r].stage = "opening" =>
               /\ request'[r].seen.verified
               /\ [password |-> request'[r].seen.password,
                   login |-> request'[r].seen.login] \in mailed
      PROVE  RowsInMemory'
  <2> SUFFICES ASSUME NEW q \in Request
               PROVE  LET seen == request'[q].seen IN
                      /\ At(q, "signing up")' => seen.login = 0
                      /\ request'[q].stage \in {"loaded", "mismatched", "admitted"}
                           => seen.status = "active"
                      /\ At(q, "resetting")' => seen.status # "none"
                      /\ At(q, "opening")' =>
                           /\ seen.verified
                           /\ [password |-> seen.password, login |-> seen.login]
                                \in mailed'
    BY DEF RowsInMemory
  <2>1. CASE q = r
    BY <1>r, <2>1 DEF At
  <2>2. CASE q # r
    BY <1>r, <2>2 DEF RowsInMemory, At
  <2> QED
    BY <2>1, <2>2
<1>1. CASE UNCHANGED vars
  BY <1>1 DEF vars, RowsInMemory, At
<1>2. CASE Approve \/ ApproveInAdmin \/ Reject \/ VerifyMobile \/ RequestReset
            \/ \E s \in Session : DropVoid(s)
  <2>1. UNCHANGED request /\ mailed \subseteq mailed'
    BY <1>2 DEF Approve, ApproveInAdmin, Reject, VerifyMobile, RequestReset,
                DropVoid, counters
  <2> QED
    BY <2>1 DEF RowsInMemory, At
<1>3. ASSUME NEW r \in Request,
             CheckSignUp(r) \/ CheckReset(r) \/ CheckOpening(r) \/ Authenticate(r)
      PROVE  RowsInMemory'
  <2>1. UNCHANGED <<account, mailed>>
    BY <1>3 DEF CheckSignUp, CheckReset, CheckOpening, Authenticate, counters
  <2>2. CASE CheckSignUp(r)
    <3>1. account.login = 0 /\ Reads(r, "signing up") /\ "signing up" \in Stage
      BY <2>2 DEF CheckSignUp, Resumable, NobodysAccount, Stage
    <3> QED
      BY <1>r, <2>1, <3>1, HasRead DEF At
  <2>3. CASE CheckReset(r)
    <3>1. account.status # "none" /\ Reads(r, "resetting") /\ "resetting" \in Stage
      BY <2>3 DEF CheckReset, LinkGood, Stage
    <3> QED
      BY <1>r, <2>1, <3>1, HasRead DEF At
  <2>4. CASE CheckOpening(r)
    <3>1. /\ account.verified /\ Reads(r, "opening") /\ "opening" \in Stage
          /\ [password |-> account.password, login |-> account.login] \in mailed
      BY <2>4 DEF CheckOpening, Openable, LinkGood, Stage
    <3> QED
      BY <1>r, <2>1, <3>1, HasRead DEF At
  <2>5. CASE Authenticate(r)
    <3>1. Reads(r, "entering") /\ "entering" \in Stage
      BY <2>5 DEF Authenticate, Stage
    <3> QED
      BY <2>1, <3>1, HasRead, RowsKept
  <2> QED
    BY <1>3, <2>2, <2>3, <2>4, <2>5
<1>4. ASSUME NEW r \in Request, Look(r) \/ Decide(r)
      PROVE  RowsInMemory'
  <2>1. /\ request[r].stage \in {"loaded", "mismatched"} /\ UNCHANGED mailed
        /\ \/ \E stage \in {"admitted", "mismatched"} : Go(r, stage)
           \/ Forgets(r, "expelled")
    BY <1>4 DEF Look, Decide, At, counters
  <2>2. {"admitted", "mismatched", "expelled"} \subseteq Stage
    BY DEF Stage
  <2>3. CASE Forgets(r, "expelled")
    BY <2>1, <2>2, <2>3, Forgot, RowsKept
  <2>4. ASSUME NEW stage \in {"admitted", "mismatched"}, Go(r, stage)
        PROVE  RowsInMemory'
    <3>1. request[r].seen.status = "active"
      BY <2>1 DEF RowsInMemory
    <3> QED
      BY <1>r, <2>1, <2>2, <2>4, <3>1, Went
  <2> QED
    BY <2>1, <2>3, <2>4
<1>5. ASSUME NEW r \in Request, NEW s \in Session, Load(r, s)
      PROVE  RowsInMemory'
  <2>1. /\ account.status = "active" /\ UNCHANGED mailed
        /\ request' = [request EXCEPT ![r] =
             [stage |-> "loaded", session |-> s, seen |-> account]]
        /\ "loaded" \in Stage
    BY <1>5 DEF Load, Stage, counters
  <2>2. /\ request'[r].stage = "loaded" /\ request'[r].seen = account
        /\ \A q \in Request \ {r} : request'[q] = request[q]
    BY <2>1, Came, OfTypes
  <2> QED
    BY <1>r, <2>1, <2>2
<1>6. ASSUME NEW r \in Request, NEW s \in Session, Cycle(r, s) \/ ShutOut(r, s)
      PROVE  RowsInMemory'
  <2>1. /\ UNCHANGED mailed
        /\ \E stage \in {"cycled", "shut out"} :
             request' = [request EXCEPT ![r] =
               [stage |-> stage, session |-> s, seen |-> NoAccount]]
    BY <1>6 DEF Cycle, ShutOut, counters
  <2>2. {"cycled", "shut out"} \subseteq Stage
    BY DEF Stage
  <2>3. PICK stage \in {"cycled", "shut out"} :
          request' = [request EXCEPT ![r] =
            [stage |-> stage, session |-> s, seen |-> NoAccount]]
    BY <2>1
  <2>4. /\ request'[r].stage = stage
        /\ \A q \in Request \ {r} : request'[q] = request[q]
    BY <2>2, <2>3, Came, AccountTypes
  <2> QED
    BY <2>1, <2>4, RowsKept
<1>7. ASSUME NEW r \in Request,
             KeepKey(r) \/ Release(r) \/ ReleaseNothing(r) \/ Point(r)
               \/ SaveSignUp(r) \/ Open(r)
      PROVE  RowsInMemory'
  <2>1. /\ UNCHANGED mailed
        /\ \E stage \in {"cycled", "leaving", "pointed", "entering"} :
             Forgets(r, stage) \/ Go(r, stage)
    BY <1>7 DEF KeepKey, Release, ReleaseNothing, Point, SaveSignUp, Open,
                counters
  <2>2. {"cycled", "leaving", "pointed", "entering"} \subseteq Stage
    BY DEF Stage
  <2>3. PICK stage \in {"cycled", "leaving", "pointed", "entering"} :
          Forgets(r, stage) \/ Go(r, stage)
    BY <2>1
  <2>4. /\ request'[r].stage = stage
        /\ \A q \in Request \ {r} : request'[q] = request[q]
    BY <2>2, <2>3, Went, Forgot
  <2> QED
    BY <2>1, <2>4, RowsKept
<1>8. ASSUME NEW r \in Request,
             FailSignUp(r) \/ Answer(r) \/ Flush(r) \/ SaveProfile(r)
               \/ Finish(r) \/ SaveReset(r)
      PROVE  RowsInMemory'
  <2>1. End(r) /\ UNCHANGED mailed
    BY <1>8 DEF FailSignUp, Answer, Flush, SaveProfile, Finish, SaveReset,
                counters
  <2> QED
    BY <2>1, Ended, RowsKept
<1> QED
  BY <1>1, <1>2, <1>3, <1>4, <1>5, <1>6, <1>7, <1>8 DEF Next

LEMMA StepNobodys ==
  ASSUME TypeOK, RowsInMemory, NobodysAccount, [Next]_vars
  PROVE  NobodysAccount'
<1>a. account \in Account /\ \A r \in Request : request[r].seen \in Account
  BY DEF TypeOK, Handler
<1>1. CASE UNCHANGED <<account, request>>
  BY <1>1 DEF NobodysAccount, At
<1>2. CASE account'.status # "none"
  BY <1>2 DEF NobodysAccount
<1>3. CASE Approve \/ ApproveInAdmin \/ Reject \/ VerifyMobile
  BY <1>a, <1>2, <1>3 DEF Approve, ApproveInAdmin, Reject, VerifyMobile, Account
<1>4. ASSUME NEW r \in Request, SaveSignUp(r) \/ Open(r) \/ SaveProfile(r)
                                \/ SaveReset(r)
      PROVE  NobodysAccount'
  <2>1. account'.status # "none"
    BY <1>a, <1>4 DEF SaveSignUp, Open, SaveProfile, SaveReset, Account,
                      RowsInMemory, At
  <2> QED
    BY <1>2, <2>1
<1>5. ASSUME NEW r \in Request, Point(r)
      PROVE  NobodysAccount'
  <2>1. account.status # "none" /\ account'.status = account.status
    BY <1>a, <1>5 DEF Point, NobodysAccount, At, Account
  <2> QED
    BY <1>2, <2>1
<1>6. ASSUME NEW r \in Request, CheckSignUp(r)
      PROVE  NobodysAccount'
  <2>1. Reads(r, "signing up") /\ "signing up" \in Stage /\ UNCHANGED account
    BY <1>6 DEF CheckSignUp, Stage
  <2> QED
    BY <2>1, HasRead DEF NobodysAccount, At
<1>7. ASSUME NEW r \in Request, FailSignUp(r) \/ Answer(r) \/ Flush(r) \/ Finish(r)
      PROVE  NobodysAccount'
  <2>1. End(r) /\ UNCHANGED account
    BY <1>7 DEF FailSignUp, Answer, Flush, Finish
  <2> QED
    BY <2>1, Ended DEF NobodysAccount, At
<1>8. ASSUME NEW r \in Request,
             Authenticate(r) \/ CheckReset(r) \/ CheckOpening(r) \/ KeepKey(r)
               \/ Look(r) \/ Decide(r) \/ Release(r) \/ ReleaseNothing(r)
               \/ \E s \in Session : Cycle(r, s) \/ Load(r, s) \/ ShutOut(r, s)
      PROVE  NobodysAccount'
  <2>1. UNCHANGED account /\ account.status # "none"
    BY <1>8 DEF Authenticate, CheckReset, CheckOpening, Openable, LinkGood,
       KeepKey, Look, Decide, Release, ReleaseNothing, Cycle, Load, ShutOut,
       NobodysAccount, At
  <2> QED
    BY <1>2, <2>1
<1> QED
  BY <1>1, <1>3, <1>4, <1>5, <1>6, <1>7, <1>8
  DEF Next, vars, RequestReset, DropVoid

LEMMA StepInv == IndInv /\ [Next]_vars => IndInv'
BY StepSessionInv, StepRows, StepNobodys DEF IndInv, SessionInv

\* The conjuncts above hold in every reachable state.
THEOREM SignInInvariance == Spec => []IndInv
BY InitInv, StepInv, PTL DEF Spec

\* Every row and every request is in a state the code knows.
THEOREM SignInTypeCorrect == Spec => []TypeOK
<1>1. IndInv => TypeOK
  BY DEF IndInv, SessionInv
<1> QED
  BY <1>1, SignInInvariance, PTL

\* The session that signed in last, unless its key was expelled before, has the
\* account until it signs out: no late sign-out or claim of another takes it
\* (accounts/signals.py, middleware.py).
THEOREM LastSignInAlwaysHolds == Spec => []LastSignInHolds
<1>1. IndInv => LastSignInHolds
  BY DEF IndInv, SessionInv
<1> QED
  BY <1>1, SignInInvariance, PTL

-----------------------------------------------------------------------------
(* A suspension is undone by the staff, or by a request that goes on with   *)
(* what it read before.                                                     *)

OldRowComesBack ==
  \E r \in Request :
    LET seen == request[r].seen IN
    \/ At(r, "signing up") /\ seen.login = 0
    \/ (At(r, "admitted") \/ At(r, "resetting")) /\ seen.status = "active"
    \/ /\ At(r, "opening") /\ seen.verified
       /\ [password |-> seen.password, login |-> seen.login] \in mailed

LEMMA StepSuspended ==
  ASSUME IndInv, [Next]_vars,
         account.login # 0, account.status = "inactive",
         account'.status = "active"
  PROVE  UNCHANGED request \/ OldRowComesBack
<1>a. /\ account \in Account
      /\ \A r \in Request : request[r].seen \in Account
  BY DEF IndInv, SessionInv, TypeOK, Handler
<1>1. account' # account
  OBVIOUS
<1>2. CASE Approve \/ ApproveInAdmin \/ Reject \/ VerifyMobile
  BY <1>2 DEF Approve, ApproveInAdmin, Reject, VerifyMobile
<1>3. ASSUME NEW r \in Request, SaveSignUp(r) \/ Open(r)
      PROVE  OldRowComesBack
  BY <1>3 DEF SaveSignUp, Open, OldRowComesBack, IndInv, RowsInMemory, At
<1>4. ASSUME NEW r \in Request, SaveProfile(r)
      PROVE  OldRowComesBack
  BY <1>4 DEF SaveProfile, OldRowComesBack, IndInv, RowsInMemory, At
<1>5. ASSUME NEW r \in Request, SaveReset(r)
      PROVE  OldRowComesBack
  BY <1>a, <1>5 DEF SaveReset, OldRowComesBack, Account
<1>6. ASSUME NEW r \in Request, Point(r)
      PROVE  FALSE
  BY <1>a, <1>6 DEF Point, Account
<1> QED
  BY <1>1, <1>2, <1>3, <1>4, <1>5, <1>6 DEF Next, vars, RequestReset,
     CheckSignUp, FailSignUp, Authenticate, KeepKey, Cycle, Answer, Load,
     ShutOut, DropVoid, Look, Decide, Release, ReleaseNothing, Flush, Finish,
     CheckReset, CheckOpening

\* Whoever has signed in and is suspended comes back by the staff, or by a
\* request with an older row or link in its hands (RegistrationForm.save,
\* ProfileIdentityView, SetPasswordForm.save, verify_email).
THEOREM SuspensionsStand == Spec => SuspendedUntilApproved
<1>1. IndInv /\ [Next]_vars =>
        [account.login # 0 /\ account.status = "inactive"
           /\ account'.status = "active" =>
         UNCHANGED request \/ OldRowComesBack]_vars
  BY StepSuspended
<1>2. [account.login # 0 /\ account.status = "inactive"
         /\ account'.status = "active" =>
       UNCHANGED request \/ OldRowComesBack]_vars
      => [account.login # 0 /\ account.status = "inactive"
            /\ account'.status = "active" =>
          \/ UNCHANGED request
          \/ \E r \in Request :
               LET seen == request[r].seen IN
               \/ At(r, "signing up") /\ seen.login = 0
               \/ (At(r, "admitted") \/ At(r, "resetting"))
                    /\ seen.status = "active"
               \/ /\ At(r, "opening") /\ seen.verified
                  /\ [password |-> seen.password, login |-> seen.login]
                       \in mailed]_vars
  BY DEF OldRowComesBack
<1> QED
  BY <1>1, <1>2, SignInInvariance, PTL DEF Spec, SuspendedUntilApproved

-----------------------------------------------------------------------------
(* The sign-in implements OneSession. *)

\* Two requests, for what a step does to the mapped functions.
LEMMA MappedMove ==
  ASSUME NEW r \in Request, NEW stage,
         \A q \in Request \ {r} : request'[q] = request[q]
  PROVE  SessionAt(stage)' =
           [SessionAt(stage) EXCEPT ![r] =
              IF request'[r].stage = stage THEN request'[r].session
                                           ELSE NoSession]
BY DEF SessionAt, At

LEMMA MappedStay ==
  ASSUME NEW r \in Request, NEW stage,
         \A q \in Request \ {r} : request'[q] = request[q],
         ~At(r, stage), request'[r].stage # stage
  PROVE  UNCHANGED SessionAt(stage)
BY DEF SessionAt, At

LEMMA StepKeepsOneSession ==
  ASSUME IndInv, [Next]_vars
  PROVE  [Rule!Next]_(Rule!vars)
<1> USE DEF IndInv, SessionInv
<1>1. CASE UNCHANGED <<pointer, request>>
  BY <1>1 DEF Rule!vars, SessionAt, At
<1>2. ASSUME NEW r \in Request, UNCHANGED pointer,
             \A q \in Request \ {r} : request'[q] = request[q],
             ~At(r, "admitted"), ~At(r, "expelled"),
             request'[r].stage \notin {"admitted", "expelled"}
      PROVE  UNCHANGED Rule!vars
  BY <1>2, MappedStay DEF Rule!vars
<1>3. ASSUME NEW r \in Request, UNCHANGED pointer, At(r, "admitted"),
             \A q \in Request \ {r} : request'[q] = request[q],
             request'[r].stage \notin {"admitted", "expelled"}
      PROVE  Rule!Next
  <2>1. ~At(r, "expelled")
    BY <1>3 DEF At
  <2>2. Rule!Stop(r)
    BY <1>3, <2>1, MappedMove, MappedStay DEF Rule!Stop
  <2> QED
    BY <2>2 DEF Rule!Next
<1>4. ASSUME NEW r \in Request, Point(r)
      PROVE  Rule!Next
  <2>1. /\ Go(r, "pointed") /\ "pointed" \in Stage /\ At(r, "cycled")
        /\ pointer' = request[r].session /\ request[r].session \in Session
    BY <1>4 DEF Point, Stage, RequestsHaveSessions, WithSession, At, TypeOK,
                Handler
  <2>2. Rule!TakeOver(request[r].session)
    BY <2>1, Went, MappedStay DEF Rule!TakeOver, At
  <2> QED
    BY <2>1, <2>2 DEF Rule!Next
<1>5. ASSUME NEW r \in Request, request[r].session \in Session,
             ~At(r, "admitted"), ~At(r, "expelled"), Go(r, "admitted"),
             pointer \in {request[r].session, NoSession},
             pointer' = request[r].session
      PROVE  Rule!Next
  <2>1. "admitted" \in Stage
    BY DEF Stage
  <2>2. SessionAt("admitted")[r] = NoSession /\ SessionAt("expelled")[r] = NoSession
    BY <1>5 DEF SessionAt
  <2>3. Rule!Start(r, request[r].session)
    BY <1>5, <2>1, <2>2, Went, MappedMove, MappedStay DEF Rule!Start
  <2> QED
    BY <1>5, <2>3 DEF Rule!Next
<1>6. ASSUME NEW r \in Request, Look(r)
      PROVE  [Rule!Next]_(Rule!vars)
  <2>1. /\ At(r, "loaded") /\ UNCHANGED pointer
        /\ request[r].session \in Session
    BY <1>6 DEF Look, RequestsHaveSessions, WithSession, At, TypeOK, Handler
  <2>2. CASE pointer = request[r].session
    BY <1>5, <1>6, <2>1, <2>2 DEF Look, At
  <2>3. CASE pointer # request[r].session
    <3>1. Go(r, "mismatched") /\ "mismatched" \in Stage
      BY <1>6, <2>3 DEF Look, Stage
    <3> QED
      BY <1>2, <2>1, <3>1, Went DEF At
  <2> QED
    BY <2>2, <2>3
<1>7. ASSUME NEW r \in Request, Decide(r)
      PROVE  Rule!Next
  <2>1. At(r, "mismatched") /\ request[r].session \in Session
    BY <1>7 DEF Decide, RequestsHaveSessions, WithSession, At, TypeOK, Handler
  <2>2. CASE AdmittedUnderLock(r)
    BY <1>5, <1>7, <2>1, <2>2 DEF Decide, AdmittedUnderLock, At
  <2>3. CASE ~AdmittedUnderLock(r)
    <3>1. /\ Forgets(r, "expelled") /\ "expelled" \in Stage /\ UNCHANGED pointer
          /\ pointer \notin {request[r].session, NoSession}
      BY <1>7, <2>3 DEF Decide, Stage, AdmittedUnderLock
    <3>2. SessionAt("admitted")[r] = NoSession /\ SessionAt("expelled")[r] = NoSession
      BY <2>1 DEF SessionAt, At
    <3>3. Rule!Refuse(r, request[r].session)
      BY <2>1, <3>1, <3>2, Forgot, MappedMove, MappedStay DEF Rule!Refuse, At
    <3> QED
      BY <2>1, <3>3 DEF Rule!Next
  <2> QED
    BY <2>2, <2>3
<1>8. ASSUME NEW r \in Request, Release(r)
      PROVE  Rule!Next
  <2> DEFINE s == request[r].session
  <2>1. /\ At(r, "admitted") \/ At(r, "expelled")
        /\ Forgets(r, "leaving") /\ "leaving" \in Stage
        /\ pointer' = IF pointer = s THEN NoSession ELSE pointer
        /\ s \in Session
    BY <1>8 DEF Release, Released, Stage, RequestsHaveSessions, WithSession,
                At, TypeOK, Handler
  <2>2. /\ {SessionAt("admitted")[r], SessionAt("expelled")[r]} = {s, NoSession}
        /\ \/ SessionAt("admitted")[r] # NoSession
           \/ SessionAt("expelled")[r] # NoSession
    BY <2>1, SessionAssumption DEF SessionAt, At
  <2>3. /\ SessionAt("admitted")' = [SessionAt("admitted") EXCEPT ![r] = NoSession]
        /\ SessionAt("expelled")' = [SessionAt("expelled") EXCEPT ![r] = NoSession]
    BY <2>1, Forgot, MappedMove
  <2>4. Rule!SignOut(r)
    BY <2>1, <2>2, <2>3 DEF Rule!SignOut
  <2> QED
    BY <2>4 DEF Rule!Next
<1>9. ASSUME NEW r \in Request, UNCHANGED pointer,
             \A q \in Request \ {r} : request'[q] = request[q],
             ~At(r, "expelled"),
             request'[r].stage \notin {"admitted", "expelled"}
      PROVE  [Rule!Next]_(Rule!vars)
  <2>1. CASE At(r, "admitted")
    BY <1>3, <1>9, <2>1
  <2>2. CASE ~At(r, "admitted")
    BY <1>2, <1>9, <2>2
  <2> QED
    BY <2>1, <2>2
<1>10. ASSUME NEW r \in Request,
              CheckSignUp(r) \/ Authenticate(r) \/ CheckReset(r) \/ CheckOpening(r)
       PROVE  [Rule!Next]_(Rule!vars)
  <2>1. /\ UNCHANGED pointer /\ ~At(r, "expelled")
        /\ \E stage \in {"signing up", "entering", "resetting", "opening"} :
             Reads(r, stage)
    BY <1>10 DEF CheckSignUp, Authenticate, CheckReset, CheckOpening, Viewing,
                 At
  <2>2. {"signing up", "entering", "resetting", "opening"} \subseteq Stage
    BY DEF Stage
  <2> QED
    BY <1>9, <2>1, <2>2, HasRead
<1>11. ASSUME NEW r \in Request,
              FailSignUp(r) \/ Answer(r) \/ Flush(r) \/ SaveProfile(r)
                \/ Finish(r) \/ SaveReset(r)
       PROVE  [Rule!Next]_(Rule!vars)
  <2>1. UNCHANGED pointer /\ ~At(r, "expelled") /\ End(r)
    BY <1>11 DEF FailSignUp, Answer, Flush, SaveProfile, Finish, SaveReset, At
  <2> QED
    BY <1>9, <2>1, Ended
<1>12. ASSUME NEW r \in Request,
              SaveSignUp(r) \/ Open(r) \/ KeepKey(r) \/ ReleaseNothing(r)
       PROVE  [Rule!Next]_(Rule!vars)
  <2>1. /\ UNCHANGED pointer /\ ~At(r, "expelled")
        /\ \E stage \in {"entering", "cycled", "leaving"} :
             Go(r, stage) \/ Forgets(r, stage)
    BY <1>12 DEF SaveSignUp, Open, KeepKey, ReleaseNothing, At
  <2>2. {"entering", "cycled", "leaving"} \subseteq Stage
    BY DEF Stage
  <2> QED
    BY <1>9, <2>1, <2>2, Went, Forgot
<1>13. ASSUME NEW r \in Request, NEW s \in Session,
              Cycle(r, s) \/ Load(r, s) \/ ShutOut(r, s)
       PROVE  [Rule!Next]_(Rule!vars)
  <2>1. /\ UNCHANGED pointer /\ ~At(r, "expelled")
        /\ \E stage \in {"cycled", "loaded", "shut out"}, a \in {account, NoAccount} :
             request' = [request EXCEPT ![r] =
               [stage |-> stage, session |-> s, seen |-> a]]
    BY <1>13 DEF Cycle, Load, ShutOut, At
  <2>2. /\ {"cycled", "loaded", "shut out"} \subseteq Stage
        /\ {account, NoAccount} \subseteq Account
    BY AccountTypes DEF Stage, TypeOK
  <2>3. PICK stage \in {"cycled", "loaded", "shut out"}, a \in {account, NoAccount} :
          request' = [request EXCEPT ![r] =
            [stage |-> stage, session |-> s, seen |-> a]]
    BY <2>1
  <2>4. /\ request'[r].stage = stage
        /\ \A q \in Request \ {r} : request'[q] = request[q]
    BY <2>2, <2>3, Came
  <2> QED
    BY <1>9, <2>1, <2>4
<1> QED
  BY <1>1, <1>4, <1>6, <1>7, <1>8, <1>10, <1>11, <1>12, <1>13
  DEF Next, vars, Approve, ApproveInAdmin, Reject, VerifyMobile, RequestReset,
      DropVoid

\* Only the holder starts to act, and it changes only by a sign-in, a claim of a
\* free account or a sign-out: the sign-in implements OneSession.
THEOREM SignInImplementsOneSession == Spec => KeepsOneSession
<1>1. Init => Rule!Init
  BY DEF Init, Rule!Init, Rule!Nobody, SessionAt, At, Idle
<1> QED
  BY <1>1, StepKeepsOneSession, SignInInvariance, PTL
  DEF Spec, KeepsOneSession, Rule!Spec
=============================================================================
