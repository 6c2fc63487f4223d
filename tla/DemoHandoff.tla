----------------------------- MODULE DemoHandoff -----------------------------
(***************************************************************************)
(* A visitor's choice of a demo on its way into the account                *)
(* (projects/views/projects.py, leads/demo_handoff.py, leads/signals.py,   *)
(* the contact page of leads/views/contact.py), over FormDraft.            *)
(*                                                                         *)
(* One browser has several requests under way.  Django gives each a copy   *)
(* of the session, read when the request starts, and saves the whole copy  *)
(* when it is answered, if the request has changed it: after the drafts    *)
(* are committed, over whatever another request has saved in between, and  *)
(* not at all if the session's row is gone or the process dies.            *)
(***************************************************************************)
EXTENDS FormDraft

CONSTANTS
  Session,     \* session keys
  NoSession,   \* a browser without a session
  Handler,     \* requests that may be under way at a time
  MaxRequests  \* bound: requests the browser makes

ASSUME HandoffAssumption == NoSession \notin Session /\ MaxRequests \in Nat

VARIABLES
  selection, \* the DemoSelection row of each configurator form
  session,   \* the Session rows
  cookie,    \* the browser's session key
  handler,   \* where each request is
  made,      \* requests made so far
  standing,  \* history: the choice last attached by an answered visit
  owed       \* history: the choice an answered anonymous visit has marked

handoffVars == <<selection, session, cookie, handler, made, standing, owed>>
flowVars == <<vars, handoffVars>>
historyVars == <<standing, owed>>

User == {"nobody", "customer", "staff"}

SelectionRow ==
  [status: {"none", "kept", "deleted"}, session: Session \cup {NoSession}]

\* What demo_handoff keeps in a session: PENDING_DEMO_SESSION_KEY.
SessionData ==
  [user: User, marker: Choice,
   crossed: BOOLEAN]  \* history: the marker was saved over a later save

SessionRow == [alive: BOOLEAN, data: SessionData]

NoData == [user |-> "nobody", marker |-> NoDemo, crossed |-> FALSE]

Row(data) == [alive |-> TRUE, data |-> data]

NoRow == [alive |-> FALSE, data |-> NoData]

\* DemoConfigureView, the contact page shown and posted, sign-in, sign-out.
RequestKind == {"configure", "visit", "post", "sign in", "sign out"}

HandlerState ==
  [kind: RequestKind \cup {"none"},
   stage: {"idle", "begun", "signed in", "handed off", "done"},
   demo: Choice,        \* ?demo=, or the form of the configurator
   session: Session \cup {NoSession}, data: SessionData,
   dirty: BOOLEAN,      \* session.modified
   marked: BOOLEAN,     \* history: this request has put its choice in the marker
   attached: BOOLEAN,   \* history: this request has attached demo
   old: BOOLEAN]        \* history: another answer has come since that
                        \* changed the session or was about an attached choice

NoRequest ==
  [kind |-> "none", stage |-> "idle", demo |-> NoDemo, session |-> NoSession,
   data |-> NoData, dirty |-> FALSE, marked |-> FALSE, attached |-> FALSE,
   old |-> FALSE]

HandoffTypeOK ==
  /\ TypeOK
  /\ selection \in [Demo -> SelectionRow]
  /\ session \in [Session -> SessionRow]
  /\ cookie \in Session \cup {NoSession}
  /\ handler \in [Handler -> HandlerState]
  /\ made \in 0..MaxRequests
  /\ standing \in Choice
  /\ owed \in Choice

\* A browser whose visitor has made selections, or whose customer has one pending
\* that could not be handed off at sign-in.
HandoffInit ==
  /\ Init
  /\ cookie \in Session
  /\ \E user \in {"nobody", "customer"}, marker \in Choice, here \in SUBSET Demo :
       /\ user = "nobody" <=> marker = NoDemo
       /\ marker \notin here
       /\ session = [s \in Session |->
            IF s = cookie THEN Row([NoData EXCEPT !.user = user, !.marker = marker])
            ELSE NoRow]
       /\ selection = [m \in Demo |->
            [status |-> IF m \in here \cup {marker} THEN "kept" ELSE "none",
             session |-> IF m \in here THEN cookie ELSE NoSession]]
       /\ owed = marker
  /\ handler = [r \in Handler |-> NoRequest]
  /\ made = 0
  /\ standing = NoDemo

-----------------------------------------------------------------------------
(* Requests and sessions. *)

Alive(s) == s # NoSession /\ session[s].alive

\* A key nobody was ever given.  Bound: Session.
Fresh(s) ==
  /\ ~session[s].alive
  /\ s # cookie
  /\ \A r \in Handler : handler[r].session # s
  /\ \A m \in Demo : selection[m].session # s

\* Requests the pages make.  A guest's or the staff's form is not modelled.
\* Bound: nobody sends a form of the configurator again after the retention of
\* its selection.
Makes(kind, demo) ==
  \/ kind \in {"sign in", "sign out"} /\ demo = NoDemo
  \/ kind = "visit"
  \/ kind = "post" /\ Alive(cookie) /\ session[cookie].data.user = "customer"
  \/ kind = "configure" /\ demo # NoDemo /\ selection[demo].status # "deleted"

\* SessionMiddleware loads the cookie's session.  A cookie without one will be
\* taken back.
Begin(r, kind, demo) ==
  /\ handler[r] = NoRequest
  /\ made < MaxRequests /\ made' = made + 1
  /\ Makes(kind, demo)
  /\ handler' = [handler EXCEPT ![r] =
       IF Alive(cookie)
       THEN [NoRequest EXCEPT !.kind = kind, !.stage = "begun", !.demo = demo,
                              !.session = cookie, !.data = session[cookie].data]
       ELSE [NoRequest EXCEPT !.kind = kind, !.stage = "begun", !.demo = demo,
                              !.dirty = cookie # NoSession]]
  /\ UNCHANGED <<vars, selection, session, cookie, historyVars>>

At(r, kind, stage) == handler[r].kind = kind /\ handler[r].stage = stage

Unmarked(data) == [data EXCEPT !.marker = NoDemo, !.crossed = FALSE]

\* SessionMiddleware.process_response: the copy is saved whole, or refused if
\* its row is gone (SessionInterrupted), and the browser has its key from now on.
Finish(r) ==
  LET h == handler[r]
      saved == [h.data EXCEPT !.crossed =
                  @ \/ (h.old /\ ~h.marked /\ h.data.marker # NoDemo)]
      changes == h.dirty /\ (h.session = NoSession \/ Alive(h.session))
  IN /\ h.stage = "done"
     /\ session' = IF changes /\ h.session # NoSession
                   THEN [session EXCEPT ![h.session] = Row(saved)] ELSE session
     /\ cookie' = IF changes THEN h.session ELSE cookie
     /\ handler' = [o \in Handler |->
          IF o = r THEN NoRequest
          ELSE [handler[o] EXCEPT !.old =
                 @ \/ ((changes \/ h.attached) /\ handler[o] # NoRequest)]]
     /\ standing' = IF changes /\ h.marked THEN NoDemo
                    ELSE IF ~h.attached THEN standing
                    ELSE IF h.old \/ (h.dirty /\ ~changes) THEN NoDemo
                    ELSE h.demo
     /\ owed' = IF changes /\ h.marked THEN h.data.marker
                ELSE IF changes /\ h.old THEN NoDemo ELSE owed
     /\ UNCHANGED <<vars, selection, made>>

\* The process is killed, or the answer is an error: the session is not saved.
Die(r) ==
  /\ handler[r] # NoRequest
  /\ handler' = [handler EXCEPT ![r] = NoRequest]
  /\ owed' = IF handler[r].kind = "sign in" /\ handler[r].session # cookie
             THEN NoDemo ELSE owed
  /\ UNCHANGED <<vars, selection, session, cookie, standing, made>>

-----------------------------------------------------------------------------
(* The configurator. *)

\* DemoConfigureView.post: the form's token names one selection.  It is made
\* once, whoever repeats the request, for the session it was made in; another
\* session is turned away.
Configure(r) ==
  LET m == handler[r].demo
  IN /\ At(r, "configure", "begun")
     /\ \E s \in Session :
          /\ IF handler[r].session = NoSession THEN Fresh(s) ELSE s = handler[r].session
          /\ selection' = [selection EXCEPT ![m] =
               IF @.status = "none" THEN [status |-> "kept", session |-> s] ELSE @]
          /\ session' = [session EXCEPT ![s] =
               IF handler[r].session = NoSession THEN Row(NoData) ELSE @]
          /\ handler' = [handler EXCEPT ![r].session = s, ![r].stage = "done",
               ![r].dirty = handler[r].session = NoSession \/ selection'[m].session = s]
     /\ UNCHANGED <<vars, cookie, historyVars, made>>

\* cleanup_demo_selections --apply: no activity for 30 days, and on no Lead.
CleanUpSelection(m) ==
  /\ selection[m].status = "kept"
  /\ \A d \in Draft : lead[d].status = "kept" => lead[d].demo # m
  /\ \A r \in Handler : At(r, "configure", "begun") => handler[r].demo # m
  /\ selection' = [selection EXCEPT ![m].status = "deleted"]
  /\ UNCHANGED <<vars, session, cookie, handler, made, historyVars>>

-----------------------------------------------------------------------------
(* The contact page, shown ("visit") or posted. *)

OnContactPage(r) == handler[r].kind \in {"visit", "post"} /\ handler[r].stage = "begun"

\* _session_demo_selection: ?demo= is good in the session it was made in.
Resolved(r) ==
  /\ handler[r].demo # NoDemo /\ handler[r].session # NoSession
  /\ selection[handler[r].demo] = [status |-> "kept", session |-> handler[r].session]

\* What is left to do once the selection is handed off.
Rest(r) == IF handler[r].kind = "post" THEN "handed off" ELSE "done"

\* The request goes on with its copy of the session.
Goes(r, data, dirty) ==
  handler' = [handler EXCEPT ![r].stage = Rest(r), ![r].data = data, ![r].dirty = @ \/ dirty]

\* The page shown for a selection keeps a pointer to it in the session, for the
\* page in the other language (contact_demo_language_tokens).  Bound: a session
\* is shown a selection once.
Shown(r) == handler[r].kind = "visit"

\* store_pending_demo_selection
StoreMarker(r) ==
  LET h == handler[r]
  IN /\ OnContactPage(r) /\ Resolved(r) /\ h.data.user = "nobody"
     /\ handler' = [handler EXCEPT ![r].stage = "done",
          ![r].data = [@ EXCEPT !.marker = h.demo, !.crossed = FALSE],
          ![r].marked = TRUE,
          ![r].dirty = @ \/ Shown(r) \/ h.data.marker # h.demo]
     /\ UNCHANGED <<vars, selection, session, cookie, historyVars, made>>

\* Variant for the mutation runs: an older marker is left where it is.
LeftPending(data) == data

\* clear_pending_demo_selection
Superseded(data) == Unmarked(data)

\* handle_resolved_demo_selection for a customer: the choice is attached and
\* whatever was pending dropped.
AttachNamed(r) ==
  LET h == handler[r]
  IN /\ OnContactPage(r) /\ Resolved(r) /\ h.data.user = "customer"
     /\ HandOff(h.demo)
     /\ handler' = [handler EXCEPT ![r].stage = Rest(r), ![r].attached = TRUE,
          ![r].data = Superseded(h.data),
          ![r].dirty = @ \/ Shown(r) \/ h.data.marker # NoDemo]
     /\ owed' = NoDemo
     /\ UNCHANGED <<selection, session, cookie, standing, made>>

\* It fails, which the page does not show; or it is not for this user.
SkipNamed(r) ==
  /\ OnContactPage(r) /\ Resolved(r) /\ handler[r].data.user # "nobody"
  /\ Goes(r, handler[r].data, Shown(r))
  /\ UNCHANGED <<vars, selection, session, cookie, historyVars, made>>

\* maybe_retry_pending_demo_selection does not retry: a link is named that is no
\* good, the visitor is no customer, or nothing is pending.
NothingToDo(r) ==
  /\ OnContactPage(r) /\ ~Resolved(r)
  /\ \/ handler[r].demo # NoDemo
     \/ handler[r].data.user # "customer"
     \/ handler[r].data.marker = NoDemo
  /\ Goes(r, handler[r].data, FALSE)
  /\ UNCHANGED <<vars, selection, session, cookie, historyVars, made>>

\* form_valid: the selection is resolved once more, the draft submitted.  (The
\* staff remove no Lead here: Resubmit is FormDraft's.)
Finalize(r, token, fields) ==
  LET sub == [token |-> token, fields |-> fields,
              demo |-> IF Resolved(r) THEN handler[r].demo ELSE NoDemo]
      useSaved == handler[r].demo = NoDemo
  IN /\ At(r, "post", "handed off")
     /\ Replay(sub) \/ Submit(sub, useSaved)
     /\ handler' = [handler EXCEPT ![r].stage = "done"]
     /\ UNCHANGED <<selection, session, cookie, historyVars, made>>

\* The form has errors, or the submission is refused.
Reject(r) ==
  /\ At(r, "post", "handed off")
  /\ handler' = [handler EXCEPT ![r].stage = "done"]
  /\ UNCHANGED <<vars, selection, session, cookie, historyVars, made>>

-----------------------------------------------------------------------------
(* Sign-in and sign-out. *)

\* cycle_key keeps the data of an anonymous session, flush that of no other.
SignedIn(data, user) ==
  IF data.user = "nobody" THEN [data EXCEPT !.user = user] ELSE [NoData EXCEPT !.user = user]

\* login(): the row is made anew under a new key and the old one deleted, unless
\* this user is signed in already.
SignIn(r, user) ==
  LET h == handler[r]
  IN /\ At(r, "sign in", "begun")
     /\ \/ /\ h.data.user # user
           /\ \E s \in Session :
                /\ Fresh(s)
                /\ session' = [k \in Session |->
                     IF k = s THEN Row(SignedIn(h.data, user))
                     ELSE IF k = h.session THEN NoRow ELSE session[k]]
                /\ handler' = [handler EXCEPT ![r].stage = "signed in", ![r].session = s,
                     ![r].data = SignedIn(h.data, user), ![r].dirty = TRUE]
           /\ owed' = IF h.old \/ h.data.user # "nobody" THEN NoDemo ELSE owed
        \/ /\ h.data.user = user
           /\ handler' = [handler EXCEPT ![r].stage = "signed in", ![r].dirty = TRUE]
           /\ UNCHANGED <<session, owed>>
     /\ UNCHANGED <<vars, selection, cookie, standing, made>>

\* logout(), or SingleSessionMiddleware after a sign-in elsewhere.
SignOut(r) ==
  LET h == handler[r]
  IN /\ At(r, "sign out", "begun")
     /\ session' = [k \in Session |-> IF k = h.session THEN NoRow ELSE session[k]]
     /\ handler' = [handler EXCEPT ![r] =
          [NoRequest EXCEPT !.kind = "sign out", !.stage = "done", !.old = h.old,
                            !.dirty = h.dirty \/ h.session # NoSession]]
     /\ owed' = IF h.session # NoSession THEN NoDemo ELSE owed
     /\ UNCHANGED <<vars, selection, cookie, standing, made>>

-----------------------------------------------------------------------------
(* consume_pending_demo_selection: at sign-in, or on a visit to the contact   *)
(* page that names no selection.                                             *)

Consuming(r) ==
  \/ At(r, "sign in", "signed in")
  \/ /\ OnContactPage(r)
     /\ handler[r].demo = NoDemo
     /\ handler[r].data.user = "customer"
     /\ handler[r].data.marker # NoDemo

OwedAfter(m) == IF owed = m THEN NoDemo ELSE owed

\* The pending selection is the draft's.
AttachPending(r) ==
  LET m == handler[r].data.marker
  IN /\ Consuming(r)
     /\ handler[r].data.user = "customer"
     /\ m # NoDemo /\ selection[m].status = "kept"
     /\ HandOff(m)
     /\ Goes(r, Unmarked(handler[r].data), TRUE)
     /\ owed' = OwedAfter(m)
     /\ UNCHANGED <<selection, session, cookie, standing, made>>

\* Nothing is pending, the selection is gone (perhaps while it was attached), or
\* the staff have signed in: the marker is dropped.
DropPending(r) ==
  LET m == handler[r].data.marker
  IN /\ Consuming(r)
     /\ \/ m = NoDemo
        \/ m \in Demo /\ selection[m].status = "deleted"
        \/ handler[r].data.user = "staff"
     /\ Goes(r, Unmarked(handler[r].data), m # NoDemo)
     /\ owed' = IF m = NoDemo THEN owed ELSE OwedAfter(m)
     /\ UNCHANGED <<vars, selection, session, cookie, standing, made>>

\* Variant for the mutation runs: a failure drops the marker.
Dropped(data) == Unmarked(data)

\* _restore_pending_demo_selection_id
Restored(data) == data

\* A query fails: the marker is put back for a later visit.
FailPending(r) ==
  /\ Consuming(r)
  /\ handler[r].data.user = "customer"
  /\ handler[r].data.marker # NoDemo
  /\ Goes(r, Restored(handler[r].data), TRUE)
  /\ UNCHANGED <<vars, selection, session, cookie, historyVars, made>>

-----------------------------------------------------------------------------
\* The customer deletes the draft on another page.
DeleteElsewhere ==
  /\ \E expected \in Expected : Delete(expected)
  /\ UNCHANGED handoffVars

HandoffNext ==
  \/ \E r \in Handler :
       \/ \E kind \in RequestKind, demo \in Choice : Begin(r, kind, demo)
       \/ Configure(r)
       \/ StoreMarker(r) \/ AttachNamed(r) \/ SkipNamed(r) \/ NothingToDo(r)
       \/ \E token \in Token, fields \in Content : Finalize(r, token, fields)
       \/ Reject(r)
       \/ \E user \in {"customer", "staff"} : SignIn(r, user)
       \/ SignOut(r)
       \/ AttachPending(r) \/ DropPending(r) \/ FailPending(r)
       \/ Finish(r) \/ Die(r)
  \/ \E m \in Demo : CleanUpSelection(m)
  \/ DeleteElsewhere

HandoffSpec == HandoffInit /\ [][HandoffNext]_flowVars

-----------------------------------------------------------------------------
(* Properties. *)

\* A visitor's choice is not forgotten: once the visit that marked it has been
\* answered, it stays pending, in the browser's session or with the sign-in
\* that is to hand it off, until it is attached, replaced by a later choice or
\* found deleted, the staff sign in or the customer out.  Failures of the
\* database do not count, only requests under way at the same time (their
\* answer may save an older session) and a sign-in that dies.
PendingUntilSettled ==
  owed # NoDemo =>
    \/ Alive(cookie) /\ session[cookie].data.marker = owed
    \/ \E r \in Handler :
         /\ handler[r].kind = "sign in" /\ handler[r].stage # "begun"
         /\ handler[r].data.marker = owed

\* "A successful explicit attach here always supersedes and clears any stale
\* pending marker": the choice an answered visit has attached is replaced by a
\* choice the customer names or marks after it, never by an older one that was
\* pending, unless that was with a request under way at the same time or saved
\* by one.
AttachedChoiceStands ==
  [][\A d \in Usable :
       /\ standing # NoDemo
       /\ draft[d].demo = standing
       /\ draft'[d].demo # draft[d].demo
       => \E r \in Handler :
            /\ handler'[r] # handler[r]
            /\ handler'[r].attached \/ handler[r].old \/ handler[r].data.crossed]_flowVars

\* What these rest on.  Where a request is with its history: a choice is put in
\* the marker last, and a choice that is attached leaves none.
RequestsKept ==
  \A r \in Handler :
    LET h == handler[r] IN
    /\ h.marked => /\ h.kind \in {"visit", "post"} /\ h.stage = "done"
                   /\ h.session # NoSession
    /\ h.kind = "sign in" /\ h.stage # "begun" => h.dirty
    /\ h.attached => h.stage # "begun" /\ ~h.marked /\ h.data.marker = NoDemo

\* Until another answer comes, what a request has read is what its browser has.
CopyIsCurrent ==
  \A r \in Handler :
    LET h == handler[r] IN
    /\ h.stage = "begun" /\ ~h.old /\ h.session # NoSession =>
         h.session = cookie /\ (Alive(cookie) => session[cookie].data = h.data)
    /\ h.attached /\ ~h.dirty /\ ~h.old /\ Alive(cookie) =>
         session[cookie].data.marker = NoDemo

\* Either the browser's session has the owed choice, and so has whatever may
\* save it without being called old; or a sign-in has it, in a session of its own.
InSession ==
  /\ Alive(cookie) /\ session[cookie].data.marker = owed
  /\ \A r \in Handler :
       handler[r] # NoRequest /\ ~handler[r].old =>
         /\ handler[r].session = cookie
         /\ handler[r].marked \/ handler[r].data.marker = owed

WithSignIn(r) ==
  LET h == handler[r] IN
  /\ h.kind = "sign in" /\ h.stage # "begun" /\ h.data.marker = owed
  /\ Alive(h.session) /\ h.session # cookie
  /\ \A o \in Handler \ {r} : handler[o].session # h.session

OwedIsHeld == owed # NoDemo => InSession \/ \E r \in Handler : WithSignIn(r)

\* While an attached choice stands, no older marker is left that would be taken
\* for a later one.
Harmless(data) == data.marker = NoDemo \/ data.crossed

NoOlderMarker ==
  standing # NoDemo =>
    /\ Alive(cookie) => Harmless(session[cookie].data)
    /\ \A r \in Handler :
         handler[r].old \/ handler[r].marked \/ Harmless(handler[r].data)

\* The inductive invariant of the hand-off.
HandoffInv ==
  /\ HandoffTypeOK
  /\ RequestsKept
  /\ CopyIsCurrent
  /\ OwedIsHeld
  /\ NoOlderMarker
=============================================================================
