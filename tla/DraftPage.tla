------------------------------ MODULE DraftPage ------------------------------
(***************************************************************************)
(* One customer's contact page in the browser, saving the form to the      *)
(* account as it is filled in: the server mode of wizard-engine.js, over   *)
(* the draft API of leads/views/draft_api.py and FormDraft.                *)
(*                                                                         *)
(* The page's handlers run one at a time, up to the await of a request.    *)
(* Between that and its answer the customer goes on, with the form and     *)
(* with every button that is not disabled; other requests are sent and     *)
(* answered, in any order; other devices write; the session may end.  A    *)
(* request the page gave up may still arrive: that is one of FormDraft's.  *)
(***************************************************************************)
EXTENDS FormDraft

CONSTANTS
  Slot,      \* bound: places for requests under way
  NoLocal,   \* no draft in the device's own storage
  NoDraft,   \* "draft": null
  MaxOthers, \* bound: steps of others
  MaxLost,   \* bound: requests or answers that get lost
  MaxDecided \* bound: decisions of the customer

\* A content is a set of answered fields: what is not answered is not sent.
\* Bound: a field has one answer, and the step on show is left out.
Empty == {}

ASSUME DraftPageAssumption ==
  /\ Empty \in Content /\ Blank = Empty
  /\ \A form, fields \in Content : form \cup fields \in Content
  /\ NoLocal \notin Content
  /\ NoDraft \notin Snapshot
  /\ MaxOthers \in Nat /\ MaxLost \in Nat /\ MaxDecided \in Nat

VARIABLES
  page,    \* the page's variables and what it shows
  wire,    \* its requests under way
  access,  \* what the session's requests are let do
  others,  \* steps of others so far
  lost,    \* requests or answers lost so far
  decided, \* decisions so far
  missed   \* history: a change was neither taken up nor is it asked about

bounded == <<others, lost, decided>>

pageVars == <<page, wire, access, bounded, missed>>
allVars == <<vars, pageVars>>

\* "Move this draft to my account" or "Use this device's version"; "Save my
\* current version" or "Save this page as a new draft"; "Start over"; "Clear my
\* account draft".
Kind == {"load", "save", "move", "keep", "restart", "clear"}

\* The issue panel: a decision or a notice, or "Retry".
Panel == {"none", "conflict", "notice", "load", "save", "retry"}

Button == {"move", "keep"}

Unanswered == [kind |-> "none", draft |-> NoDraft]

PageRequest ==
  [kind: Kind \cup {"none"}, expected: Nat, fields: Content,
   known: Snapshot \cup {NoDraft},  \* history: what expected is of
   answer: [kind: {"none", "ok", "conflict"}, draft: Snapshot \cup {NoDraft}],
   overtaken: BOOLEAN]              \* history: another decision, or a save of
                                    \* another form, was made after it

Asked(kind, expected, fields, known) ==
  [kind |-> kind, expected |-> expected, fields |-> fields, known |-> known,
   answer |-> Unanswered, overtaken |-> FALSE]

Idle == Asked("none", 0, Empty, NoDraft)

Page ==
  [form: Content, rerendered: BOOLEAN, local: Content \cup {NoLocal},
   ready: BOOLEAN, revision: Nat, dirty: BOOLEAN,
   pause: {"no", "conflict", "denied"}, \* "auth" and "forbidden" are alike
   retry: BOOLEAN,                  \* saveRetryTimer
   panel: Panel, banner: BOOLEAN,   \* the reconciliation banner
   offer: Snapshot \cup {NoDraft},  \* what the banner or the panel is about
   used: SUBSET Button,             \* those disabled
   again: PageRequest,              \* what "Retry" is about
   rows: SUBSET Nat,                \* deletions it has asked about again
   base: Snapshot \cup {NoDraft}]   \* history: what the revision is of

PageTypeOK ==
  /\ TypeOK
  /\ page \in Page
  /\ wire \in [Slot -> PageRequest]
  /\ access \in {"customer", "none"}
  /\ others \in 0..MaxOthers /\ lost \in 0..MaxLost
  /\ decided \in 0..MaxDecided
  /\ missed \in BOOLEAN

\* The page is loaded, maybe with the errors of a submission, and asks for the
\* account's draft.  Another device may have one.
PageInit ==
  /\ Init
  /\ page \in
       [form: {Empty}, rerendered: BOOLEAN, local: Content \cup {NoLocal},
        ready: {FALSE}, revision: {0}, dirty: {FALSE}, pause: {"no"},
        retry: {FALSE}, panel: {"none"}, banner: {FALSE}, offer: {NoDraft},
        used: {{}}, again: {Idle}, rows: {{}}, base: {NoDraft}]
  /\ page.rerendered => page.local = NoLocal   \* of no use to it
  /\ \E first \in Slot :
       wire = [s \in Slot |-> IF s = first THEN Asked("load", 0, Empty, NoDraft)
                                           ELSE Idle]
  /\ access = "customer" /\ others = 0 /\ lost = 0 /\ decided = 0
  /\ missed = page.rerendered

-----------------------------------------------------------------------------
(* Requests. *)

Saving(w) == \E s \in Slot : w[s].kind = "save"

\* Another request is sent, beside those of w.
Sends(w, request) ==
  \E s \in Slot : w[s] = Idle /\ wire' = [w EXCEPT ![s] = request]

Done(s) == [wire EXCEPT ![s] = Idle]

\* What the requests of w were sent with is not what counts any more: those of
\* a choice, when another save is to come, or the saves too.
Choices == {"keep", "restart"}
Settling == Choices \cup {"save"}

Overtaken(w, kinds) ==
  [s \in Slot |-> [w[s] EXCEPT !.overtaken = @ \/ w[s].kind \in kinds]]

Elsewhere == UNCHANGED <<vars, access, bounded>>

-----------------------------------------------------------------------------
(* The autosave queue. *)

\* queueServerSave, called by a page p with the requests w: nothing while it is
\* not ready or paused; a change beside a save, or a retry to come, is left to
\* that; otherwise the form is sent as it is now.
Queue(p, w) ==
  \/ /\ ~p.ready \/ p.pause # "no"
     /\ page' = p /\ wire' = w /\ missed' = TRUE
  \/ /\ p.ready /\ p.pause = "no"
     /\ Saving(w) \/ p.retry
     /\ page' = [p EXCEPT !.dirty = TRUE]
     /\ wire' = Overtaken(w, Choices) /\ UNCHANGED missed
  \/ /\ p.ready /\ p.pause = "no"
     /\ ~Saving(w) /\ ~p.retry
     /\ page' = [p EXCEPT !.dirty = FALSE]
     /\ Sends(Overtaken(w, Choices), Asked("save", p.revision, p.form, p.base))
     /\ missed' = FALSE

\* input once it pauses, change, and a step back or forth.
Edit(f) ==
  /\ f # page.form
  /\ Queue([page EXCEPT !.form = f], wire) /\ Elsewhere

\* The retry's time has come, or the browser is "online".
RetrySave ==
  /\ page.retry
  /\ Queue([page EXCEPT !.retry = FALSE], wire) /\ Elsewhere

-----------------------------------------------------------------------------
(* What the handlers of several requests share. *)

\* showIssue, hideIssue
Shows(p, panel) ==
  [p EXCEPT !.panel = panel, !.again = Idle, !.used = @ \ {"keep"}]

\* The panel will be used for something else: what it asks about an unsaved
\* change is gone.
Displaced == page.panel = "save"

RevisionOf(canonical) == IF canonical = NoDraft THEN 0 ELSE canonical.revision

\* state.revision is set, and renderPersistentDraftControls.
Revised(p, canonical) ==
  [p EXCEPT !.revision = RevisionOf(canonical), !.base = canonical, !.rows = {}]

\* enableAutosave, and startFreshAtZero for NoDraft; the banner, if it is there,
\* is hidden, and what it was about is of no use any more.
Enabled(p, canonical) ==
  [Revised(p, canonical) EXCEPT
     !.ready = TRUE, !.pause = "no", !.banner = FALSE, !.local = NoLocal,
     !.rerendered = FALSE,
     !.used = IF p.again.kind = "move" THEN @ ELSE {},
     !.offer = IF p.panel = "conflict" THEN @ ELSE NoDraft]

\* applyApiFieldsToDom: a field the draft has no answer to is left alone, so
\* the form may come to show more than the draft holds.
Applied(form, canonical) == form \cup canonical.fields

\* Variant for the mutation runs: the page goes on with the other revision.
ConflictOverridden(s, canonical) ==
  [page EXCEPT !.revision = RevisionOf(canonical)]

\* handleConflict
InConflict(s, canonical) ==
  [Shows(page, "conflict") EXCEPT
     !.pause = "conflict", !.offer = canonical,
     !.banner = @ /\ wire[s].kind \notin {"move", "restart"}]

HandleConflict(s) ==
  /\ wire[s].answer.kind = "conflict"
  /\ page' = InConflict(s, wire[s].answer.draft)
  /\ wire' = Done(s)
  /\ UNCHANGED missed

\* showSessionEndedNotice and showForbiddenNotice
HandleDenied(s) ==
  /\ page' = [Shows(page, "notice") EXCEPT !.pause = "denied"]
  /\ wire' = Done(s)
  /\ UNCHANGED missed

-----------------------------------------------------------------------------
(* The autosave is answered. *)

\* Variant for the mutation runs: a change beside the save is forgotten.
AfterSaveForgetful(p, w, overtaken) ==
  /\ page' = [p EXCEPT !.dirty = FALSE] /\ wire' = w
  /\ missed' = (missed \/ overtaken)

\* A change beside the save is saved now.
AfterSave(p, w, overtaken) ==
  \/ p.dirty /\ Queue([p EXCEPT !.dirty = FALSE], w)
  \/ /\ ~p.dirty
     /\ page' = p /\ wire' = w /\ missed' = (missed \/ overtaken)

HandleSaved(s, canonical) ==
  AfterSave(Revised([Shows(page, "none") EXCEPT !.retry = FALSE], canonical),
            Done(s), wire[s].overtaken)

\* No answer is tried again, SAVE_RETRY_DELAYS_MS.length times; then, or if the
\* answer is of no use, "Retry" is left to the customer.
HandleUnsaved(s) ==
  /\ \/ page' = [page EXCEPT !.retry = TRUE]
     \/ page' = Shows(page, "save")
  /\ wire' = Done(s)
  /\ UNCHANGED missed

SaveAgain ==
  /\ page.panel = "save"
  /\ Queue(Shows(page, "none"), wire) /\ Elsewhere

-----------------------------------------------------------------------------
(* Reconciliation: the account's draft, the device's draft, or neither. *)

HandleLoaded(s, canonical) ==
  /\ wire' = Done(s)
  /\ UNCHANGED missed
  /\ LET p == Shows(page, "none")
     IN page' = IF page.rerendered \/ (canonical = NoDraft /\ page.local = NoLocal)
                THEN Enabled(p, canonical)
                ELSE [p EXCEPT !.banner = TRUE, !.offer = canonical]

\* It is tried again and again, GET_RETRY_DELAYS_MS.length times, or "Retry" is
\* left to the customer.
HandleUnloaded(s) ==
  /\ page' = Shows(page, "load")
  /\ wire' = Done(s)
  /\ UNCHANGED missed

LoadAgain ==
  /\ page.panel = "load"
  /\ page' = Shows(page, "none")
  /\ Sends(wire, Asked("load", 0, Empty, NoDraft))
  /\ UNCHANGED missed /\ Elsewhere

\* "Continue account draft", "Continue account version", and the panel's "Load
\* account version".
TakeAccount ==
  /\ page.banner \/ page.panel = "conflict"
  /\ page.offer # NoDraft
  /\ LET p == IF page.banner THEN page ELSE Shows(page, "none")
     IN page' = Enabled([p EXCEPT !.form = Applied(@, page.offer)], page.offer)
  /\ missed' = (page'.form # page.offer.fields)
  /\ wire' = Overtaken(wire, Settling)

\* "Start fresh", with a draft of the device only
StartFresh ==
  /\ page.banner /\ page.offer = NoDraft
  /\ page' = Enabled(page, NoDraft)
  /\ wire' = Overtaken(wire, Settling)
  /\ UNCHANGED missed

-----------------------------------------------------------------------------
(* A version is chosen over the account's, and saved.  The button is disabled,*)
(* no other is.                                                              *)

\* "Move this draft to my account", "Use this device's version"
Move(p, request) ==
  /\ page' = [p EXCEPT !.used = @ \cup {"move"}]
  /\ Sends(wire, request)
  /\ UNCHANGED missed

TakeDevice ==
  /\ page.banner /\ page.local # NoLocal /\ "move" \notin page.used
  /\ Move(page, Asked("move", RevisionOf(page.offer), page.local, page.offer))

\* "Save my current version", "Save this page as a new draft": with the form as
\* it is now.  On a page that is paused nothing else is to save it.
Keep(p, expected, known) ==
  /\ page' = p
  /\ LET w == IF p.pause = "no" THEN wire ELSE Overtaken(wire, Settling)
     IN Sends(w, Asked("keep", expected, p.form, known))
  /\ missed' = (missed /\ p.pause = "no")

KeepMine ==
  /\ page.panel = "conflict" /\ "keep" \notin page.used
  /\ Keep([page EXCEPT !.used = @ \cup {"keep"}], RevisionOf(page.offer),
          page.offer)

HandleMoved(s, canonical) ==
  /\ page' = Enabled([page EXCEPT !.form = Applied(@, canonical)], canonical)
  /\ missed' = (page'.form # canonical.fields)
  /\ wire' = Overtaken(Done(s), Settling)

HandleKept(s, canonical) ==
  /\ page' = Enabled(Shows(page, "none"), canonical)
  /\ missed' = (missed \/ wire[s].overtaken)
  /\ wire' = Overtaken(Done(s), Settling)

-----------------------------------------------------------------------------
(* "Clear my account draft", "Start over": confirmed, and sent. *)

\* With the revision of the page, or the one asked about again.
Clear ==
  /\ page.ready
  /\ \E expected \in page.rows \cup ({page.revision} \ {0}) :
       /\ page' = [page EXCEPT !.rows = @ \ {expected}]
       /\ Sends(wire, Asked("clear", expected, Empty, NoDraft))
  /\ UNCHANGED missed

Restart ==
  /\ page.banner /\ page.offer # NoDraft
  /\ Sends(wire, Asked("restart", RevisionOf(page.offer), Empty, NoDraft))
  /\ UNCHANGED <<page, missed>>

\* The form is cleared.
HandleCleared(s) ==
  /\ page' = [Revised(Shows(page, "none"), NoDraft) EXCEPT !.form = Empty]
  /\ missed' = FALSE
  /\ wire' = Overtaken(Done(s), Settling)

\* It is not, but the page is live.
HandleRestarted(s) ==
  /\ page' = Enabled(Shows(page, "none"), NoDraft)
  /\ missed' = (missed \/ wire[s].overtaken)
  /\ wire' = Overtaken(Done(s), Settling)

-----------------------------------------------------------------------------
(* A choice or a deletion fails. *)

HandleFailed(s) ==
  LET q == wire[s] IN
  /\ page' = [Shows(page, "retry") EXCEPT
                !.again = Asked(q.kind, q.expected,
                                IF q.kind = "move" THEN q.fields ELSE Empty,
                                q.known),
                !.used = IF q.kind = "move" THEN @ \ {"move"} ELSE @]
  /\ wire' = Done(s)
  /\ missed' = (missed \/ Displaced)

\* "Retry" clicks the button again, if it is not disabled by now, or asks for
\* the confirmation again: in the banner, if that is there.
TryAgain ==
  LET q == page.again
      p == Shows(page, "none")
  IN
  /\ page.panel = "retry"
  /\ \/ /\ q.kind = "move" /\ "move" \notin page.used
        /\ Move(p, Asked("move", q.expected, q.fields, q.known))
     \/ q.kind = "keep" /\ Keep(p, q.expected, q.known)
     \/ /\ q.kind = "restart" \/ (q.kind = "move" /\ "move" \in page.used)
        /\ page' = p /\ UNCHANGED <<wire, missed>>
     \/ /\ q.kind = "clear"
        /\ page' = [p EXCEPT !.rows = @ \cup {q.expected}]
        /\ UNCHANGED <<wire, missed>>

-----------------------------------------------------------------------------
(* Requests arrive: FormDraftView and FormDraftDeleteView. *)

Arrives(s, kinds) ==
  /\ wire[s].kind \in kinds /\ wire[s].answer = Unanswered
  /\ access = "customer"

Respond(s, kind, canonical) ==
  /\ wire' = [wire EXCEPT ![s].answer = [kind |-> kind, draft |-> canonical]]
  /\ UNCHANGED <<page, access, bounded, missed>>

\* The one Usable draft, or NoDraft.
Canonical ==
  IF Usable = {} THEN NoDraft ELSE SnapshotOf(draft, CHOOSE d \in Usable : TRUE)

\* get
Load(s) ==
  /\ Arrives(s, {"load"})
  /\ Respond(s, "ok", Canonical)
  /\ UNCHANGED vars

Writing == {"save", "move", "keep"}
Deleting == {"restart", "clear"}

\* The revision is another one; an overdue draft expires all the same.
Refuse(s) ==
  /\ Arrives(s, Writing \cup Deleting)
  /\ \/ /\ Usable # {} /\ \A d \in Usable : draft[d].revision # wire[s].expected
        /\ UNCHANGED vars
     \/ /\ Usable = {} /\ wire[s].kind \in Writing /\ wire[s].expected # 0
        /\ Save(wire[s].expected, wire[s].fields)
  /\ Respond(s, "conflict", Canonical)

\* The draft is created or written.
Stores(s) ==
  /\ Arrives(s, Writing)
  /\ Usable = {} => wire[s].expected = 0
  /\ Save(wire[s].expected, wire[s].fields)

\* post, of a save
Store(s) ==
  /\ Stores(s)
  /\ \E d \in Draft :
       Active(draft'[d]) /\ Respond(s, "ok", SnapshotOf(draft', d))

\* post, of a deletion: it is one if nothing is left to delete, too.
Remove(s) ==
  /\ Arrives(s, Deleting)
  /\ Delete(wire[s].expected)
  /\ Respond(s, "ok", NoDraft)

Arrive(s) == Load(s) \/ Refuse(s) \/ Store(s) \/ Remove(s)

-----------------------------------------------------------------------------
(* ... and are answered: after another await, in any order.                  *)

HandleDone(s) ==
  LET q == wire[s]
      canonical == q.answer.draft
  IN
  /\ q.answer.kind = "ok"
  /\ \/ q.kind = "load" /\ HandleLoaded(s, canonical)
     \/ q.kind = "save" /\ HandleSaved(s, canonical)
     \/ q.kind = "move" /\ HandleMoved(s, canonical)
     \/ q.kind = "keep" /\ HandleKept(s, canonical)
     \/ q.kind = "restart" /\ HandleRestarted(s)
     \/ q.kind = "clear" /\ HandleCleared(s)

\* The request or its answer is lost, or the server fails.
HandleLost(s) ==
  /\ lost < MaxLost /\ lost' = lost + 1
  /\ \/ wire[s].kind = "load" /\ HandleUnloaded(s)
     \/ wire[s].kind = "save" /\ HandleUnsaved(s)
     \/ wire[s].kind \in {"move", "keep", "restart", "clear"} /\ HandleFailed(s)

\* _authorize_customer denies it.
Denied(s) ==
  wire[s] # Idle /\ wire[s].answer = Unanswered /\ access # "customer"

Handle(s) ==
  /\ \/ HandleLost(s)
     \/ /\ HandleDone(s) \/ HandleConflict(s) \/ (Denied(s) /\ HandleDenied(s))
        /\ UNCHANGED lost
  /\ UNCHANGED <<vars, access, others, decided>>

-----------------------------------------------------------------------------
(* Others: other pages and devices of the customer, time, the staff; and the *)
(* session ends or becomes one of the staff.                                 *)

Others ==
  /\ others < MaxOthers
  /\ others' = others + 1
  /\ \/ /\ Next /\ UNCHANGED access
     \/ access' = "none" /\ access = "customer" /\ UNCHANGED vars
  /\ UNCHANGED <<page, wire, lost, decided, missed>>

Decide ==
  /\ decided < MaxDecided /\ decided' = decided + 1
  /\ \/ TakeAccount \/ StartFresh \/ TakeDevice \/ KeepMine \/ Clear \/ Restart
     \/ TryAgain
  /\ UNCHANGED <<vars, access, others, lost>>

PageNext ==
  \/ \E f \in Content : Edit(f)
  \/ RetrySave \/ SaveAgain \/ LoadAgain \/ Decide
  \/ \E s \in Slot : Arrive(s) \/ Handle(s)
  \/ Others

PageSpec == PageInit /\ [][PageNext]_allVars

-----------------------------------------------------------------------------
(* Properties. *)

\* The page is live and shows no issue, and no save of it is under way.
Quiet ==
  /\ page.ready /\ page.pause = "no" /\ page.panel = "none"
  /\ ~page.retry /\ ~Saving(wire)

\* The form is what the page's revision of the account's draft holds.
Stored ==
  \/ page.revision = 0 /\ page.form = Empty
  \/ \E s \in past : s.revision = page.revision /\ s.fields = page.form

\* "Saved" means saved: a page at rest shows what the revision it holds stands
\* for, whatever order the typing, the decisions, the answers, the failures and
\* what other devices did came in; except that a page misses the changes made
\* while it was not ready or paused, the answers left on it when it takes a
\* version that lacks them, and what came between a request and its answer: a
\* "Save my current version" or a "Start over" answered after a change or
\* another decision, and a save answered after another decision, leave their
\* revision over that other form.  A change beside a save is not missed.
AtRestStored == Quiet => Stored \/ missed

\* A save of this page replaces nothing the page was not answered with before,
\* unless the draft it knew is over and another one has its revision.
NeverBlind ==
  [][\A s \in Slot, d \in Draft :
       LET known == wire[s].known
       IN /\ Stores(s) /\ wire'[s] # wire[s]
          /\ Active(draft[d]) /\ draft'[d].fields # draft[d].fields
          /\ known = NoDraft \/ known.of = d
          => known = SnapshotOf(draft, d)]_allVars

\* What these rest on.  What the page and its requests know of the account's
\* draft was current once, and what is current has been read.
Known == past \cup {NoDraft}

Informed(q) ==
  /\ q.expected \in Expected
  /\ q.known \in Known /\ q.answer.draft \in Known
  /\ q.kind \in Writing => q.expected = RevisionOf(q.known)

KnownIsPast ==
  /\ page.base \in Known /\ page.offer \in Known
  /\ page.revision = RevisionOf(page.base)
  /\ page.rows \subseteq Expected
  /\ Informed(page.again)
  /\ \A s \in Slot : Informed(wire[s])
  /\ \A d \in Draft : Active(draft[d]) => SnapshotOf(draft, d) \in past

\* The page loads, then the banner asks, then it is ready.
Loading == page.panel = "load" \/ \E s \in Slot : wire[s].kind = "load"

ReadyLast ==
  /\ Loading => /\ ~page.ready /\ ~page.banner /\ page.panel \in {"none", "load"}
                /\ page.rerendered => missed
  /\ page.panel = "load" => \A s \in Slot : wire[s].kind = "none"
  /\ \A s, t \in Slot : wire[s].kind = "load" /\ wire[t].kind # "none" => s = t
  /\ page.banner => /\ ~page.ready /\ page.panel # "conflict"
                    /\ page.again.kind \in {"none", "move", "restart"}
                    /\ \A s \in Slot : wire[s].kind \in {"none", "move", "restart"}
  /\ page.ready \/ (~Saving(wire) /\ ~page.retry)

\* A write is answered with the draft as it was sent, or is a conflict.
AnsweredAsSent ==
  \A s \in Slot :
    LET q == wire[s] IN
    /\ q.kind = "none" => q = Idle
    /\ q.answer.kind = "conflict" => q.kind # "load"
    /\ q.kind \in Writing /\ q.answer.kind = "ok" =>
         q.answer.draft \in past /\ q.answer.draft.fields = q.fields

\* What q was sent with is what the page p shows, unless it was overtaken.
Covered(q, p, m) ==
  \/ q.overtaken \/ m
  \/ /\ q.kind = "save" => q.fields = p.form \/ p.dirty
     /\ q.kind = "keep" => q.fields = p.form
     /\ q.kind = "restart" => p.form = Empty

\* Every change is on its way, about to be, asked about, stored or missed.
ChangesAccounted ==
  /\ Loading \/ page.banner => page.form = Empty \/ missed
  /\ \A s \in Slot : Covered(wire[s], page, missed)
  /\ page.ready /\ page.pause = "no" =>
       Stored \/ missed \/ Saving(wire) \/ page.retry \/ page.panel = "save"

\* The inductive invariant of the page, beside IndInv of the drafts.
PageInv ==
  /\ PageTypeOK
  /\ KnownIsPast
  /\ ReadyLast
  /\ AnsweredAsSent
  /\ ChangesAccounted
=============================================================================
