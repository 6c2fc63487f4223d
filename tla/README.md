# Arvion: a TLA+ model of its core

Arvion is a Django application that sells software services and assessments: customers
register, buy an exam by card transfer, sit it in the browser under integrity rules, ask
for work through a contact form and agree on contracts; managers review, approve and
revoke. This directory holds TLA+ modules translated from its source, the TLC
configurations that check them on small instances and TLAPS proofs of what matters most
for every instance. Paths below are relative to `src/`.

1. [Parts of the system](#parts-of-the-system)
2. [Modules and the code they model](#modules-and-the-code-they-model)
3. [Runs, bounds and fairness](#runs-bounds-and-fairness)
4. [What is proved](#what-is-proved)
5. [Where code and documentation disagree](#where-code-and-documentation-disagree)
6. [What is not modelled, and why](#what-is-not-modelled-and-why)
7. [Plan](#plan)

## Parts of the system

The database is PostgreSQL at its default READ COMMITTED (`arvion/settings/production.py`,
`ci.py`), and `ATOMIC_REQUESTS` is not set: a view is one transaction only if it says so,
and two statements of a view that does not are two steps between which others act. Web
workers run concurrently. A systemd timer starts the notification dispatcher every 15
seconds as a oneshot service (`ops/arvion-notifications.timer`). Nothing else runs in the
background: whatever must happen "when time is over" happens in the next request.

| component | state | operations | shares with | what is hard | what makes it correct |
|---|---|---|---|---|---|
| card payments (`assessments/services.py`, `views.py`, `forms.py`, `admin.py`) | `Order`, `ManualPaymentSubmission`, `PaymentTransaction`, `ExamEntitlement`, `WelcomeAssessmentCredit` | create a cart, submit and resubmit a receipt, approve, reject, redeem the gift | managers' inbox, dispatcher, attempts | three approvers and a deadline; reads outside transactions; a reference claimed twice | books agree; decisions stand; every receipt is decided; one gift |
| timed approval (`management_portal/notifications.py`) | `ManagementNotification`, the dispatcher's own list | list, approve one by one, close the alert, announce | card payments | dies between commits; works on an old list | approved once, announced, never against a decision |
| attempts (`assessments/services.py`, `views.py`, `integrity.py`) | `Attempt`, `AttemptQuestion`, `IntegrityEvent`, `AttemptResult` | start, save, events, expire, submit, score, stop, revoke | payments, browser page | lazy expiry, submission in several transactions, four ways to close | the result is that of the stored answers, closed is closed, the score is explained by the evidence |
| exam page (`assessments/attempt.html`, `copy-warning.js`) | its script's variables, requests under way | pick, save, give up, leave, return, copy | attempts, over HTTP | requests that were given up arrive later, answers get lost | what is called saved is saved; exits and returns are paired |
| form drafts and Leads (`leads/form_draft_service.py`, `views/`, `demo_handoff.py`) | `FormDraft`, `Lead` | autosave, delete, hand-off of a demo selection, final submission, expiry, clean-up | several pages of one customer, sign-in | stale pages, lost answers, retries, expiry between two reads | nothing unseen is overwritten; one Lead per submission; thanks only for what is recorded |
| demo selections (`projects/views/projects.py`, `leads/demo_handoff.py`, `signals.py`) | `DemoSelection`, a marker in the browser's session | configure, store, hand off at sign-in or on a visit, restore after a failure, clean up | contact page, sign-in, form drafts | a session is saved whole when its request ends, over what others saved; keys rotate at sign-in; a failing query | a choice is not forgotten until it is attached; an attached one is not replaced by an older one |
| draft autosave (`core/static/core/js/wizard-engine.js`) | its queue, revision, pause, issue panel and banner | save, retry, reconcile, resolve a conflict, start over, clear | form drafts, over HTTP | edits and other buttons during a request, a lost answer, another device | what the page calls saved is saved; no version is replaced unseen |
| contract workspace (`contracts/`, `management_portal/workspace_views.py`) | `ContractProposal`, `ContractVersion` with acknowledgements and acceptance, `SpecialistAssignment`, `RoomAccessGrant`, session keys | edit, publish, revoke, hand out access, sign in, answer, acknowledge, confirm | managers and the customer | edits, revocations and acknowledgements that read without a lock and write later; old pages | a published version stays, is read in order and signed once, with complete answers; nothing unseen is overwritten |
| sign-in (`accounts/`) | `User`, sessions, `ActiveSession`, throttle counters | sign up, sign in, claim, supersede, sign out, suspend, change the profile, reset, open by link | every request | the pointer moves while requests of the old session run, and a sign-in may keep its session's key; a sign-up, the profile and a reset save a row they read earlier | the last sign-in keeps the account; who is suspended stays so, with the exceptions stated |
| notification delivery (`management_portal/notifications.py`) | `NotificationReceipt` with retry times, the dispatcher's lists | push, SMS, reminders; open, snooze, assign, dismiss | dispatcher, managers | a send succeeds and the save after it does not; a manager acts in between | pushed in the end, marked only if it was, not repeated for nothing |
| customer cases (`management_portal/cases.py`, `customer_events.py`, `signals.py`; `customer_merge`) | `Customer`, contacts, `CustomerCase`, documents and their append-only revisions, events | sync a request after its save, merge customers | the forms of every other app, managers | receivers in no transaction that overlap, write what they decided on an old read, fail on each other's rows or die | no snapshot is lost; a request that came through is on record; a merge leaves nothing behind |
| text campaigns (`management_portal/sms_preview.py`, `sms_audiences.py`, `core/sms/`) | the preview, a signed token in the page; `SMSCampaign`, `SMSDispatch` | preview, confirm, claim, send, record, count | managers, the segments of customers, the provider | a POST repeated, a segment that moves, an answer lost, a batch that breaks off | sent once, as reviewed, and as the books say |
| the rest | content pages, search, traffic, blog, design, backups | CRUD, rendering, file and network I/O | | | |

Payments and attempts meet in `ExamEntitlement`: a payment grants it, an attempt uses it
up, a revocation closes both. The inbox and the dispatcher meet the payments through
`approve_manual_payment`, whose row lock and status check every approver goes through. The
exam page and the draft pages talk to their services by `fetch`, with limits, retries and
answers that may be lost.

## Modules and the code they model

| module | what it models |
|---|---|
| `PaidAccess` | The promise of the shop without its machinery: a claim is decided, an approved claim spends its bank reference and opens the access for good, one gift per customer. |
| `CardPayment` | The shop: carts, receipts, managers and admin, dispatcher and crashes. It implements `PaidAccess` (`Shop == INSTANCE PaidAccess WITH ...`). |
| `ExamSitting` | What an exam promises both sides: a sitting is answered in time, judged once by what is stored and found, or void. |
| `ExamAttempt` | One customer's attempts on the server. It implements `ExamSitting` (`Sittings == INSTANCE ExamSitting WITH ...`). |
| `ExamPage` | The exam page and its network, composed with `ExamAttempt` (EXTENDS: the page's requests take the server's actions). |
| `SubmissionRecord` | What the contact form promises: one request on record per submission, with the selection its draft had, and thanks for nothing else. |
| `FormDraft` | One customer's drafts and Leads on the server, for pages that hold any past state of a draft. It implements `SubmissionRecord` (`Submissions == INSTANCE SubmissionRecord WITH ...`). |
| `RoomRecord` | What a contract room promises: versions that never change, read in order, the newest signed once. |
| `ContractRoom` | One proposal and its room. It implements `RoomRecord` (`Record == INSTANCE RoomRecord WITH ...`). |
| `OneSession` | The one-session rule without its machinery: who starts to act for an account holds it; it changes hands by a sign-in, or through a sign-out of its holder. |
| `SignIn` | One account: sign-up, sign-in, the pointer, sign-out, the staff's decisions. It implements `OneSession` (`Rule == INSTANCE OneSession WITH ...`). |
| `AlertDelivery` | What the managers are promised of an alert: while it stands, who wants it and has not seen it is rung, one after the other, nobody again before the ring is noted or forgotten. |
| `NotificationDispatch` | One alert on its way to the managers, and what they do with it meanwhile. It implements `AlertDelivery` (`Delivery == INSTANCE AlertDelivery WITH ...`). |
| `DemoHandoff` | A visitor's choice of a demo, from the configurator through the browser's session into the account, composed with `FormDraft` (EXTENDS: the contact page takes its actions). |
| `DraftPage` | The autosave of the contact wizard and its network, composed with `FormDraft` (EXTENDS: its requests take the server's actions). |
| `CustomerBook` | What the customer file promises: what is filed or archived is added to, a phone or an email is written down only by a clerk who heard it when the customer had none, and customers become one with all they have. |
| `CaseLedger` | What becomes of a Lead, a CRM or a clinic order once its row is saved, and the merge of customers. It implements `CustomerBook` (`Book == INSTANCE CustomerBook WITH ...`). |
| `ReviewedSending` | What a manager is promised who sends a text to many: what was reviewed, to each once, on record before the next, in one sending. |
| `SmsCampaign` | Text campaigns of the managers, from the preview to the books. It implements `ReviewedSending` (`Sending == INSTANCE ReviewedSending WITH ...`). |
| `MC*` | Model values and small tables for TLC. |
| `*_proofs` | The theorems and their proofs. |

**Granularity.** A view or service that holds the row lock it decides by until it commits
is one action. What is not in one transaction is several actions: `CreateOrderView` reads
the cart and saves it (`ReadCart`, `SaveCart`); the dispatcher lists, approves, closes the
alert and announces (`Scan`, `AutoApprove`/`PassOver`, `CloseAlert`, `Announce`) and may
be killed at any point of it (`Crash`); `FinishAttemptView` decides and submits
(`FinishOpen`, `FinishSubmit`). `SaveAnswerView` and `IntegrityEventView` call
`finalize_expired_attempt` inside their own transaction, whose row lock is held to the end
of the outer one, so they are one action each; that an overdue attempt is closed by them
is a disjunct (`RefuseSave`, `RefuseEvent`). The statuses `submitted`, `expired` and
`scoring` of an attempt and `submitting` of a draft are written and left within one
transaction and never read by anybody else, so the models do not have them.

In the contract room, publication, questionnaire, grants, saves of answers and the
confirmation lock the proposal (or the grant) and are one action each; `proposal_edit`,
`proposal_revoke` and `contract_acknowledge` do not lock what they read and are two
actions each (`EditRead`/`EditSave`, `RevokeRead`/`RevokeSave`, `AckRead`/`AckWrite`).

`ATOMIC_REQUESTS` being off has more weight still in the components below: the receivers
of `post_save`, the dispatcher, `sms_send` and the middleware commit each statement by
itself, and each statement (or block with a transaction of its own) is an action.

**CardPayment.** `order`, `receipt`, `ledger`, `entitled`, `issued`/`credit` are the rows;
`alert` and `notice` the two notifications of a receipt; `cart` a `CreateOrderView` between
its check and its save; `run` the dispatcher. An amount is one of a few prices, a
reference a model value; external ids keep their prefixes because `CardId` shares one
uniqueness constraint with the gift's ids. A receipt has one row that is edited in
place on resubmission, as in the code. That the review window is over is a flag set by
time (`WindowCloses`) and cleared by a resubmission.

**ExamAttempt.** `access` and `attempt` are the entitlement and attempt rows, `answer` the
stored choice of the question on the screen, `events` the evidence with its points,
`result` the answer that was scored, `finishing` the submissions between their two
transactions. Time is two flags: `overdue` and `recent` (the last 24 hours, for the daily
limit). Scoring stores what it scored, so that a result that differs from the stored
answers would show.

**ExamPage.** `page` holds the script's variables (`desiredChoice`, `savedChoice`,
`savePromise`, `navigating`, the label). A request given up after 15 seconds goes to `late`
and may still arrive, at any time, in any order, or never (`ArriveLate`). An exit and the
return from it are two requests of one absence; the return waits for the end of the exit's
request (`hiddenRequest.then`), whichever end that is.

**FormDraft.** `draft` and `lead` are the rows; `past` is every committed state of an active
draft, which is what any page may hold; `confirmed` are the submissions whose customer has
seen the page of thanks. A writer locks the owner's row, so each is one action, and each
begins by expiring an overdue draft (`Swept`). A request's `expected_revision` is any
revision ever read, or 0. A request the service refuses is rolled back and is no step,
with one exception the code insists on: a conflict of `save_draft_fields` is raised after
the commit and keeps the expiry (`OnlySweep`).

**ContractRoom.** `proposal`, `version`, `form` and `grant` are the rows; a version carries
its acknowledgements and, once accepted, the evidence it was signed with. `page` is the
state of the answers a device has read and shows the revision of; after a save the page
may or may not get the answer. `session` holds the keys of a device, which name a version
and a grant. `request` is a manager's edit or revocation between its read and its save: an
edit saves the whole row as it was read, but for the form's fields (`Saved`). Time is
`late` (the room's fourteen days are over) and a grant's `expired`. The text of a proposal
is one value, which stands for its commercial and private terms.

**SignIn.** `account`, `session` and `pointer` are the rows of `User`, `Session` and
`ActiveSession`; `hash` is the password a session was signed in with, `mailed` the links
sent; `request` is where each of the requests under way stands, with the `User` row it has in
memory (`seen`). A request with a session is loaded by `AuthenticationMiddleware` (`Load`;
`ShutOut` if its user is inactive, `DropVoid` if the password was replaced) and passes the
rule in two steps (`Look` without a lock, `Decide` under the lock of the user's row). A
sign-in has three. First `login()` settles the session's key: in a session of the same user
it keeps it (`KeepKey`), elsewhere there is a new row and the old one is deleted (`Cycle`).
Then `Point` moves the pointer and `Answer` saves the session. A sign-out has two (`Release`,
`Flush`). The views that save the whole row as it was read are two actions each:
`CheckSignUp`/`SaveSignUp`, `CheckReset`/`SaveReset`, and the profile, whose row is the one
`Load` has read (`SaveProfile`). `verify_email` takes the links of password mails too, as both
use `default_token_generator`; it checks (`CheckOpening`), saves two columns (`Open`) and
signs in. The other views leave the account alone (`Finish`).

**NotificationDispatch.** `receipt` holds each manager's row, its times reduced to what the
queries tell apart; `run` is `process_notifications` with the lists it has read and not
worked through. A push and its record are two steps (`Accepted` or `Refused`, `Record`), and
the managers' views and `Kill` come between any two. `rung` and `settled` are history. A
manager who snoozes, or is assigned the alert, between the push and the record overtakes it.

**DraftPage.** `page` has the script's variables (`ready`, `revision`, `pause`, the issue on
show, the banner, the disabled buttons, the retry timer) and `form` the answers on the page.
`wire` are the requests under way: a request is sent by a handler (`Sends`), reaches the
server, where it takes an action of `FormDraft` (`Arrive`), and is answered to the page
later (`Handle`), so that several cross in any order. An answer or the request may be lost
(`HandleLost`). A click disables its own button and no other (`used`), so that each of the
decisions, and typing, may come beside every request. A content is a set of answered
fields, because `applyApiFieldsToDom` leaves alone the fields a draft has no answer to: a
form that takes a version keeps its other answers (`Applied`). `missed` and a request's
`overtaken` are history: changes the page has not taken up, and that another decision was
made since the request was sent.

**DemoHandoff.** `selection` are the rows of `DemoSelection`, `session` those of Django's
`Session` reduced to who is signed in and the pending marker, `cookie` the key the browser
sends. `handler` is each request under way with its copy of the session: `Begin` loads it,
`Finish` saves the whole copy if the request has changed it, over whatever another request
saved in between, and `Die` is a process that ends before that. In between the request is
the configurator's (`Configure`), the contact page shown or posted (`StoreMarker`,
`AttachNamed`, `SkipNamed`, `NothingToDo`, then `Finalize` or `Reject`), a sign-in
(`SignIn`, then the receiver of `user_logged_in`) or a sign-out. `consume_pending_demo_selection`
is called by the receiver and by the page (`Consuming`), and ends in `AttachPending`,
`DropPending` or `FailPending`; what it does to the draft is `HandOff` of `FormDraft`. The
draft is committed at once, the session when the request is answered, so a request that dies
may leave a draft with the selection and a marker that still names it. `standing`, `owed`
and the fields `marked`, `attached`, `old` and `crossed` are history (`marked` is set even by
a visit that names what is pending already: it is the customer's newest choice all the
same). Django's sessions are
external: they are modelled by what the code relies on (`cycle_key` keeps the data of an
anonymous session, `flush` drops it, a save of a deleted row is refused). `SignIn` models
the one-session rule with sessions cut at other points; here it is one `SignOut`.

**CaseLedger.** `request` are the committed rows; `worker` the receivers, each at one of the
statements of `sync_source_case` (find or make the customer, complete it, its contact and
case, the document read and written, the revision, the activity and its event). What a
customer lacks is told from the row that was found (`Lacking` in `Find`), and written one
statement later whatever the row holds by then (`Completed` in `Settle`): of two receivers
with two emails, the second replaces the first's. A statement that meets a unique or
foreign key constraint ends its receiver (`Refused`), after the row was saved.
`customer_merge` is one transaction; `CustomerEvent.customer` is `PROTECT`, so it is rolled
back for a source with an event.

**SmsCampaign.** `members` is the segment, `preview` what the signed token of
a preview carries, `campaign` and `rows` the tables, `post` the POSTs of the confirmation under
way, `handed` what the provider took. A message is handed over (`Send`), gets its row
(`Dispatch`) and is counted (`Count`) in three statements; an answer may be lost, and the
process may end at each of them (`Break`).

## Runs, bounds and fairness

The longest runs (`card_payment`, with liveness and refinement, and `case_ledger`) take about
three minutes on two cores, the others one or two. Model values stand for rows,
references and identities. Symmetry is used where no definition tells the values apart
and no liveness is checked: the drafts and requests in `draft_page`, the
sessions and requests of `sign_in`, the rows, selections, keys and
requests of `demo_handoff`, the customers, workers, requests
and contents of `case_ledger`, and the POSTs and others of `sms_campaign`.

| run | question | distinct states |
|---|---|---|
| `card_payment` | Two orders of one customer for two exams, two changing prices, two references, managers and a dispatcher that dies once: do the books agree, are receipts decided and approvals announced, and does the shop implement `PaidAccess`, liveness included? | 296,380 |
| `exam_attempt` | Two attempts, one of them a gift, one start a day, two copies to the stop: does whatever comes first win for good? | 495,108 |
| `exam_page` | Two choices, three presses, two page loads, one absence, one copy: what does the page guarantee over its network? | 796,562 |
| `form_draft` | Two rows, two contents, one demo selection, two tokens, drafts changed once: do saves, hand-offs and submissions from stale pages keep their promises? | 265,472 |
| `contract_room` | Two versions, two questionnaires of two sections, one grant, an edit or revocation from an old read, an old page: does the room keep what it published, what was read and what was signed? | 980,280 |
| `sign_in` | Two sessions, two requests at a time, three sign-ins, one password reset, one link, an account in each of the states it may be found in: does it keep to one session, and stay suspended? | 1,793,561 |
| `notification_dispatch` | Two managers, one of whom gets the alert and one of whom may be drawn in, a phone, one kill: is the alert pushed in the end, and neither lost nor repeated? | 320,992 |
| `draft_page` | A page, one field, two rows, two requests under way, three decisions, one loss, one interference from another device or the session's end: does a page at rest hold what the account has? | 1,946,532 |
| `demo_handoff` | One browser with three requests, two at a time, two selections, three session keys: does a choice reach the account, and stay there? | 324,039 |
| `case_ledger` | Two requests, three contents, one phone, two emails, two customers, two receivers, one kill, merges: is all that was saved kept? | 1,833,277 |
| `sms_campaign` | Two managers, four numbers, two texts, one token, three POSTs of which two break off: is it sent once, as reviewed and as booked? | 84,609 |
| `merge_completes` | Can customers proven to be one always be merged? | (violated) |

**What the safety properties say.** `BooksAgree`: paid, entitled and booked are the same
orders, a transaction id pays one order, and a card order is paid exactly by its approved
receipt. `NoReceiptStuck`: a receipt waiting for review passes every check of
`verify_gateway_payment`. `DecisionsStand`, `ClosedForGood`, `OverIsOver`: what was decided,
closed or submitted never changes again. `KeepsPromise`: the
refinement of `PaidAccess`, with its liveness; it includes that a gift opens one access
(`OneGiftPerUser`, a conjunct of the proof's invariant and a theorem, so it has no place of its own in the run). `ResultIsOfStoredAnswers`, `ScoreIsExplained`: result and
integrity score can be recomputed from the stored answers and evidence.
`StartsAreLimited`, `CopyStopIsExact`: the limits hold at their edge.
`OnlyGivenUpOverwrites`, `PairedUnlessFailed`: what the page promises, with the exact
exception its 15 second limit leaves. `RevisionNamesContent`: a revision stands for one
content. `ThankedIsRecorded`, `OneLeadPerToken`: retries of the final submission.
`OpenRoomIsItsSnapshot`: an open room shows the newest version, and no old edit makes the
proposal differ from it behind the customer's back. `SignedAnswersStand`: the answers stay
those the confirmation recorded. `MatchingPageIsCurrent`: a save with the present revision
comes from a page that has seen all answers. `UndoneOnlyByOldRead`: a publication or an
acceptance can be taken back, and is, but only by a request that had read an older
proposal. `KeepsRecord`: the refinement of `RoomRecord`.
`LastSignInHolds`: no late claim or sign-out of an older session takes the account from the
newest; excused is a sign-in that keeps its session's key while another request of that key
is being signed out (`Doomed`). `SuspendedUntilApproved`: a suspended account comes back by
the staff, or by a request of its own that read or checked before: a sign-up, if that was
before the first sign-in, the profile or a new password saved with the row of an active
account, and the opening link of a verified number. All of these really happen.
`KeepsOneSession`: the refinement of `OneSession`. `AlertedOnce`, `MarkedMeansRung`: a push
or text is repeated only after a kill or a reset, and what is marked as pushed was.
`AtRestStored`: "Saved" means saved, with the exceptions named there. `NeverBlind`: a save
replaces what the page was answered with, and nothing else. `SnapshotsKept`: a snapshot is
lost only if its writer died and one that had not read it wrote over it.
`PendingUntilSettled`: the choice an answered visit has marked is in the browser's session
or with the sign-in that will hand it off, whatever queries fail, until it is attached,
replaced, found deleted, or the customer leaves; excused are a sign-in that dies after it
rotated the key, the end of the session's lifetime, which the model leaves out, and a
session saved by a request that overlapped. `AttachedChoiceStands`: the
choice an answered visit has attached is not replaced by an older one that was pending,
with the exception of overlapping requests again, followed to the marker they wrote back
(`crossed`). Both exceptions really happen.
`RequestsOnRecord`, `LedgerStands`: what a request and a merge leave behind.
`AtMostOnce`, `AsReviewed`, `BooksBalance`: a campaign against replays, moving segments and
breaks. Types are not among the runs' invariants, because they are theorems; the inductive
invariants hold in the instances above too.

**Why the bounds are enough.** Every conflict the code guards against is one between two:
two orders for a reference, two carts for one gift, two attempts for one start a day, two
choices for one answer, two drafts for one revision number. Named bounds: `MaxCrashes` (1:
a second crash finds what the first left), `MaxPresses` (3: a choice, a newer one, and
Continue or one more), `MaxLoads` (2: a page and its reload), `MaxRevision` (2: a draft
changed after it was read; a submission goes two further). In the contract room
`MaxVersions` (2: a publication and the next, with acknowledgements and keys of the first
left over), `MaxForms` (2: a questionnaire and its replacement), `MaxRevision` (3: two
sections answered and one emptied again), `MaxGrants` (1, beside the shared password of
rooms without a grant); one manager's request and one device, whose page, acknowledgement
and save interleave as those of several tabs do. In `SignIn` two requests are the two sides of every
race over the pointer or the row, two sessions the newest and one that is not, and three
sign-ins (`MaxSignIns`) let a session sign in, be superseded and sign in again;
`MaxResets` (1) is a password replaced once, `MaxMails` (1) a link and what outdates it. In
`NotificationDispatch` one kill (`MaxCrashes`) falls between any send and its record. In
`DraftPage` `MaxOthers` (1) is a change by another device, time or the staff, or the end of
the session; `MaxLost` (1) one request or answer that is lost; `Slot` (2) a request and one
sent beside it, from any button; `MaxDecided` (3) a decision, another beside its request, and
one that follows, such as "Retry". In
`DemoHandoff` two requests at a time (`Handler`) are the two that overlap, and three in all
(`MaxRequests`) are a visit that leaves a marker, one that attaches another choice and one
that would bring the first back; the browser begins with any marker, as after an earlier
visit or a failed sign-in. Three keys are an old one, a rotated one and one more; a selection
is not configured again after its clean-up. In `CaseLedger` `MaxSaves`
(3) lets a request be saved again and two overlap, and `MaxKills` is 1; the rows of customers are
given. In `SmsCampaign` `MaxManual` and `MaxSegment` are smaller than the code's 20 and
50, and reached; `MaxBreaks` (2) leaves one POST of three that does not break
off. The theorems have no such limit.
`CopyLimit`, `FullScore`,
`CopyPoints`, `PastePoints`, `AwayPoints` and `PacePoints` are small so that the floor of
the score and the stop are reached. `exam_attempt` has no absences and `exam_page` no
pastes, which keeps both small; between them every kind of event occurs. A cart is
requested once at a time (`cart[o] = 0` in `ReadCart`).

`CHECK_DEADLOCK FALSE` stands where the model really ends: all orders sold, all attempts
closed, the page left for good, the bounds of the contract room, the ledger or the
hand-off used up. The
other runs are checked for deadlock; the page of the wizard, for one, can always go on.

**Fairness** is what the code's scheduling gives. `WF(Dispatch)`: the timer starts the
dispatcher again and again, and a run that is not killed goes on. `WF(WindowCloses)` : time
passes. `WF(FinishSubmit)`: a view that has begun ends. In the page, the handlers of
answers and the 15 second timer run. Customers, managers and the network owe nothing: a
receipt is decided although no manager ever looks (`ReceiptsDecided`), and "Saving" ends
although no answer comes (`SavingEnds`). `AnnouncedUnlessKilled` and `FinishCloses` need
no more. In `NotificationDispatch` the timer starts the dispatcher (`WF(Dispatch)`), a retry
delay ends, and a provider that is tried again and again takes a push at some point
(`SF(Accepted(m))`); a kill is bounded, a snooze need not end and managers owe nothing. The
other modules have no liveness property: nothing in them must happen without a request.

`PROJECT.json` names for every property a mutation of the code's model that breaks it;
the variants are beside the definitions they vary (`RefNeverTaken`, `GrantLater`,
`SavedFields`, `AdmittedIfFree`, ...) and are used by no specification.

## What is proved

The theorems hold for all values of the constants, whatever number of customers, orders,
rows, contents, sessions, requests, receivers or numbers there is (entitlements are assumed
finite, as the daily limit counts them, and so are numbers where the books do), from the named
assumptions beside the constants, all of which TLC evaluates.

**CardPayment_proofs.** `IndInv` is `TypeOK`, `BooksAgree` and `OneGiftPerUser` with four
helpers: a receipt rests on a card order that accepted the terms and stays pending until
the approval (`ReceiptsRest`); references are distinct (`RefsDistinct`); gifts are booked
under their own name (`GiftsBooked`); the dispatcher that announces has an order
(`AnnouncesAnOrder`). `ReceiptsRest` and `RefsDistinct` are what makes `NoReceiptStuck` a
consequence: a pending receipt's id is in the ledger only if another receipt had its
reference. From `Invariance` follow `TypeCorrect`, `BooksAlwaysAgree`, `GiftGivenOnce`,
`ReceiptsNeverStuck`, `DecisionsAlwaysStand`, and `ShopImplementsPaidAccess`: every step
of the shop is a step of `PaidAccess` or leaves it as it is.

**ExamAttempt_proofs.** `IndInv` is the invariants about rows, with
`GiftsAcknowledged` (gifts start acknowledged, so the stop is armed), `OpenIsUnstopped`,
`EventsFinite` (the stop counts), `PaceIsScored` (haste is charged at scoring, once) and
`UnusedInTime` (no time runs before the start). One lemma per way an attempt may move
(close, submit, invalidate, charge, stop), one step per action. Theorems:
`AttemptInvariance`, `AttemptTypeCorrect`, `ResultsMatchAnswers`, `StartsStayLimited`,
`RevocationCloses`, `CopyStopsExactly`, `ScoresAreExplained`, `ClosedStaysClosed`.

`ScoreIsExplained` is about a sum over a set, a fold in an order that `CHOOSE` picks. The
proof gives an event as many tokens as it has points: the sum is the number of tokens
(`SumCountsTokens`), by induction over the subsets of a finite set, which is taken from
the well-founded subset order with the property as a set of subsets (`SubsetInduction`),
as the provers take no operator for it. Then a new event adds its points
(`PointsAdd`), and points taken one after the other down to 0 are taken together
(`LoweredTwice`), which is why the order of evidence does not show in the score.

`AttemptsImplementSittings`: every step is one of `ExamSitting` or hidden. `StageOf` maps an
attempt to a sitting's stage and `VerdictOf` a completed one to its judgement. The daily
limit, the reason of a closure, acknowledgements and submissions between their two
transactions do not show. Beyond the invariants it says *when*: an answer changes in
time only, the judgement is by the answer and the evidence of that very step, a sitting is
void exactly in the step that brings the copy limit or takes the entitlement back.

The same module has the theorems of the page (`ExamPage`), whose invariant is `PageInv`.
`OnlyGivenUpOverwrites` is about the label alone; it is inductive beside `AwaitedIsSaving`
(an answer "ok" on its way means that the awaited choice is stored, or one given up since)
and `LateIsGivenUp` (what may still arrive was given up). `PairedUnlessFailed` needs
`ExitBeforeReturn` (a return is sent after the end of its exit's request, and an exit that
arrived is recorded or found the attempt closed) and `ShownIsStarted`. Theorems:
`PageInvariance`, `SavedMeansSaved` (`OnlyGivenUpOverwrites`), `AbsencesArePaired`
(`PairedUnlessFailed`), and `PageImplementsAttempt`: the page and its network only take
steps of `ExamAttempt`, so the attempt's theorems hold of the one on the screen, the
refinement of `ExamSitting` included (`PageKeepsSittings`).

**FormDraft_proofs.** `IndInv` adds two conjuncts to the invariants the run checks.
`RevisionNamesContent` alone is not inductive: `PastIsPast` says that what a page has
read of a draft is older than its present or is its present, and `ActiveCounted` that
counting starts at 1. Requests are first reduced to what they may do to one row (`Quiet`:
stay, age, expire, change, open, leave; or `Submits`), and each conjunct is then proved
over rows. Theorems: `DraftInvariance`, `DraftTypeCorrect`, `RevisionsNameContent`,
`ThanksAreRecorded`, `TokensMakeOneLead`, `OverStaysOver`, `DraftsImplementSubmissions`.

The last maps the drafts to `SubmissionRecord`: the usable draft's selection (`OpenChoice`
is empty when there is none), the submitted rows with their Leads as what is on record
(`OnRecord`), `confirmed` as the thanks. It hides revisions, contents of drafts and clean-up, and says
what the invariants do not: a record is made in the step that closes the draft, with the
selection the draft had then; a repetition changes nothing; a request the staff removed
comes back under its own token only. Since the page and the hand-off implement
`FormDraft`, they keep it too (`PageKeepsSubmissions`, `HandoffKeepsSubmissions`).

The page of the wizard (`DraftPage`) and the hand-off (`DemoHandoff`) are in the same
module. The page's `PageInv` says where an edit may be (`ChangesAccounted`: on its way, about
to be, asked about, stored or missed), which is `AtRestStored` once nothing is on its way. It
is said of each request by itself, however many there are: what it was sent with is what
the page shows, unless it was overtaken (`Covered`). It rests on `AnsweredAsSent` (a write is
answered with the draft as it was sent, or with a conflict), on the order of loading,
banner and being ready (`ReadyLast`: the load is alone, and beside the banner there are only
the requests of its buttons) and on `KnownIsPast`, that what a request was answered with is
a past state of the draft. No step assumes that nothing else is under way.
`NeverBlind` follows from that and the drafts' own invariant: a revision that still
matches is the one that was read. Each answer is a lemma over the page's variables, for
whatever set of states has been read. Theorems: `PageInvariance`, `SavedAtRest`
(`AtRestStored`), `SavesAreInformed` (`NeverBlind`), `PageImplementsDrafts`.

`HandoffInv` says of an owed choice that the browser's session has it, and so has every
request that may save that session without being called `old` (`InSession`), or that a
sign-in has it, under a key nobody else has (`WithSignIn`); of an attached choice that no
marker older than it is left (`NoOlderMarker`). What carries these through an answer is
`CopyIsCurrent` (until another answer comes, a request's copy is what the browser's session
holds) and `RequestsKept` (a choice is marked last, one attached leaves no marker, a sign-in
is always saved). A request between its beginning and its answer is one lemma (`InnerStep`),
the steps that touch the sessions are one each. Theorems: `HandoffInvariance`,
`ChoicesStayPending` (`PendingUntilSettled`), `AttachedChoicesStand`
(`AttachedChoiceStands`), `HandoffImplementsDrafts`. The three modules together have the
drafts' theorems for every page and every browser, since both specifications implement
`FormDraft`.

**ContractRoom_proofs.** To the invariants the run checks `IndInv` adds that pages are not
newer than the answers (`PagesAreBehind`), that a request under way has passed its check
(`RequestsHavePassed`) and that who is about to acknowledge the private terms has found
the general ones acknowledged (`AcknowledgedInOrder`, which survives because
acknowledgements are never taken back). They are what carries a check over to the write
it precedes. Theorems: `RoomInvariance`, `RoomTypeCorrect`, `OpenRoomsAreSnapshots`,
`SignedAnswersRemain`, `MatchingPagesAreCurrent`, `UndoingNeedsOldRead` and
`RoomImplementsRecord`: every step of the room is a step of `RoomRecord` or leaves the
record as it is.

**SignIn_proofs.** `LastSignInHolds` holds although keys are not fresh: it is inductive beside
the types and `RequestsHaveSessions` (requests of the account name sessions), because its
own third conjunct says that no request of the last sign-in's key is on its way out, and a
sign-in that finds one is no `latest`. `RowsInMemory` says what the rows in memory tell: a
sign-up that passed its checks read an account nobody had used, a view runs for an account
that was active when it was loaded, a link that is being followed was sent. With
`NobodysAccount` (nothing but a sign-up is under way before there is an account) that limits
the exceptions of `SuspendedUntilApproved`. Theorems: `SignInInvariance`,
`SignInTypeCorrect`, `LastSignInAlwaysHolds`, `SuspensionsStand` and
`SignInImplementsOneSession`: every step of a request is a step of `OneSession` or leaves the
pointer and who acts as they are.

**CaseLedger_proofs.** `IndInv` has four parts. `TypeInv` is the types, with what a receiver
holds at each of its statements. `LedgerInv` adds to `LedgerStands` that what a receiver
has filed stays filed (`Filed`): a merge moves a case, it never takes it away.
`SnapshotInv` explains each snapshot that is not among the revisions: its writer is about
to record it or has died, and it is still the document's content or was overwritten by
one who had not read it. What a receiver has read is on record (`SeenKept`), because it
copied it before it went on. `TrackInv` follows a request that was never disturbed from
statement to statement (`Tracked`) to what `RequestsOnRecord` promises in the end.
`BookInv` is for the refinement: a document's content, what a receiver has read and
what it is about to record were shown (`ShownFirst`, `Fine`), and a contact it knows of
stays unless its customer is merged away.
Theorems: `LedgerInvariance`, `LedgerTypeCorrect`, `SnapshotsAreKept`,
`LedgerAlwaysStands`, `RequestsGoOnRecord` and `LedgerImplementsBook`: each statement of a
receiver, the last one before it dies included, and each merge is a step of
`CustomerBook` or hidden. The book hides who is at work and what a document shows now.
It says that the archive only takes what was shown and loses nothing, that a phone or an
email is given to a living customer by a receiver that had read it without one (`note`, which
is dropped if the receiver dies), that a case changes hands only by a receiver or
a merge, and that a merge takes all there is, of customers proven to be one.

**SmsCampaign_proofs.** `ClaimInv`: a POST agrees with the preview it is of (`PostsAgree`),
what was handed over was so under a claim (`HandedUnderClaim`), and among the POSTs of a
token one has it (`OneClaim`), since the claim inserts a row whose token is unique.
`AtMostOnce` follows from `OneClaim` and that a POST has each recipient in `todo` once.
`BooksInv` follows the books from recipient to recipient: `Progress` relates what is still
to do, the rows and what the provider took; `Books` the counts and the rows. Theorems:
`CampaignInvariance`, `CampaignTypeCorrect`, `SubmissionIsAtMostOnce`, `SentAsReviewed`,
`BooksAlwaysBalance` and `CampaignsImplementSending`: the previews, POSTs, tables and the
provider implement `ReviewedSending`, where a review has one sending, a message leaves
only once everybody before is on record, and a sending that is over is not taken up
again. Counts, templates and the segment as it is now do not show.

**NotificationDispatch_proofs.** The invariant says what a push under way and its record owe to
each other: it is to a receipt that is not marked, is on no list any more, and the history
knows its outcome (`PushUnderWay`); what was accepted is marked or is the one under way
(`RungIsMarked`); once all phones were texted every receipt says so (`SettledIsMarked`,
which survives new receipts because they end `settled`). What managers and time do is
first reduced to what it may do to a receipt and its history (`Aside`). Theorems:
`DispatchInvariance`, `DispatchTypeCorrect`, `AlertsAreSentOnce`, `MarksAreOfPushes` and
`DispatchImplementsDelivery`: every step of the dispatcher and of the views is a step of
`AlertDelivery` or hidden. The lists of a run, its retries and kills, the texts and the
reminders do not show. What shows of a push is the bell of its manager: "rung" from the
provider's answer until the save after it, then "noted". A snooze or an assignment that
comes between the two makes the ring "stale", and it is noted all the same: the delivery
says so, as the code marks the receipt although it was asked to push it anew.

**The refinements.** Eight components implement an abstract specification (`PaidAccess`,
`ExamSitting`, `SubmissionRecord`, `RoomRecord`, `OneSession`, `CustomerBook`,
`ReviewedSending`, `AlertDelivery`), and the three modules of the browser implement the server's.
Three of the eight are properties of runs as well (`KeepsPromise`, `KeepsRecord`,
`KeepsOneSession`). The other five (`KeepsSittings`, `KeepsSubmissions`, `KeepsBook`,
`KeepsReviewedSending`, `KeepsDelivery`) are theorems only: TLC found them to hold when they
were added as a `PROPERTY` to `exam_attempt`, `form_draft`, `case_ledger`, `sms_campaign` and
`notification_dispatch`, over the same states, and the theorems made that
unnecessary. The parts that make them inductive (`UnusedInTime`, `ShownFirst`) were checked
on the same instances.

**Only model-checked.** Liveness (`ReceiptsDecided`, `AnnouncedUnlessKilled`, `FinishCloses`,
`SavingEnds`, `EventuallyPushed`, the liveness part of `KeepsPromise`), which the prover
does not do under fairness. Every invariant and every action property of the passing runs
is a theorem.

## Where code and documentation disagree

One disagreement is a run, whose property quotes the statement and which TLC violates:

- `merge_completes`: `customer_merge` moves contacts, cases, contracts and orders and then
  deletes the source, but `CustomerEvent.customer` is `PROTECT` (`management_portal/models.py:69`)
  and no event is moved. Every case gets an event when it is made, so `source.delete()` raises
  `ProtectedError` for any customer who came in by a form, and the view, which does not
  catch it, answers with status 500. The execution plan of the improvements says that the
  source is deleted after the move (`SYSTEM_IMPROVEMENT_EXECUTION_PLAN.md:74`); the test
  (`management_portal/tests.py:136`) merges a customer without events.

The models have more of them as they are; the passing properties name them as their exceptions:

- A receipt submitted between the check and the save of `CreateOrderView` is repriced
  (`assessments/views.py:280-299`, against the comment at line 293).
- A receipt that the dispatcher has listed, rejected and submitted again meanwhile is
  approved by the run that listed it; ADR-0001 gives a resubmission the full window.
- A dispatcher killed between an approval and its alert leaves it unannounced for good;
  `AnnouncedUnlessKilled` shows that nothing else does.
- A save of the exam page given up after 15 seconds may arrive after a newer choice and
  replace it while the page says "saved" (`OnlyGivenUpOverwrites`).
- Every draft starts at revision 1, so a revision read of an expired draft matches its
  successor, which the docstring of `_get_active_draft_locked` excludes (`NeverBlind` and
  `RevisionNamesContent` speak of the same draft).
- `contract_acknowledge` checks that the form is complete and writes without a lock; an
  autosave that empties an answer fits in between, the acknowledgement closes the form, and
  the version can never be confirmed.
- A conflict's panel leaves its other button live (`wizard-engine.js:844-857`). "Load account
  version" pressed while "Save my current version" is under way puts the account's old version
  on the page; the save's answer then takes up the new revision and says "Saved" over
  it. So does "Start over" answered after another decision of the banner (lines 1079-1087,
  1144-1186). Both are `overtaken` in `AtRestStored`. And a save that is answered after a deletion
  has met a conflict hides the panel but leaves the page paused (lines 973-985): nothing asks
  the customer any more, and nothing is saved.
- Answers changed while "Save my current version" is being saved (`wizard-engine.js:852`) are
  not queued when it succeeds, and the page says "Saved"; so are those changed before
  the page is ready. "Load" and "Continue" with the account's version leave on the
  page the answers that version has none to (`applyApiFieldsToDom`, line 243), so that the
  page shows a mix of two versions. Both are `missed` in `AtRestStored`.
- A first save that arrives after the final submission opens a new draft, and a save sent
  before "Clear" may reach the draft that follows under the same revision.
- A session that was superseded is back in if it makes a request while the pointer is
  empty, which the docstring of the middleware does not say; `OneSession` says
  when it may.
- The comment at `accounts/signals.py:65-67` says that a stale session signing out "can never
  remove a newer session's pointer", as its key is another one. But a customer who signs in again in a
  session that was superseded keeps its key; a request of that key which was found
  superseded before then removes the new sign-in's pointer and its row (`Doomed`).
- A sign-up, the profile and the password reset save every column of the row they read:
  each undoes a suspension, or a verification, that came in between. An opening link, which may
  be one of a password mail, is good for an account of a verified number that was suspended
  after it was sent. The comment of the sign-up (`accounts/forms.py:108-110`, quoted at
  `SuspendedUntilApproved`) is about resuming such an account later, which its checks do exclude.
- Two receivers of one customer that overlap decide what it lacks before either writes
  (`cases.py:150-158`): the second replaces the phone or the email the first has just stored,
  although the code completes a customer only where it has none.
- A reminder asks for the first unseen alert once more; if there is none by then,
  `first()` is `None` and the run ends in an `AttributeError` (`Remind`). An alert
  without any receipt is texted in every run (`Urgent`). If the process dies between the
  commit and `create_receipts`, an alert has none.
- Overlapping first requests of one person make two customers; a constraint that fails a
  receiver does so after the customer's row was saved, and the form answers with an error for
  a request that exists; an overlapping receiver may leave an older content in the
  document (`disturbed`). A merge drops the source's own phone.
- A campaign broken off midway cannot be resumed, as its token is spent; a recipient whose
  row says "failed" may have received the message, as the answer was lost. An answer that
  is cut off or is no object is not caught and ends the batch. The single
  message of a customer's page (`management_portal/views.py:724-750`) has no token.
- The comment in `finalize_form_draft_to_lead` that a token without a Lead "can only be a
  leftover from an attempt that never reached submitted" overlooks the Lead the staff
  removed (`Resubmit`). A repeated POST to the contact page with `?demo=` hands the
  selection off before it recognises the token, and leaves a fresh draft behind
  (`AttachNamed`, then the replay in `Finalize`).
- `demo_handoff.py:29-32` says that a visit "gives that marker exactly one more chance"; the
  code restores it after every failure (`FailPending`), so it has as many as it needs. A
  request that overlaps an attach may save the session it read before, and the marker the
  attach has cleared is back (`crossed` in `AttachedChoiceStands`).
- In the contract room, an old edit may take `current_version` back below a number that
  exists, after which every publication fails on `unique_contract_version`; an old edit or
  revocation may take back an acceptance (`UndoneOnlyByOldRead` is the exact statement); and
  `expires_at` is not renewed by another publication, so the link the manager is told is
  active stays closed (`Publish` keeps `late`).

## What is not modelled, and why

- Payments: the sandbox and free gateways, which production settings forbid; mails;
  free-form edits of rows in the Django admin; a page's view of a receipt when a manager
  decides (the request names the payment only). Transactions are atomic, so the opposite
  lock orders of `ManualPaymentSubmitView` and `approve_manual_payment` do not show.
- Attempts: choice of questions and their snapshots; the count of audio plays; active
  seconds and visit counts (telemetry written without a lock); save tokens; events without
  a transition id and unscoped copies, which older pages send; results and certificates are
  rendered from `AttemptResult`.
- Exam page: the countdown, the audio player, more than one question.
- Drafts: the field allowlist and validation (a request that fails it changes nothing);
  `attach_demo_snapshot`, `clear_demo_snapshot`, `upsert_active_draft` and
  `ensure_active_draft`, which only tests call; tokens of another owner and the recovery
  from a token collision; refusal of staff; the guest's form (one insert, which leaves the marker alone); edits of a Lead
  in the Django admin and the removal of a demo selection, both of which turn a replay
  into a conflict.
- Demo selections: what is configured and how it becomes a snapshot, another browser that was
  sent the link (its session does not match and it is told so), the lifetime of sessions, at
  whose end a pending marker is gone, the throttles of the pages of sign-in.
- Contract room: creation and deletion of drafts, clauses (which may be edited while a room
  is open and count from the next version on), versions of the general terms, the
  discovery of old CRM orders in the place of a questionnaire, deliveries of credentials,
  the throttle and the expiry of sessions, the event log. The page of a conflict (status
  409) carries the present revision beside the customer's old values; it has neither a
  button nor the script to send them, and is not modelled.
- Sign-in: the one-time-code screens, whose session key `phone_verification_user_id` nothing
  sets, so they cannot be reached; the lifetime of links and of sessions; the throttles,
  which count requests; the exemption
  of the staff and the setting that turns the rule off; the courtesy message. The gift
  a sign-up brings is in `CardPayment`.
- Notifications: subscriptions one by one, a manager having one or none that takes the push;
  lists longer than 100; the alerts the run raises itself; the attempt count and its
  back-off, of which only that it ends is kept; who claims an alert (`notification_claim` sets
  its owner only) and what managers do with resolved alerts.
- Draft autosave: the step on show, debounce times and retry counts, the guest's local mode,
  the difference of 401 and 403, more than one field; the messages on the page beyond which
  issue is shown.
- Cases: requests that give neither a phone nor an email (the name would tell), the completion
  of a contact that is known (`cases.py:178-190`), accounts and service events,
  documents of contracts and specialists, tasks and notes of managers, the
  backfill; that a later sync overwrites a stage a manager has set.
- Campaigns: templates, audit rows, the segments one by one (the model has one of five),
  one-time codes.
- Whole components: content pages, search, traffic, blog, design, reports and the lists, filters,
  exports and forms of the portal are one-row CRUD or rendering; backups and
  operations are files and scripts.
- The share of the code: the map covers about a fifth of the implementation's lines. Most of
  the others are page rendering, forms and their validation, migrations, seeds, question
  banks and the tests that sit beside the code, which keep no state of their own.

## Plan

What is left, in order of what matters next; `PROJECT.json` lists the hazards each is for.

1. `RowLocks`: the lock orders of the payment transactions, checked for deadlock.
2. The tasks and stages of a customer case, with the sync that overwrites a stage.
3. Pure operators against reference definitions: back-off, absence points, pace penalty.
