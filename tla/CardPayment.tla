----------------------------- MODULE CardPayment -----------------------------
(***************************************************************************)
(* Selling assessment access by card transfer: carts (CreateOrderView),    *)
(* receipts (ManualPaymentSubmitView), review by managers                  *)
(* (payment_review, notification_payment_action and the Django admin       *)
(* actions), timed approval by the notification dispatcher                 *)
(* (_auto_approve_pending_payments) and the welcome credit                 *)
(* (redeem_welcome_assessment).                                            *)
(*                                                                         *)
(* A view or service that holds row locks in one transaction is one        *)
(* action.  Two operations are not: CreateOrderView reads the cart and     *)
(* saves it in two statements without a transaction (ReadCart, SaveCart),  *)
(* and the dispatcher lists its candidates, approves each one in a         *)
(* transaction of its own and closes the alert after it (Scan,             *)
(* AutoApprove, CloseAlert, Announce), and may die between any two.        *)
(***************************************************************************)
EXTENDS Naturals, FiniteSets

CONSTANTS
  User,       \* customers
  Exam,       \* active exams
  Order,      \* identities orders may be created with
  SlotOf,     \* the <<user, exam>> an identity is used for
  Ref,        \* bank reference numbers customers may type
  NoRef,      \* a receipt without a reference
  NoOrder,    \* a welcome credit not redeemed, a dispatcher not announcing
  Price,      \* amounts Exam.price_quote may return
  MaxCrashes  \* bound: how often the dispatcher dies in the middle of a run

ASSUME ConstantsAssumption ==
  /\ SlotOf \in [Order -> User \X Exam]
  /\ NoRef \notin Ref
  /\ NoOrder \notin Order
  /\ Price \subseteq Nat \ {0}
  /\ MaxCrashes \in Nat

VARIABLES
  order,      \* Order rows, by id; status "none" for an id not yet used
  receipt,    \* ManualPaymentSubmission rows, one-to-one with their order
  ledger,     \* PaymentTransaction rows
  entitled,   \* orders with an ExamEntitlement row
  issued,     \* users with a WelcomeAssessmentCredit row
  credit,     \* the order a welcome credit was redeemed for
  cart,       \* a CreateOrderView between its check and its save: the quote
  alert,      \* the manager's notification about an order's receipt
  notice,     \* orders with a "payment-auto-approved" notification
  run,        \* the dispatcher: its phase, candidates and current order
  crashes     \* how often the dispatcher died

vars == <<order, receipt, ledger, entitled, issued, credit, cart, alert,
          notice, run, crashes>>

Gateways == {"card_transfer", "welcome_trial"}

\* External ids: "card-<reference>" and "welcome-<order>".
ExternalId == ({"card"} \X Ref) \cup ({"welcome"} \X Order)

OrderRow ==
  [status: {"none", "pending", "paid"}, gateway: Gateways,
   amount: Price \cup {0}, terms: BOOLEAN]

ReceiptRow ==
  [status: {"none", "pending", "approved", "rejected"}, ref: Ref \cup {NoRef},
   windowOver: BOOLEAN, reviewer: {"nobody", "manager", "system"}]

LedgerRow == [order: Order, id: ExternalId, amount: Price \cup {0}]

Phases == {"idle", "approving", "closing", "announcing"}

TypeOK ==
  /\ order \in [Order -> OrderRow]
  /\ receipt \in [Order -> ReceiptRow]
  /\ ledger \subseteq LedgerRow
  /\ entitled \subseteq Order
  /\ issued \subseteq User
  /\ credit \in [User -> Order \cup {NoOrder}]
  /\ cart \in [Order -> Price \cup {0}]
  /\ alert \in [Order -> {"none", "open", "resolved"}]
  /\ notice \subseteq Order
  /\ run \in [phase: Phases, candidates: SUBSET Order,
              at: Order \cup {NoOrder}]
  /\ crashes \in 0..MaxCrashes

Idle == [phase |-> "idle", candidates |-> {}, at |-> NoOrder]

Init ==
  /\ order = [o \in Order |-> [status |-> "none", gateway |-> "card_transfer",
                               amount |-> 0, terms |-> FALSE]]
  /\ receipt = [o \in Order |-> [status |-> "none", ref |-> NoRef,
                                 windowOver |-> FALSE, reviewer |-> "nobody"]]
  /\ ledger = {}
  /\ entitled = {}
  /\ issued = {}
  /\ credit = [u \in User |-> NoOrder]
  /\ cart = [o \in Order |-> 0]
  /\ alert = [o \in Order |-> "none"]
  /\ notice = {}
  /\ run = Idle
  /\ crashes = 0

-----------------------------------------------------------------------------
(* Carts. *)

\* A new public account gets one welcome credit (RegisterView.form_valid).
IssueCredit(u) ==
  /\ u \notin issued
  /\ issued' = issued \cup {u}
  /\ UNCHANGED <<order, receipt, ledger, entitled, credit, cart, alert,
                 notice, run, crashes>>

\* get_or_create found no pending order of this user and exam.
CreateOrder(o, price) ==
  /\ order[o].status = "none"
  /\ \A p \in Order : SlotOf[p] = SlotOf[o] => order[p].status # "pending"
  /\ order' = [order EXCEPT ![o] = [status |-> "pending",
                                    gateway |-> "card_transfer",
                                    amount |-> price, terms |-> FALSE]]
  /\ UNCHANGED <<receipt, ledger, entitled, issued, credit, cart, alert,
                 notice, run, crashes>>

\* get_or_create found a pending order; no terms were accepted and no receipt
\* exists, and the quote has changed since: the row will be repriced.
ReadCart(o, price) ==
  /\ order[o].status = "pending"
  /\ ~order[o].terms
  /\ receipt[o].status = "none"
  /\ order[o].amount # price
  /\ cart[o] = 0
  /\ cart' = [cart EXCEPT ![o] = price]
  /\ UNCHANGED <<order, receipt, ledger, entitled, issued, credit, alert,
                 notice, run, crashes>>

\* order.save(update_fields=[..., "amount_irr", ...]): nothing is re-checked.
SaveCart(o) ==
  /\ cart[o] # 0
  /\ order' = [order EXCEPT ![o].amount = cart[o]]
  /\ cart' = [cart EXCEPT ![o] = 0]
  /\ UNCHANGED <<receipt, ledger, entitled, issued, credit, alert, notice,
                 run, crashes>>

-----------------------------------------------------------------------------
(* Receipts. *)

\* Variants for the mutation runs: the uniqueness check forgotten, and a check
\* against approved receipts only.
RefNeverTaken(o, ref) == FALSE

RefSpent(o, ref) ==
  \E p \in Order \ {o} :
    receipt[p].ref = ref /\ receipt[p].status = "approved"

\* The form's uniqueness check: another submission holds the reference.
RefTaken(o, ref) == \E p \in Order \ {o} : receipt[p].ref = ref

Submitted(o, ref) ==
  [status |-> "pending", ref |-> ref, windowOver |-> FALSE,
   reviewer |-> "nobody"]

\* ManualPaymentSubmitView.post: a first receipt, or a rejected one edited in
\* place.  Saving it raises the manager's alert (signals.new_payment), under a
\* new source key on each resubmission.
SubmitReceipt(o, ref) ==
  /\ order[o].status = "pending"
  /\ order[o].gateway = "card_transfer"
  /\ receipt[o].status \in {"none", "rejected"}
  /\ ~RefTaken(o, ref)
  /\ order' = [order EXCEPT ![o].terms = TRUE]
  /\ receipt' = [receipt EXCEPT ![o] = Submitted(o, ref)]
  /\ alert' = [alert EXCEPT ![o] = "open"]
  /\ UNCHANGED <<ledger, entitled, issued, credit, cart, notice, run, crashes>>

\* PAYMENT_AUTO_APPROVE_SECONDS have passed since the receipt was saved.
WindowCloses(o) ==
  /\ receipt[o].status = "pending"
  /\ ~receipt[o].windowOver
  /\ receipt' = [receipt EXCEPT ![o].windowOver = TRUE]
  /\ UNCHANGED <<order, ledger, entitled, issued, credit, cart, alert, notice,
                 run, crashes>>

-----------------------------------------------------------------------------
(* Granting access. *)

\* verify_gateway_payment, its early exits aside: a pending order whose terms
\* are accepted, paid through its own gateway under an identifier that is not
\* another order's.
Payable(o, id) ==
  /\ order[o].status = "pending"
  /\ order[o].terms
  /\ order[o].gateway = "card_transfer"
  /\ \A t \in ledger : t.id = id => t.order = o /\ t.amount = order[o].amount

\* Variant for the mutation runs: the entitlement left to a later step.
GrantLater(o, id) ==
  /\ ledger' = ledger \cup {[order |-> o, id |-> id,
                             amount |-> order[o].amount]}
  /\ order' = [order EXCEPT ![o].status = "paid"]
  /\ entitled' = entitled

\* Its effect: one verified transaction, a paid order, one entitlement.
Grant(o, id) ==
  /\ ledger' = ledger \cup {[order |-> o, id |-> id,
                             amount |-> order[o].amount]}
  /\ order' = [order EXCEPT ![o].status = "paid"]
  /\ entitled' = entitled \cup {o}

CardId(o) == <<"card", receipt[o].ref>>

\* Variant for the mutation runs: approving whatever the receipt's status is.
ReviewableAnyTime(o) == receipt[o].status # "none"

\* approve_manual_payment re-reads the status under the row lock.
Reviewable(o) == receipt[o].status = "pending"

Decided(o, status, reviewer) ==
  [receipt EXCEPT ![o] = [@ EXCEPT !.status = status, !.reviewer = reviewer]]

\* approve_manual_payment: under the receipt's lock a pending receipt is
\* verified and approved, exactly once.
Approve(o, reviewer) ==
  /\ Reviewable(o)
  /\ Payable(o, CardId(o))
  /\ Grant(o, CardId(o))
  /\ receipt' = Decided(o, "approved", reviewer)

Reject(o) ==
  /\ Reviewable(o)
  /\ receipt' = Decided(o, "rejected", "manager")
  /\ UNCHANGED <<order, ledger, entitled>>

\* filter(..., status__in=("unread", "read")).update(status="resolved")
Resolved(o) ==
  IF alert[o] = "open" THEN [alert EXCEPT ![o] = "resolved"] ELSE alert

\* payment_review and notification_payment_action: decision and alert together.
ManagerApprove(o) ==
  /\ Approve(o, "manager")
  /\ alert' = Resolved(o)
  /\ UNCHANGED <<issued, credit, cart, notice, run, crashes>>

ManagerReject(o) ==
  /\ Reject(o)
  /\ alert' = Resolved(o)
  /\ UNCHANGED <<issued, credit, cart, notice, run, crashes>>

\* The Django admin's bulk actions decide receipts and leave the alert alone.
AdminApprove(o) ==
  /\ Approve(o, "manager")
  /\ UNCHANGED <<issued, credit, cart, alert, notice, run, crashes>>

AdminReject(o) ==
  /\ Reject(o)
  /\ UNCHANGED <<issued, credit, cart, alert, notice, run, crashes>>

\* notification_status: a manager may close an alert and decide nothing.
DismissAlert(o) ==
  /\ alert[o] = "open"
  /\ alert' = Resolved(o)
  /\ UNCHANGED <<order, receipt, ledger, entitled, issued, credit, cart,
                 notice, run, crashes>>

CreditUsable(u) == u \in issued /\ credit[u] = NoOrder

\* redeem_welcome_assessment, under the credit's lock: a paid order of its own.
Redeem(u, o) ==
  /\ CreditUsable(u)
  /\ SlotOf[o][1] = u
  /\ order[o].status = "none"
  /\ order' = [order EXCEPT ![o] = [status |-> "paid",
                                    gateway |-> "welcome_trial",
                                    amount |-> 0, terms |-> TRUE]]
  /\ ledger' = ledger \cup {[order |-> o, id |-> <<"welcome", o>>,
                             amount |-> 0]}
  /\ entitled' = entitled \cup {o}
  /\ credit' = [credit EXCEPT ![u] = o]
  /\ UNCHANGED <<receipt, issued, cart, alert, notice, run, crashes>>

-----------------------------------------------------------------------------
(* The dispatcher (process_management_notifications, a oneshot service).     *)

\* Variant for the mutation runs: only receipts whose alert is still open.
OverdueInInbox ==
  {o \in Order : /\ receipt[o].status = "pending"
                 /\ receipt[o].windowOver
                 /\ alert[o] = "open"}

\* candidate_ids = list(...): the pending receipts whose window is over.
Overdue ==
  {o \in Order : /\ receipt[o].status = "pending"
                 /\ receipt[o].windowOver
                 /\ order[o].status = "pending"
                 /\ order[o].gateway = "card_transfer"
                 /\ order[o].terms}

Scan ==
  /\ run.phase = "idle"
  /\ Overdue # {}
  /\ run' = [phase |-> "approving", candidates |-> Overdue, at |-> NoOrder]
  /\ UNCHANGED <<order, receipt, ledger, entitled, issued, credit, cart,
                 alert, notice, crashes>>

\* One candidate: approved in a transaction of its own...
AutoApprove(o) ==
  /\ run.phase = "approving"
  /\ o \in run.candidates
  /\ Approve(o, "system")
  /\ run' = [phase |-> "closing", candidates |-> run.candidates \ {o},
             at |-> o]
  /\ UNCHANGED <<issued, credit, cart, alert, notice, crashes>>

\* ... or passed over, decided meanwhile or refused by the verification.
PassOver(o) ==
  /\ run.phase = "approving"
  /\ o \in run.candidates
  /\ ~(Reviewable(o) /\ Payable(o, CardId(o)))
  /\ run' = [run EXCEPT !.candidates = @ \ {o}]
  /\ UNCHANGED <<order, receipt, ledger, entitled, issued, credit, cart,
                 alert, notice, crashes>>

\* Variant for the mutation runs: on to the next candidate, no notice made.
CloseAlertOnly ==
  /\ run.phase = "closing"
  /\ alert' = Resolved(run.at)
  /\ run' = [run EXCEPT !.phase = "approving", !.at = NoOrder]
  /\ UNCHANGED <<order, receipt, ledger, entitled, issued, credit, cart,
                 notice, crashes>>

CloseAlert ==
  /\ run.phase = "closing"
  /\ alert' = Resolved(run.at)
  /\ run' = [run EXCEPT !.phase = "announcing"]
  /\ UNCHANGED <<order, receipt, ledger, entitled, issued, credit, cart,
                 notice, crashes>>

Announce ==
  /\ run.phase = "announcing"
  /\ notice' = notice \cup {run.at}
  /\ run' = [run EXCEPT !.phase = "approving", !.at = NoOrder]
  /\ UNCHANGED <<order, receipt, ledger, entitled, issued, credit, cart,
                 alert, crashes>>

EndScan ==
  /\ run.phase = "approving"
  /\ run.candidates = {}
  /\ run' = Idle
  /\ UNCHANGED <<order, receipt, ledger, entitled, issued, credit, cart,
                 alert, notice, crashes>>

\* The process is killed: its list dies with it, committed rows stay.
Crash ==
  /\ run.phase # "idle"
  /\ crashes < MaxCrashes
  /\ crashes' = crashes + 1
  /\ run' = Idle
  /\ UNCHANGED <<order, receipt, ledger, entitled, issued, credit, cart,
                 alert, notice>>

-----------------------------------------------------------------------------
Shopping(o) ==
  \/ \E price \in Price : CreateOrder(o, price) \/ ReadCart(o, price)
  \/ SaveCart(o)
  \/ \E ref \in Ref : SubmitReceipt(o, ref)
  \/ \E u \in User : Redeem(u, o)

Review(o) ==
  ManagerApprove(o) \/ ManagerReject(o) \/ AdminApprove(o) \/ AdminReject(o)
  \/ DismissAlert(o)

Dispatch ==
  \/ Scan \/ CloseAlert \/ Announce \/ EndScan
  \/ \E o \in Order : AutoApprove(o) \/ PassOver(o)

Next ==
  \/ \E u \in User : IssueCredit(u)
  \/ \E o \in Order : Shopping(o) \/ WindowCloses(o) \/ Review(o)
  \/ Dispatch
  \/ Crash

Spec == Init /\ [][Next]_vars

\* The timer starts the dispatcher again every 15 seconds, a run that is not
\* killed goes on to its end, and time passes.  Customers and managers owe
\* nothing.
Fairness ==
  /\ WF_vars(Dispatch)
  /\ \A o \in Order : WF_vars(WindowCloses(o))

FairSpec == Spec /\ Fairness

-----------------------------------------------------------------------------
(* Properties. *)

\* The books agree in every state, whoever approved and whatever crashed: an
\* order is paid exactly when it has its one entitlement and its one verified
\* transaction, no transaction pays two orders, and a card order is paid
\* exactly when its receipt is approved, under that receipt's reference.
\* (verify_gateway_payment: "exactly once and grant one entitlement".)
BooksAgree ==
  /\ entitled = {o \in Order : order[o].status = "paid"}
  /\ \A t \in ledger : order[t.order].status = "paid"
  /\ \A o \in Order : order[o].status = "paid" =>
       \E t \in ledger : t.order = o
  /\ \A t1, t2 \in ledger :
       t1.order = t2.order \/ t1.id = t2.id => t1 = t2
  /\ \A o \in Order :
       receipt[o].status = "approved" <=>
         order[o].status = "paid" /\ order[o].gateway = "card_transfer"
  /\ \A t \in ledger :
       order[t.order].gateway = "card_transfer" => t.id = CardId(t.order)

\* A receipt waiting for review can always be approved: after any number of
\* rejections, resubmissions and other sales, no check of
\* verify_gateway_payment stands in the way.
NoReceiptStuck ==
  \A o \in Order :
    receipt[o].status = "pending" => Payable(o, CardId(o))

\* A decision stands (ADR-0001: the manager's decision comes before the
\* automatic one): an approved receipt is never touched again, a rejected one
\* only through a new submission, even by a dispatcher that listed it before
\* the rejection; granted access and booked transactions stay.
DecisionsStand ==
  [][/\ \A o \in Order :
          /\ receipt[o].status = "approved" => receipt'[o] = receipt[o]
          /\ receipt[o].status = "rejected" =>
               receipt'[o] = receipt[o] \/ receipt'[o].status = "pending"
     /\ entitled \subseteq entitled'
     /\ ledger \subseteq ledger']_vars

\* The welcome credit buys one order across all exams, and no order a customer
\* had put in a cart or paid by card turns into a free one.
OneGiftPerUser ==
  /\ \A o \in Order : order[o].gateway = "welcome_trial" =>
       /\ credit[SlotOf[o][1]] = o
       /\ receipt[o].status = "none"
  /\ \A u \in User : credit[u] # NoOrder => u \in issued

\* The inductive invariant behind the four above.  A receipt rests on a card
\* order with accepted terms that stays pending until the approval...
ReceiptsRest ==
  \A o \in Order :
    /\ receipt[o].status = "none" <=> receipt[o].ref = NoRef
    /\ receipt[o].status # "none" =>
         order[o].gateway = "card_transfer" /\ order[o].terms
    /\ receipt[o].status \in {"pending", "rejected"} =>
         order[o].status = "pending"

\* ... no two receipts have the same reference, as long as there is one...
RefsDistinct ==
  \A p, q \in Order :
    receipt[p].ref = receipt[q].ref => p = q \/ receipt[p].ref = NoRef

\* ... a gift is booked under its own order's name...
GiftsBooked ==
  \A t \in ledger :
    order[t.order].gateway = "welcome_trial" => t.id = <<"welcome", t.order>>

\* ... and the dispatcher knows whose approval it is announcing.
AnnouncesAnOrder ==
  run.phase \in {"closing", "announcing"} => run.at \in Order

IndInv ==
  /\ TypeOK
  /\ BooksAgree
  /\ OneGiftPerUser
  /\ ReceiptsRest
  /\ RefsDistinct
  /\ GiftsBooked
  /\ AnnouncesAnOrder

\* Every receipt is decided in the end: whatever managers do or leave undone,
\* a pending receipt is approved or rejected.
ReceiptsDecided ==
  \A o \in Order :
    receipt[o].status = "pending" ~> receipt[o].status # "pending"

ApprovedBySystem(o) ==
  receipt[o].status = "approved" /\ receipt[o].reviewer = "system"

Announced(o) == alert[o] # "open" /\ o \in notice

\* After an automatic approval the receipt's alert is closed and the notice
\* for the managers exists, unless the dispatcher was killed.
AnnouncedUnlessKilled ==
  \A o \in Order :
    ApprovedBySystem(o) ~> Announced(o) \/ crashes > 0

\* The shop's promise, without its machinery.
OwnerOf == [o \in Order |-> SlotOf[o][1]]

Access ==
  [o \in Order |-> IF o \in entitled THEN "open"
                  ELSE IF receipt[o].status = "pending" THEN "claimed"
                  ELSE "closed"]

Spent == {ref \in Ref : \E t \in ledger : t.id = <<"card", ref>>}

Gifted == {u \in User : credit[u] # NoOrder}

Shop == INSTANCE PaidAccess
          WITH access <- Access, spent <- Spent, gifted <- Gifted

\* Carts, receipts, managers, the admin, the dispatcher and its crashes
\* together implement the promise, liveness included.
KeepsPromise == Shop!FairSpec
=============================================================================
