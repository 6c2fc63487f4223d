------------------------ MODULE CardPayment_proofs ------------------------
(***************************************************************************)
(* Theorems of CardPayment, for any sets of customers, orders, references  *)
(* and prices and any number of dispatcher crashes.                        *)
(***************************************************************************)
EXTENDS CardPayment, TLAPS

-----------------------------------------------------------------------------
(* Type correctness.  Only a receipt with a reference can be approved, so it *)
(* rests on ReceiptsRest.  Approvals are shared by three actions: what they  *)
(* do to the types is stated once.                                           *)

\* An order row stays one whatever field of one order an operation writes.
LEMMA OrderTyped ==
  ASSUME order \in [Order -> OrderRow], NEW o \in Order
  PROVE  /\ [order EXCEPT ![o].status = "paid"] \in [Order -> OrderRow]
         /\ [order EXCEPT ![o].terms = TRUE] \in [Order -> OrderRow]
         /\ \A a \in Price \cup {0} :
              [order EXCEPT ![o].amount = a] \in [Order -> OrderRow]
BY DEF OrderRow

\* So does a receipt row under a decision.
LEMMA DecidedTyped ==
  ASSUME receipt \in [Order -> ReceiptRow], NEW o \in Order,
         NEW status \in {"approved", "rejected"},
         NEW who \in {"manager", "system"}
  PROVE  Decided(o, status, who) \in [Order -> ReceiptRow]
<1>1. receipt[o] \in ReceiptRow
  OBVIOUS
<1>2. [receipt[o] EXCEPT !.status = status, !.reviewer = who] \in ReceiptRow
  BY <1>1 DEF ReceiptRow
<1> QED
  BY <1>2 DEF Decided

\* And under the end of its window.
LEMMA WindowTyped ==
  ASSUME receipt \in [Order -> ReceiptRow], NEW o \in Order
  PROVE  [receipt EXCEPT ![o].windowOver = TRUE] \in [Order -> ReceiptRow]
<1>1. receipt[o] \in ReceiptRow
  OBVIOUS
<1>2. [receipt[o] EXCEPT !.windowOver = TRUE] \in ReceiptRow
  BY <1>1 DEF ReceiptRow
<1> QED
  BY <1>2

\* An approval, by whomever, keeps the tables it writes well-formed.
LEMMA ApproveTyped ==
  ASSUME TypeOK, ReceiptsRest, NEW o \in Order,
         NEW who \in {"manager", "system"}, Approve(o, who)
  PROVE  /\ order' \in [Order -> OrderRow]
         /\ receipt' \in [Order -> ReceiptRow]
         /\ ledger' \subseteq LedgerRow
         /\ entitled' \subseteq Order
<1>1. order' \in [Order -> OrderRow]
  BY OrderTyped DEF TypeOK, Approve, Grant
<1>2. receipt' \in [Order -> ReceiptRow]
  BY DecidedTyped DEF TypeOK, Approve
<1>3. ledger' \subseteq LedgerRow
  <2>1. receipt[o] \in ReceiptRow /\ receipt[o].ref # NoRef
    BY DEF TypeOK, ReceiptsRest, Approve, Reviewable
  <2>2. CardId(o) \in ExternalId
    BY <2>1 DEF CardId, ExternalId, ReceiptRow
  <2>3. order[o].amount \in Price \cup {0}
    BY DEF TypeOK, OrderRow
  <2> QED
    BY <2>2, <2>3 DEF TypeOK, Approve, Grant, LedgerRow
<1>4. entitled' \subseteq Order
  BY DEF TypeOK, Approve, Grant
<1> QED
  BY <1>1, <1>2, <1>3, <1>4

LEMMA RejectTyped ==
  ASSUME TypeOK, NEW o \in Order, Reject(o)
  PROVE  receipt' \in [Order -> ReceiptRow]
BY DecidedTyped DEF TypeOK, Reject

LEMMA ResolvedTyped ==
  ASSUME TypeOK, NEW o
  PROVE  Resolved(o) \in [Order -> {"none", "open", "resolved"}]
BY DEF TypeOK, Resolved

LEMMA TypingInit == Init => TypeOK
BY ConstantsAssumption
   DEF Init, TypeOK, OrderRow, ReceiptRow, Gateways, Idle, Phases

\* Every step keeps the types, from any state of the inductive invariant.
LEMMA TypingStep == IndInv /\ [Next]_vars => TypeOK'
<1> SUFFICES ASSUME IndInv, [Next]_vars PROVE TypeOK'
  OBVIOUS
<1> USE ConstantsAssumption
<1>0. TypeOK /\ ReceiptsRest /\ AnnouncesAnOrder
  BY DEF IndInv
<1>1. ASSUME NEW u \in User, IssueCredit(u) PROVE TypeOK'
  BY <1>0, <1>1 DEF TypeOK, IssueCredit
<1>2. ASSUME NEW o \in Order, NEW price \in Price, CreateOrder(o, price)
      PROVE  TypeOK'
  <2>1. [status |-> "pending", gateway |-> "card_transfer", amount |-> price,
         terms |-> FALSE] \in OrderRow
    BY DEF OrderRow, Gateways
  <2> QED
    BY <1>0, <1>2, <2>1 DEF TypeOK, CreateOrder
<1>3. ASSUME NEW o \in Order, NEW price \in Price, ReadCart(o, price)
      PROVE  TypeOK'
  BY <1>0, <1>3 DEF TypeOK, ReadCart
<1>4. ASSUME NEW o \in Order, SaveCart(o) PROVE TypeOK'
  BY <1>0, <1>4, OrderTyped DEF TypeOK, SaveCart
<1>5. ASSUME NEW o \in Order, NEW ref \in Ref, SubmitReceipt(o, ref)
      PROVE  TypeOK'
  <2>1. Submitted(o, ref) \in ReceiptRow
    BY DEF Submitted, ReceiptRow
  <2> QED
    BY <1>0, <1>5, <2>1, OrderTyped DEF TypeOK, SubmitReceipt
<1>6. ASSUME NEW o \in Order, NEW u \in User, Redeem(u, o) PROVE TypeOK'
  <2>1. [status |-> "paid", gateway |-> "welcome_trial", amount |-> 0,
         terms |-> TRUE] \in OrderRow
    BY DEF OrderRow, Gateways
  <2>2. [order |-> o, id |-> <<"welcome", o>>, amount |-> 0] \in LedgerRow
    BY DEF LedgerRow, ExternalId
  <2>3. order' \in [Order -> OrderRow]
    BY <1>0, <1>6, <2>1 DEF TypeOK, Redeem
  <2>4. ledger' \subseteq LedgerRow
    BY <1>0, <1>6, <2>2 DEF TypeOK, Redeem
  <2>5. credit' \in [User -> Order \cup {NoOrder}] /\ entitled' \subseteq Order
    BY <1>0, <1>6 DEF TypeOK, Redeem
  <2>6. UNCHANGED <<receipt, issued, cart, alert, notice, run, crashes>>
    BY <1>6 DEF Redeem
  <2> QED
    BY <1>0, <2>3, <2>4, <2>5, <2>6 DEF TypeOK
<1>7. ASSUME NEW o \in Order, WindowCloses(o) PROVE TypeOK'
  <2>1. [receipt EXCEPT ![o].windowOver = TRUE] \in [Order -> ReceiptRow]
    BY <1>0, WindowTyped DEF TypeOK
  <2> QED
    BY <1>0, <1>7, <2>1 DEF TypeOK, WindowCloses
<1>8. ASSUME NEW o \in Order, ManagerApprove(o) \/ AdminApprove(o)
      PROVE  TypeOK'
  <2>1. Approve(o, "manager")
    BY <1>8 DEF ManagerApprove, AdminApprove
  <2> QED
    BY <1>0, <1>8, <2>1, ApproveTyped, ResolvedTyped
       DEF TypeOK, ManagerApprove, AdminApprove
<1>9. ASSUME NEW o \in Order, ManagerReject(o) \/ AdminReject(o)
      PROVE  TypeOK'
  <2>1. Reject(o) /\ order' = order /\ ledger' = ledger /\ entitled' = entitled
    BY <1>9 DEF ManagerReject, AdminReject, Reject
  <2> QED
    BY <1>0, <1>9, <2>1, RejectTyped, ResolvedTyped
       DEF TypeOK, ManagerReject, AdminReject
<1>10. ASSUME NEW o \in Order, DismissAlert(o) PROVE TypeOK'
  BY <1>0, <1>10, ResolvedTyped DEF TypeOK, DismissAlert
<1>11. CASE Scan
  BY <1>0, <1>11 DEF TypeOK, Scan, Idle, Overdue, Phases
<1>12. ASSUME NEW o \in Order, AutoApprove(o) PROVE TypeOK'
  <2>1. Approve(o, "system")
    BY <1>12 DEF AutoApprove
  <2>2. run' \in [phase: Phases, candidates: SUBSET Order,
                  at: Order \cup {NoOrder}]
    BY <1>0, <1>12 DEF TypeOK, AutoApprove, Phases
  <2> QED
    BY <1>0, <1>12, <2>1, <2>2, ApproveTyped DEF TypeOK, AutoApprove
<1>13. ASSUME NEW o \in Order, PassOver(o) PROVE TypeOK'
  BY <1>0, <1>13 DEF TypeOK, PassOver
<1>14. CASE CloseAlert
  <2>1. alert' \in [Order -> {"none", "open", "resolved"}]
    BY <1>0, <1>14, ResolvedTyped DEF CloseAlert
  <2> QED
    BY <1>0, <1>14, <2>1 DEF TypeOK, CloseAlert, Phases
<1>15. CASE Announce
  BY <1>0, <1>15 DEF TypeOK, Announce, AnnouncesAnOrder, Phases
<1>16. CASE EndScan
  BY <1>0, <1>16 DEF TypeOK, EndScan, Idle, Phases
<1>17. CASE Crash
  BY <1>0, <1>17 DEF TypeOK, Crash, Idle, Phases
<1>18. CASE UNCHANGED vars
  BY <1>0, <1>18 DEF TypeOK, vars
<1> QED
  BY <1>1, <1>2, <1>3, <1>4, <1>5, <1>6, <1>7, <1>8, <1>9, <1>10, <1>11,
     <1>12, <1>13, <1>14, <1>15, <1>16, <1>17, <1>18
     DEF Next, Shopping, Review, Dispatch

-----------------------------------------------------------------------------
(* The inductive invariant, the types aside, action by action.               *)

Tables ==
  BooksAgree /\ OneGiftPerUser /\ ReceiptsRest /\ RefsDistinct /\ GiftsBooked

\* What an approval leaves in the rows it writes and in all the others.
LEMMA ApproveRows ==
  ASSUME TypeOK, NEW o \in Order, NEW who, Approve(o, who)
  PROVE  /\ \A p \in Order \ {o} : order'[p] = order[p] /\ receipt'[p] = receipt[p]
         /\ order'[o].status = "paid"
         /\ order'[o].gateway = "card_transfer"
         /\ order'[o].terms
         /\ receipt'[o].status = "approved"
         /\ receipt'[o].ref = receipt[o].ref
<1>1. /\ order[o] \in OrderRow /\ receipt[o] \in ReceiptRow
      /\ order' = [order EXCEPT ![o].status = "paid"]
      /\ receipt' = Decided(o, "approved", who)
      /\ order[o].gateway = "card_transfer"
      /\ order[o].terms
  BY DEF TypeOK, Approve, Grant, Payable
<1>2. /\ \A p \in Order \ {o} : order'[p] = order[p]
      /\ order'[o] = [order[o] EXCEPT !.status = "paid"]
  BY <1>1 DEF TypeOK
<1>3. /\ \A p \in Order \ {o} : receipt'[p] = receipt[p]
      /\ receipt'[o] =
           [receipt[o] EXCEPT !.status = "approved", !.reviewer = who]
  BY <1>1 DEF TypeOK, Decided
<1>4. order'[o].status = "paid" /\ order'[o].gateway = order[o].gateway
  BY <1>1, <1>2 DEF OrderRow
<1>6. order'[o].terms = order[o].terms
  BY <1>1, <1>2 DEF OrderRow
<1>5. receipt'[o].status = "approved" /\ receipt'[o].ref = receipt[o].ref
  BY <1>1, <1>3 DEF ReceiptRow
<1> QED
  BY <1>1, <1>2, <1>3, <1>4, <1>5, <1>6

\* Approvals keep the tables in agreement.
LEMMA ApproveTables ==
  ASSUME IndInv, NEW o \in Order, NEW who, Approve(o, who),
         credit' = credit, issued' = issued
  PROVE  Tables'
<1> DEFINE new == [order |-> o, id |-> CardId(o), amount |-> order[o].amount]
<1>0. TypeOK /\ BooksAgree /\ OneGiftPerUser /\ ReceiptsRest /\ RefsDistinct
      /\ GiftsBooked
  BY DEF IndInv
<1>1. /\ \A p \in Order \ {o} : order'[p] = order[p] /\ receipt'[p] = receipt[p]
      /\ order'[o].status = "paid"
      /\ order'[o].gateway = "card_transfer"
      /\ order'[o].terms
      /\ receipt'[o].status = "approved"
      /\ receipt'[o].ref = receipt[o].ref
  BY <1>0, ApproveRows
<1>2. /\ ledger' = ledger \cup {new}
      /\ entitled' = entitled \cup {o}
      /\ receipt[o].status = "pending"
      /\ order[o].status = "pending"
      /\ \A t \in ledger : t.id = CardId(o) => t.order = o
  BY DEF Approve, Grant, Payable, Reviewable
<1>3. new.order = o /\ new.id = CardId(o)
  OBVIOUS
<1>4. \A t \in ledger : t.order \in Order /\ t.order # o
  <2>1. \A t \in ledger : t.order \in Order
    BY <1>0 DEF TypeOK, LedgerRow
  <2> QED
    BY <1>0, <1>2, <2>1 DEF BooksAgree
<1>5. \A p \in Order : CardId(p)' = CardId(p)
  BY <1>1 DEF CardId
<1>6. BooksAgree'
  <2>1. (entitled = {p \in Order : order[p].status = "paid"})'
    BY <1>0, <1>1, <1>2 DEF BooksAgree
  <2>2. (\A t \in ledger : order[t.order].status = "paid")'
    BY <1>0, <1>1, <1>2, <1>3, <1>4 DEF BooksAgree
  <2>3. (\A p \in Order : order[p].status = "paid" =>
            \E t \in ledger : t.order = p)'
    <3>1. new \in ledger' /\ new.order = o
      BY <1>2, <1>3
    <3>2. \A p \in Order \ {o} : order'[p].status = "paid" =>
            \E t \in ledger' : t.order = p
      BY <1>0, <1>1, <1>2 DEF BooksAgree
    <3> QED
      BY <3>1, <3>2
  <2>4. (\A t1, t2 \in ledger :
            t1.order = t2.order \/ t1.id = t2.id => t1 = t2)'
    BY <1>0, <1>2, <1>3, <1>4 DEF BooksAgree
  <2>5. (\A p \in Order : receipt[p].status = "approved" <=>
            order[p].status = "paid" /\ order[p].gateway = "card_transfer")'
    BY <1>0, <1>1 DEF BooksAgree
  <2>6. (\A t \in ledger :
            order[t.order].gateway = "card_transfer" => t.id = CardId(t.order))'
    BY <1>0, <1>1, <1>2, <1>3, <1>4, <1>5 DEF BooksAgree
  <2> QED
    BY <2>1, <2>2, <2>3, <2>4, <2>5, <2>6 DEF BooksAgree
<1>7. OneGiftPerUser'
  BY <1>0, <1>1 DEF OneGiftPerUser
<1>8. ReceiptsRest' /\ RefsDistinct'
  BY <1>0, <1>1, <1>2 DEF ReceiptsRest, RefsDistinct
<1>9. GiftsBooked'
  BY <1>0, <1>1, <1>2, <1>3, <1>4 DEF GiftsBooked
<1> QED
  BY <1>6, <1>7, <1>8, <1>9 DEF Tables

\* Most steps change nothing the tables' agreement is about.
LEMMA KeepTables ==
  ASSUME IndInv,
         \A p \in Order : /\ order'[p].status = order[p].status
                          /\ order'[p].gateway = order[p].gateway
                          /\ order[p].terms => order'[p].terms
                          /\ receipt'[p].status = receipt[p].status
                          /\ receipt'[p].ref = receipt[p].ref,
         ledger' = ledger, entitled' = entitled, credit' = credit,
         issued \subseteq issued'
  PROVE  Tables'
<1>0. BooksAgree /\ OneGiftPerUser /\ ReceiptsRest /\ RefsDistinct /\ GiftsBooked
  BY DEF IndInv
<1>1. \A t \in ledger : t.order \in Order
  BY DEF IndInv, TypeOK, LedgerRow
<1>2. \A p \in Order : CardId(p)' = CardId(p)
  BY DEF CardId
<1>3. BooksAgree'
  BY <1>0, <1>1, <1>2 DEF BooksAgree
<1>4. OneGiftPerUser'
  <2>1. \A p \in Order : SlotOf[p][1] \in User
    BY ConstantsAssumption
  <2> QED
    BY <1>0, <2>1 DEF OneGiftPerUser
<1>5. ReceiptsRest' /\ RefsDistinct'
  BY <1>0 DEF ReceiptsRest, RefsDistinct
<1>6. GiftsBooked'
  BY <1>0, <1>1 DEF GiftsBooked
<1> QED
  BY <1>3, <1>4, <1>5, <1>6 DEF Tables

\* A fresh cart has no receipt, no transaction and no gift to disagree with.
LEMMA CreateTables ==
  ASSUME IndInv, NEW o \in Order, NEW price \in Price, CreateOrder(o, price)
  PROVE  Tables'
<1>0. BooksAgree /\ OneGiftPerUser /\ ReceiptsRest /\ RefsDistinct /\ GiftsBooked
  BY DEF IndInv
<1>1. \A t \in ledger : t.order \in Order
  BY DEF IndInv, TypeOK, LedgerRow
<1>2. /\ \A p \in Order \ {o} : order'[p] = order[p]
      /\ order'[o].status = "pending"
      /\ order'[o].gateway = "card_transfer"
      /\ order[o].status = "none"
      /\ UNCHANGED <<receipt, ledger, entitled, credit, issued>>
  BY DEF CreateOrder, IndInv, TypeOK
<1>3. receipt[o].status = "none"
  <2>1. receipt[o].status \in {"none", "pending", "approved", "rejected"}
    BY DEF IndInv, TypeOK, ReceiptRow
  <2> QED
    BY <1>0, <1>2, <2>1 DEF BooksAgree, ReceiptsRest
<1>4. \A t \in ledger : t.order # o
  BY <1>0, <1>2 DEF BooksAgree
<1>5. \A p \in Order : CardId(p)' = CardId(p)
  BY <1>2 DEF CardId
<1>6. BooksAgree'
  BY <1>0, <1>1, <1>2, <1>3, <1>4, <1>5 DEF BooksAgree
<1>7. OneGiftPerUser'
  BY <1>0, <1>2 DEF OneGiftPerUser
<1>8. ReceiptsRest' /\ RefsDistinct'
  BY <1>0, <1>2, <1>3 DEF ReceiptsRest, RefsDistinct
<1>9. GiftsBooked'
  BY <1>0, <1>1, <1>2, <1>4 DEF GiftsBooked
<1> QED
  BY <1>6, <1>7, <1>8, <1>9 DEF Tables

\* A receipt arrives on a card order that is pending, so that no transaction
\* refers to it, under a reference no other receipt has.
LEMMA SubmitTables ==
  ASSUME IndInv, NEW o \in Order, NEW ref \in Ref, SubmitReceipt(o, ref)
  PROVE  Tables'
<1>0. BooksAgree /\ OneGiftPerUser /\ ReceiptsRest /\ RefsDistinct /\ GiftsBooked
  BY DEF IndInv
<1>1. \A t \in ledger : t.order \in Order
  BY DEF IndInv, TypeOK, LedgerRow
<1>2. /\ order[o].status = "pending"
      /\ order[o].gateway = "card_transfer"
      /\ \A p \in Order \ {o} : receipt[p].ref # ref
      /\ order' = [order EXCEPT ![o].terms = TRUE]
      /\ UNCHANGED <<ledger, entitled, credit, issued>>
  BY DEF SubmitReceipt, RefTaken
<1>3. order[o] \in OrderRow /\ order'[o] = [order[o] EXCEPT !.terms = TRUE]
  BY <1>2 DEF IndInv, TypeOK
<1>4. /\ \A p \in Order \ {o} : order'[p] = order[p]
      /\ order'[o].status = "pending"
      /\ order'[o].gateway = "card_transfer"
  BY <1>2, <1>3 DEF IndInv, TypeOK, OrderRow
<1>5. order'[o].terms
  BY <1>3 DEF OrderRow
<1>6. /\ \A p \in Order \ {o} : receipt'[p] = receipt[p]
      /\ receipt'[o].status = "pending"
      /\ receipt'[o].ref = ref
  BY DEF SubmitReceipt, Submitted, IndInv, TypeOK
<1>7. \A t \in ledger : t.order # o
  BY <1>0, <1>2 DEF BooksAgree
<1>8. \A p \in Order \ {o} : CardId(p)' = CardId(p)
  BY <1>6 DEF CardId
<1>9. BooksAgree'
  <2>1. (\A t \in ledger :
            order[t.order].gateway = "card_transfer" => t.id = CardId(t.order))'
    BY <1>0, <1>1, <1>2, <1>4, <1>7, <1>8 DEF BooksAgree
  <2>2. (\A p \in Order : receipt[p].status = "approved" <=>
            order[p].status = "paid" /\ order[p].gateway = "card_transfer")'
    BY <1>0, <1>4, <1>6 DEF BooksAgree
  <2> QED
    BY <1>0, <1>1, <1>2, <1>4, <1>7, <2>1, <2>2 DEF BooksAgree
<1>10. OneGiftPerUser'
  BY <1>0, <1>2, <1>4, <1>6 DEF OneGiftPerUser
<1>11. ReceiptsRest'
  <2>1. ref # NoRef
    BY ConstantsAssumption
  <2> QED
    BY <1>0, <1>4, <1>5, <1>6, <2>1 DEF ReceiptsRest
<1>12. RefsDistinct'
  BY <1>0, <1>2, <1>6 DEF RefsDistinct
<1>13. GiftsBooked'
  BY <1>0, <1>1, <1>2, <1>4, <1>7 DEF GiftsBooked
<1> QED
  BY <1>9, <1>10, <1>11, <1>12, <1>13 DEF Tables

\* A rejection leaves a receipt that keeps its reference and its order.
LEMMA RejectTables ==
  ASSUME IndInv, NEW o \in Order, Reject(o), credit' = credit, issued' = issued
  PROVE  Tables'
<1>0. BooksAgree /\ OneGiftPerUser /\ ReceiptsRest /\ RefsDistinct /\ GiftsBooked
  BY DEF IndInv
<1>1. \A t \in ledger : t.order \in Order
  BY DEF IndInv, TypeOK, LedgerRow
<1>2. /\ receipt[o] \in ReceiptRow
      /\ receipt[o].status = "pending"
      /\ receipt' = Decided(o, "rejected", "manager")
      /\ UNCHANGED <<order, ledger, entitled, credit, issued>>
  BY DEF Reject, Reviewable, IndInv, TypeOK
<1>3. /\ \A p \in Order \ {o} : receipt'[p] = receipt[p]
      /\ receipt'[o] =
           [receipt[o] EXCEPT !.status = "rejected", !.reviewer = "manager"]
  BY <1>2 DEF Decided, IndInv, TypeOK
<1>4. receipt'[o].status = "rejected" /\ receipt'[o].ref = receipt[o].ref
  BY <1>2, <1>3 DEF ReceiptRow
<1>5. \A p \in Order : CardId(p)' = CardId(p)
  BY <1>3, <1>4 DEF CardId
<1>6. BooksAgree'
  BY <1>0, <1>1, <1>2, <1>3, <1>4, <1>5 DEF BooksAgree
<1>7. OneGiftPerUser'
  BY <1>0, <1>2, <1>3 DEF OneGiftPerUser
<1>8. ReceiptsRest' /\ RefsDistinct'
  BY <1>0, <1>2, <1>3, <1>4 DEF ReceiptsRest, RefsDistinct
<1>9. GiftsBooked'
  BY <1>0, <1>2 DEF GiftsBooked
<1> QED
  BY <1>6, <1>7, <1>8, <1>9 DEF Tables

\* A gift is an order of its own: no receipt, no other transaction under its
\* name, and the credit remembers it.
LEMMA RedeemTables ==
  ASSUME IndInv, NEW u \in User, NEW o \in Order, Redeem(u, o)
  PROVE  Tables'
<1> DEFINE new == [order |-> o, id |-> <<"welcome", o>>, amount |-> 0]
<1>0. BooksAgree /\ OneGiftPerUser /\ ReceiptsRest /\ RefsDistinct /\ GiftsBooked
  BY DEF IndInv
<1>1. \A t \in ledger : t.order \in Order
  BY DEF IndInv, TypeOK, LedgerRow
<1>2. /\ \A p \in Order \ {o} : order'[p] = order[p]
      /\ order'[o].status = "paid"
      /\ order'[o].gateway = "welcome_trial"
      /\ order[o].status = "none"
      /\ ledger' = ledger \cup {new}
      /\ entitled' = entitled \cup {o}
      /\ u \in issued /\ credit[u] = NoOrder /\ SlotOf[o][1] = u
      /\ credit' = [credit EXCEPT ![u] = o]
      /\ UNCHANGED <<receipt, issued>>
  BY DEF Redeem, CreditUsable, IndInv, TypeOK
<1>3. new.order = o /\ new.id = <<"welcome", o>>
  OBVIOUS
<1>4. receipt[o].status = "none"
  <2>1. receipt[o].status \in {"none", "pending", "approved", "rejected"}
    BY DEF IndInv, TypeOK, ReceiptRow
  <2> QED
    BY <1>0, <1>2, <2>1 DEF BooksAgree, ReceiptsRest
<1>5. \A t \in ledger : t.order # o
  BY <1>0, <1>2 DEF BooksAgree
<1>6. \A t \in ledger : t.id # <<"welcome", o>>
  <2> SUFFICES ASSUME NEW t \in ledger PROVE t.id # <<"welcome", o>>
    OBVIOUS
  <2>1. order[t.order].gateway \in Gateways
    BY <1>1 DEF IndInv, TypeOK, OrderRow
  <2>2. CASE order[t.order].gateway = "card_transfer"
    BY <1>0, <2>2 DEF BooksAgree, CardId
  <2>3. CASE order[t.order].gateway = "welcome_trial"
    BY <1>0, <1>5, <2>3 DEF GiftsBooked
  <2> QED
    BY <2>1, <2>2, <2>3 DEF Gateways
<1>7. \A p \in Order : CardId(p)' = CardId(p)
  BY <1>2 DEF CardId
<1>8. BooksAgree'
  <2>1. (entitled = {p \in Order : order[p].status = "paid"})'
    BY <1>0, <1>2 DEF BooksAgree
  <2>2. (\A t \in ledger : order[t.order].status = "paid")'
    BY <1>0, <1>1, <1>2, <1>3, <1>5 DEF BooksAgree
  <2>3. (\A p \in Order : order[p].status = "paid" =>
            \E t \in ledger : t.order = p)'
    <3>1. new \in ledger'
      BY <1>2
    <3>2. \A p \in Order \ {o} : order'[p].status = "paid" =>
            \E t \in ledger' : t.order = p
      BY <1>0, <1>2 DEF BooksAgree
    <3> QED
      BY <1>3, <3>1, <3>2
  <2>4. (\A t1, t2 \in ledger :
            t1.order = t2.order \/ t1.id = t2.id => t1 = t2)'
    BY <1>0, <1>2, <1>3, <1>5, <1>6 DEF BooksAgree
  <2>5. (\A p \in Order : receipt[p].status = "approved" <=>
            order[p].status = "paid" /\ order[p].gateway = "card_transfer")'
    BY <1>0, <1>2, <1>4 DEF BooksAgree
  <2>6. (\A t \in ledger :
            order[t.order].gateway = "card_transfer" => t.id = CardId(t.order))'
    BY <1>0, <1>1, <1>2, <1>3, <1>5, <1>7 DEF BooksAgree
  <2> QED
    BY <2>1, <2>2, <2>3, <2>4, <2>5, <2>6 DEF BooksAgree
<1>9. OneGiftPerUser'
  <2>1. \A p \in Order \ {o} :
          order[p].gateway = "welcome_trial" => SlotOf[p][1] # u
    BY <1>0, <1>2, ConstantsAssumption DEF OneGiftPerUser
  <2>2. \A v \in User \ {u} : credit'[v] = credit[v]
    BY <1>2 DEF IndInv, TypeOK
  <2>3. credit'[u] = o
    BY <1>2 DEF IndInv, TypeOK
  <2>4. \A p \in Order : SlotOf[p][1] \in User
    BY ConstantsAssumption
  <2> QED
    BY <1>0, <1>2, <1>4, <2>1, <2>2, <2>3, <2>4 DEF OneGiftPerUser
<1>10. ReceiptsRest' /\ RefsDistinct'
  BY <1>0, <1>2, <1>4 DEF ReceiptsRest, RefsDistinct
<1>11. GiftsBooked'
  BY <1>0, <1>1, <1>2, <1>3, <1>5 DEF GiftsBooked
<1> QED
  BY <1>8, <1>9, <1>10, <1>11 DEF Tables

-----------------------------------------------------------------------------
(* The theorems.                                                             *)

LEMMA IndInvInit == Init => IndInv
<1> SUFFICES ASSUME Init PROVE IndInv
  OBVIOUS
<1>1. TypeOK
  BY TypingInit
<1>2. BooksAgree /\ GiftsBooked
  BY DEF Init, BooksAgree, GiftsBooked
<1>3. OneGiftPerUser /\ ReceiptsRest /\ RefsDistinct
  BY DEF Init, OneGiftPerUser, ReceiptsRest, RefsDistinct
<1>4. AnnouncesAnOrder
  BY DEF Init, Idle, AnnouncesAnOrder
<1> QED
  BY <1>1, <1>2, <1>3, <1>4 DEF IndInv

LEMMA TablesStep == IndInv /\ [Next]_vars => Tables'
<1> SUFFICES ASSUME IndInv, [Next]_vars PROVE Tables'
  OBVIOUS
<1> USE KeepTables
<1>1. ASSUME NEW u \in User, IssueCredit(u) PROVE Tables'
  BY <1>1 DEF IssueCredit
<1>2. ASSUME NEW o \in Order, NEW price \in Price, CreateOrder(o, price)
      PROVE  Tables'
  BY <1>2, CreateTables
<1>3. ASSUME NEW o \in Order, NEW price \in Price, ReadCart(o, price)
      PROVE  Tables'
  BY <1>3 DEF ReadCart
<1>4. ASSUME NEW o \in Order, SaveCart(o) PROVE Tables'
  <2>1. /\ order[o] \in OrderRow
        /\ order'[o] = [order[o] EXCEPT !.amount = cart[o]]
        /\ \A p \in Order \ {o} : order'[p] = order[p]
    BY <1>4 DEF SaveCart, IndInv, TypeOK
  <2>2. order'[o].status = order[o].status /\ order'[o].gateway = order[o].gateway
    BY <2>1 DEF OrderRow
  <2>3. order[o].terms => order'[o].terms
    BY <2>1 DEF OrderRow
  <2>4. UNCHANGED <<receipt, ledger, entitled, credit, issued>>
    BY <1>4 DEF SaveCart
  <2> QED
    BY <2>1, <2>2, <2>3, <2>4
<1>5. ASSUME NEW o \in Order, NEW ref \in Ref, SubmitReceipt(o, ref)
      PROVE  Tables'
  BY <1>5, SubmitTables
<1>6. ASSUME NEW o \in Order, NEW u \in User, Redeem(u, o) PROVE Tables'
  BY <1>6, RedeemTables
<1>7. ASSUME NEW o \in Order, WindowCloses(o) PROVE Tables'
  <2>1. /\ receipt[o] \in ReceiptRow
        /\ receipt'[o] = [receipt[o] EXCEPT !.windowOver = TRUE]
        /\ \A p \in Order \ {o} : receipt'[p] = receipt[p]
    BY <1>7 DEF WindowCloses, IndInv, TypeOK
  <2>2. receipt'[o].status = receipt[o].status /\ receipt'[o].ref = receipt[o].ref
    BY <2>1 DEF ReceiptRow
  <2>3. UNCHANGED <<order, ledger, entitled, credit, issued>>
    BY <1>7 DEF WindowCloses
  <2> QED
    BY <2>1, <2>2, <2>3
<1>8. ASSUME NEW o \in Order, ManagerApprove(o) \/ AdminApprove(o) \/ AutoApprove(o)
      PROVE  Tables'
  <2>1. \E who : Approve(o, who)
    BY <1>8 DEF ManagerApprove, AdminApprove, AutoApprove
  <2>2. UNCHANGED <<credit, issued>>
    BY <1>8 DEF ManagerApprove, AdminApprove, AutoApprove
  <2> QED
    BY <2>1, <2>2, ApproveTables
<1>9. ASSUME NEW o \in Order, ManagerReject(o) \/ AdminReject(o)
      PROVE  Tables'
  BY <1>9, RejectTables DEF ManagerReject, AdminReject
<1>10. ASSUME NEW o \in Order, DismissAlert(o) \/ PassOver(o) PROVE Tables'
  BY <1>10 DEF DismissAlert, PassOver
<1>11. CASE Scan \/ CloseAlert \/ Announce \/ EndScan \/ Crash
  BY <1>11 DEF Scan, CloseAlert, Announce, EndScan, Crash
<1>12. CASE UNCHANGED vars
  BY <1>12 DEF vars
<1> QED
  BY <1>1, <1>2, <1>3, <1>4, <1>5, <1>6, <1>7, <1>8, <1>9, <1>10, <1>11, <1>12
     DEF Next, Shopping, Review, Dispatch

\* The dispatcher's own variable: it announces what it has just approved.
LEMMA RunStep == IndInv /\ [Next]_vars => AnnouncesAnOrder'
<1> SUFFICES ASSUME IndInv, [Next]_vars, run' # run PROVE AnnouncesAnOrder'
  BY DEF IndInv, AnnouncesAnOrder
<1>1. ASSUME NEW o \in Order, AutoApprove(o) PROVE AnnouncesAnOrder'
  BY <1>1 DEF AutoApprove, AnnouncesAnOrder
<1>2. ASSUME NEW o \in Order, PassOver(o) PROVE AnnouncesAnOrder'
  BY <1>2 DEF PassOver, AnnouncesAnOrder, IndInv, TypeOK
<1>3. CASE Scan \/ EndScan \/ Crash
  <2>1. run'.phase \in {"approving", "idle"}
    BY <1>3 DEF Scan, EndScan, Crash, Idle
  <2> QED
    BY <2>1 DEF AnnouncesAnOrder
<1>4. CASE CloseAlert
  BY <1>4 DEF CloseAlert, IndInv, TypeOK, AnnouncesAnOrder
<1>5. CASE Announce
  BY <1>5 DEF Announce, IndInv, TypeOK, AnnouncesAnOrder
<1>6. ASSUME NEW o \in Order, Shopping(o) \/ WindowCloses(o) \/ Review(o)
      PROVE  run' = run
  BY <1>6 DEF Shopping, CreateOrder, ReadCart, SaveCart, SubmitReceipt, Redeem,
     WindowCloses, Review, ManagerApprove, ManagerReject, AdminApprove,
     AdminReject, DismissAlert
<1>7. ASSUME NEW u \in User, IssueCredit(u) PROVE run' = run
  BY <1>7 DEF IssueCredit
<1>8. CASE UNCHANGED vars
  BY <1>8 DEF vars
<1> QED
  BY <1>1, <1>2, <1>3, <1>4, <1>5, <1>6, <1>7, <1>8 DEF Next, Dispatch

\* The inductive invariant holds in every reachable state.
THEOREM Invariance == Spec => []IndInv
<1>1. IndInv /\ [Next]_vars => IndInv'
  BY TypingStep, TablesStep, RunStep DEF IndInv, Tables
<1> QED
  BY IndInvInit, <1>1, PTL DEF Spec

\* Every variable has its type in every reachable state.
THEOREM TypeCorrect == Spec => []TypeOK
BY Invariance, PTL DEF IndInv

\* The books agree in every reachable state: a paid order, its entitlement
\* and its one transaction come together, whoever approved it and however
\* many dispatchers were killed meanwhile.
THEOREM BooksAlwaysAgree == Spec => []BooksAgree
BY Invariance, PTL DEF IndInv

\* The welcome credit pays for one order in all.
THEOREM GiftGivenOnce == Spec => []OneGiftPerUser
BY Invariance, PTL DEF IndInv

\* No receipt under review is refused by verify_gateway_payment.
THEOREM ReceiptsNeverStuck == Spec => []NoReceiptStuck
<1>1. IndInv => NoReceiptStuck
  <2> SUFFICES ASSUME IndInv, NEW o \in Order, receipt[o].status = "pending"
               PROVE  Payable(o, CardId(o))
    BY DEF NoReceiptStuck
  <2>0. BooksAgree /\ ReceiptsRest /\ RefsDistinct /\ GiftsBooked
    BY DEF IndInv
  <2>1. /\ order[o].status = "pending"
        /\ order[o].terms
        /\ order[o].gateway = "card_transfer"
        /\ receipt[o].ref # NoRef
    BY <2>0 DEF ReceiptsRest
  <2>2. ASSUME NEW t \in ledger PROVE t.id # CardId(o)
    <3>1. t.order \in Order /\ order[t.order].gateway \in Gateways
      BY DEF IndInv, TypeOK, LedgerRow, OrderRow
    <3>2. t.order # o
      BY <2>0, <2>1 DEF BooksAgree
    <3>3. CASE order[t.order].gateway = "card_transfer"
      <4>1. t.id = CardId(t.order)
        BY <2>0, <3>3 DEF BooksAgree
      <4> QED
        BY <2>0, <2>1, <3>1, <3>2, <4>1 DEF RefsDistinct, CardId
    <3>4. CASE order[t.order].gateway = "welcome_trial"
      BY <2>0, <3>4 DEF GiftsBooked, CardId
    <3> QED
      BY <3>1, <3>3, <3>4 DEF Gateways
  <2> QED
    BY <2>1, <2>2 DEF Payable
<1> QED
  BY <1>1, Invariance, PTL

\* A decision stands, whichever of the managers, the admin and the dispatcher
\* acts on a list or a page that is out of date.
THEOREM DecisionsAlwaysStand == Spec => DecisionsStand
<1> DEFINE Stands(o) ==
             /\ receipt[o].status = "approved" => receipt'[o] = receipt[o]
             /\ receipt[o].status = "rejected" =>
                  receipt'[o] = receipt[o] \/ receipt'[o].status = "pending"
           Decides ==
             /\ \A o \in Order : Stands(o)
             /\ entitled \subseteq entitled'
             /\ ledger \subseteq ledger'
<1>1. ASSUME IndInv, [Next]_vars PROVE Decides
  <2>0. receipt \in [Order -> ReceiptRow]
    BY <1>1 DEF IndInv, TypeOK
  <2>1. ASSUME NEW o \in Order,
               ManagerApprove(o) \/ AdminApprove(o) \/ AutoApprove(o)
        PROVE  Decides
    <3>1. PICK who : Approve(o, who)
      BY <2>1 DEF ManagerApprove, AdminApprove, AutoApprove
    <3>2. /\ receipt[o].status = "pending"
          /\ receipt' = Decided(o, "approved", who)
          /\ entitled \subseteq entitled'
          /\ ledger \subseteq ledger'
      BY <3>1 DEF Approve, Reviewable, Grant
    <3> QED
      BY <2>0, <3>2 DEF Decided
  <2>2. ASSUME NEW o \in Order, ManagerReject(o) \/ AdminReject(o)
        PROVE  Decides
    <3>1. /\ receipt[o].status = "pending"
          /\ receipt' = Decided(o, "rejected", "manager")
          /\ UNCHANGED <<entitled, ledger>>
      BY <2>2 DEF ManagerReject, AdminReject, Reject, Reviewable
    <3> QED
      BY <2>0, <3>1 DEF Decided
  <2>3. ASSUME NEW o \in Order, NEW ref \in Ref, SubmitReceipt(o, ref)
        PROVE  Decides
    <3>1. /\ receipt[o].status \in {"none", "rejected"}
          /\ receipt' = [receipt EXCEPT ![o] = Submitted(o, ref)]
          /\ Submitted(o, ref).status = "pending"
          /\ UNCHANGED <<entitled, ledger>>
      BY <2>3 DEF SubmitReceipt, Submitted
    <3> QED
      BY <2>0, <3>1
  <2>4. ASSUME NEW o \in Order, WindowCloses(o) PROVE Decides
    BY <2>0, <2>4 DEF WindowCloses
  <2>5. ASSUME NEW o \in Order, NEW u \in User, Redeem(u, o) PROVE Decides
    BY <2>5 DEF Redeem
  <2>6. CASE UNCHANGED <<receipt, entitled, ledger>>
    BY <2>6
  <2>7. ASSUME NEW o \in Order, NEW price \in Price,
               CreateOrder(o, price) \/ ReadCart(o, price)
        PROVE  UNCHANGED <<receipt, entitled, ledger>>
    BY <2>7 DEF CreateOrder, ReadCart
  <2>8. ASSUME NEW o \in Order, SaveCart(o) \/ DismissAlert(o) \/ PassOver(o)
        PROVE  UNCHANGED <<receipt, entitled, ledger>>
    BY <2>8 DEF SaveCart, DismissAlert, PassOver
  <2>9. ASSUME NEW u \in User, IssueCredit(u)
        PROVE  UNCHANGED <<receipt, entitled, ledger>>
    BY <2>9 DEF IssueCredit
  <2>10. CASE Scan \/ CloseAlert \/ Announce \/ EndScan \/ Crash \/ UNCHANGED vars
    BY <2>6, <2>10 DEF Scan, CloseAlert, Announce, EndScan, Crash, vars
  <2> QED
    BY <1>1, <2>1, <2>2, <2>3, <2>4, <2>5, <2>6, <2>7, <2>8, <2>9, <2>10
       DEF Next, Shopping, Review, Dispatch
<1>2. IndInv /\ [Next]_vars => [Decides]_vars
  BY <1>1
<1>3. Spec => [][Decides]_vars
  BY <1>2, Invariance, PTL DEF Spec
<1> QED
  BY <1>3 DEF DecisionsStand

-----------------------------------------------------------------------------
(* The shop implements PaidAccess, fairness aside.                           *)

\* Steps that touch neither receipts, transactions nor entitlements.
LEMMA ShopStutter ==
  ASSUME IndInv, UNCHANGED <<ledger, entitled, credit>>,
         \A o \in Order : receipt'[o].status = receipt[o].status
  PROVE  UNCHANGED Shop!vars
<1>1. Access' = Access
  BY DEF Access
<1>2. Spent' = Spent /\ Gifted' = Gifted
  BY DEF Spent, Gifted
<1> QED
  BY <1>1, <1>2 DEF Shop!vars

\* A receipt is a claim: its order is still closed.
LEMMA ShopClaim ==
  ASSUME IndInv, NEW o \in Order, NEW ref \in Ref, SubmitReceipt(o, ref)
  PROVE  Shop!Claim(o)
<1>1. o \notin entitled
  BY DEF IndInv, BooksAgree, SubmitReceipt
<1>2. /\ receipt[o].status # "pending"
      /\ receipt'[o].status = "pending"
      /\ \A p \in Order \ {o} : receipt'[p] = receipt[p]
      /\ UNCHANGED <<ledger, entitled, credit>>
  BY DEF SubmitReceipt, Submitted, IndInv, TypeOK
<1>3. Access[o] = "closed"
  BY <1>1, <1>2 DEF Access
<1>4. Access' = [Access EXCEPT ![o] = "claimed"]
  BY <1>1, <1>2 DEF Access
<1>5. Spent' = Spent /\ Gifted' = Gifted
  BY <1>2 DEF Spent, Gifted
<1> QED
  BY <1>3, <1>4, <1>5 DEF Shop!Claim

\* A rejection turns the claim down.
LEMMA ShopDecline ==
  ASSUME IndInv, NEW o \in Order, Reject(o), credit' = credit
  PROVE  Shop!Decline(o)
<1>1. o \notin entitled
  BY DEF IndInv, BooksAgree, ReceiptsRest, Reject, Reviewable
<1>2. /\ receipt[o].status = "pending"
      /\ receipt' = Decided(o, "rejected", "manager")
      /\ UNCHANGED <<ledger, entitled>>
  BY DEF Reject, Reviewable
<1>3. /\ receipt'[o].status = "rejected"
      /\ \A p \in Order \ {o} : receipt'[p] = receipt[p]
  BY <1>2 DEF Decided, ReceiptRow, IndInv, TypeOK
<1>4. Access[o] = "claimed"
  BY <1>1, <1>2 DEF Access
<1>5. Access' = [Access EXCEPT ![o] = "closed"]
  BY <1>1, <1>2, <1>3 DEF Access
<1>6. Spent' = Spent /\ Gifted' = Gifted
  BY <1>2 DEF Spent, Gifted
<1> QED
  BY <1>4, <1>5, <1>6 DEF Shop!Decline

\* An approval honours the claim, against a reference not spent before.
LEMMA ShopSell ==
  ASSUME IndInv, NoReceiptStuck, NEW o \in Order, NEW who, Approve(o, who),
         credit' = credit
  PROVE  Shop!Sell(o, receipt[o].ref) /\ receipt[o].ref \in Ref
<1> DEFINE ref == receipt[o].ref
           new == [order |-> o, id |-> CardId(o), amount |-> order[o].amount]
<1>1. /\ receipt[o].status = "pending"
      /\ order[o].status = "pending"
      /\ ledger' = ledger \cup {new}
      /\ entitled' = entitled \cup {o}
      /\ \A t \in ledger : t.id = CardId(o) => t.order = o
  BY DEF Approve, Grant, Payable, Reviewable
<1>2. o \notin entitled /\ \A t \in ledger : t.order # o
  BY <1>1 DEF IndInv, BooksAgree
<1>3. ref \in Ref
  BY <1>1 DEF IndInv, TypeOK, ReceiptRow, ReceiptsRest
<1>4. \A p \in Order \ {o} : receipt'[p] = receipt[p]
  BY ApproveRows DEF IndInv
<1>5. Access[o] = "claimed"
  BY <1>1, <1>2 DEF Access
<1>6. Access' = [Access EXCEPT ![o] = "open"]
  BY <1>1, <1>4 DEF Access
<1>7. ref \notin Spent
  BY <1>1, <1>2 DEF Spent, CardId
<1>8. Spent' = Spent \cup {ref}
  <2>1. new \in ledger' /\ new.id = <<"card", ref>>
    BY <1>1 DEF CardId
  <2>2. \A r \in Ref : r \in Spent' <=> r \in Spent \/ new.id = <<"card", r>>
    BY <1>1 DEF Spent
  <2>3. \A r \in Ref : new.id = <<"card", r>> <=> r = ref
    BY <2>1
  <2>4. Spent \subseteq Ref /\ Spent' \subseteq Ref
    BY DEF Spent
  <2> QED
    BY <1>3, <2>2, <2>3, <2>4
<1>9. Gifted' = Gifted
  BY DEF Gifted
<1> QED
  BY <1>3, <1>5, <1>6, <1>7, <1>8, <1>9 DEF Shop!Sell

\* The welcome credit is the gift.
LEMMA ShopGift ==
  ASSUME IndInv, NEW u \in User, NEW o \in Order, Redeem(u, o)
  PROVE  Shop!Gift(o)
<1> DEFINE new == [order |-> o, id |-> <<"welcome", o>>, amount |-> 0]
<1>1. /\ order[o].status = "none"
      /\ ledger' = ledger \cup {new}
      /\ entitled' = entitled \cup {o}
      /\ credit[u] = NoOrder /\ SlotOf[o][1] = u
      /\ credit' = [credit EXCEPT ![u] = o]
      /\ receipt' = receipt
  BY DEF Redeem, CreditUsable
<1>2. o \notin entitled
  BY <1>1 DEF IndInv, BooksAgree
<1>3. receipt[o].status = "none"
  <2>1. receipt[o].status \in {"none", "pending", "approved", "rejected"}
    BY DEF IndInv, TypeOK, ReceiptRow
  <2> QED
    BY <1>1, <2>1 DEF IndInv, BooksAgree, ReceiptsRest
<1>4. Access[o] = "closed"
  BY <1>2, <1>3 DEF Access
<1>5. Access' = [Access EXCEPT ![o] = "open"]
  BY <1>1 DEF Access
<1>6. Spent' = Spent
  <2>1. \A r : new.id # <<"card", r>>
    OBVIOUS
  <2> QED
    BY <1>1, <2>1 DEF Spent
<1>7. OwnerOf[o] = u
  BY <1>1 DEF OwnerOf
<1>8. u \notin Gifted
  BY <1>1 DEF Gifted
<1>9. Gifted' = Gifted \cup {u}
  BY <1>1, ConstantsAssumption DEF Gifted, IndInv, TypeOK
<1> QED
  BY <1>4, <1>5, <1>6, <1>7, <1>8, <1>9 DEF Shop!Gift

\* Every behaviour of carts, receipts, managers, the admin and the dispatcher
\* is, seen through Access, Spent and Gifted, a behaviour of PaidAccess:
\* access opens once, stays open, and each opening uses up a bank reference of
\* its own or the owner's one gift.
THEOREM ShopImplementsPaidAccess == Spec => Shop!Spec
<1>1. Init => Shop!Init
  <2> SUFFICES ASSUME Init PROVE Shop!Init
    OBVIOUS
  <2>1. Access = [o \in Order |-> "closed"]
    BY DEF Init, Access
  <2>2. Spent = {} /\ Gifted = {}
    BY DEF Init, Spent, Gifted
  <2> QED
    BY <2>1, <2>2 DEF Shop!Init
<1>2. ASSUME IndInv, NoReceiptStuck, [Next]_vars PROVE [Shop!Next]_(Shop!vars)
  <2> USE <1>2 DEF Shop!Next, Shop!Settle
  <2>1. ASSUME NEW o \in Order,
               ManagerApprove(o) \/ AdminApprove(o) \/ AutoApprove(o)
        PROVE  Shop!Next
    <3>1. PICK who : Approve(o, who)
      BY <2>1 DEF ManagerApprove, AdminApprove, AutoApprove
    <3>2. credit' = credit
      BY <2>1 DEF ManagerApprove, AdminApprove, AutoApprove
    <3> QED
      BY <3>1, <3>2, ShopSell
  <2>2. ASSUME NEW o \in Order, ManagerReject(o) \/ AdminReject(o)
        PROVE  Shop!Next
    BY <2>2, ShopDecline DEF ManagerReject, AdminReject
  <2>3. ASSUME NEW o \in Order, NEW ref \in Ref, SubmitReceipt(o, ref)
        PROVE  Shop!Next
    BY <2>3, ShopClaim
  <2>4. ASSUME NEW o \in Order, NEW u \in User, Redeem(u, o) PROVE Shop!Next
    BY <2>4, ShopGift
  <2>5. ASSUME NEW o \in Order, WindowCloses(o) PROVE UNCHANGED Shop!vars
    <3>1. /\ receipt[o] \in ReceiptRow
          /\ receipt'[o] = [receipt[o] EXCEPT !.windowOver = TRUE]
          /\ \A p \in Order \ {o} : receipt'[p] = receipt[p]
          /\ UNCHANGED <<ledger, entitled, credit>>
      BY <2>5 DEF WindowCloses, IndInv, TypeOK
    <3>2. receipt'[o].status = receipt[o].status
      BY <3>1 DEF ReceiptRow
    <3> QED
      BY <3>1, <3>2, ShopStutter
  <2>6. CASE UNCHANGED <<receipt, ledger, entitled, credit>>
    BY <2>6, ShopStutter
  <2>7. ASSUME NEW o \in Order, NEW price \in Price,
               CreateOrder(o, price) \/ ReadCart(o, price)
        PROVE  UNCHANGED <<receipt, ledger, entitled, credit>>
    BY <2>7 DEF CreateOrder, ReadCart
  <2>8. ASSUME NEW o \in Order, SaveCart(o) \/ DismissAlert(o) \/ PassOver(o)
        PROVE  UNCHANGED <<receipt, ledger, entitled, credit>>
    BY <2>8 DEF SaveCart, DismissAlert, PassOver
  <2>9. ASSUME NEW u \in User, IssueCredit(u)
        PROVE  UNCHANGED <<receipt, ledger, entitled, credit>>
    BY <2>9 DEF IssueCredit
  <2>10. CASE Scan \/ CloseAlert \/ Announce \/ EndScan \/ Crash \/ UNCHANGED vars
    BY <2>6, <2>10 DEF Scan, CloseAlert, Announce, EndScan, Crash, vars
  <2> QED
    BY <2>1, <2>2, <2>3, <2>4, <2>5, <2>6, <2>7, <2>8, <2>9, <2>10
       DEF Next, Shopping, Review, Dispatch
<1> QED
  BY <1>1, <1>2, Invariance, ReceiptsNeverStuck, PTL DEF Spec, Shop!Spec
=============================================================================
