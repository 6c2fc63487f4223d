-------------------------- MODULE CaseLedger_proofs --------------------------
(***************************************************************************)
(* Theorems of CaseLedger, for any numbers of requests, customers and      *)
(* processes.                                                              *)
(***************************************************************************)
EXTENDS CaseLedger, TLAPS

\* What a receiver holds at each of its steps.
Holds(r) ==
  /\ r.at # "idle" => r.request \in Request
  /\ r.at = "idle" => r.request = NoRequest
  /\ r.at \in {"find", "settle", "file", "read", "write", "record"} =>
       r.content \in Content
  /\ r.at \in {"find", "settle", "file"} => r.who \in Identity
  /\ r.at \in {"file", "read", "write", "record", "activity"} =>
       r.customer \in Customer
  /\ r.at # "settle" \/ r.customer = NoCustomer => r.lacks = Nobody

Holding == \A w \in Worker : Holds(worker[w])

TypeInv == TypeOK /\ Holding

-----------------------------------------------------------------------------
(* What a step does to the receiver that makes it.                           *)

Others(w) == \A v \in Worker \ {w} : worker'[v] = worker[v]

LEMMA IdleTypes == Idle \in Receiver /\ Nobody \in Who
BY DEF Idle, Receiver, Step, Who, Nobody

LEMMA Turned ==
  ASSUME TypeInv, NEW w \in Worker, NEW row \in Receiver, Becomes(w, row)
  PROVE  /\ worker' \in [Worker -> Receiver] /\ Others(w)
         /\ worker'[w] = row
BY DEF TypeInv, TypeOK, Becomes, Others

LEMMA Rows == TypeInv => \A w \in Worker : worker[w] \in Receiver
BY DEF TypeInv, TypeOK

LEMMA SaveMoves ==
  ASSUME TypeInv, NEW w \in Worker, NEW x \in Request, NEW content \in Content,
         NEW who \in Identity, Save(w, x, content, who)
  PROVE  /\ worker' \in [Worker -> Receiver] /\ Others(w)
         /\ worker[w].at = "idle" /\ worker'[w].at = "find"
         /\ worker'[w].request = x /\ worker'[w].content = content
         /\ worker'[w].who = who /\ worker'[w].lacks = Nobody
<1> DEFINE row == [Idle EXCEPT !.at = "find", !.request = x, !.content = content,
                               !.who = who]
<1>1. Becomes(w, row) /\ worker[w].at = "idle"
  BY DEF Save
<1>2. row \in Receiver
  BY IdleTypes DEF Receiver, Step, Idle, Identity
<1>3. worker'[w] = row /\ worker' \in [Worker -> Receiver] /\ Others(w)
  BY <1>1, <1>2, Turned
<1> QED
  BY <1>1, <1>3 DEF Idle

LEMMA DiesMoves ==
  ASSUME TypeInv, NEW w \in Worker, Becomes(w, Idle)
  PROVE  /\ worker' \in [Worker -> Receiver] /\ Others(w)
         /\ worker'[w].at = "idle" /\ worker'[w].request = NoRequest
         /\ worker'[w].lacks = Nobody
BY IdleTypes, Turned DEF Idle

LEMMA LackingTypes ==
  ASSUME NEW row \in CustomerRow, NEW who \in Who
  PROVE  Lacking(row, who) \in Who
BY DEF Lacking, CustomerRow, Who

\* What Find has found, and that the customer lacks it.
LEMMA FindMoves ==
  ASSUME TypeInv, NEW w \in Worker, Find(w)
  PROVE  /\ worker' \in [Worker -> Receiver] /\ Others(w)
         /\ worker[w].at = "find" /\ worker'[w].at = "settle"
         /\ worker'[w].request = worker[w].request
         /\ worker'[w].content = worker[w].content
         /\ worker'[w].who = worker[w].who
         /\ worker'[w].known = worker[w].known
         /\ \/ worker'[w].lacks = Nobody
            \/ \E c \in Customer :
                 /\ Live(c) /\ worker'[w].customer = c
                 /\ worker'[w].lacks = Lacking(customer[c], worker[w].who)
<1>1. worker[w] \in Receiver /\ worker[w].at = "find" /\ worker[w].lacks = Nobody
  BY Rows DEF Find, TypeInv, Holding, Holds
<1>2. CASE \E c \in Found(worker[w].who) :
             Becomes(w, [worker[w] EXCEPT !.at = "settle", !.customer = c,
                           !.lacks = Lacking(customer[c], worker[w].who)])
  <2>1. PICK c \in Customer :
          /\ Live(c)
          /\ Becomes(w, [worker[w] EXCEPT !.at = "settle", !.customer = c,
                           !.lacks = Lacking(customer[c], worker[w].who)])
    BY <1>2 DEF Found
  <2> DEFINE row == [worker[w] EXCEPT !.at = "settle", !.customer = c,
                                      !.lacks = Lacking(customer[c], worker[w].who)]
  <2>2. customer[c] \in CustomerRow /\ worker[w].who \in Who
    BY <1>1 DEF TypeInv, TypeOK, Receiver
  <2>3. row \in Receiver
    BY <1>1, <2>2, LackingTypes DEF Receiver, Step
  <2>4. worker'[w] = row /\ worker' \in [Worker -> Receiver] /\ Others(w)
    BY <2>1, <2>3, Turned
  <2> QED
    BY <1>1, <2>1, <2>4 DEF Receiver
<1>3. CASE Becomes(w, [worker[w] EXCEPT !.at = "settle"])
  <2> DEFINE row == [worker[w] EXCEPT !.at = "settle"]
  <2>1. row \in Receiver
    BY <1>1 DEF Receiver, Step
  <2>2. worker'[w] = row /\ worker' \in [Worker -> Receiver] /\ Others(w)
    BY <1>3, <2>1, Turned
  <2> QED
    BY <1>1, <2>2 DEF Receiver
<1> QED
  BY <1>2, <1>3 DEF Find

\* A customer is made and has no contacts yet, or is completed as noted.
LEMMA SettleMoves ==
  ASSUME TypeInv, NEW w \in Worker, Settle(w)
  PROVE  /\ worker' \in [Worker -> Receiver] /\ Others(w)
         /\ worker[w].at = "settle" /\ worker'[w].at = "file"
         /\ worker'[w].request = worker[w].request
         /\ worker'[w].content = worker[w].content
         /\ worker'[w].who = worker[w].who
         /\ worker'[w].customer \in Customer
         /\ worker'[w].lacks = Nobody
         /\ IF worker[w].customer = NoCustomer
            THEN worker'[w].known = worker[w].known
            ELSE /\ worker'[w].customer = worker[w].customer
                 /\ worker'[w].known = KnownContact(worker[w].customer, worker[w].who)
<1>1. /\ worker[w] \in Receiver /\ worker[w].at = "settle"
      /\ worker[w].customer = NoCustomer => worker[w].lacks = Nobody
  BY Rows DEF Settle, TypeInv, Holding, Holds
<1>2. CASE /\ worker[w].customer = NoCustomer
           /\ \E n \in Customer :
                Becomes(w, [worker[w] EXCEPT !.at = "file", !.customer = n])
  <2>1. PICK n \in Customer :
          Becomes(w, [worker[w] EXCEPT !.at = "file", !.customer = n])
    BY <1>2
  <2> DEFINE row == [worker[w] EXCEPT !.at = "file", !.customer = n]
  <2>2. row \in Receiver
    BY <1>1 DEF Receiver, Step
  <2>3. worker'[w] = row /\ worker' \in [Worker -> Receiver] /\ Others(w)
    BY <2>1, <2>2, Turned
  <2> QED
    BY <1>1, <1>2, <2>3 DEF Receiver
<1>3. ASSUME NEW k \in BOOLEAN,
             k = KnownContact(worker[w].customer, worker[w].who),
             worker[w].customer # NoCustomer,
             Becomes(w, [worker[w] EXCEPT !.at = "file", !.lacks = Nobody,
                                          !.known = k])
      PROVE  /\ worker' \in [Worker -> Receiver] /\ Others(w)
             /\ worker'[w] = [worker[w] EXCEPT !.at = "file", !.lacks = Nobody,
                                               !.known = k]
  <2> DEFINE row == [worker[w] EXCEPT !.at = "file", !.lacks = Nobody, !.known = k]
  <2>1. row \in Receiver
    BY <1>1, IdleTypes DEF Receiver, Step
  <2> QED
    BY <1>3, <2>1, Turned
<1>4. KnownContact(worker[w].customer, worker[w].who) \in BOOLEAN
  BY DEF KnownContact
<1>5. CASE /\ worker[w].customer # NoCustomer
           /\ Becomes(w, [worker[w] EXCEPT !.at = "file", !.lacks = Nobody,
                !.known = KnownContact(worker[w].customer, worker[w].who)])
  BY <1>1, <1>3, <1>4, <1>5 DEF Receiver
<1> QED
  BY <1>2, <1>5 DEF Settle

LEMMA FileMoves ==
  ASSUME TypeInv, NEW w \in Worker, File(w)
  PROVE  /\ worker' \in [Worker -> Receiver] /\ Others(w)
         /\ worker[w].at = "file" /\ worker'[w].at = "read"
         /\ worker'[w].request = worker[w].request
         /\ worker'[w].lacks = Nobody
         /\ worker'[w].content = worker[w].content
         /\ worker'[w].customer = worker[w].customer
         /\ worker'[w].new = (case[worker[w].request] = NoCustomer)
<1> DEFINE row == [worker[w] EXCEPT !.at = "read",
                            !.new = case[worker[w].request] = NoCustomer,
                            !.who = Nobody, !.known = FALSE]
<1>1. Becomes(w, row) /\ worker[w].at = "file"
  BY DEF File
<1>2. worker[w] \in Receiver /\ worker[w].lacks = Nobody
  BY <1>1, Rows DEF TypeInv, Holding, Holds
<1>3. row \in Receiver
  BY <1>2, IdleTypes DEF Receiver, Step
<1>4. worker'[w] = row /\ worker' \in [Worker -> Receiver] /\ Others(w)
  BY <1>1, <1>3, Turned
<1> QED
  BY <1>1, <1>2, <1>4 DEF Receiver

LEMMA ReadMoves ==
  ASSUME TypeInv, NEW w \in Worker, Read(w)
  PROVE  /\ worker' \in [Worker -> Receiver] /\ Others(w)
         /\ worker[w].at = "read" /\ worker'[w].at = "write"
         /\ worker'[w].request = worker[w].request
         /\ worker'[w].lacks = Nobody
         /\ worker'[w].content = worker[w].content
         /\ worker'[w].customer = worker[w].customer
         /\ worker'[w].new = worker[w].new
         /\ worker'[w].seen = document[worker[w].request].content
<1> DEFINE row == [worker[w] EXCEPT !.at = "write",
                            !.seen = document[worker[w].request].content]
<1>1. Becomes(w, row) /\ worker[w].at = "read"
  BY DEF Read
<1>2. worker[w] \in Receiver /\ worker[w].lacks = Nobody
  BY <1>1, Rows DEF TypeInv, Holding, Holds
<1>5. document[worker[w].request].content \in Content \cup {NoContent}
  BY <1>1 DEF TypeInv, TypeOK, Document, Holding, Holds
<1>3. row \in Receiver
  BY <1>2, <1>5 DEF Receiver, Step
<1>4. worker'[w] = row /\ worker' \in [Worker -> Receiver] /\ Others(w)
  BY <1>1, <1>3, Turned
<1> QED
  BY <1>1, <1>2, <1>4 DEF Receiver

LEMMA WriteMoves ==
  ASSUME TypeInv, NEW w \in Worker, Write(w)
  PROVE  /\ worker' \in [Worker -> Receiver] /\ Others(w)
         /\ worker[w].at = "write" /\ worker'[w].at = "record"
         /\ worker'[w].request = worker[w].request
         /\ worker'[w].lacks = Nobody
         /\ worker'[w].content = worker[w].content
         /\ worker'[w].customer = worker[w].customer
         /\ worker'[w].new = (worker[w].new \/ worker[w].seen = NoContent)
<1> DEFINE row == [worker[w] EXCEPT !.at = "record", !.seen = NoContent,
                            !.new = @ \/ worker[w].seen = NoContent]
<1>1. Becomes(w, row) /\ worker[w].at = "write"
  BY DEF Write
<1>2. worker[w] \in Receiver /\ worker[w].lacks = Nobody
  BY <1>1, Rows DEF TypeInv, Holding, Holds
<1>3. row \in Receiver
  BY <1>2 DEF Receiver, Step
<1>4. worker'[w] = row /\ worker' \in [Worker -> Receiver] /\ Others(w)
  BY <1>1, <1>3, Turned
<1> QED
  BY <1>1, <1>2, <1>4 DEF Receiver

LEMMA RecordMoves ==
  ASSUME TypeInv, NEW w \in Worker, Record(w)
  PROVE  /\ worker' \in [Worker -> Receiver] /\ Others(w)
         /\ worker[w].at = "record" /\ worker'[w].at = "activity"
         /\ worker'[w].request = worker[w].request
         /\ worker'[w].lacks = Nobody
         /\ worker'[w].customer = worker[w].customer
         /\ worker'[w].new = worker[w].new
<1> DEFINE row == [worker[w] EXCEPT !.at = "activity", !.content = NoContent]
<1>1. Becomes(w, row) /\ worker[w].at = "record"
  BY DEF Record
<1>2. worker[w] \in Receiver /\ worker[w].lacks = Nobody
  BY <1>1, Rows DEF TypeInv, Holding, Holds
<1>3. row \in Receiver
  BY <1>2 DEF Receiver, Step
<1>4. worker'[w] = row /\ worker' \in [Worker -> Receiver] /\ Others(w)
  BY <1>1, <1>3, Turned
<1> QED
  BY <1>1, <1>2, <1>4 DEF Receiver

-----------------------------------------------------------------------------
(* Types. *)

LEMMA HoldingKept ==
  ASSUME TypeInv, NEW w \in Worker, Others(w), Holds(worker'[w])
  PROVE  Holding'
BY DEF TypeInv, Holding, Holds, Others

LEMMA CompletedTypes ==
  ASSUME NEW row \in CustomerRow, NEW lacks \in Who
  PROVE  /\ Completed(row, lacks) \in CustomerRow
         /\ Completed(row, lacks).status = row.status
         /\ lacks = Nobody => Completed(row, lacks) = row
<1>1. /\ Completed(row, lacks) \in CustomerRow
      /\ Completed(row, lacks).status = row.status
  BY DEF Completed, CustomerRow, Who
<1>2. ASSUME lacks = Nobody  PROVE  Completed(row, lacks) = row
  <2>1. lacks.phone = NoPhone /\ lacks.email = NoEmail
    BY <1>2 DEF Nobody
  <2>2. Completed(row, lacks) = [row EXCEPT !.phone = @, !.email = @]
    BY <2>1 DEF Completed
  <2> QED
    BY <2>2 DEF CustomerRow
<1> QED
  BY <1>1, <1>2

LEMMA PreservedTypes ==
  ASSUME NEW doc \in Document
  PROVE  /\ Preserved(doc) \in Document
         /\ Preserved(doc).content = doc.content
         /\ doc.revisions \subseteq Preserved(doc).revisions
         /\ doc.content # NoContent => doc.content \in Preserved(doc).revisions
BY DEF Preserved, Document

LEMMA InitTypeInv == Init => TypeInv
<1> SUFFICES ASSUME Init  PROVE  TypeInv
  OBVIOUS
<1> USE LedgerAssumption DEF Init
<1>1. worker \in [Worker -> Receiver] /\ \A w \in Worker : worker[w] = Idle
  BY IdleTypes
<1>2. Holding
  BY <1>1 DEF Holding, Holds, Idle
<1>3. /\ customer \in [Customer -> CustomerRow]
      /\ document \in [Request -> Document]
  BY DEF CustomerRow, Document
<1>4. /\ request \in [Request -> Content \cup {NoContent}]
      /\ contacts \in [Customer -> SUBSET Identity]
      /\ case \in [Request -> Customer \cup {NoCustomer}]
      /\ event = {} /\ disturbed = {}
  OBVIOUS
<1>5. Nothing \in [Request -> SUBSET Content]
  BY DEF Nothing
<1>6. saves \in 0..MaxSaves /\ kills \in 0..MaxKills
  OBVIOUS
<1> QED
  BY <1>1, <1>2, <1>3, <1>4, <1>5, <1>6 DEF TypeInv, TypeOK

LEMMA StepTypeInv == TypeInv /\ [Next]_vars => TypeInv'
<1> SUFFICES ASSUME TypeInv, [Next]_vars  PROVE  TypeInv'
  OBVIOUS
<1> USE LedgerAssumption
<1>1. CASE UNCHANGED vars
  BY <1>1 DEF vars, TypeInv, TypeOK, Holding, Holds
<1>2. ASSUME NEW w \in Worker, NEW x \in Request, NEW content \in Content,
             NEW who \in Identity, Save(w, x, content, who)
      PROVE  TypeInv'
  <2>1. Holding'
    BY <1>2, SaveMoves, HoldingKept DEF Holds
  <2>2. worker' \in [Worker -> Receiver]
    BY <1>2, SaveMoves
  <2> QED
    BY <1>2, <2>1, <2>2 DEF TypeInv, TypeOK, Save
<1>3. ASSUME NEW w \in Worker, Find(w)
      PROVE  TypeInv'
  <2>1. Holding'
    <3>1. worker'[w].at = "settle" /\ worker'[w].customer = NoCustomer =>
            worker'[w].lacks = Nobody
      BY <1>3, FindMoves
    <3> QED
      BY <1>3, <3>1, FindMoves, HoldingKept DEF Holds, TypeInv, Holding
  <2>2. worker' \in [Worker -> Receiver]
    BY <1>3, FindMoves
  <2> QED
    BY <1>3, <2>1, <2>2 DEF TypeInv, TypeOK, Find, bounds, history
<1>4. ASSUME NEW w \in Worker, Settle(w)
      PROVE  TypeInv'
  <2>1. Holding'
    BY <1>4, SettleMoves, HoldingKept DEF Holds, TypeInv, Holding
  <2>2. worker' \in [Worker -> Receiver]
    BY <1>4, SettleMoves
  <2>3. worker[w].who \in Identity /\ worker[w].lacks \in Who
    BY <1>4, Rows DEF TypeInv, Holding, Holds, Settle, Receiver
  <2>4. customer' \in [Customer -> CustomerRow]
    <3>1. worker[w].customer \in Customer \cup {NoCustomer}
      BY Rows DEF Receiver
    <3>2. CASE \E n \in Customer : customer' = [customer EXCEPT ![n] =
                 [status |-> "live", phone |-> worker[w].who.phone,
                  email |-> worker[w].who.email]]
      BY <2>3, <3>2 DEF TypeInv, TypeOK, CustomerRow, Identity, Who
    <3>3. CASE /\ worker[w].customer # NoCustomer
               /\ customer' = [customer EXCEPT ![worker[w].customer] =
                                 Completed(@, worker[w].lacks)]
      BY <2>3, <3>1, <3>3, CompletedTypes DEF TypeInv, TypeOK
    <3> QED
      BY <1>4, <3>2, <3>3 DEF Settle
  <2> QED
    BY <1>4, <2>1, <2>2, <2>4 DEF TypeInv, TypeOK, Settle, bounds, history
<1>5. ASSUME NEW w \in Worker, File(w)
      PROVE  TypeInv'
  <2>1. Holding'
    BY <1>5, FileMoves, HoldingKept DEF Holds, TypeInv, Holding
  <2>2. worker' \in [Worker -> Receiver]
    BY <1>5, FileMoves
  <2>3. /\ worker[w].request \in Request /\ worker[w].customer \in Customer
        /\ worker[w].who \in Identity
    BY <1>5 DEF TypeInv, Holding, Holds, File
  <2>4. /\ contacts' \in [Customer -> SUBSET Identity]
        /\ case' \in [Request -> Customer \cup {NoCustomer}]
    BY <1>5, <2>3 DEF TypeInv, TypeOK, File
  <2> QED
    BY <1>5, <2>1, <2>2, <2>4 DEF TypeInv, TypeOK, File, bounds, history
<1>6. ASSUME NEW w \in Worker, Read(w)
      PROVE  TypeInv'
  <2>1. Holding'
    BY <1>6, ReadMoves, HoldingKept DEF Holds, TypeInv, Holding
  <2>2. worker' \in [Worker -> Receiver]
    BY <1>6, ReadMoves
  <2>3. document' \in [Request -> Document]
    BY <1>6, PreservedTypes DEF TypeInv, TypeOK, Read
  <2> QED
    BY <1>6, <2>1, <2>2, <2>3 DEF TypeInv, TypeOK, Read, bounds, history
<1>7. ASSUME NEW w \in Worker, Write(w)
      PROVE  TypeInv'
  <2>1. Holding'
    BY <1>7, WriteMoves, HoldingKept DEF Holds, TypeInv, Holding
  <2>2. worker' \in [Worker -> Receiver]
    BY <1>7, WriteMoves
  <2>3. worker[w].request \in Request /\ worker[w].content \in Content
    BY <1>7 DEF TypeInv, Holding, Holds, Write
  <2>4. /\ document' \in [Request -> Document]
        /\ written' \in [Request -> SUBSET Content]
    <3>1. CASE UNCHANGED <<document, written>>
      BY <3>1 DEF TypeInv, TypeOK
    <3>2. CASE /\ document' = [document EXCEPT ![worker[w].request] =
                                 [@ EXCEPT !.content = worker[w].content]]
               /\ written' = [written EXCEPT ![worker[w].request] =
                                @ \cup {worker[w].content}]
      BY <2>3, <3>2 DEF TypeInv, TypeOK, Document
    <3> QED
      BY <1>7, <3>1, <3>2 DEF Write
  <2>5. document[worker[w].request].content \in Content \cup {NoContent}
    BY <2>3 DEF TypeInv, TypeOK, Document
  <2>6. overtaken' \in [Request -> SUBSET Content]
    <3>1. CASE UNCHANGED overtaken
      BY <3>1 DEF TypeInv, TypeOK
    <3>2. CASE overtaken' = [overtaken EXCEPT ![worker[w].request] =
                 @ \cup ({document[worker[w].request].content}
                          \ {NoContent, worker[w].seen, worker[w].content})]
      BY <2>3, <2>5, <3>2 DEF TypeInv, TypeOK
    <3> QED
      BY <1>7, <3>1, <3>2 DEF Write
  <2> QED
    BY <1>7, <2>1, <2>2, <2>4, <2>6 DEF TypeInv, TypeOK, Write, bounds
<1>8. ASSUME NEW w \in Worker, Record(w)
      PROVE  TypeInv'
  <2>1. Holding'
    BY <1>8, RecordMoves, HoldingKept DEF Holds, TypeInv, Holding
  <2>2. worker' \in [Worker -> Receiver]
    BY <1>8, RecordMoves
  <2>3. worker[w].request \in Request /\ worker[w].content \in Content
    BY <1>8 DEF TypeInv, Holding, Holds, Record
  <2>4. document' \in [Request -> Document]
    BY <1>8, <2>3 DEF TypeInv, TypeOK, Record, Document
  <2> QED
    BY <1>8, <2>1, <2>2, <2>4 DEF TypeInv, TypeOK, Record, bounds, history
<1>9. ASSUME NEW w \in Worker, Activity(w)
      PROVE  TypeInv'
  <2>1. worker' \in [Worker -> Receiver] /\ Holding'
    BY <1>9, DiesMoves, HoldingKept DEF Holds, Activity
  <2>2. worker[w].request \in Request /\ worker[w].customer \in Customer
    BY <1>9 DEF TypeInv, Holding, Holds, Activity
  <2>3. event' \subseteq [of: Customer, case: Request]
    BY <1>9, <2>2 DEF TypeInv, TypeOK, Activity
  <2> QED
    BY <1>9, <2>1, <2>3 DEF TypeInv, TypeOK, Activity, bounds, history
<1>10. ASSUME NEW w \in Worker, Refused(w) \/ Killed(w)
       PROVE  TypeInv'
  <2>1. Dies(w) /\ kills' \in 0..MaxKills
    BY <1>10 DEF Refused, Killed, TypeInv, TypeOK
  <2>2. worker' \in [Worker -> Receiver] /\ Holding'
    BY <2>1, DiesMoves, HoldingKept DEF Holds, Dies
  <2>3. worker[w].request \in Request
    BY <1>10 DEF TypeInv, Holding, Holds, Refused, Killed
  <2>4. worker[w].at = "record" => worker[w].content \in Content
    BY DEF TypeInv, Holding, Holds
  <2>5. orphaned' \in [Request -> SUBSET Content] /\ disturbed' \subseteq Request
    BY <2>1, <2>3, <2>4 DEF TypeInv, TypeOK, Dies
  <2> QED
    BY <2>1, <2>2, <2>5 DEF TypeInv, TypeOK, Dies
<1>11. ASSUME NEW s \in Customer, NEW t \in Customer, Merge(s, t)
       PROVE  TypeInv'
  <2>1. customer' \in [Customer -> CustomerRow]
    BY <1>11 DEF TypeInv, TypeOK, Merge, CustomerRow
  <2>2. contacts' \in [Customer -> SUBSET Identity]
    BY <1>11 DEF TypeInv, TypeOK, Merge
  <2>3. case' \in [Request -> Customer \cup {NoCustomer}]
    BY <1>11 DEF TypeInv, TypeOK, Merge
  <2>4. event' \subseteq [of: Customer, case: Request]
    BY <1>11 DEF TypeInv, TypeOK, Merge
  <2> QED
    BY <1>11, <2>1, <2>2, <2>3, <2>4
       DEF TypeInv, TypeOK, Merge, bounds, history, Holding, Holds
<1> QED
  BY <1>1, <1>2, <1>3, <1>4, <1>5, <1>6, <1>7, <1>8, <1>9, <1>10, <1>11
     DEF Next, Receive

-----------------------------------------------------------------------------
(* The ledger. *)

\* What a receiver filed stays filed.
Filed ==
  \A w \in Worker :
    worker[w].at \in {"read", "write", "record", "activity"} =>
      case[worker[w].request] # NoCustomer

LedgerInv == LedgerStands /\ Filed

LEMMA StepLedgerInv == TypeInv /\ LedgerInv /\ [Next]_vars => LedgerInv'
<1> SUFFICES ASSUME TypeInv, LedgerInv, [Next]_vars  PROVE  LedgerInv'
  OBVIOUS
<1> USE LedgerAssumption DEF LedgerInv
<1> DEFINE Still == UNCHANGED <<customer, contacts, case, event>>
<1>1. CASE UNCHANGED vars
  BY <1>1 DEF vars, LedgerStands, Filed, Live
<1>2. ASSUME Still  PROVE  LedgerStands'
  BY <1>2 DEF LedgerStands, Live
<1>3. ASSUME NEW w \in Worker, Others(w), UNCHANGED case,
             worker'[w].at \in {"idle", "find", "settle", "file"}
               \/ /\ worker[w].at \in {"read", "write", "record", "activity"}
                  /\ worker'[w].request = worker[w].request
      PROVE  Filed'
  BY <1>3 DEF Filed, Others
<1>4. ASSUME NEW w \in Worker, NEW x \in Request, NEW content \in Content,
             NEW who \in Identity, Save(w, x, content, who)
      PROVE  LedgerInv'
  BY <1>2, <1>3, <1>4, SaveMoves DEF Save
<1>5. ASSUME NEW w \in Worker, Find(w)
      PROVE  LedgerInv'
  BY <1>2, <1>3, <1>5, FindMoves DEF Find
<1>6. ASSUME NEW w \in Worker, Settle(w)
      PROVE  LedgerInv'
  <2>1. Filed'
    BY <1>3, <1>6, SettleMoves DEF Settle
  <2>2. worker[w].who \in Identity /\ worker[w].lacks \in Who
    BY <1>6, Rows DEF TypeInv, Holding, Holds, Settle, Receiver
  <2>3. worker[w].customer \in Customer \cup {NoCustomer}
    BY Rows DEF Receiver
  <2>4. \A c \in Customer : Live(c) => Live(c)'
    <3>1. CASE \E n \in Customer :
             /\ customer[n].status = "none"
             /\ customer' = [customer EXCEPT ![n] =
                  [status |-> "live", phone |-> worker[w].who.phone,
                   email |-> worker[w].who.email]]
      BY <3>1 DEF TypeInv, TypeOK, Live
    <3>2. CASE /\ worker[w].customer # NoCustomer
               /\ customer' = [customer EXCEPT ![worker[w].customer] =
                                 Completed(@, worker[w].lacks)]
      BY <2>2, <2>3, <3>2, CompletedTypes DEF TypeInv, TypeOK, Live
    <3> QED
      BY <1>6, <3>1, <3>2 DEF Settle
  <2>5. LedgerStands'
    BY <1>6, <2>4 DEF LedgerStands, Settle, TypeInv, TypeOK, Live
  <2> QED
    BY <2>1, <2>5
<1>7. ASSUME NEW w \in Worker, File(w)
      PROVE  LedgerInv'
  <2>1. worker[w].request \in Request /\ worker[w].customer \in Customer
    BY <1>7 DEF TypeInv, Holding, Holds, File
  <2>2. \A c : Live(c)' = Live(c)
    BY <1>7 DEF File, Live
  <2>3. /\ case'[worker[w].request] = worker[w].customer
        /\ worker[w].customer # NoCustomer /\ Live(worker[w].customer)
        /\ \A x \in Request : case'[x] \in {case[x], worker[w].customer}
        /\ \A x \in Request : case[x] # NoCustomer => case'[x] # NoCustomer
    BY <1>7, <2>1 DEF TypeInv, TypeOK, File
  <2>4. \A c \in Customer : contacts'[c] # {} =>
          contacts[c] # {} \/ c = worker[w].customer
    BY <1>7, <2>1 DEF TypeInv, TypeOK, File
  <2>5. event' = event /\ \A e \in event : e.case \in Request
    BY <1>7 DEF TypeInv, TypeOK, File
  <2>6. LedgerStands'
    BY <2>2, <2>3, <2>4, <2>5 DEF LedgerStands
  <2>7. Filed'
    <3>1. \A v \in Worker \ {w} : worker'[v] = worker[v]
      BY <1>7, FileMoves DEF Others
    <3>2. worker'[w].request = worker[w].request
      BY <1>7, FileMoves
    <3>3. \A v \in Worker :
            worker[v].at # "idle" => worker[v].request \in Request
      BY DEF TypeInv, Holding, Holds
    <3> QED
      BY <2>3, <3>1, <3>2, <3>3 DEF Filed
  <2> QED
    BY <2>6, <2>7
<1>8. ASSUME NEW w \in Worker, Read(w)
      PROVE  LedgerInv'
  BY <1>2, <1>3, <1>8, ReadMoves DEF Read
<1>9. ASSUME NEW w \in Worker, Write(w)
      PROVE  LedgerInv'
  BY <1>2, <1>3, <1>9, WriteMoves DEF Write
<1>10. ASSUME NEW w \in Worker, Record(w)
      PROVE  LedgerInv'
  BY <1>2, <1>3, <1>10, RecordMoves DEF Record
<1>11. ASSUME NEW w \in Worker, Activity(w)
      PROVE  LedgerInv'
  <2>1. Filed'
    BY <1>3, <1>11, DiesMoves DEF Activity
  <2>2. case[worker[w].request] # NoCustomer
    BY <1>11 DEF Filed, Activity
  <2>3. \A e \in event' : \/ e \in event
                          \/ /\ e.of = worker[w].customer /\ Live(e.of)
                             /\ e.case = worker[w].request
    BY <1>11 DEF Activity
  <2>4. \A c : Live(c)' = Live(c)
    BY <1>11 DEF Activity, Live
  <2> QED
    BY <1>11, <2>1, <2>2, <2>3, <2>4 DEF LedgerStands, Activity
<1>12. ASSUME NEW w \in Worker, Refused(w) \/ Killed(w)
       PROVE  LedgerInv'
  <2>1. Dies(w)
    BY <1>12 DEF Refused, Killed
  <2> QED
    BY <1>2, <1>3, <2>1, DiesMoves DEF Dies
<1>13. ASSUME NEW s \in Customer, NEW t \in Customer, Merge(s, t)
       PROVE  LedgerInv'
  <2>1. Live(t) /\ t # s /\ t # NoCustomer
    BY <1>13 DEF Merge, Mergeable, Live
  <2>2. \A c \in Customer \ {s} : Live(c) => Live(c)'
    BY <1>13 DEF Merge, TypeInv, TypeOK, Live
  <2>3. \A x \in Request : case'[x] = IF case[x] = s THEN t ELSE case[x]
    BY <1>13 DEF Merge
  <2>4. contacts'[s] = {}
        /\ \A c \in Customer \ {s, t} : contacts'[c] = contacts[c]
    BY <1>13, <2>1 DEF Merge, TypeInv, TypeOK
  <2>5. \A e \in event' : \/ e \in event /\ e.of # s
                          \/ e.of = t /\ e.case \in Request /\ case'[e.case] = t
    BY <1>13, <2>3 DEF Merge, Protected
  <2>6. \A e \in event : e.of \in Customer /\ e.case \in Request
    BY DEF TypeInv, TypeOK
  <2>7. \A x \in Request : case[x] \in Customer \cup {NoCustomer}
    BY DEF TypeInv, TypeOK
  <2>8. LedgerStands'
    BY <2>1, <2>2, <2>3, <2>4, <2>5, <2>6, <2>7 DEF LedgerStands
  <2>9. \A w \in Worker : worker[w].at # "idle" => worker[w].request \in Request
    BY DEF TypeInv, Holding, Holds
  <2>10. Filed'
    BY <1>13, <2>1, <2>3, <2>9 DEF Filed, Merge
  <2> QED
    BY <2>8, <2>10
<1> QED
  BY <1>1, <1>4, <1>5, <1>6, <1>7, <1>8, <1>9, <1>10, <1>11, <1>12, <1>13
     DEF Next, Receive

-----------------------------------------------------------------------------
(* Snapshots. *)

Recording(x, content) ==
  \E w \in Worker : /\ worker[w].at = "record" /\ worker[w].request = x
                    /\ worker[w].content = content

\* A snapshot that is not on record is about to be, unless its writer died; and
\* it is the document's, unless one that had not read it wrote over it.
Saved(x) ==
  \A content \in written[x] \ document[x].revisions :
    /\ Recording(x, content) \/ content \in orphaned[x]
    /\ document[x].content = content \/ content \in overtaken[x]

\* What a receiver has read is on record.
SeenKept ==
  \A w \in Worker :
    worker[w].at = "write" =>
      worker[w].seen \in document[worker[w].request].revisions \cup {NoContent}

SnapshotInv == SeenKept /\ \A x \in Request : Saved(x)

LEMMA SnapshotInvEnough == SnapshotInv => SnapshotsKept
BY DEF SnapshotInv, Saved, Recording, SnapshotsKept

LEMMA StepSnapshotInv == TypeInv /\ SnapshotInv /\ [Next]_vars => SnapshotInv'
<1> SUFFICES ASSUME TypeInv, SnapshotInv, [Next]_vars  PROVE  SnapshotInv'
  OBVIOUS
<1> USE LedgerAssumption DEF SnapshotInv
<1> DEFINE Still == UNCHANGED <<document, written, orphaned, overtaken>>
<1>1. CASE UNCHANGED vars
  BY <1>1 DEF vars, Saved, Recording, SeenKept
<1>2. ASSUME NEW w \in Worker, Others(w), Still, worker[w].at # "record",
             worker'[w].at # "write"
      PROVE  SnapshotInv'
  <2>1. SeenKept'
    BY <1>2 DEF SeenKept, Others
  <2>2. ASSUME NEW x \in Request, NEW content, Recording(x, content)
        PROVE  Recording(x, content)'
    BY <1>2, <2>2 DEF Recording, Others
  <2> QED
    BY <1>2, <2>1, <2>2 DEF Saved
<1>3. ASSUME NEW w \in Worker, NEW x \in Request, NEW content \in Content,
             NEW who \in Identity, Save(w, x, content, who)
      PROVE  SnapshotInv'
  BY <1>2, <1>3, SaveMoves DEF Save
<1>4. ASSUME NEW w \in Worker, Find(w)
      PROVE  SnapshotInv'
  BY <1>2, <1>4, FindMoves DEF Find, history
<1>5. ASSUME NEW w \in Worker, Settle(w)
      PROVE  SnapshotInv'
  BY <1>2, <1>5, SettleMoves DEF Settle, history
<1>6. ASSUME NEW w \in Worker, File(w)
      PROVE  SnapshotInv'
  BY <1>2, <1>6, FileMoves DEF File, history
<1>7. ASSUME NEW w \in Worker, Activity(w)
      PROVE  SnapshotInv'
  BY <1>2, <1>7, DiesMoves DEF Activity, history
<1>8. ASSUME NEW w \in Worker, Read(w)
      PROVE  SnapshotInv'
  <2>1. worker[w].request \in Request
    BY <1>8 DEF TypeInv, Holding, Holds, Read
  <2>2. /\ \A x \in Request : document[x] \in Document
        /\ \A x \in Request \ {worker[w].request} : document'[x] = document[x]
        /\ document'[worker[w].request] = Preserved(document[worker[w].request])
    BY <1>8, <2>1 DEF TypeInv, TypeOK, Read
  <2>3. \A x \in Request : /\ document'[x].content = document[x].content
                           /\ document[x].revisions \subseteq document'[x].revisions
    BY <2>2, PreservedTypes
  <2>4. SeenKept'
    <3> SUFFICES ASSUME NEW v \in Worker, worker'[v].at = "write"
                 PROVE  worker'[v].seen \in
                          document'[worker'[v].request].revisions \cup {NoContent}
      BY DEF SeenKept
    <3>1. CASE v = w
      BY <1>8, <2>1, <2>2, <3>1, ReadMoves, PreservedTypes
    <3>2. CASE v # w
      <4>1. worker'[v] = worker[v]
        BY <1>8, <3>2, ReadMoves DEF Others
      <4>2. worker[v].request \in Request
        BY <4>1 DEF TypeInv, Holding, Holds
      <4> QED
        BY <2>3, <4>1, <4>2 DEF SeenKept
    <3> QED
      BY <3>1, <3>2
  <2>5. ASSUME NEW x \in Request, NEW content, Recording(x, content)
        PROVE  Recording(x, content)'
    BY <1>8, <2>5, ReadMoves DEF Recording, Others
  <2>6. UNCHANGED <<written, orphaned, overtaken>>
    BY <1>8 DEF Read, history
  <2> QED
    BY <2>3, <2>4, <2>5, <2>6 DEF Saved
<1>9. ASSUME NEW w \in Worker, Write(w)
      PROVE  SnapshotInv'
  <2>1. PICK y \in Request : y = worker[w].request
    BY <1>9 DEF TypeInv, Holding, Holds, Write
  <2>2. /\ UNCHANGED orphaned
        /\ \A x \in Request : document'[x].revisions = document[x].revisions
        /\ \A x \in Request \ {y} : /\ document'[x] = document[x]
                                    /\ written'[x] = written[x]
                                    /\ overtaken'[x] = overtaken[x]
    BY <1>9, <2>1 DEF TypeInv, TypeOK, Document, Write
  <2>3. SeenKept'
    <3> SUFFICES ASSUME NEW v \in Worker, worker'[v].at = "write"
                 PROVE  worker'[v].seen \in
                          document'[worker'[v].request].revisions \cup {NoContent}
      BY DEF SeenKept
    <3>1. v # w /\ worker'[v] = worker[v]
      BY <1>9, WriteMoves DEF Others
    <3>2. worker[v].request \in Request
      BY <3>1 DEF TypeInv, Holding, Holds
    <3> QED
      BY <2>2, <3>1, <3>2 DEF SeenKept
  <2>4. ASSUME NEW x \in Request, NEW content, Recording(x, content)
        PROVE  Recording(x, content)'
    BY <1>9, <2>4, WriteMoves DEF Recording, Others
  <2>5. \A content : content = worker[w].content => Recording(y, content)'
    BY <1>9, <2>1, WriteMoves DEF Recording
  <2>6. ASSUME NEW x \in Request \ {y}
        PROVE  Saved(x)'
    BY <2>2, <2>4, <2>6 DEF Saved
  <2>7. Saved(y)'
    <3> SUFFICES ASSUME NEW content \in written'[y] \ document'[y].revisions
                 PROVE  /\ Recording(y, content)' \/ content \in orphaned'[y]
                        /\ \/ document'[y].content = content
                           \/ content \in overtaken'[y]
      BY DEF Saved
    <3>1. CASE UNCHANGED <<document, written, overtaken>>
      BY <2>1, <2>2, <2>4, <3>1 DEF Saved
    <3>2. CASE /\ document' = [document EXCEPT ![y].content = worker[w].content]
               /\ written' = [written EXCEPT ![y] = @ \cup {worker[w].content}]
               /\ overtaken' = [overtaken EXCEPT ![y] =
                    @ \cup ({document[y].content}
                             \ {NoContent, worker[w].seen, worker[w].content})]
      <4>1. /\ document'[y].content = worker[w].content
            /\ written'[y] = written[y] \cup {worker[w].content}
            /\ overtaken'[y] = overtaken[y] \cup ({document[y].content}
                 \ {NoContent, worker[w].seen, worker[w].content})
        BY <2>1, <3>2 DEF TypeInv, TypeOK, Document
      <4>2. CASE content = worker[w].content
        BY <2>5, <4>1, <4>2
      <4>3. CASE content # worker[w].content
        <5>1. content \in written[y] \ document[y].revisions
          BY <2>1, <2>2, <4>1, <4>3
        <5>2. content \in Content /\ content # NoContent
          BY <2>1, <5>1 DEF TypeInv, TypeOK
        <5>3. content # worker[w].seen
          BY <1>9, <2>1, <5>1, <5>2 DEF SeenKept, Write
        <5> QED
          BY <2>1, <2>2, <2>4, <4>1, <4>3, <5>1, <5>2, <5>3 DEF Saved
      <4> QED
        BY <4>2, <4>3
    <3> QED
      BY <1>9, <2>1, <3>1, <3>2 DEF Write
  <2> QED
    BY <2>3, <2>6, <2>7
<1>10. ASSUME NEW w \in Worker, Record(w)
       PROVE  SnapshotInv'
  <2> DEFINE y == worker[w].request
  <2>1. y \in Request
    BY <1>10 DEF TypeInv, Holding, Holds, Record
  <2>2. /\ UNCHANGED <<written, orphaned, overtaken>>
        /\ \A x \in Request : document'[x].content = document[x].content
        /\ \A x \in Request \ {y} : document'[x] = document[x]
        /\ document'[y].revisions = document[y].revisions \cup {worker[w].content}
    BY <1>10, <2>1 DEF TypeInv, TypeOK, Document, Record, history
  <2>3. SeenKept'
    <3> SUFFICES ASSUME NEW v \in Worker, worker'[v].at = "write"
                 PROVE  worker'[v].seen \in
                          document'[worker'[v].request].revisions \cup {NoContent}
      BY DEF SeenKept
    <3>1. v # w /\ worker'[v] = worker[v]
      BY <1>10, RecordMoves DEF Others
    <3>2. worker[v].request \in Request
      BY <3>1 DEF TypeInv, Holding, Holds
    <3> QED
      BY <2>2, <3>1, <3>2 DEF SeenKept
  <2>4. ASSUME NEW x \in Request, NEW content, Recording(x, content),
               x # y \/ content # worker[w].content
        PROVE  Recording(x, content)'
    BY <1>10, <2>4, RecordMoves DEF Recording, Others
  <2>5. \A x \in Request : Saved(x)'
    BY <2>1, <2>2, <2>4 DEF Saved
  <2> QED
    BY <2>3, <2>5
<1>11. ASSUME NEW w \in Worker, Refused(w) \/ Killed(w)
       PROVE  SnapshotInv'
  <2> DEFINE y == worker[w].request
  <2>1. Dies(w) /\ y \in Request
    BY <1>11 DEF Refused, Killed, TypeInv, Holding, Holds
  <2>2. /\ UNCHANGED <<document, written, overtaken>>
        /\ \A x \in Request : orphaned[x] \subseteq orphaned'[x]
        /\ worker[w].at = "record" => worker[w].content \in orphaned'[y]
    BY <2>1 DEF TypeInv, TypeOK, Dies
  <2>3. SeenKept'
    BY <2>1, <2>2, DiesMoves DEF SeenKept, Others, Dies
  <2>4. ASSUME NEW x \in Request, NEW content, Recording(x, content)
        PROVE  Recording(x, content)' \/ content \in orphaned'[x]
    BY <2>1, <2>2, <2>4, DiesMoves DEF Recording, Others, Dies
  <2>5. \A x \in Request : Saved(x)'
    BY <2>2, <2>4 DEF Saved
  <2> QED
    BY <2>3, <2>5
<1>12. ASSUME NEW s \in Customer, NEW t \in Customer, Merge(s, t)
       PROVE  SnapshotInv'
  BY <1>12 DEF Merge, history, Saved, Recording, SeenKept
<1> QED
  BY <1>1, <1>3, <1>4, <1>5, <1>6, <1>7, <1>8, <1>9, <1>10, <1>11, <1>12
     DEF Next, Receive

-----------------------------------------------------------------------------
(* Requests on record. *)

HasEvent(x) == \E e \in event : e.case = x

OnRecord(x) ==
  /\ case[x] # NoCustomer
  /\ document[x].content = request[x]
  /\ request[x] \in document[x].revisions
  /\ HasEvent(x)

\* How far a receiver of an undisturbed request has brought it.
Brought(w, x) ==
  LET r == worker[w] IN
  /\ request[x] # NoContent
  /\ r.at \in {"find", "settle", "file", "read", "write", "record"} =>
       r.content = request[x]
  /\ r.at \in {"find", "settle", "file"} => case[x] = NoCustomer \/ HasEvent(x)
  /\ r.at \in {"read", "write", "record", "activity"} =>
       case[x] # NoCustomer /\ (r.new \/ HasEvent(x))
  /\ r.at = "write" => r.seen = document[x].content
  /\ r.at \in {"record", "activity"} => document[x].content = request[x]
  /\ r.at = "activity" => request[x] \in document[x].revisions

Tracked(x) ==
  /\ \A v, w \in Worker :
       worker[v].request = x /\ worker[w].request = x => v = w
  /\ \A w \in Worker : worker[w].request = x => Brought(w, x)
  /\ ~Busy(x) => IF request[x] = NoContent THEN case[x] = NoCustomer
                  ELSE OnRecord(x)

TrackInv == \A x \in Request : x \notin disturbed => Tracked(x)

LEMMA TrackInvEnough == TypeInv /\ LedgerInv /\ TrackInv => RequestsOnRecord
BY DEF TrackInv, Tracked, OnRecord, HasEvent, LedgerInv, LedgerStands,
       RequestsOnRecord

\* A step that leaves a request, its case and document alone, and its receivers.
LEMMA Untouched ==
  ASSUME NEW x \in Request, Tracked(x), event \subseteq event',
         request'[x] = request[x], document'[x] = document[x],
         case'[x] # NoCustomer <=> case[x] # NoCustomer,
         \A w \in Worker : \/ worker'[w] = worker[w]
                           \/ worker'[w].request # x /\ worker[w].request # x
  PROVE  Tracked(x)'
<1>1. HasEvent(x) => HasEvent(x)'
  BY DEF HasEvent
<1>2. \A w \in Worker : /\ worker'[w].request = x <=> worker[w].request = x
                        /\ worker'[w].request = x => worker'[w] = worker[w]
  OBVIOUS
<1>3. Busy(x)' <=> Busy(x)
  BY <1>2 DEF Busy
<1> QED
  BY <1>1, <1>2, <1>3 DEF Tracked, Brought, OnRecord

\* The only receiver of a request goes on, or is done.
LEMMA Advanced ==
  ASSUME NEW x \in Request, NEW w \in Worker, Others(w), Tracked(x),
         worker[w].request = x,
         \/ worker'[w].request = x /\ Brought(w, x)'
         \/ worker'[w].request # x /\ OnRecord(x)' /\ request'[x] # NoContent
  PROVE  Tracked(x)'
<1>1. \A v \in Worker \ {w} : worker'[v].request # x
  BY DEF Tracked, Others
<1>2. CASE worker'[w].request = x /\ Brought(w, x)'
  BY <1>1, <1>2 DEF Tracked, Busy
<1>3. CASE worker'[w].request # x /\ OnRecord(x)' /\ request'[x] # NoContent
  BY <1>1, <1>3 DEF Tracked, Busy
<1> QED
  BY <1>2, <1>3

LEMMA StepTrackInv ==
  TypeInv /\ LedgerInv /\ TrackInv /\ [Next]_vars => TrackInv'
<1> SUFFICES ASSUME TypeInv, LedgerInv, TrackInv, [Next]_vars,
                    NEW x \in Request, x \notin disturbed'
             PROVE  Tracked(x)'
  BY DEF TrackInv
<1> USE LedgerAssumption
<1>1. x \notin disturbed => Tracked(x)
  BY DEF TrackInv
<1>2. \A w \in Worker : worker[w].at # "idle" => worker[w].request \in Request
  BY DEF TypeInv, Holding, Holds
<1>3. CASE UNCHANGED vars
  BY <1>1, <1>3, Untouched DEF vars
<1>4. ASSUME NEW w \in Worker, NEW y \in Request, NEW content \in Content,
             NEW who \in Identity, Save(w, y, content, who)
      PROVE  Tracked(x)'
  <2>1. /\ UNCHANGED <<case, document, event>> /\ x \notin disturbed
        /\ request'[x] = IF x = y THEN content ELSE request[x]
        /\ x = y => ~Busy(x)
    BY <1>4 DEF Save, TypeInv, TypeOK
  <2>2. worker[w].request = NoRequest
    BY <1>4, SaveMoves DEF TypeInv, Holding, Holds
  <2>3. CASE x # y
    BY <1>1, <1>4, <2>1, <2>2, <2>3, SaveMoves, Untouched DEF Others
  <2>4. CASE x = y
    <3>1. \A v \in Worker \ {w} : worker'[v].request # x
      BY <1>4, <2>1, <2>4, SaveMoves DEF Busy, Others
    <3>2. worker'[w].request = x /\ Busy(x)'
      BY <1>4, <2>4, SaveMoves DEF Busy
    <3>3. case[x] = NoCustomer \/ HasEvent(x)
      BY <1>1, <2>1, <2>4 DEF Tracked, OnRecord
    <3>4. HasEvent(x)' <=> HasEvent(x)
      BY <2>1 DEF HasEvent
    <3>5. Brought(w, x)'
      BY <1>4, <2>1, <2>4, <3>3, <3>4, SaveMoves DEF Brought
    <3> QED
      BY <3>1, <3>2, <3>5 DEF Tracked
  <2> QED
    BY <2>3, <2>4
<1>5. ASSUME NEW w \in Worker, Find(w)
      PROVE  Tracked(x)'
  <2>1. /\ UNCHANGED <<request, case, document, event>> /\ x \notin disturbed
        /\ worker'[w].request = worker[w].request
    BY <1>5, FindMoves DEF Find, history
  <2>2. CASE worker[w].request # x
    BY <1>1, <1>5, <2>1, <2>2, FindMoves, Untouched DEF Others
  <2>3. CASE worker[w].request = x
    <3>1. Brought(w, x)
      BY <1>1, <2>1, <2>3 DEF Tracked
    <3>2. Brought(w, x)'
      BY <1>5, <2>1, <3>1, FindMoves DEF Brought, HasEvent
    <3> QED
      BY <1>1, <1>5, <2>1, <2>3, <3>2, FindMoves, Advanced
  <2> QED
    BY <2>2, <2>3
<1>6. ASSUME NEW w \in Worker, Settle(w)
      PROVE  Tracked(x)'
  <2>1. /\ UNCHANGED <<request, case, document, event>> /\ x \notin disturbed
        /\ worker'[w].request = worker[w].request
    BY <1>6, SettleMoves DEF Settle, history
  <2>2. CASE worker[w].request # x
    BY <1>1, <1>6, <2>1, <2>2, SettleMoves, Untouched DEF Others
  <2>3. CASE worker[w].request = x
    <3>1. Brought(w, x)
      BY <1>1, <2>1, <2>3 DEF Tracked
    <3>2. Brought(w, x)'
      BY <1>6, <2>1, <3>1, SettleMoves DEF Brought, HasEvent
    <3> QED
      BY <1>1, <1>6, <2>1, <2>3, <3>2, SettleMoves, Advanced
  <2> QED
    BY <2>2, <2>3
<1>7. ASSUME NEW w \in Worker, File(w)
      PROVE  Tracked(x)'
  <2>1. /\ UNCHANGED <<request, document, event>> /\ x \notin disturbed
        /\ worker'[w].request = worker[w].request
        /\ worker[w].request # x => case'[x] = case[x]
        /\ worker[w].request = x => case'[x] # NoCustomer
    <3>1. worker[w].request \in Request /\ worker[w].customer \in Customer
      BY <1>7 DEF TypeInv, Holding, Holds, File
    <3> QED
      BY <1>7, <3>1, FileMoves DEF File, history, TypeInv, TypeOK
  <2>2. CASE worker[w].request # x
    BY <1>1, <1>7, <2>1, <2>2, FileMoves, Untouched DEF Others
  <2>3. CASE worker[w].request = x
    <3>1. Brought(w, x)
      BY <1>1, <2>1, <2>3 DEF Tracked
    <3>2. Brought(w, x)'
      BY <1>7, <2>1, <2>3, <3>1, FileMoves DEF Brought, HasEvent
    <3> QED
      BY <1>1, <1>7, <2>1, <2>3, <3>2, FileMoves, Advanced
  <2> QED
    BY <2>2, <2>3
<1>8. ASSUME NEW w \in Worker, Read(w)
      PROVE  Tracked(x)'
  <2>1. /\ UNCHANGED <<request, case, event>> /\ x \notin disturbed
        /\ worker'[w].request = worker[w].request
        /\ worker[w].request # x => document'[x] = document[x]
        /\ document'[x].content = document[x].content
    BY <1>8, <1>2, ReadMoves, PreservedTypes DEF Read, history, TypeInv, TypeOK
  <2>2. CASE worker[w].request # x
    BY <1>1, <1>8, <2>1, <2>2, ReadMoves, Untouched DEF Others
  <2>3. CASE worker[w].request = x
    <3>1. Brought(w, x)
      BY <1>1, <2>1, <2>3 DEF Tracked
    <3>2. Brought(w, x)'
      BY <1>8, <2>1, <2>3, <3>1, ReadMoves DEF Brought, HasEvent
    <3> QED
      BY <1>1, <1>8, <2>1, <2>3, <3>2, ReadMoves, Advanced
  <2> QED
    BY <2>2, <2>3
<1>9. ASSUME NEW w \in Worker, Write(w)
      PROVE  Tracked(x)'
  <2>1. /\ UNCHANGED <<request, case, event>> /\ x \notin disturbed
        /\ worker'[w].request = worker[w].request
        /\ worker[w].request # x => document'[x] = document[x]
    BY <1>9, <1>2, WriteMoves DEF Write, TypeInv, TypeOK
  <2>2. CASE worker[w].request # x
    BY <1>1, <1>9, <2>1, <2>2, WriteMoves, Untouched DEF Others
  <2>3. CASE worker[w].request = x
    <3>1. Brought(w, x)
      BY <1>1, <2>1, <2>3 DEF Tracked
    <3>2. document'[x].content = worker[w].content
      <4>1. CASE Changes(w) /\ document' =
                   [document EXCEPT ![x].content = worker[w].content]
        BY <4>1 DEF TypeInv, TypeOK, Document
      <4>2. CASE ~Changes(w) /\ UNCHANGED document
        BY <1>9, <3>1, <4>2 DEF Brought, Changes, Write
      <4> QED
        BY <1>9, <2>3, <4>1, <4>2 DEF Write
    <3>3. Brought(w, x)'
      BY <1>9, <2>1, <3>1, <3>2, WriteMoves DEF Brought, HasEvent
    <3> QED
      BY <1>1, <1>9, <2>1, <2>3, <3>3, WriteMoves, Advanced
  <2> QED
    BY <2>2, <2>3
<1>10. ASSUME NEW w \in Worker, Record(w)
       PROVE  Tracked(x)'
  <2>1. /\ UNCHANGED <<request, case, event>> /\ x \notin disturbed
        /\ worker'[w].request = worker[w].request
        /\ worker[w].request # x => document'[x] = document[x]
        /\ document'[x].content = document[x].content
        /\ worker[w].request = x =>
             worker[w].content \in document'[x].revisions
    <3>1. /\ UNCHANGED <<request, case, event>> /\ x \notin disturbed
          /\ worker'[w].request = worker[w].request
      BY <1>10, RecordMoves DEF Record, history
    <3>2. PICK y \in Request : y = worker[w].request
      BY <1>2, <1>10 DEF Record
    <3>3. document' = [document EXCEPT ![y].revisions = @ \cup {worker[w].content}]
      BY <1>10, <3>2 DEF Record
    <3>4. document[x] \in Document /\ document[y] \in Document
      BY DEF TypeInv, TypeOK
    <3> QED
      BY <3>1, <3>2, <3>3, <3>4 DEF TypeInv, TypeOK, Document
  <2>2. CASE worker[w].request # x
    BY <1>1, <1>10, <2>1, <2>2, RecordMoves, Untouched DEF Others
  <2>3. CASE worker[w].request = x
    <3>1. Brought(w, x)
      BY <1>1, <2>1, <2>3 DEF Tracked
    <3>2. Brought(w, x)'
      BY <1>10, <2>1, <2>3, <3>1, RecordMoves DEF Brought, HasEvent
    <3> QED
      BY <1>1, <1>10, <2>1, <2>3, <3>2, RecordMoves, Advanced
  <2> QED
    BY <2>2, <2>3
<1>11. ASSUME NEW w \in Worker, Activity(w)
       PROVE  Tracked(x)'
  <2>1. /\ UNCHANGED <<request, case, document>> /\ x \notin disturbed
        /\ event \subseteq event'
        /\ worker[w].new =>
             [of |-> worker[w].customer, case |-> worker[w].request] \in event'
        /\ worker'[w].request = NoRequest /\ Others(w)
    BY <1>11, DiesMoves DEF Activity, history
  <2>2. CASE worker[w].request # x
    BY <1>1, <2>1, <2>2, Untouched DEF Others
  <2>3. CASE worker[w].request = x
    <3>1. Brought(w, x) /\ worker[w].at = "activity"
      BY <1>1, <1>11, <2>1, <2>3 DEF Tracked, Activity
    <3>2. HasEvent(x)'
      BY <2>1, <2>3, <3>1 DEF Brought, HasEvent
    <3>3. OnRecord(x)' /\ request'[x] # NoContent
      BY <2>1, <3>1, <3>2 DEF Brought, OnRecord
    <3> QED
      BY <1>1, <2>1, <2>3, <3>3, Advanced
  <2> QED
    BY <2>2, <2>3
<1>12. ASSUME NEW w \in Worker, Refused(w) \/ Killed(w)
       PROVE  Tracked(x)'
  <2>1. Dies(w)
    BY <1>12 DEF Refused, Killed
  <2>2. /\ worker[w].request # x /\ x \notin disturbed
        /\ UNCHANGED <<request, case, document, event>>
    BY <2>1 DEF Dies
  <2>3. worker'[w].request = NoRequest /\ Others(w)
    BY <2>1, DiesMoves DEF Dies
  <2> QED
    BY <1>1, <2>2, <2>3, Untouched DEF Others
<1>13. ASSUME NEW s \in Customer, NEW t \in Customer, Merge(s, t)
       PROVE  Tracked(x)'
  <2>1. /\ UNCHANGED <<request, document, worker>> /\ x \notin disturbed
        /\ event \subseteq event'
        /\ case'[x] # NoCustomer <=> case[x] # NoCustomer
    BY <1>13 DEF Merge, history
  <2> QED
    BY <1>1, <2>1, Untouched
<1> QED
  BY <1>3, <1>4, <1>5, <1>6, <1>7, <1>8, <1>9, <1>10, <1>11, <1>12, <1>13
     DEF Next, Receive

-----------------------------------------------------------------------------
(* The ledger implements the customer book. *)

\* What a receiver is about to rely on: the contact it knows of is there,
\* unless the customer was merged away; what it has read or is about to record
\* the document has shown.
Fine(w) ==
  LET r == worker[w] IN
  /\ r.at \in {"find", "settle"} => ~r.known
  /\ r.at = "file" /\ r.known =>
       customer[r.customer].status = "gone" \/ contacts[r.customer] # {}
  /\ r.at = "write" => r.seen \in written[r.request] \cup {NoContent}
  /\ r.at = "record" => r.content \in written[r.request]

ShownFirst == \A x \in Request : document[x].content \in written[x] \cup {NoContent}

BookInv == ShownFirst /\ \A w \in Worker : Fine(w)

\* What was shown and who has contacts stays, but for who is merged away.
Grown ==
  /\ \A x \in Request : written[x] \subseteq written'[x]
  /\ \A c \in Customer :
       customer[c].status = "gone" \/ contacts[c] # {} =>
         customer'[c].status = "gone" \/ contacts'[c] # {}

LEMMA FineStays ==
  ASSUME TypeInv, Grown, NEW w \in Worker, Fine(w), worker'[w] = worker[w]
  PROVE  Fine(w)'
<1>1. /\ worker[w].at \in {"write", "record"} => worker[w].request \in Request
      /\ worker[w].at = "file" => worker[w].customer \in Customer
  BY DEF TypeInv, Holding, Holds
<1> QED
  BY <1>1 DEF Fine, Grown

LEMMA FineSettled ==
  ASSUME TypeInv, NEW w \in Worker, Fine(w), Settle(w)
  PROVE  Fine(w)'
<1>1. contacts' = contacts
  BY DEF Settle
<1>2. CASE worker[w].customer = NoCustomer
  BY <1>2, SettleMoves DEF Fine
<1>3. CASE worker[w].customer # NoCustomer
  BY <1>1, <1>3, SettleMoves DEF Fine, KnownContact
<1> QED
  BY <1>2, <1>3

LEMMA StepGrown ==
  ASSUME TypeInv, [Next]_vars
  PROVE  Grown
<1>1. CASE UNCHANGED vars
  BY <1>1 DEF vars, Grown
<1>2. ASSUME NEW w \in Worker, NEW x \in Request, NEW content \in Content,
             NEW who \in Identity, Save(w, x, content, who)
      PROVE  Grown
  BY <1>2 DEF Save, Grown
<1>3. ASSUME NEW w \in Worker, \/ Find(w) \/ Read(w) \/ Record(w)
                               \/ Activity(w) \/ Refused(w) \/ Killed(w)
      PROVE  Grown
  BY <1>3 DEF Find, Read, Record, Activity, Refused, Killed, Dies, Grown, history
<1>4. ASSUME NEW w \in Worker, Settle(w)
      PROVE  Grown
  <2>1. UNCHANGED <<contacts, written>>
    BY <1>4 DEF Settle, history
  <2>2. CASE \E n \in Customer :
               /\ customer[n].status = "none"
               /\ customer' = [customer EXCEPT ![n] =
                    [status |-> "live", phone |-> worker[w].who.phone,
                     email |-> worker[w].who.email]]
    BY <2>1, <2>2 DEF Grown, TypeInv, TypeOK
  <2>3. CASE customer' = [customer EXCEPT ![worker[w].customer] =
                            Completed(@, worker[w].lacks)]
    <3>1. worker[w].lacks \in Who
      BY Rows DEF Receiver
    <3>2. \A c \in Customer : customer'[c].status = customer[c].status
      BY <2>3, <3>1, CompletedTypes DEF TypeInv, TypeOK
    <3> QED
      BY <2>1, <3>2 DEF Grown
  <2> QED
    BY <1>4, <2>2, <2>3 DEF Settle
<1>5. ASSUME NEW w \in Worker, File(w)
      PROVE  Grown
  <2>1. UNCHANGED <<customer, written>>
    BY <1>5 DEF File, history
  <2>2. \A c \in Customer : contacts[c] \subseteq contacts'[c]
    BY <1>5 DEF File, TypeInv, TypeOK
  <2> QED
    BY <2>1, <2>2 DEF Grown
<1>6. ASSUME NEW w \in Worker, Write(w)
      PROVE  Grown
  <2>1. UNCHANGED <<customer, contacts>>
    BY <1>6 DEF Write
  <2>2. \A x \in Request : written[x] \subseteq written'[x]
    BY <1>6 DEF Write, TypeInv, TypeOK
  <2> QED
    BY <2>1, <2>2 DEF Grown
<1>7. ASSUME NEW s \in Customer, NEW t \in Customer, Merge(s, t)
      PROVE  Grown
  <2>1. /\ written' = written /\ s # t
        /\ customer' = [customer EXCEPT ![s].status = "gone"]
        /\ contacts' = [contacts EXCEPT ![t] = @ \cup contacts[s], ![s] = {}]
    BY <1>7 DEF Merge, Mergeable, history
  <2>2. customer'[s].status = "gone"
    BY <2>1 DEF TypeInv, TypeOK, CustomerRow
  <2>3. \A c \in Customer \ {s} : /\ customer'[c] = customer[c]
                                  /\ contacts[c] \subseteq contacts'[c]
    BY <2>1 DEF TypeInv, TypeOK
  <2> QED
    BY <2>1, <2>2, <2>3 DEF Grown
<1> QED
  BY <1>1, <1>2, <1>3, <1>4, <1>5, <1>6, <1>7 DEF Next, Receive

LEMMA StepBookInv == TypeInv /\ BookInv /\ [Next]_vars => BookInv'
<1> SUFFICES ASSUME TypeInv, BookInv, [Next]_vars  PROVE  BookInv'
  OBVIOUS
<1>1. Grown
  BY StepGrown
<1>2. ASSUME NEW w \in Worker, Others(w), Fine(w)'
      PROVE  \A v \in Worker : Fine(v)'
  BY <1>1, <1>2, FineStays DEF BookInv, Others
<1>3. ASSUME UNCHANGED <<document, written>>  PROVE  ShownFirst'
  BY <1>3 DEF BookInv, ShownFirst
<1>4. CASE UNCHANGED vars
  BY <1>3, <1>4 DEF vars, BookInv, Fine
<1>5. ASSUME NEW w \in Worker, NEW x \in Request, NEW content \in Content,
             NEW who \in Identity, Save(w, x, content, who)
      PROVE  BookInv'
  <2>1. worker'[w].at = "find" /\ ~worker'[w].known /\ Others(w)
    BY <1>5, SaveMoves DEF Save, TypeInv, TypeOK, Becomes, Idle
  <2> QED
    BY <1>2, <1>3, <1>5, <2>1 DEF Save, Fine, BookInv
<1>6. ASSUME NEW w \in Worker, Find(w)
      PROVE  BookInv'
  <2>1. worker'[w].at = "settle" /\ worker'[w].known = worker[w].known /\ Others(w)
    BY <1>6, FindMoves
  <2>2. ~worker[w].known
    BY <1>6 DEF BookInv, Fine, Find
  <2> QED
    BY <1>2, <1>3, <1>6, <2>1, <2>2 DEF Find, history, Fine, BookInv
<1>7. ASSUME NEW w \in Worker, Settle(w)
      PROVE  BookInv'
  <2>1. Others(w) /\ Fine(w)'
    BY <1>7, SettleMoves, FineSettled DEF BookInv
  <2> QED
    BY <1>2, <1>3, <1>7, <2>1 DEF Settle, history, BookInv
<1>8. ASSUME NEW w \in Worker, File(w)
      PROVE  BookInv'
  BY <1>2, <1>3, <1>8, FileMoves DEF File, history, Fine, BookInv
<1>9. ASSUME NEW w \in Worker, Read(w)
      PROVE  BookInv'
  <2> DEFINE x == worker[w].request
  <2>1. x \in Request /\ document[x] \in Document
    BY <1>9 DEF TypeInv, TypeOK, Holding, Holds, Read
  <2>2. document' = [document EXCEPT ![x] = Preserved(@)] /\ written' = written
    BY <1>9 DEF Read, history
  <2>3. \A y \in Request : document'[y].content = document[y].content
    BY <2>1, <2>2, PreservedTypes DEF TypeInv, TypeOK
  <2>4. document[x].content \in written[x] \cup {NoContent}
    BY <2>1 DEF BookInv, ShownFirst
  <2>5. Fine(w)'
    BY <1>9, <2>2, <2>4, ReadMoves DEF Fine
  <2>6. ShownFirst'
    BY <2>2, <2>3 DEF BookInv, ShownFirst
  <2> QED
    BY <1>2, <1>9, <2>5, <2>6, ReadMoves DEF BookInv
<1>10. ASSUME NEW w \in Worker, Write(w)
       PROVE  BookInv'
  <2>1. PICK x \in Request : x = worker[w].request
    BY <1>10 DEF TypeInv, Holding, Holds, Write
  <2>2. /\ worker[w].content \in Content
        /\ worker[w].seen \in written[x] \cup {NoContent}
    BY <1>10, <2>1 DEF TypeInv, Holding, Holds, Write, BookInv, Fine
  <2>3. CASE Changes(w)
    <3>1. /\ document' = [document EXCEPT ![x].content = worker[w].content]
          /\ written' = [written EXCEPT ![x] = @ \cup {worker[w].content}]
      BY <1>10, <2>1, <2>3 DEF Write
    <3>2. \A y \in Request : document[y] \in Document
      BY DEF TypeInv, TypeOK
    <3>3. ShownFirst'
      BY <1>1, <3>1, <3>2 DEF BookInv, ShownFirst, Grown, TypeInv, TypeOK, Document
    <3>4. Fine(w)'
      BY <1>10, <2>1, <3>1, WriteMoves DEF Fine, TypeInv, TypeOK
    <3> QED
      BY <1>2, <1>10, <3>3, <3>4, WriteMoves DEF BookInv
  <2>4. CASE ~Changes(w)
    <3>1. UNCHANGED <<document, written>> /\ worker[w].content = worker[w].seen
      BY <1>10, <2>4 DEF Write, Changes
    <3>2. Fine(w)'
      BY <1>10, <2>1, <2>2, <3>1, LedgerAssumption, WriteMoves DEF Fine
    <3> QED
      BY <1>2, <1>3, <1>10, <3>1, <3>2, WriteMoves DEF BookInv
  <2> QED
    BY <2>3, <2>4
<1>11. ASSUME NEW w \in Worker, Record(w)
       PROVE  BookInv'
  <2>1. written' = written
    BY <1>11 DEF Record, history
  <2>2. \A y \in Request : document'[y].content = document[y].content
    <3>1. PICK x \in Request : x = worker[w].request
      BY <1>11 DEF TypeInv, Holding, Holds, Record
    <3>2. document' = [document EXCEPT ![x].revisions = @ \cup {worker[w].content}]
      BY <1>11, <3>1 DEF Record
    <3> QED
      BY <3>1, <3>2 DEF TypeInv, TypeOK, Document
  <2>3. ShownFirst'
    BY <2>1, <2>2 DEF BookInv, ShownFirst
  <2> QED
    BY <1>2, <1>11, <2>3, RecordMoves DEF BookInv, Fine
<1>12. ASSUME NEW w \in Worker, Activity(w)
       PROVE  BookInv'
  BY <1>2, <1>3, <1>12, DiesMoves DEF Activity, history, BookInv, Fine
<1>13. ASSUME NEW w \in Worker, Refused(w) \/ Killed(w)
       PROVE  BookInv'
  <2>1. Dies(w)
    BY <1>13 DEF Refused, Killed
  <2> QED
    BY <1>2, <1>3, <2>1, DiesMoves DEF Dies, BookInv, Fine
<1>14. ASSUME NEW s \in Customer, NEW t \in Customer, Merge(s, t)
       PROVE  BookInv'
  <2>1. UNCHANGED <<document, worker, written>>
    BY <1>14 DEF Merge, history
  <2> QED
    BY <1>1, <1>3, <2>1, FineStays DEF BookInv
<1> QED
  BY <1>4, <1>5, <1>6, <1>7, <1>8, <1>9, <1>10, <1>11, <1>12, <1>13, <1>14
     DEF Next, Receive

-----------------------------------------------------------------------------
(* The theorems. *)

IndInv == TypeInv /\ LedgerInv /\ SnapshotInv /\ TrackInv /\ BookInv

\* Receivers that overlap, fail and die, and merges, keep the invariant.
THEOREM LedgerInvariance == Spec => []IndInv
<1>1. Init => IndInv
  <2> SUFFICES ASSUME Init  PROVE  LedgerInv /\ SnapshotInv /\ TrackInv /\ BookInv
    BY InitTypeInv DEF IndInv
  <2>1. \A w \in Worker : worker[w].at = "idle" /\ worker[w].request = NoRequest
    BY DEF Init, Idle
  <2>2. LedgerInv
    BY <2>1 DEF Init, LedgerInv, LedgerStands, Filed
  <2>3. SnapshotInv
    BY <2>1 DEF Init, SnapshotInv, SeenKept, Saved, Nothing
  <2>4. TrackInv
    BY <2>1, LedgerAssumption DEF Init, TrackInv, Tracked, Busy
  <2>5. BookInv
    BY <2>1 DEF Init, BookInv, ShownFirst, Fine, Nothing
  <2> QED
    BY <2>2, <2>3, <2>4, <2>5
<1>2. IndInv /\ [Next]_vars => IndInv'
  BY StepTypeInv, StepLedgerInv, StepSnapshotInv, StepTrackInv, StepBookInv DEF IndInv
<1> QED
  BY <1>1, <1>2, PTL DEF Spec

\* Every row and every receiver is of its type.
THEOREM LedgerTypeCorrect == Spec => []TypeOK
<1>1. IndInv => TypeOK
  BY DEF IndInv, TypeInv
<1> QED
  BY <1>1, LedgerInvariance, PTL

\* A snapshot is lost only by a writer's death together with an overwriting.
THEOREM SnapshotsAreKept == Spec => []SnapshotsKept
<1>1. IndInv => SnapshotsKept
  BY SnapshotInvEnough DEF IndInv
<1> QED
  BY <1>1, LedgerInvariance, PTL

\* Merging leaves no case, contact or event without its customer.
THEOREM LedgerAlwaysStands == Spec => []LedgerStands
<1>1. IndInv => LedgerStands
  BY DEF IndInv, LedgerInv
<1> QED
  BY <1>1, LedgerInvariance, PTL

\* A request whose receivers came through one after the other is on record.
THEOREM RequestsGoOnRecord == Spec => []RequestsOnRecord
<1>1. IndInv => RequestsOnRecord
  BY TrackInvEnough DEF IndInv
<1> QED
  BY <1>1, LedgerInvariance, PTL

-----------------------------------------------------------------------------
(* Every step is one of the book's. *)

Archived == [x \in Request |-> document[x].revisions]

Booked == <<customer, contacts, case, written, Archived, event, Noted>>

\* A receiver's step changes no note but its own, and clears it when it leaves
\* nothing to complete.
LEMMA NoteTurned ==
  ASSUME NEW w \in Worker, Others(w)
  PROVE  Noted' = [Noted EXCEPT ![w] = Noted'[w]]
BY DEF Others, Noted

LEMMA NoteCleared ==
  ASSUME NEW w \in Worker, Others(w), worker'[w].lacks = Nobody
  PROVE  Noted' = [Noted EXCEPT ![w] = Book!NoNote]
<1>1. Noted'[w] = Book!NoNote
  BY DEF Noted, Book!NoNote
<1> QED
  BY <1>1, NoteTurned

LEMMA NoteKept ==
  ASSUME NEW w \in Worker, Others(w), worker[w].lacks = Nobody,
         worker'[w].lacks = Nobody
  PROVE  Noted' = Noted
<1>1. Noted[w] = Book!NoNote
  BY DEF Noted, Book!NoNote
<1>2. Noted = [v \in Worker |-> Noted[v]]
  BY DEF Noted
<1> QED
  BY <1>1, <1>2, NoteCleared

\* What is to be completed is noted of its customer.
LEMMA NoteOf ==
  ASSUME NEW w \in Worker, worker[w].lacks # Nobody
  PROVE  /\ Noted[w].of = worker[w].customer
         /\ Noted[w].phone = worker[w].lacks.phone
         /\ Noted[w].email = worker[w].lacks.email
BY DEF Noted

\* The archive gets what the document has shown.
LEMMA ArchiveShows ==
  ASSUME TypeInv, NEW x \in Request, NEW content \in written[x],
         document' = [document EXCEPT ![x].revisions = @ \cup {content}],
         UNCHANGED <<customer, contacts, case, event, written, Noted>>
  PROVE  Book!Next
<1>1. content \in Content
  BY DEF TypeInv, TypeOK
<1>2. Archived' = [Archived EXCEPT ![x] = @ \cup {content}]
  BY DEF Archived, TypeInv, TypeOK, Document
<1>3. Book!Archive(x, content)
  BY <1>2 DEF Book!Archive, Archived
<1> QED
  BY <1>1, <1>3 DEF Book!Next

LEMMA StepKeepsBook ==
  ASSUME IndInv, [Next]_vars
  PROVE  Book!Next \/ UNCHANGED Booked
<1> USE DEF IndInv
<1>1. CASE UNCHANGED vars
  BY <1>1 DEF vars, Booked, Archived, Noted
<1>12. \A w \in Worker : worker[w].at # "settle" => worker[w].lacks = Nobody
  BY DEF TypeInv, Holding, Holds
<1>2. ASSUME NEW w \in Worker, NEW x \in Request, NEW content \in Content,
             NEW who \in Identity, Save(w, x, content, who)
      PROVE  UNCHANGED Booked
  <2>1. Noted' = Noted
    BY <1>2, <1>12, SaveMoves, NoteKept
  <2> QED
    BY <1>2, <2>1 DEF Save, Booked, Archived
<1>3. ASSUME NEW w \in Worker, Find(w)
      PROVE  Book!Next \/ UNCHANGED Booked
  <2>1. UNCHANGED <<customer, contacts, case, written, Archived, event>>
    BY <1>3 DEF Find, Archived, history
  <2>2. worker[w].lacks = Nobody /\ Others(w)
    BY <1>3, <1>12, FindMoves
  <2>3. CASE worker'[w].lacks = Nobody
    BY <2>1, <2>2, <2>3, NoteKept DEF Booked
  <2>4. CASE worker'[w].lacks # Nobody
    <3>1. PICK c \in Customer :
            /\ Live(c) /\ worker'[w].customer = c
            /\ worker'[w].lacks = Lacking(customer[c], worker[w].who)
      BY <1>3, <2>4, FindMoves
    <3> DEFINE lacks == worker'[w].lacks
    <3>2. /\ lacks.phone = NoPhone \/ customer[c].phone = NoPhone
          /\ lacks.email = NoEmail \/ customer[c].email = NoEmail
      BY <3>1 DEF Lacking
    <3>3. lacks \in Book!Identity
      <4>1. worker'[w] \in Receiver
        BY <1>3, FindMoves
      <4> QED
        BY <4>1 DEF Receiver, Who, Book!Identity
    <3>4. Noted'[w] = [of |-> c, phone |-> lacks.phone, email |-> lacks.email]
      BY <2>4, <3>1 DEF Noted
    <3>5. Noted[w] = Book!NoNote
      BY <2>2 DEF Noted, Book!NoNote
    <3>6. Noted' = [Noted EXCEPT ![w] =
                      [of |-> c, phone |-> lacks.phone, email |-> lacks.email]]
      BY <2>2, <3>4, NoteTurned
    <3>7. Book!Hear(w, c, lacks)
      BY <2>1, <3>1, <3>2, <3>5, <3>6 DEF Book!Hear, Book!Living, Live, Archived
    <3> QED
      BY <3>3, <3>7 DEF Book!Next
  <2> QED
    BY <2>3, <2>4
<1>4. ASSUME NEW w \in Worker, Refused(w) \/ Killed(w)
      PROVE  Book!Next
  <2>1. Dies(w)
    BY <1>4 DEF Refused, Killed
  <2>2. UNCHANGED <<customer, contacts, case, written, Archived, event>>
    BY <2>1 DEF Dies, Archived
  <2>3. Noted' = [Noted EXCEPT ![w] = Book!NoNote]
    BY <2>1, DiesMoves, NoteCleared DEF Dies
  <2>4. Book!Drop(w)
    BY <2>2, <2>3 DEF Book!Drop, Archived
  <2> QED
    BY <2>4 DEF Book!Next
<1>5. ASSUME NEW w \in Worker, Settle(w)
      PROVE  Book!Next \/ UNCHANGED Booked
  <2> DEFINE c == worker[w].customer
             who == worker[w].who
             lacks == worker[w].lacks
  <2>1. /\ c \in Customer \cup {NoCustomer} /\ who \in Identity /\ lacks \in Who
        /\ c = NoCustomer => lacks = Nobody
    BY <1>5, Rows DEF Receiver, TypeInv, Holding, Holds, Settle
  <2>2. UNCHANGED <<contacts, case, document, event, written>>
    BY <1>5 DEF Settle, history
  <2>3. UNCHANGED Archived
    BY <2>2 DEF Archived
  <2>4. CASE c = NoCustomer
    <3>1. who \in Book!Identity
      BY <2>1 DEF Identity, Who, Book!Identity
    <3>2. Noted' = Noted
      BY <1>5, <2>1, <2>4, SettleMoves, NoteKept
    <3>3. PICK n \in Customer : Book!Welcome(n, who)
      BY <1>5, <2>2, <2>3, <2>4, <3>2 DEF Settle, Book!Welcome, Archived
    <3> QED
      BY <3>1, <3>3 DEF Book!Next
  <2>5. CASE c # NoCustomer
    <3>1. /\ c \in Customer
          /\ Live(c) \/ lacks = Nobody
          /\ customer' = [customer EXCEPT ![c] = Completed(@, lacks)]
      BY <1>5, <2>1, <2>5 DEF Settle
    <3>2. customer[c] \in CustomerRow
      BY <3>1 DEF TypeInv, TypeOK
    <3>3. CASE lacks = Nobody
      <4>1. Noted' = Noted
        BY <1>5, <3>3, SettleMoves, NoteKept
      <4>2. customer' = customer
        BY <2>1, <3>1, <3>2, <3>3, CompletedTypes DEF TypeInv, TypeOK
      <4> QED
        BY <2>2, <2>3, <4>1, <4>2 DEF Booked
    <3>4. CASE lacks # Nobody
      <4>1. Noted' = [Noted EXCEPT ![w] = Book!NoNote]
        BY <1>5, SettleMoves, NoteCleared
      <4>2. /\ Noted[w].of = c /\ Noted[w].phone = lacks.phone
            /\ Noted[w].email = lacks.email
        BY <3>4, NoteOf
      <4>3. customer' = [customer EXCEPT
              ![c].phone = IF lacks.phone = NoPhone THEN @ ELSE lacks.phone,
              ![c].email = IF lacks.email = NoEmail THEN @ ELSE lacks.email]
        BY <3>1, <3>2 DEF Completed, CustomerRow, TypeInv, TypeOK
      <4>4. Book!Learn(w)
        <5>1. c \in Book!Living
          BY <3>1, <3>4 DEF Book!Living, Live
        <5>2. customer' = [customer EXCEPT
                ![Noted[w].of].phone =
                  IF Noted[w].phone = NoPhone THEN @ ELSE Noted[w].phone,
                ![Noted[w].of].email =
                  IF Noted[w].email = NoEmail THEN @ ELSE Noted[w].email]
          BY <4>2, <4>3
        <5> QED
          BY <2>2, <2>3, <4>1, <4>2, <5>1, <5>2 DEF Book!Learn, Archived
      <4> QED
        BY <4>4 DEF Book!Next
    <3> QED
      BY <3>3, <3>4
  <2> QED
    BY <2>4, <2>5
<1>6. ASSUME NEW w \in Worker, File(w)
      PROVE  Book!Next
  <2>20. Noted' = Noted
    BY <1>6, <1>12, FileMoves, NoteKept
  <2>1. PICK x \in Request, c \in Customer, who \in Identity :
          x = worker[w].request /\ c = worker[w].customer /\ who = worker[w].who
    BY <1>6 DEF TypeInv, Holding, Holds, File
  <2>2. /\ Live(c) /\ case' = [case EXCEPT ![x] = c]
        /\ contacts' = IF worker[w].known THEN contacts
                       ELSE [contacts EXCEPT ![c] = @ \cup {who}]
        /\ UNCHANGED <<customer, document, event, written>>
    BY <1>6, <2>1 DEF File, history
  <2>3. worker[w].known => contacts[c] # {}
    BY <1>6, <2>1, <2>2 DEF BookInv, Fine, File, Live
  <2>4. UNCHANGED Archived
    BY <2>2 DEF Archived
  <2>5. Book!File(x, c, who)
    BY <2>2, <2>3, <2>4, <2>20 DEF Book!File, Book!Living, Live, Archived
  <2>6. who \in Book!Identity
    BY <2>1 DEF Identity, Who, Book!Identity
  <2> QED
    BY <2>5, <2>6 DEF Book!Next
<1>7. ASSUME NEW w \in Worker, Read(w)
      PROVE  Book!Next \/ UNCHANGED Booked
  <2>20. Noted' = Noted
    BY <1>7, <1>12, ReadMoves, NoteKept
  <2>1. PICK x \in Request : x = worker[w].request
    BY <1>7 DEF TypeInv, Holding, Holds, Read
  <2>2. /\ document' = [document EXCEPT ![x] = Preserved(@)]
        /\ UNCHANGED <<customer, contacts, case, event, written>>
    BY <1>7, <2>1 DEF Read, history
  <2>3. document[x] \in Document
    BY DEF TypeInv, TypeOK
  <2>4. CASE document[x].content = NoContent
    <3>1. Preserved(document[x]) = document[x]
      BY <2>3, <2>4 DEF Preserved, Document
    <3>2. document' = document
      BY <2>2, <3>1 DEF TypeInv, TypeOK
    <3> QED
      BY <2>2, <2>20, <3>2 DEF Booked, Archived
  <2>5. CASE document[x].content # NoContent
    <3>1. document[x].content \in written[x]
      BY <2>5 DEF BookInv, ShownFirst
    <3>2. Preserved(document[x])
            = [document[x] EXCEPT !.revisions = @ \cup {document[x].content}]
      BY <2>3, <2>5 DEF Preserved, Document
    <3>3. document' = [document EXCEPT
                         ![x].revisions = @ \cup {document[x].content}]
      BY <2>2, <3>2 DEF TypeInv, TypeOK
    <3> QED
      BY <2>2, <2>20, <3>1, <3>3, ArchiveShows
  <2> QED
    BY <2>4, <2>5
<1>8. ASSUME NEW w \in Worker, Write(w)
      PROVE  Book!Next \/ UNCHANGED Booked
  <2>20. Noted' = Noted
    BY <1>8, <1>12, WriteMoves, NoteKept
  <2>1. PICK x \in Request : x = worker[w].request
    BY <1>8 DEF TypeInv, Holding, Holds, Write
  <2>2. PICK content \in Content : content = worker[w].content
    BY <1>8 DEF TypeInv, Holding, Holds, Write
  <2>3. UNCHANGED <<customer, contacts, case, event>>
    BY <1>8 DEF Write
  <2>4. CASE Changes(w)
    <3>1. /\ document' = [document EXCEPT ![x].content = content]
          /\ written' = [written EXCEPT ![x] = @ \cup {content}]
      BY <1>8, <2>1, <2>2, <2>4 DEF Write
    <3>2. UNCHANGED Archived
      BY <3>1 DEF Archived, TypeInv, TypeOK, Document
    <3>3. case[x] # NoCustomer
      BY <1>8, <2>1 DEF LedgerInv, Filed, Write
    <3>4. Book!Show(x, content)
      BY <2>3, <2>20, <3>1, <3>2, <3>3 DEF Book!Show, Book!Filed, Archived
    <3> QED
      BY <3>4 DEF Book!Next
  <2>5. CASE ~Changes(w)
    BY <1>8, <2>3, <2>5, <2>20 DEF Write, Booked, Archived
  <2> QED
    BY <2>4, <2>5
<1>9. ASSUME NEW w \in Worker, Record(w)
      PROVE  Book!Next
  <2>20. Noted' = Noted
    BY <1>9, <1>12, RecordMoves, NoteKept
  <2>1. PICK x \in Request : x = worker[w].request
    BY <1>9 DEF TypeInv, Holding, Holds, Record
  <2>2. /\ worker[w].content \in written[x]
        /\ document' = [document EXCEPT ![x].revisions = @ \cup {worker[w].content}]
        /\ UNCHANGED <<customer, contacts, case, event, written>>
    BY <1>9, <2>1 DEF Record, history, BookInv, Fine
  <2> QED
    BY <2>2, <2>20, ArchiveShows
<1>10. ASSUME NEW w \in Worker, Activity(w)
       PROVE  Book!Next \/ UNCHANGED Booked
  <2>20. Noted' = Noted
    BY <1>10, <1>12, DiesMoves, NoteKept DEF Activity
  <2>1. PICK x \in Request, c \in Customer :
          x = worker[w].request /\ c = worker[w].customer
    BY <1>10 DEF TypeInv, Holding, Holds, Activity
  <2>2. UNCHANGED <<customer, contacts, case, document, written>>
    BY <1>10 DEF Activity, history
  <2>3. UNCHANGED Archived
    BY <2>2 DEF Archived
  <2>4. CASE worker[w].new
    <3>1. Live(c) /\ event' = event \cup {[of |-> c, case |-> x]}
      BY <1>10, <2>1, <2>4 DEF Activity
    <3>2. case[x] # NoCustomer
      BY <1>10, <2>1 DEF LedgerInv, Filed, Activity
    <3>3. Book!Note(x, c)
      BY <2>2, <2>3, <2>20, <3>1, <3>2
         DEF Book!Note, Book!Filed, Book!Living, Live, Archived
    <3> QED
      BY <3>3 DEF Book!Next
  <2>5. CASE ~worker[w].new
    BY <1>10, <2>2, <2>3, <2>5, <2>20 DEF Activity, Booked
  <2> QED
    BY <2>4, <2>5
<1>11. ASSUME NEW s \in Customer, NEW t \in Customer, Merge(s, t)
       PROVE  Book!Next
  <2>1. /\ s # t /\ Live(s) /\ Live(t) /\ Proven(s, t) /\ ~Protected(s)
        /\ UNCHANGED <<document, written>>
    BY <1>11 DEF Merge, Mergeable, history
  <2>20. Noted' = Noted
    BY <1>11 DEF Merge, Noted
  <2>2. UNCHANGED Archived
    BY <2>1 DEF Archived
  <2>3. Book!Merge(s, t)
    BY <1>11, <2>1, <2>2, <2>20 DEF Merge, Book!Merge, Book!Living, Book!Same, Live,
                             Proven, Protected, Archived
  <2> QED
    BY <2>3 DEF Book!Next
<1> QED
  BY <1>1, <1>2, <1>3, <1>4, <1>5, <1>6, <1>7, <1>8, <1>9, <1>10, <1>11
     DEF Next, Receive

\* The receivers and customer_merge keep the customer book: however they overlap,
\* fail and die, each of their statements is one that the book allows or leaves
\* it as it is.
THEOREM LedgerImplementsBook == Spec => KeepsBook
<1>1. Init => Book!Init
  <2>1. Init => Noted = [w \in Worker |-> Book!NoNote]
    BY DEF Init, Idle, Noted, Book!NoNote
  <2> QED
    BY <2>1 DEF Init, Book!Init, Nothing
<1>2. IndInv /\ [Next]_vars =>
        [Book!Next]_<<customer, contacts, case, written,
                      [x \in Request |-> document[x].revisions], event, Noted>>
  BY StepKeepsBook DEF Booked, Archived
<1> QED
  BY <1>1, <1>2, LedgerInvariance, PTL DEF Spec, KeepsBook, Book!Spec, Book!book
=============================================================================
