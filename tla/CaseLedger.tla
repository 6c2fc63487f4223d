------------------------------ MODULE CaseLedger ------------------------------
(***************************************************************************)
(* Customers, their cases, the documents of the cases and the ledger of    *)
(* events (management_portal/cases.py, customer_events.py, signals.py and  *)
(* customer_merge): what becomes of a request (a Lead, a CrmOrder or a     *)
(* ClinicOrder) once its row is saved.                                     *)
(*                                                                         *)
(* The receiver of post_save runs after the row is committed and in no     *)
(* transaction: each of its statements is committed by itself, other       *)
(* requests and the managers come in between, and it may die anywhere,     *)
(* killed or by an error of the database.                                  *)
(***************************************************************************)
EXTENDS Naturals

CONSTANTS
  Request, NoRequest,   \* rows of the three forms
  Content, NoContent,   \* what such a row holds, but for who it is from
  Phone, NoPhone,
  Email, NoEmail,
  Customer, NoCustomer, \* identities of Customer rows; bound: no more are made
  Worker,               \* processes that save requests
  MaxSaves,             \* bound: saves of requests
  MaxKills              \* bound: processes killed

ASSUME LedgerAssumption ==
  /\ NoRequest \notin Request /\ NoContent \notin Content
  /\ NoPhone \notin Phone /\ NoEmail \notin Email
  /\ NoCustomer \notin Customer
  /\ MaxSaves \in Nat /\ MaxKills \in Nat

VARIABLES
  request,   \* rows of requests
  customer,  \* rows of customers
  contacts,  \* of each customer, by phone and email
  case,      \* the customer of each request's case
  document,  \* the "initial" document of each case, and its revisions
  event,     \* CustomerEvent: whose event, and of which case
  worker,    \* receivers under way
  saves, kills,
  written,   \* history: every snapshot a document had
  orphaned,  \* history: those whose writer died before it recorded them
  overtaken, \* history: those overwritten by one who had not read them
  disturbed  \* history: requests with a receiver that died or was not alone

vars == <<request, customer, contacts, case, document, event, worker, saves,
          kills, written, orphaned, overtaken, disturbed>>

\* Bound: a request names a phone or an email; otherwise its name would tell.
Who == [phone: Phone \cup {NoPhone}, email: Email \cup {NoEmail}]
Nobody == [phone |-> NoPhone, email |-> NoEmail]
Identity == Who \ {Nobody}

Step == {"idle", "find", "settle", "file", "read", "write", "record", "activity"}

\* A Customer row; the document of a case; a receiver under way.
CustomerRow == [status: {"none", "live", "gone"}, phone: Phone \cup {NoPhone},
                email: Email \cup {NoEmail}]
Document == [content: Content \cup {NoContent}, revisions: SUBSET Content]
Receiver == [at: Step, request: Request \cup {NoRequest},
             content: Content \cup {NoContent}, who: Who,
             customer: Customer \cup {NoCustomer}, lacks: Who, known: BOOLEAN,
             seen: Content \cup {NoContent}, new: BOOLEAN]

TypeOK ==
  /\ request \in [Request -> Content \cup {NoContent}]
  /\ customer \in [Customer -> CustomerRow]
  /\ contacts \in [Customer -> SUBSET Identity]
  /\ case \in [Request -> Customer \cup {NoCustomer}]
  /\ document \in [Request -> Document]
  /\ event \subseteq [of: Customer, case: Request]
  /\ worker \in [Worker -> Receiver]
  /\ saves \in 0..MaxSaves /\ kills \in 0..MaxKills
  /\ written \in [Request -> SUBSET Content]
  /\ orphaned \in [Request -> SUBSET Content]
  /\ overtaken \in [Request -> SUBSET Content]
  /\ disturbed \subseteq Request

Idle == [at |-> "idle", request |-> NoRequest, content |-> NoContent,
         who |-> Nobody, customer |-> NoCustomer, lacks |-> Nobody,
         known |-> FALSE, seen |-> NoContent, new |-> FALSE]

Nothing == [x \in Request |-> {}]

Init ==
  /\ request = [x \in Request |-> NoContent]
  /\ customer = [c \in Customer |->
       [status |-> "none", phone |-> NoPhone, email |-> NoEmail]]
  /\ contacts = [c \in Customer |-> {}]
  /\ case = [x \in Request |-> NoCustomer]
  /\ document = [x \in Request |-> [content |-> NoContent, revisions |-> {}]]
  /\ event = {}
  /\ worker = [w \in Worker |-> Idle]
  /\ saves = 0 /\ kills = 0
  /\ written = Nothing /\ orphaned = Nothing /\ overtaken = Nothing
  /\ disturbed = {}

history == <<written, orphaned, overtaken, disturbed>>
bounds == <<saves, kills>>

Live(c) == c # NoCustomer /\ customer[c].status = "live"

-----------------------------------------------------------------------------
(* A request is saved: by the visitor, and later by the managers.            *)

Becomes(w, row) == worker' = [worker EXCEPT ![w] = row]

Busy(x) == \E w \in Worker : worker[w].request = x

\* CrmOrderCreateView and ClinicOrderCreateView form_valid, request_update, the
\* admin: the row is committed, and the receiver goes on with what it has in
\* memory.
Save(w, x, content, who) ==
  /\ worker[w].at = "idle" /\ saves < MaxSaves
  /\ request' = [request EXCEPT ![x] = content]
  /\ Becomes(w, [Idle EXCEPT !.at = "find", !.request = x, !.content = content,
                             !.who = who])
  /\ saves' = saves + 1
  /\ disturbed' = IF Busy(x) THEN disturbed \cup {x} ELSE disturbed
  /\ UNCHANGED <<customer, contacts, case, document, event, kills, written,
                 orphaned, overtaken>>

\* The receiver fails for good, the request notwithstanding.
Dies(w) ==
  LET x == worker[w].request IN
  /\ Becomes(w, Idle)
  /\ disturbed' = disturbed \cup {x}
  /\ orphaned' = IF worker[w].at = "record"
                 THEN [orphaned EXCEPT ![x] = @ \cup {worker[w].content}]
                 ELSE orphaned
  /\ UNCHANGED <<request, customer, contacts, case, document, event, saves,
                 written, overtaken>>

Killed(w) ==
  /\ worker[w].at # "idle" /\ kills < MaxKills
  /\ kills' = kills + 1
  /\ Dies(w)

-----------------------------------------------------------------------------
(* resolve_customer *)

\* Its phone decides; its email, if no customer has the phone.
Found(who) ==
  LET byPhone == {c \in Customer : Live(c) /\ who.phone # NoPhone
                                   /\ customer[c].phone = who.phone}
      byEmail == {c \in Customer : Live(c) /\ who.email # NoEmail
                                   /\ customer[c].email = who.email}
  IN IF byPhone # {} THEN byPhone ELSE byEmail

\* What a row lacks of what a request says.
Lacking(row, who) ==
  [phone |-> IF row.phone = NoPhone THEN who.phone ELSE NoPhone,
   email |-> IF row.email = NoEmail THEN who.email ELSE NoEmail]

\* The row is read, and what it lacks is told from what was read.
Find(w) ==
  LET found == Found(worker[w].who) IN
  /\ worker[w].at = "find"
  /\ \/ \E c \in found :
          Becomes(w, [worker[w] EXCEPT !.at = "settle", !.customer = c,
                                       !.lacks = Lacking(customer[c], worker[w].who)])
     \/ found = {} /\ Becomes(w, [worker[w] EXCEPT !.at = "settle"])
  /\ UNCHANGED <<request, customer, contacts, case, document, event, bounds, history>>

\* save(update_fields=changed) writes these columns, whatever they hold by now.
Completed(row, lacks) ==
  [row EXCEPT !.phone = IF lacks.phone = NoPhone THEN @ ELSE lacks.phone,
              !.email = IF lacks.email = NoEmail THEN @ ELSE lacks.email]

\* A contact is known by its email or its phone.
KnownContact(c, who) ==
  \E k \in contacts[c] : \/ who.email # NoEmail /\ k.email = who.email
                         \/ who.phone # NoPhone /\ k.phone = who.phone

\* The customer is created, or completed; and its contacts are read.  One that
\* was merged away meanwhile still does if nothing is to be written to it.
Settle(w) ==
  LET c == worker[w].customer
      who == worker[w].who
      lacks == worker[w].lacks
  IN
  /\ worker[w].at = "settle"
  /\ \/ /\ c = NoCustomer
        /\ \E n \in Customer :
             /\ customer[n].status = "none"
             /\ customer' = [customer EXCEPT ![n] =
                  [status |-> "live", phone |-> who.phone, email |-> who.email]]
             /\ Becomes(w, [worker[w] EXCEPT !.at = "file", !.customer = n])
     \/ /\ c # NoCustomer
        /\ Live(c) \/ lacks = Nobody
        /\ customer' = [customer EXCEPT ![c] = Completed(@, lacks)]
        /\ Becomes(w, [worker[w] EXCEPT !.at = "file", !.lacks = Nobody,
                                        !.known = KnownContact(c, who)])
  /\ UNCHANGED <<request, contacts, case, document, event, bounds, history>>

\* The submitted contact is retained (unique_customer_contact_identity), and
\* the request's one case is created or taken over: two statements in one step,
\* of which the second fails for the reasons of the first.
File(w) ==
  LET x == worker[w].request
      c == worker[w].customer
      who == worker[w].who
  IN
  /\ worker[w].at = "file" /\ Live(c)
  /\ worker[w].known \/ who \notin contacts[c]
  /\ contacts' = IF worker[w].known THEN contacts
                 ELSE [contacts EXCEPT ![c] = @ \cup {who}]
  /\ case' = [case EXCEPT ![x] = c]
  /\ Becomes(w, [worker[w] EXCEPT !.at = "read", !.new = case[x] = NoCustomer,
                                  !.who = Nobody, !.known = FALSE])
  /\ UNCHANGED <<request, customer, document, event, bounds, history>>

-----------------------------------------------------------------------------
(* The document of the case. *)

\* Variant for the mutation runs: what is replaced is not recorded first.
PreservedNot(doc) == doc

\* "Preserve a legacy/current value even if the backfill has not run yet."
Preserved(doc) ==
  [doc EXCEPT !.revisions = @ \cup ({doc.content} \ {NoContent})]

\* _upsert_document reads the document ...
Read(w) ==
  LET x == worker[w].request IN
  /\ worker[w].at = "read"
  /\ document' = [document EXCEPT ![x] = Preserved(@)]
  /\ Becomes(w, [worker[w] EXCEPT !.at = "write", !.seen = document[x].content])
  /\ UNCHANGED <<request, customer, contacts, case, event, bounds, history>>

\* Variant for the mutation runs: a document that is there is left as it is.
ChangesOnce(w) == worker[w].seen = NoContent

Changes(w) == worker[w].seen # worker[w].content

\* ... and creates or changes it by what it read (unique_case_linked_document).
\* A new case, or else a new document, will get an activity.
Write(w) ==
  LET x == worker[w].request
      old == document[x].content
      content == worker[w].content
  IN
  /\ worker[w].at = "write"
  /\ worker[w].seen = NoContent => old = NoContent
  /\ \/ /\ Changes(w)
        /\ document' = [document EXCEPT ![x].content = content]
        /\ written' = [written EXCEPT ![x] = @ \cup {content}]
        /\ overtaken' = [overtaken EXCEPT
             ![x] = @ \cup ({old} \ {NoContent, worker[w].seen, content})]
     \/ ~Changes(w) /\ UNCHANGED <<document, written, overtaken>>
  /\ Becomes(w, [worker[w] EXCEPT !.at = "record", !.seen = NoContent,
                                  !.new = @ \/ worker[w].seen = NoContent])
  /\ UNCHANGED <<request, customer, contacts, case, event, bounds, orphaned, disturbed>>

\* _record_document_revision
Record(w) ==
  LET x == worker[w].request IN
  /\ worker[w].at = "record"
  /\ document' = [document EXCEPT ![x].revisions = @ \cup {worker[w].content}]
  /\ Becomes(w, [worker[w] EXCEPT !.at = "activity", !.content = NoContent])
  /\ UNCHANGED <<request, customer, contacts, case, event, bounds, history>>

\* CaseActivity.objects.create, and record_customer_event for it.
Activity(w) ==
  LET c == worker[w].customer
      new == worker[w].new
  IN
  /\ worker[w].at = "activity"
  /\ new => Live(c)
  /\ event' = event \cup
       IF new THEN {[of |-> c, case |-> worker[w].request]} ELSE {}
  /\ Becomes(w, Idle)
  /\ UNCHANGED <<request, customer, contacts, case, document, bounds, history>>

\* The database refuses a statement: the customer was merged away meanwhile, or
\* another process has inserted the same row.
Refused(w) ==
  LET c == worker[w].customer
      who == worker[w].who
  IN
  /\ \/ worker[w].at = "settle" /\ worker[w].lacks # Nobody /\ ~Live(c)
     \/ worker[w].at = "file" /\ ~Live(c)
     \/ worker[w].at = "file" /\ ~worker[w].known /\ who \in contacts[c]
     \/ /\ worker[w].at = "write" /\ worker[w].seen = NoContent
        /\ document[worker[w].request].content # NoContent
     \/ worker[w].at = "activity" /\ worker[w].new /\ ~Live(c)
  /\ Dies(w) /\ UNCHANGED kills

-----------------------------------------------------------------------------
(* A manager merges two customers. *)

\* "Merge only records proven equal by an exact phone number or email match."
Proven(s, t) ==
  \/ customer[s].phone # NoPhone /\ customer[s].phone = customer[t].phone
  \/ customer[s].email # NoEmail /\ customer[s].email = customer[t].email

\* Variant for the mutation runs: events go with their customer.
ProtectedNot(s) == FALSE

\* CustomerEvent.customer is PROTECT, and no event is moved.
Protected(s) == \E e \in event : e.of = s

Mergeable(s, t) == s # t /\ Live(s) /\ Live(t) /\ Proven(s, t)

\* customer_merge: contacts and cases are moved, the source is deleted, and each
\* moved case gets an activity.  A ProtectedError rolls all of it back.
Merge(s, t) ==
  LET moved == {x \in Request : case[x] = s} IN
  /\ Mergeable(s, t) /\ ~Protected(s)
  /\ customer' = [customer EXCEPT ![s].status = "gone"]
  /\ contacts' = [contacts EXCEPT ![t] = @ \cup contacts[s], ![s] = {}]
  /\ case' = [x \in Request |-> IF x \in moved THEN t ELSE case[x]]
  /\ event' = event \cup [of: {t}, case: moved]
  /\ UNCHANGED <<request, document, worker, bounds, history>>

-----------------------------------------------------------------------------
Receive(w) ==
  \/ Find(w) \/ Settle(w) \/ File(w) \/ Read(w) \/ Write(w) \/ Record(w)
  \/ Activity(w) \/ Refused(w)

Next ==
  \/ \E w \in Worker :
       \/ \E x \in Request, content \in Content, who \in Identity :
            Save(w, x, content, who)
       \/ Receive(w) \/ Killed(w)
  \/ \E s, t \in Customer : Merge(s, t)

Spec == Init /\ [][Next]_vars

-----------------------------------------------------------------------------
(* Properties. *)

\* "An append-only copy of every distinct snapshot seen for a case document":
\* whatever receivers overlap, fail or die, a snapshot is lost only if its
\* writer died before it recorded it and one that had not read it wrote over it.
SnapshotsKept ==
  \A x \in Request : \A content \in written[x] \ document[x].revisions :
    \/ document[x].content = content
    \/ \E w \in Worker : /\ worker[w].at = "record" /\ worker[w].request = x
                         /\ worker[w].content = content
    \/ content \in orphaned[x] \cap overtaken[x]

\* A request whose receivers all came through, one after the other, is on
\* record: a case with a customer, the row as last saved in its document and
\* among the revisions, and an event of that case.
RequestsOnRecord ==
  \A x \in Request :
    request[x] # NoContent /\ ~Busy(x) /\ x \notin disturbed =>
      /\ Live(case[x])
      /\ document[x].content = request[x]
      /\ request[x] \in document[x].revisions
      /\ \E e \in event : e.case = x

\* No merge takes an event off the ledger or leaves a case, a contact or an
\* event of a customer that is gone.
LedgerStands ==
  /\ \A e \in event : Live(e.of) /\ case[e.case] # NoCustomer
  /\ \A x \in Request : case[x] # NoCustomer => Live(case[x])
  /\ \A c \in Customer : contacts[c] # {} => Live(c)

\* "Contacts, cases, contracts and orders move to the target, and the source is
\* deleted": two customers proven equal can be merged,
\* whichever is the source.
ProvenDuplicatesMerge ==
  \A s, t \in Customer : Mergeable(s, t) => ~Protected(s)

\* The case ledger implements CustomerBook: see there.  A receiver that is about
\* to complete a customer is a clerk with a note; what else one has read, and
\* what a document shows at present, are left out.
Noted ==
  [w \in Worker |->
     IF worker[w].lacks = Nobody
     THEN [of |-> NoCustomer, phone |-> NoPhone, email |-> NoEmail]
     ELSE [of |-> worker[w].customer, phone |-> worker[w].lacks.phone,
           email |-> worker[w].lacks.email]]

Book ==
  INSTANCE CustomerBook
    WITH Clerk <- Worker,
         shown <- written,
         archive <- [x \in Request |-> document[x].revisions],
         journal <- event,
         note <- Noted

KeepsBook == Book!Spec
=============================================================================
