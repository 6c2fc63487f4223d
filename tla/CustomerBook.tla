---------------------------- MODULE CustomerBook ----------------------------
(***************************************************************************)
(* What the customer file promises its managers: a request is filed with a *)
(* living customer and stays filed; what its document showed is archived   *)
(* and nothing else, for good; a phone or an email is given to a customer  *)
(* only by a clerk who noted it when the customer had none; customers      *)
(* become one only if they are proven to be, with all that was filed; and  *)
(* nobody leaves who is in the journal.                                    *)
(***************************************************************************)
CONSTANTS
  Request, Content,
  Phone, NoPhone,
  Email, NoEmail,
  Customer, NoCustomer,
  Clerk

VARIABLES
  customer,  \* of each, whether it lives, and what is known
  contacts,  \* submitted under each customer
  case,      \* whose case a request is
  shown,     \* what the document of each request has shown
  archive,   \* what is kept of it
  journal,   \* of customers and cases
  note       \* of each clerk: what a customer lacked

book == <<customer, contacts, case, shown, archive, journal, note>>

Identity == [phone: Phone \cup {NoPhone}, email: Email \cup {NoEmail}]
NoNote == [of |-> NoCustomer, phone |-> NoPhone, email |-> NoEmail]

Init ==
  /\ customer = [c \in Customer |->
       [status |-> "none", phone |-> NoPhone, email |-> NoEmail]]
  /\ contacts = [c \in Customer |-> {}]
  /\ case = [x \in Request |-> NoCustomer]
  /\ shown = [x \in Request |-> {}]
  /\ archive = [x \in Request |-> {}]
  /\ journal = {}
  /\ note = [k \in Clerk |-> NoNote]

Living == {c \in Customer : customer[c].status = "live"}

Filed(x) == case[x] # NoCustomer

Welcome(c, who) ==
  /\ customer[c].status = "none"
  /\ customer' = [customer EXCEPT ![c] =
       [status |-> "live", phone |-> who.phone, email |-> who.email]]
  /\ UNCHANGED <<contacts, case, shown, archive, journal, note>>

\* A clerk hears what a customer lacks ...
Hear(k, c, who) ==
  /\ c \in Living /\ note[k] = NoNote
  /\ who.phone = NoPhone \/ customer[c].phone = NoPhone
  /\ who.email = NoEmail \/ customer[c].email = NoEmail
  /\ note' = [note EXCEPT ![k] = [of |-> c, phone |-> who.phone, email |-> who.email]]
  /\ UNCHANGED <<customer, contacts, case, shown, archive, journal>>

\* ... and later writes it down, if the customer is still there ...
Learn(k) ==
  LET c == note[k].of IN
  /\ c \in Living
  /\ customer' = [customer EXCEPT
       ![c].phone = IF note[k].phone = NoPhone THEN @ ELSE note[k].phone,
       ![c].email = IF note[k].email = NoEmail THEN @ ELSE note[k].email]
  /\ note' = [note EXCEPT ![k] = NoNote]
  /\ UNCHANGED <<contacts, case, shown, archive, journal>>

\* ... or does not.
Drop(k) ==
  /\ note' = [note EXCEPT ![k] = NoNote]
  /\ UNCHANGED <<customer, contacts, case, shown, archive, journal>>

File(x, c, who) ==
  /\ c \in Living
  /\ case' = [case EXCEPT ![x] = c]
  /\ \/ contacts' = [contacts EXCEPT ![c] = @ \cup {who}]
     \/ contacts[c] # {} /\ contacts' = contacts
  /\ UNCHANGED <<customer, shown, archive, journal, note>>

Show(x, content) ==
  /\ Filed(x)
  /\ shown' = [shown EXCEPT ![x] = @ \cup {content}]
  /\ UNCHANGED <<customer, contacts, case, archive, journal, note>>

Archive(x, content) ==
  /\ content \in shown[x]
  /\ archive' = [archive EXCEPT ![x] = @ \cup {content}]
  /\ UNCHANGED <<customer, contacts, case, shown, journal, note>>

Note(x, c) ==
  /\ Filed(x) /\ c \in Living
  /\ journal' = journal \cup {[of |-> c, case |-> x]}
  /\ UNCHANGED <<customer, contacts, case, shown, archive, note>>

Same(s, t) ==
  \/ customer[s].phone # NoPhone /\ customer[s].phone = customer[t].phone
  \/ customer[s].email # NoEmail /\ customer[s].email = customer[t].email

Merge(s, t) ==
  LET moved == {x \in Request : case[x] = s} IN
  /\ s # t /\ {s, t} \subseteq Living /\ Same(s, t)
  /\ \A entry \in journal : entry.of # s
  /\ customer' = [customer EXCEPT ![s].status = "gone"]
  /\ contacts' = [contacts EXCEPT ![t] = @ \cup contacts[s], ![s] = {}]
  /\ case' = [x \in Request |-> IF x \in moved THEN t ELSE case[x]]
  /\ journal' = journal \cup [of: {t}, case: moved]
  /\ UNCHANGED <<shown, archive, note>>

Next ==
  \/ \E c \in Customer, who \in Identity :
       Welcome(c, who) \/ \E k \in Clerk : Hear(k, c, who)
  \/ \E k \in Clerk : Learn(k) \/ Drop(k)
  \/ \E x \in Request, c \in Customer :
       Note(x, c) \/ \E who \in Identity : File(x, c, who)
  \/ \E x \in Request, content \in Content : Show(x, content) \/ Archive(x, content)
  \/ \E s, t \in Customer : Merge(s, t)

Spec == Init /\ [][Next]_book
=============================================================================
