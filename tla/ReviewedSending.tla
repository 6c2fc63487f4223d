--------------------------- MODULE ReviewedSending ---------------------------
(***************************************************************************)
(* What a manager who sends a text message to many is promised: only what  *)
(* was reviewed is sent, to those it was reviewed for; one sending comes   *)
(* of a review, and it is never taken up again once it is over; nobody's   *)
(* turn comes twice, each is put on record before the next one's comes,    *)
(* and who is recorded as sent to was sent to.                             *)
(***************************************************************************)
CONSTANTS Manager, Mobile, Message, Token,
          Carrier   \* requests that do the sending

VARIABLES
  review,   \* what was reviewed under each token, if anything
  begun,    \* tokens whose sending was begun
  working,  \* tokens whose sending is under way
  out,      \* messages that left, each with the request that carried it
  record    \* who was served under each token, and how it went

Review == [by: Manager, to: SUBSET Mobile, text: Message]

Init ==
  /\ review = [t \in Token |-> {}]
  /\ begun = {} /\ working = {} /\ out = {}
  /\ record = [t \in Token |-> {}]

\* Who is on record under t.
Served(t) == {row.to : row \in record[t]}

\* Who was sent to under t.
Reached(t) == {o.to : o \in {x \in out : x.of = t}}

\* A message is reviewed.
Look(t, r) ==
  /\ review[t] = {}
  /\ review' = [review EXCEPT ![t] = {r}]
  /\ UNCHANGED <<begun, working, out, record>>

\* The one sending of a review begins.
Begin(t) ==
  /\ review[t] # {} /\ t \notin begun
  /\ begun' = begun \cup {t}
  /\ working' = working \cup {t}
  /\ UNCHANGED <<review, out, record>>

\* A message leaves for somebody it was reviewed for, once everyone before
\* is on record.
Take(t, c) ==
  /\ t \in working
  /\ Reached(t) \subseteq Served(t)
  /\ \E r \in review[t] : \E m \in r.to \ Served(t) :
       out' = out \cup {[of |-> t, to |-> m, by |-> r.by, text |-> r.text,
                         carrier |-> c]}
  /\ UNCHANGED <<review, begun, working, record>>

\* It is put on record how it went for the one whose turn it was.
Record(t) ==
  /\ t \in working
  /\ \E r \in review[t] : \E m \in r.to \ Served(t), status \in {"sent", "failed"} :
       /\ Reached(t) \subseteq Served(t) \cup {m}
       /\ status = "sent" => m \in Reached(t)
       /\ record' = [record EXCEPT ![t] = @ \cup {[to |-> m, status |-> status]}]
  /\ UNCHANGED <<review, begun, working, out>>

\* The sending is done, or broke off.
End(t) ==
  /\ t \in working
  /\ working' = working \ {t}
  /\ UNCHANGED <<review, begun, out, record>>

Next ==
  \E t \in Token :
    \/ \E r \in Review : Look(t, r)
    \/ Begin(t) \/ Record(t) \/ End(t)
    \/ \E c \in Carrier : Take(t, c)

Spec == Init /\ [][Next]_<<review, begun, working, out, record>>
=============================================================================
