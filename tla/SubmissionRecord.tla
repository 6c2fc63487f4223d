-------------------------- MODULE SubmissionRecord --------------------------
(***************************************************************************)
(* What the contact form promises one customer, whatever pages, devices,   *)
(* retries, expiry and the staff do: at most one draft is open and its     *)
(* demo selection is only replaced by another; a submission is recorded    *)
(* once under its token, with the selection its draft had, and closes the  *)
(* draft; thanks are for what is on record exactly; a request that was     *)
(* removed is only renewed under its own token, and none is ever changed.  *)
(***************************************************************************)
CONSTANTS
  Token,    \* of submissions
  Content,  \* what the form may hold
  Choice,   \* demo selections, and none
  NoDemo    \* no demo selection

VARIABLES
  open,     \* the selection of the open draft; empty when none is open
  request,  \* what is on record
  thanked   \* submissions answered with the page of thanks

Submission == [token: Token, fields: Content, demo: Choice]

\* A submission as it is recorded: the selection its draft had is kept beside
\* it, or not, if it names none itself.
Recorded(sub, choice) ==
  {[token |-> sub.token, fields |-> sub.fields, demo |-> sub.demo,
    choice |-> choice, saved |-> saved, kept |-> TRUE] :
     saved \in IF sub.demo = NoDemo THEN {NoDemo, choice} ELSE {NoDemo}}

Init == open = {} /\ request = {} /\ thanked = {}

\* A draft is begun.
Begin(demo) ==
  /\ open = {}
  /\ open' = {demo}
  /\ UNCHANGED <<request, thanked>>

\* The open draft gets a selection.
Attach(demo) ==
  /\ demo # NoDemo
  /\ open # {}
  /\ open' = {demo}
  /\ UNCHANGED <<request, thanked>>

\* It is deleted, or its time is over.
Close ==
  /\ open' = {}
  /\ UNCHANGED <<request, thanked>>

\* A first submission under its token.
Submit(sub) ==
  /\ \A r \in request : r.token # sub.token
  /\ \E choice \in IF open = {} THEN {NoDemo} ELSE open :
       \E r \in Recorded(sub, choice) : request' = request \cup {r}
  /\ open' = {}
  /\ thanked' = thanked \cup {sub}

\* The same submission again: nothing more is recorded.
Repeat(sub) ==
  /\ \E r \in request : /\ r.kept
                        /\ r.token = sub.token
                        /\ r.fields = sub.fields
                        /\ r.demo = sub.demo
  /\ thanked' = thanked \cup {sub}
  /\ UNCHANGED <<open, request>>

\* The staff removes a request: its thanks no longer count.
Remove(r) ==
  /\ r.kept
  /\ request' = (request \ {r}) \cup {[r EXCEPT !.kept = FALSE]}
  /\ thanked' = {sub \in thanked : sub.token # r.token}
  /\ UNCHANGED open

\* A removed request is submitted once more.
Renew(r, sub) ==
  /\ ~r.kept
  /\ r.token = sub.token
  /\ \E s \in Recorded(sub, r.choice) : request' = (request \ {r}) \cup {s}
  /\ thanked' = thanked \cup {sub}
  /\ UNCHANGED open

Next ==
  \/ \E demo \in Choice : Begin(demo) \/ Attach(demo)
  \/ Close
  \/ \E sub \in Submission : Submit(sub) \/ Repeat(sub)
  \/ \E r \in request :
       Remove(r) \/ \E sub \in Submission : Renew(r, sub)

Spec == Init /\ [][Next]_<<open, request, thanked>>
=============================================================================
