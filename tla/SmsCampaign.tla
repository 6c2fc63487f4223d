----------------------------- MODULE SmsCampaign -----------------------------
(***************************************************************************)
(* Text messages to many (management_portal/views.py sms_send,             *)
(* sms_preview.py, sms_audiences.py, core/sms): a manager looks at a       *)
(* preview, which gives the page a signed token, and confirms it; the      *)
(* token is claimed by one SMSCampaign row, and the provider is called for *)
(* one recipient after the other, each with an SMSDispatch row.            *)
(*                                                                         *)
(* The view is outside any transaction: every statement and every call of  *)
(* the provider is a step of its own, the members of the segment change in *)
(* between, a POST may be sent twice, and its process may end anywhere.    *)
(***************************************************************************)
EXTENDS Naturals, FiniteSets

CONSTANTS
  Manager,               \* superusers
  Mobile,                \* normalized numbers
  Message,
  Token,                 \* nonces of previews
  NoPreview, NoCampaign,
  Post,                  \* POSTs of a confirmed page; bound: no more are made
  MaxManual, MaxSegment, \* 20 typed numbers, 50 members of a segment
  MaxBreaks              \* bound: processes that end before their POST is done

ASSUME CampaignAssumption ==
  /\ IsFiniteSet(Mobile)
  /\ MaxManual \in Nat /\ MaxSegment \in Nat /\ MaxBreaks \in Nat

VARIABLES
  members,  \* of the segment, as it is now
  preview,  \* what each token signs, and whether it is younger than 15 minutes
  campaign, \* SMSCampaign rows, by submission_token
  rows,     \* SMSDispatch rows of each campaign
  post,     \* POSTs under way
  handed,   \* history: messages the provider took, and the POST they are from
  broken    \* history: POSTs whose process ended before they were done

vars == <<members, preview, campaign, rows, post, handed, broken>>

\* Bound: one segment; the others differ in their query only.
Audience == {"manual", "segment"}

Preview == [by: Manager, audience: Audience, to: SUBSET Mobile, text: Message,
            fresh: BOOLEAN]
Campaign == [count: Nat, sent: Nat, failed: Nat]
Row == [to: Mobile, status: {"sent", "failed"}]

ASSUME NoneAssumption == NoPreview \notin Preview /\ NoCampaign \notin Campaign

\* A POST that passed its checks: what it sends, to whom it still has to, and
\* the row it owes.
Submission == [at: {"claim", "send", "count", "done"}, token: Token, by: Manager,
               text: Message, todo: SUBSET Mobile, due: SUBSET Row]

TypeOK ==
  /\ members \subseteq Mobile
  /\ preview \in [Token -> Preview \cup {NoPreview}]
  /\ campaign \in [Token -> Campaign \cup {NoCampaign}]
  /\ rows \in [Token -> SUBSET Row]
  /\ DOMAIN post \subseteq Post /\ post \in [DOMAIN post -> Submission]
  /\ handed \subseteq [to: Mobile, post: Post]
  /\ broken \subseteq Post

Init ==
  /\ members = {}
  /\ preview = [t \in Token |-> NoPreview]
  /\ campaign = [t \in Token |-> NoCampaign]
  /\ rows = [t \in Token |-> {}]
  /\ post = [p \in {} |-> {}]
  /\ handed = {} /\ broken = {}

-----------------------------------------------------------------------------
(* The segment, and the preview of a campaign. *)

\* resolve_sms_audience reads live rows: customers order, pay, finish, register.
Moves(m) ==
  /\ members' = IF m \in members THEN members \ {m} ELSE members \cup {m}
  /\ UNCHANGED <<preview, campaign, rows, post, handed, broken>>

\* Numbers typed count for "manual" only.
Recipients(audience, typed) == IF audience = "manual" THEN typed ELSE members

\* ManualSMSForm.clean_recipients, and the limits of a segment.
Allowed(audience, to) ==
  /\ to # {}
  /\ Cardinality(to) <= IF audience = "manual" THEN MaxManual ELSE MaxSegment

\* action=preview, or a POST without a token: make_preview.
MakePreview(t, by, audience, typed, text) ==
  LET to == Recipients(audience, typed) IN
  /\ preview[t] = NoPreview /\ Allowed(audience, to)
  /\ preview' = [preview EXCEPT ![t] =
       [by |-> by, audience |-> audience, to |-> to, text |-> text, fresh |-> TRUE]]
  /\ UNCHANGED <<members, campaign, rows, post, handed, broken>>

\* signing.loads with max_age=900.
Expire(t) ==
  /\ preview[t] # NoPreview /\ preview[t].fresh
  /\ preview' = [preview EXCEPT ![t].fresh = FALSE]
  /\ UNCHANGED <<members, campaign, rows, post, handed, broken>>

-----------------------------------------------------------------------------
(* A page is confirmed. *)

\* Variant for the mutation runs: the digest does not name the recipients.
SignatureOfText(v, audience, to, text) ==
  v.audience = audience /\ v.text = text

\* signature: audience, recipients and message.
Signature(v, audience, to, text) ==
  v.audience = audience /\ v.to = to /\ v.text = text

\* The POST of a confirmed page up to check_preview.  The page may have been
\* edited since its preview; its expected_count is that of the preview.
Confirm(p, t, by, audience, typed, text) ==
  LET to == Recipients(audience, typed) IN
  /\ p \notin DOMAIN post
  /\ preview[t] # NoPreview
  /\ audience = "segment" => Cardinality(to) = Cardinality(preview[t].to)
  /\ Allowed(audience, to)
  /\ preview[t].fresh /\ preview[t].by = by
  /\ Signature(preview[t], audience, to, text)
  /\ post' = [q \in DOMAIN post \cup {p} |->
       IF q = p THEN [at |-> "claim", token |-> t, by |-> by, text |-> text,
                      todo |-> to, due |-> {}]
       ELSE post[q]]
  /\ UNCHANGED <<members, preview, campaign, rows, handed, broken>>

\* Variant for the mutation runs: the unique key does not arbitrate.
UnclaimedAlways(t) == TRUE

\* submission_token is unique.
Unclaimed(t) == campaign[t] = NoCampaign

\* claim_campaign: get_or_create; the POST that did not create it sends nothing.
Claim(p) ==
  LET t == post[p].token IN
  /\ p \in DOMAIN post /\ post[p].at = "claim"
  /\ IF Unclaimed(t)
     THEN /\ campaign' = [campaign EXCEPT ![t] =
               [count |-> Cardinality(post[p].todo), sent |-> 0, failed |-> 0]]
          /\ post' = [post EXCEPT ![p].at = "send"]
     ELSE /\ post' = [post EXCEPT ![p].at = "done"]
          /\ UNCHANGED campaign
  /\ UNCHANGED <<members, preview, rows, handed, broken>>

-----------------------------------------------------------------------------
(* The recipients, one after the other. *)

\* send_sms: the provider takes the message and says so; or it refuses it, is
\* not reached or answers nonsense; or its answer is lost.
Send(p, m) ==
  /\ p \in DOMAIN post /\ post[p].at = "send" /\ post[p].due = {}
  /\ m \in post[p].todo
  /\ \E taken, told \in BOOLEAN :
       /\ told => taken
       /\ handed' = IF taken THEN handed \cup {[to |-> m, post |-> p]} ELSE handed
       /\ post' = [post EXCEPT ![p] = [@ EXCEPT
            !.todo = post[p].todo \ {m},
            !.due = {[to |-> m, status |-> IF told THEN "sent" ELSE "failed"]}]]
  /\ UNCHANGED <<members, preview, campaign, rows, broken>>

\* Variant for the mutation runs: only what was sent gets a row.
RecordedIfSent(due) == {row \in due : row.status = "sent"}

\* SMSDispatch.objects.create, for a failure as well.
Recorded(due) == due

Dispatch(p) ==
  LET t == post[p].token IN
  /\ p \in DOMAIN post /\ post[p].at = "send" /\ post[p].due # {}
  /\ rows' = [rows EXCEPT ![t] = @ \cup Recorded(post[p].due)]
  /\ post' = [post EXCEPT ![p].at = "count"]
  /\ UNCHANGED <<members, preview, campaign, handed, broken>>

\* campaign.save(update_fields=("sent_count", "failed_count")): of this row.
Count(p) ==
  LET t == post[p].token
      sent == {row \in post[p].due : row.status = "sent"}
  IN
  /\ p \in DOMAIN post /\ post[p].at = "count"
  /\ campaign' = [campaign EXCEPT ![t] = [@ EXCEPT
       !.sent = campaign[t].sent + Cardinality(sent),
       !.failed = campaign[t].failed + Cardinality(post[p].due \ sent)]]
  /\ post' = [post EXCEPT ![p] = [@ EXCEPT !.at = "send", !.due = {}]]
  /\ UNCHANGED <<members, preview, rows, handed, broken>>

\* The counts are saved once more, as they are, and the page is told.
Done(p) ==
  /\ p \in DOMAIN post /\ post[p].at = "send"
  /\ post[p].todo = {} /\ post[p].due = {}
  /\ post' = [post EXCEPT ![p].at = "done"]
  /\ UNCHANGED <<members, preview, campaign, rows, handed, broken>>

\* The process is killed, or ended by an error that is not caught (the answer
\* breaks off, or is no object).
Break(p) ==
  /\ p \in DOMAIN post /\ post[p].at # "done"
  /\ Cardinality(broken) < MaxBreaks
  /\ post' = [post EXCEPT ![p].at = "done"]
  /\ broken' = broken \cup {p}
  /\ UNCHANGED <<members, preview, campaign, rows, handed>>

-----------------------------------------------------------------------------
Next ==
  \/ \E m \in Mobile : Moves(m)
  \/ \E t \in Token, by \in Manager, audience \in Audience,
        typed \in SUBSET Mobile, text \in Message :
       \/ MakePreview(t, by, audience, typed, text)
       \/ \E p \in Post : Confirm(p, t, by, audience, typed, text)
  \/ \E t \in Token : Expire(t)
  \/ \E p \in Post :
       \/ Claim(p) \/ Dispatch(p) \/ Count(p) \/ Done(p) \/ Break(p)
       \/ \E m \in Mobile : Send(p, m)

Spec == Init /\ [][Next]_vars

-----------------------------------------------------------------------------
(* Properties. *)

\* "Durable at-most-once submission": whatever POSTs of a page are repeated,
\* overlap or break off, nobody gets the message of one preview twice.
AtMostOnce ==
  \A h, g \in handed :
    h.to = g.to /\ post[h.post].token = post[g.post].token => h = g

\* "Actor-bound SMS review": the provider is handed what the manager who
\* confirmed had in the preview, for those who were in it, though the segment
\* or the page changed meanwhile.
AsReviewed ==
  \A h \in handed :
    LET p == post[h.post]
        v == preview[p.token]
    IN h.to \in v.to /\ p.text = v.text /\ p.by = v.by

Statuses(t, status) == {row \in rows[t] : row.status = status}

\* A campaign's books: its counts are those of its rows, or one row behind; what
\* is called sent was taken; one message at most was taken and has no row; and
\* unless its POST broke off, every recipient has a row when it is done.
BooksBalance ==
  \A t \in Token : campaign[t] # NoCampaign =>
    LET c == campaign[t]
        mine == {h \in handed : post[h.post].token = t}
        at == {p \in DOMAIN post : post[p].token = t}
    IN
    /\ c.sent \in {Cardinality(Statuses(t, "sent")),
                   Cardinality(Statuses(t, "sent")) - 1}
    /\ Cardinality(rows[t]) - (c.sent + c.failed) \in {0, 1}
    /\ \A row \in Statuses(t, "sent") : \E h \in mine : h.to = row.to
    /\ Cardinality({h.to : h \in mine} \ {row.to : row \in rows[t]}) <= 1
    /\ (\A p \in at : post[p].at = "done") /\ at \cap broken = {} =>
         {row.to : row \in rows[t]} = preview[t].to /\ c.sent + c.failed = c.count

\* A campaign implements the sending of a reviewed message: see
\* ReviewedSending.  Who else is in the segment by now, how old a preview is,
\* POSTs that wait for or lose the claim and the counts do not show.
ReviewOf(t) ==
  IF preview[t] = NoPreview THEN {}
  ELSE {[by |-> preview[t].by, to |-> preview[t].to, text |-> preview[t].text]}

AtWork ==
  {post[p].token : p \in {q \in DOMAIN post : post[q].at \in {"send", "count"}}}

MessageOf(h) ==
  [of |-> post[h.post].token, to |-> h.to, by |-> post[h.post].by,
   text |-> post[h.post].text, carrier |-> h.post]

Sending ==
  INSTANCE ReviewedSending
    WITH Carrier <- Post,
         review <- [t \in Token |-> ReviewOf(t)],
         begun <- {t \in Token : campaign[t] # NoCampaign},
         working <- AtWork,
         out <- {MessageOf(h) : h \in handed},
         record <- rows

KeepsReviewedSending == Sending!Spec
=============================================================================
