------------------------------ MODULE FormDraft ------------------------------
(***************************************************************************)
(* One customer's saved drafts of the contact form and the Leads that come *)
(* of them (leads/form_draft_service.py, leads/views/draft_api.py,         *)
(* LeadCreateView and the hand-off of a demo selection).                   *)
(*                                                                         *)
(* Every writer locks the owner's row for one transaction and is one       *)
(* action.  The customer's pages are not modelled here: a page may hold    *)
(* any draft that was ever current (past), however old, and its requests   *)
(* arrive at any time, in any order, once or more often.                   *)
(***************************************************************************)
EXTENDS Naturals

CONSTANTS
  Draft,      \* identities of FormDraft rows
  Content,    \* what the form may hold: its fields and the current step
  Blank,      \* the fields of a draft made for a demo selection only: none
  Demo,       \* demo selections, and their snapshots
  NoDemo,     \* no demo selection
  Token,      \* final_submission_token values pages were rendered with
  NoToken,    \* a draft that was never submitted
  MaxRevision \* bound: no draft is changed beyond this revision

ASSUME DraftAssumption ==
  /\ NoDemo \notin Demo
  /\ NoToken \notin Token
  /\ MaxRevision \in Nat

VARIABLES
  draft,     \* FormDraft rows of the customer
  lead,      \* the Lead each draft was turned into
  past,      \* every state of an active draft a page may have read
  confirmed  \* submissions answered with the page of thanks

vars == <<draft, lead, past, confirmed>>

Fields == Content \cup {Blank}
Choice == Demo \cup {NoDemo}

DraftRow ==
  [status: {"none", "open", "submitted", "expired", "gone"}, revision: Nat,
   fields: Fields, demo: Choice, token: Token \cup {NoToken},
   overdue: BOOLEAN]   \* expires_at has passed

LeadRow ==
  [status: {"none", "kept", "removed"}, fields: Fields, demo: Choice,
   saved: Choice]      \* the draft's snapshot, kept on the Lead's case

Submission == [token: Token, fields: Content, demo: Choice]

Snapshot == [of: Draft, revision: Nat \ {0}, fields: Fields, demo: Choice]

TypeOK ==
  /\ draft \in [Draft -> DraftRow]
  /\ lead \in [Draft -> LeadRow]
  /\ past \subseteq Snapshot
  /\ confirmed \subseteq Submission

Init ==
  /\ draft = [d \in Draft |->
       [status |-> "none", revision |-> 0, fields |-> Blank, demo |-> NoDemo,
        token |-> NoToken, overdue |-> FALSE]]
  /\ lead = [d \in Draft |->
       [status |-> "none", fields |-> Blank, demo |-> NoDemo,
        saved |-> NoDemo]]
  /\ past = {}
  /\ confirmed = {}

-----------------------------------------------------------------------------
(* The active draft. *)

\* "submitting" never outlives the transaction that writes it.
Active(row) == row.status = "open"

\* Variant for the mutation runs: an active draft whose time is over is used.
UsableForever == {d \in Draft : Active(draft[d])}

\* The active draft _get_active_draft_locked returns, if any.
Usable == {d \in Draft : Active(draft[d]) /\ ~draft[d].overdue}

\* The write it makes: an overdue draft expires, under a new revision.
Swept ==
  [d \in Draft |->
     IF Active(draft[d]) /\ draft[d].overdue
     THEN [draft[d] EXCEPT !.status = "expired", !.revision = @ + 1]
     ELSE draft[d]]

Unused == {d \in Draft : draft[d].status = "none"}

SnapshotOf(rows, d) ==
  [of |-> d, revision |-> rows[d].revision, fields |-> rows[d].fields,
   demo |-> rows[d].demo]

\* What is committed can be read by any page.
Commit(rows) ==
  /\ draft' = rows
  /\ past' = past \cup {SnapshotOf(rows, d) : d \in {e \in Draft : Active(rows[e])}}

\* FormDraft.objects.create, with the model's defaults.
Created(fields, demo) ==
  [status |-> "open", revision |-> 1, fields |-> fields, demo |-> demo,
   token |-> NoToken, overdue |-> FALSE]

\* Variant for the mutation runs: a new demo selection keeps the revision.
ChangedFieldsOnly(row, fields, demo) ==
  [row EXCEPT !.fields = fields, !.demo = demo, !.overdue = FALSE,
              !.revision = IF fields # row.fields THEN @ + 1 ELSE @]

\* A write to the active draft: its retention starts again, and its revision
\* goes up exactly if its content changes.
Changed(row, fields, demo) ==
  [row EXCEPT !.fields = fields, !.demo = demo, !.overdue = FALSE,
              !.revision = IF fields # row.fields \/ demo # row.demo
                           THEN @ + 1 ELSE @]

Change(d, fields, demo) ==
  /\ draft[d].revision < MaxRevision
  /\ Commit([draft EXCEPT ![d] = Changed(draft[d], fields, demo)])

Create(fields, demo) ==
  \E d \in Unused : Commit([Swept EXCEPT ![d] = Created(fields, demo)])

\* A request that finds nothing to do still expires an overdue draft.
OnlySweep == Commit(Swept)

-----------------------------------------------------------------------------
(* Pages save and delete. *)

\* What pages send as expected_revision: 0, or a revision they have read.
Expected == {0} \cup {s.revision : s \in past}

\* save_draft_fields: creates if no draft was expected and none is there, writes
\* if the revision matches, and is a conflict otherwise.
Save(expected, fields) ==
  /\ \/ \E d \in Usable : /\ draft[d].revision = expected
                          /\ Change(d, fields, draft[d].demo)
     \/ Usable = {} /\ expected = 0 /\ Create(fields, NoDemo)
     \/ Usable = {} /\ expected # 0 /\ OnlySweep
  /\ UNCHANGED <<lead, confirmed>>

\* The row is deleted.
Gone(row) == [row EXCEPT !.status = "gone", !.token = NoToken]

\* delete_draft_with_revision
Delete(expected) ==
  /\ \/ \E d \in Usable : /\ draft[d].revision = expected
                          /\ Commit([draft EXCEPT ![d] = Gone(@)])
     \/ Usable = {} /\ OnlySweep
  /\ UNCHANGED <<lead, confirmed>>

\* ensure_active_draft_with_demo_snapshot: at sign-in for a selection made
\* before it, and on every visit to the contact page that names one.
HandOff(demo) ==
  /\ \/ \E d \in Usable : Change(d, draft[d].fields, demo)
     \/ Usable = {} /\ Create(Blank, demo)
  /\ UNCHANGED <<lead, confirmed>>

-----------------------------------------------------------------------------
(* The final submission (finalize_form_draft_to_lead).  A refusal, by the    *)
(* rate limiter or because the token was used for something else, is rolled  *)
(* back with everything else the transaction wrote, and is no step.          *)

\* Variant for the mutation runs: the demo selection is not compared.
MatchesFieldsOnly(row, sub) == row.fields = sub.fields

\* _lead_matches_this_submission
Matches(row, sub) == row.fields = sub.fields /\ row.demo = sub.demo

\* FormDraft.objects.filter(submission_token=token)
Carrying(token) == {d \in Draft : draft[d].token = token}

\* The first answer got lost: the Lead it was about is returned again.
Replay(sub) ==
  /\ \E d \in Carrying(sub.token) :
       lead[d].status = "kept" /\ Matches(lead[d], sub)
  /\ confirmed' = confirmed \cup {sub}
  /\ UNCHANGED <<draft, lead, past>>

\* A draft becomes a Lead: form.save(), the draft's snapshot kept on the case
\* if the request names no selection, and the draft is submitted.
Turn(rows, d, row, sub, useSaved) ==
  /\ Commit([rows EXCEPT ![d] = [row EXCEPT !.status = "submitted",
                                            !.token = sub.token]])
  /\ lead' = [lead EXCEPT ![d] =
       [status |-> "kept", fields |-> sub.fields, demo |-> sub.demo,
        saved |-> IF sub.demo = NoDemo /\ useSaved THEN row.demo ELSE NoDemo]]
  /\ confirmed' = confirmed \cup {sub}

\* The draft with this token whose Lead was removed is submitted once more...
Resubmit(sub, useSaved) ==
  \E d \in Carrying(sub.token) :
    /\ lead[d].status # "kept"
    /\ draft[d].revision < MaxRevision + 2
    /\ Turn(draft, d, [draft[d] EXCEPT !.revision = @ + 1], sub, useSaved)

\* ... or the active draft is ("submitting" and "submitted" are a revision
\* each), or one made for the occasion.
Submit(sub, useSaved) ==
  /\ Carrying(sub.token) = {}
  /\ \/ \E d \in Usable :
          Turn(draft, d, [draft[d] EXCEPT !.revision = @ + 2], sub, useSaved)
     \/ /\ Usable = {}
        /\ \E d \in Unused :
             Turn(Swept, d, [Created(sub.fields, NoDemo) EXCEPT !.revision = 2],
                  sub, useSaved)

-----------------------------------------------------------------------------
(* Time and the staff. *)

\* DRAFT_RETENTION_DAYS have passed since the draft was last written.
TimeUp(d) ==
  /\ draft[d].status \in {"open", "submitted"}
  /\ ~draft[d].overdue
  /\ draft' = [draft EXCEPT ![d].overdue = TRUE]
  /\ UNCHANGED <<lead, past, confirmed>>

\* Variant for the mutation runs: every draft past its time.
CleanableOverdue(d) ==
  draft[d].overdue /\ draft[d].status \in {"expired", "submitted"}

Cleanable(d) ==
  /\ draft[d].status = "expired"
  /\ draft[d].token = NoToken
  /\ lead[d].status # "kept"

\* cleanup_form_drafts --apply
CleanUp(d) ==
  /\ Cleanable(d)
  /\ draft' = [draft EXCEPT ![d] = Gone(@)]
  /\ UNCHANGED <<lead, past, confirmed>>

\* LeadAdmin deletes a Lead: submitted_lead becomes NULL (SET_NULL), and the
\* customer's thanks no longer count.
RemoveLead(d) ==
  /\ lead[d].status = "kept"
  /\ lead' = [lead EXCEPT ![d].status = "removed"]
  /\ confirmed' = {sub \in confirmed : sub.token # draft[d].token}
  /\ UNCHANGED <<draft, past>>

-----------------------------------------------------------------------------
Request ==
  \/ \E expected \in Expected :
       Delete(expected) \/ \E fields \in Content : Save(expected, fields)
  \/ \E demo \in Demo : HandOff(demo)
  \/ \E sub \in Submission :
       \/ Replay(sub)
       \/ \E useSaved \in BOOLEAN :
            Submit(sub, useSaved) \/ Resubmit(sub, useSaved)

Next ==
  \/ Request
  \/ \E d \in Draft : TimeUp(d) \/ CleanUp(d) \/ RemoveLead(d)

Spec == Init /\ [][Next]_vars

-----------------------------------------------------------------------------
(* Properties. *)

\* A revision of a draft stands for one content, demo selection included: a
\* page whose revision still matches the draft it read has seen everything it
\* is about to overwrite (the module's docstring: the revision goes up
\* whenever the content actually changes).
RevisionNamesContent ==
  \A s, t \in past : s.of = t.of /\ s.revision = t.revision => s = t

\* Every submission a customer was thanked for is recorded, in a Lead with
\* exactly its content and demo selection, unless the staff removed that Lead:
\* neither a retry nor an edit under an old token is taken for it.
ThankedIsRecorded ==
  \A sub \in confirmed : \E d \in Carrying(sub.token) :
    /\ lead[d].status = "kept"
    /\ lead[d].fields = sub.fields
    /\ lead[d].demo = sub.demo

\* "Without ever creating a duplicate Lead for the same submission attempt": a
\* token is on one draft at most, drafts with a token are the submitted ones
\* and those with a Lead, and no customer has two active drafts.
OneLeadPerToken ==
  \A d \in Draft :
    /\ draft[d].token # NoToken <=> draft[d].status = "submitted"
    /\ draft[d].token # NoToken <=> lead[d].status # "none"
    /\ \A e \in Draft \ {d} :
         /\ draft[d].token = draft[e].token => draft[d].token = NoToken
         /\ ~(Active(draft[d]) /\ Active(draft[e]))

\* What is over stays over: a submitted draft keeps its content and its token
\* and its Lead changes no more but for being removed, an expired one is only
\* ever cleaned up, and an overdue one is not revived by any save, hand-off or
\* submission.
OverIsOver ==
  [][\A d \in Draft :
       /\ draft[d].status = "submitted" =>
            /\ draft'[d].status = "submitted"
            /\ draft'[d].fields = draft[d].fields
            /\ draft'[d].demo = draft[d].demo
            /\ draft'[d].token = draft[d].token
       /\ lead[d].status = "kept" =>
            lead'[d] \in {lead[d], [lead[d] EXCEPT !.status = "removed"]}
       /\ draft[d].status \in {"expired", "gone"} =>
            draft'[d].status \in {draft[d].status, "gone"}
       /\ Active(draft[d]) /\ draft[d].overdue =>
            draft'[d] = draft[d] \/ draft'[d].status = "expired"]_vars

\* What these rest on: what a page has read is the past or the present of a
\* draft, and an active draft has been counted from 1.
PastIsPast ==
  \A s \in past :
    /\ draft[s.of].status # "none"
    /\ s.revision <= draft[s.of].revision
    /\ Active(draft[s.of]) /\ s.revision = draft[s.of].revision =>
         s = SnapshotOf(draft, s.of)

ActiveCounted == \A d \in Draft : Active(draft[d]) => draft[d].revision # 0

\* The drafts implement the record of submissions: see SubmissionRecord.  What
\* is open is the draft a request would find.
OpenChoice == {draft[d].demo : d \in Usable}

RequestOf(d) ==
  [token |-> draft[d].token, fields |-> lead[d].fields, demo |-> lead[d].demo,
   choice |-> draft[d].demo, saved |-> lead[d].saved,
   kept |-> lead[d].status = "kept"]

OnRecord == {RequestOf(d) : d \in {e \in Draft : draft[e].token # NoToken}}

Submissions ==
  INSTANCE SubmissionRecord
    WITH open <- OpenChoice, request <- OnRecord, thanked <- confirmed

KeepsSubmissions == Submissions!Spec

\* The inductive invariant.
IndInv ==
  /\ TypeOK
  /\ RevisionNamesContent
  /\ ThankedIsRecorded
  /\ OneLeadPerToken
  /\ PastIsPast
  /\ ActiveCounted
=============================================================================
