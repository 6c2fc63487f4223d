---------------------------- MODULE ContractRoom ----------------------------
(***************************************************************************)
(* One contract proposal and the customer's room that shows it (contracts/ *)
(* views.py, services.py, workspace_services.py): managers edit, publish,  *)
(* revoke and hand out access, the customer signs in, fills in the         *)
(* questionnaire, acknowledges two documents and confirms.                 *)
(*                                                                         *)
(* What locks the proposal's row for its whole transaction is one action.  *)
(* The manager's edit and revocation and the customer's acknowledgement    *)
(* read without a lock and write later: two actions each.                  *)
(***************************************************************************)
EXTENDS Naturals, Sequences

CONSTANTS
  Manager,      \* requests of managers that are under way together
  Device,       \* browser sessions of the customer
  Phone,        \* authorised phones
  Text,         \* commercial and private terms a manager may write
  NoText,       \* terms that are still blank
  Sections,     \* the questionnaire has sections 1..Sections, in this order
  Content,      \* what a section may hold
  Full,         \* ... with every required answer given
  Blank,        \* ... before the first save
  Unsigned,     \* a version nobody has signed
  MaxVersions,  \* bound: versions published
  MaxForms,     \* bound: questionnaires prepared
  MaxRevision,  \* bound: revision of the answers
  MaxGrants     \* bound: access grants created

ASSUME RoomAssumption ==
  /\ NoText \notin Text
  /\ Sections \in Nat \ {0}
  /\ Full \subseteq Content
  /\ Blank \in Content
  /\ {MaxVersions, MaxForms, MaxRevision, MaxGrants} \subseteq Nat

VARIABLES
  proposal,  \* the ContractProposal row
  late,      \* fourteen days have passed since expires_at was set
  version,   \* ContractVersions with their acknowledgements and acceptance
  form,      \* the SpecialistAssignment
  page,      \* the state of the answers each device's page has read
  grant,     \* RoomAccessGrants, oldest first
  session,   \* the session keys of each device
  request,   \* edits and revocations between their read and their save
  acking     \* acknowledgements between their checks and their insert

vars == <<proposal, late, version, form, page, grant, session, request, acking>>

Document == {"general", "private"}
Section == 1..Sections
Answers == [Section -> Content]
FullAnswers == [Section -> Full]
Untouched == [s \in Section |-> Blank]

\* "review" and "expired" are declared and written by nothing.
ProposalRow ==
  [status: {"draft", "sent", "accepted", "revoked"}, current: Nat,
   terms: Text \cup {NoText}, dated: BOOLEAN]       \* expires_at is set

Schema == 0..MaxForms
Revision == 0..MaxRevision
Evidence == [schema: Schema, revision: Revision, answers: Answers]

ASSUME UnsignedAssumption == Unsigned \notin Evidence

VersionRow ==
  [terms: Text, schema: Schema, ack: SUBSET Document,
   signed: Evidence \cup {Unsigned}]

\* schema counts the questionnaires prepared; 0: there is no assignment.
FormRow ==
  [schema: Schema, revision: Revision, answers: Answers, started: BOOLEAN]

\* "expired": active, but its own time is over.
GrantRow == [phone: Phone, status: {"active", "expired", "revoked"}]

\* A key names a grant of the proposal, or 0: the shared password of old rooms.
SessionKey == [version: Nat \ {0}, grant: Nat]

RequestRow == [kind: {"none", "edit", "revoke"}, read: ProposalRow]

Acking == [version: Nat, document: Document]        \* version 0: none

\* Every row keeps its type, and a reference names a row that exists.
TypeOK ==
  /\ proposal \in ProposalRow /\ proposal.current <= Len(version)
  /\ late \in BOOLEAN
  /\ version \in Seq(VersionRow)
  /\ form \in FormRow
  /\ page \in [Device -> FormRow]
  /\ grant \in Seq(GrantRow)
  /\ session \in [Device -> SUBSET SessionKey]
  /\ \A b \in Device : \A key \in session[b] :
       key.version <= Len(version) /\ key.grant <= Len(grant)
  /\ request \in [Manager -> RequestRow]
  /\ \A m \in Manager : request[m].read.current <= Len(version)
  /\ acking \in [Device -> Acking]
  /\ \A b \in Device : acking[b].version <= Len(version)

NewProposal ==
  [status |-> "draft", current |-> 0, terms |-> NoText, dated |-> FALSE]

NoForm ==
  [schema |-> 0, revision |-> 0, answers |-> Untouched, started |-> FALSE]

NoRequest == [kind |-> "none", read |-> NewProposal]

NotAcking == [version |-> 0, document |-> "general"]

\* A manager has created the proposal: the general terms and the default
\* clauses are there, the private terms are still to be written.
Init ==
  /\ proposal = NewProposal
  /\ late = FALSE
  /\ version = <<>>
  /\ form = NoForm
  /\ page = [b \in Device |-> NoForm]
  /\ grant = <<>>
  /\ session = [b \in Device |-> {}]
  /\ request = [m \in Manager |-> NoRequest]
  /\ acking = [b \in Device |-> NotAcking]

-----------------------------------------------------------------------------
(* Managers. *)

Editable(row) == row.status \in {"draft", "revoked"}

Begin(m, kind) ==
  /\ request[m].kind = "none"
  /\ request' = [request EXCEPT ![m] = [kind |-> kind, read |-> proposal]]
  /\ UNCHANGED <<proposal, late, version, form, page, grant, session, acking>>

\* proposal_edit reads the proposal (and so does workspace_contract_save, for
\* one that was never published) ...
EditRead(m) == Editable(proposal) /\ Begin(m, "edit")

\* Variant for the mutation runs: only what the form shows is saved.
SavedFields(read, terms) == [proposal EXCEPT !.terms = terms]

\* ... and saves the whole row, as it was read but for the form's fields, of
\* which the terms may be left blank.
Saved(read, terms) == [read EXCEPT !.terms = terms]

EditSave(m, terms) ==
  /\ request[m].kind = "edit"
  /\ proposal' = Saved(request[m].read, terms)
  /\ request' = [request EXCEPT ![m] = NoRequest]
  /\ UNCHANGED <<late, version, form, page, grant, session, acking>>

\* proposal_revoke: the check ...
RevokeRead(m) == proposal.status # "accepted" /\ Begin(m, "revoke")

\* ... and the save of the status alone.
RevokeSave(m) ==
  /\ request[m].kind = "revoke"
  /\ proposal' = [proposal EXCEPT !.status = "revoked"]
  /\ request' = [request EXCEPT ![m] = NoRequest]
  /\ UNCHANGED <<late, version, form, page, grant, session, acking>>

\* Variant for the mutation runs: any complete proposal can be published.
PublishableAgain == proposal.terms # NoText

\* The checks of publish_version.  Its version number has to be free.
Publishable == proposal.status # "accepted" /\ proposal.terms # NoText

\* publish_version (proposal_publish adds nothing to it).  expires_at is set
\* by the first publication and never renewed.
Publish ==
  /\ Publishable
  /\ proposal.current = Len(version)
  /\ Len(version) < MaxVersions
  /\ version' = Append(version, [terms |-> proposal.terms,
       schema |-> form.schema, ack |-> {}, signed |-> Unsigned])
  /\ proposal' = [proposal EXCEPT !.current = @ + 1, !.status = "sent",
                                  !.dated = TRUE]
  /\ late' = (proposal.dated /\ late)
  /\ UNCHANGED <<form, page, grant, session, request, acking>>

\* publish_customer_workspace
PublishWorkspace ==
  /\ Editable(proposal)
  /\ proposal.current = 0
  /\ form.schema # 0
  /\ \E g \in DOMAIN grant : grant[g].status # "revoked"
  /\ Publish

FormReplaceable == Editable(proposal) /\ proposal.current = 0

\* create_specialist_template_version: a first questionnaire, or another one
\* for answers nobody has begun.
PrepareForm ==
  /\ FormReplaceable
  /\ ~form.started
  /\ form.schema < MaxForms /\ form.revision < MaxRevision
  /\ form' = [form EXCEPT !.schema = @ + 1,
                          !.revision = IF form.schema = 0 THEN 0 ELSE @ + 1]
  /\ UNCHANGED <<proposal, late, version, page, grant, session, request, acking>>

\* create_access_grant: the phone's credential is replaced.
GrantAccess(phone) ==
  /\ Len(grant) < MaxGrants
  /\ grant' = Append([g \in DOMAIN grant |->
                        IF grant[g].phone = phone
                        THEN [grant[g] EXCEPT !.status = "revoked"]
                        ELSE grant[g]],
                     [phone |-> phone, status |-> "active"])
  /\ UNCHANGED <<proposal, late, version, form, page, session, request, acking>>

\* revoke_access_grant
RevokeAccess(g) ==
  /\ grant[g].status # "revoked"
  /\ grant' = [grant EXCEPT ![g].status = "revoked"]
  /\ UNCHANGED <<proposal, late, version, form, page, session, request, acking>>

-----------------------------------------------------------------------------
(* Time. *)

Lapse ==
  /\ proposal.dated /\ ~late
  /\ late' = TRUE
  /\ UNCHANGED <<proposal, version, form, page, grant, session, request, acking>>

Expire(g) ==
  /\ grant[g].status = "active"
  /\ grant' = [grant EXCEPT ![g].status = "expired"]
  /\ UNCHANGED <<proposal, late, version, form, page, session, request, acking>>

-----------------------------------------------------------------------------
(* The customer. *)

\* is_publicly_available
PubliclyAvailable ==
  \/ proposal.status = "accepted"
  \/ proposal.status = "sent" /\ ~(proposal.dated /\ late)

Open == PubliclyAvailable /\ proposal.current # 0

Here == version[proposal.current]

Available(g) == grant[g].status = "active"

\* _session_grant: the device's key for the current version still opens it.
HasAccess(b) ==
  \E key \in session[b] :
    /\ key.version = proposal.current
    /\ IF key.grant = 0 THEN grant = <<>> ELSE Available(key.grant)

WithoutKey(b) == {key \in session[b] : key.version # proposal.current}

\* contract_access, with a grant's password or, where there has never been a
\* grant, the shared one (key 0).
SignIn(b, g) ==
  /\ Open /\ ~HasAccess(b)
  /\ IF g = 0 THEN grant = <<>> ELSE Available(g)
  /\ session' = [session EXCEPT ![b] =
       WithoutKey(b) \cup {[version |-> proposal.current, grant |-> g]}]
  /\ UNCHANGED <<proposal, late, version, form, page, grant, request, acking>>

\* contract_logout
SignOut(b) ==
  /\ session[b] # WithoutKey(b)
  /\ session' = [session EXCEPT ![b] = WithoutKey(b)]
  /\ UNCHANGED <<proposal, late, version, form, page, grant, request, acking>>

\* Variant for the mutation runs: the form never closes.
FormNeverLocked == FALSE

\* _questionnaire_locked
FormLocked == Here.signed # Unsigned \/ Here.ack # {}

\* A section is open once those before it are complete, and stays open.
Reachable(s) ==
  form.answers[s] \in Full \/ \A r \in 1..(s - 1) : form.answers[r] \in Full

\* Variant for the mutation runs: an answer that was there keeps the revision.
AnsweredFirst(s, content) ==
  [form EXCEPT !.answers[s] = content, !.started = TRUE,
               !.revision = IF form.answers[s] = Blank THEN @ + 1 ELSE @]

Answered(s, content) ==
  [form EXCEPT !.answers[s] = content, !.started = TRUE, !.revision = @ + 1]

\* _room_proposal_version: the room is open to the device, and has a form.
AtForm(b) == Open /\ HasAccess(b) /\ form.schema # 0

\* customer_questionnaire (GET)
ReadForm(b) ==
  /\ AtForm(b)
  /\ page' = [page EXCEPT ![b] = form]
  /\ UNCHANGED <<proposal, late, version, form, grant, session, request, acking>>

\* A save from a page with the present revision; any other is told of the
\* conflict.  The page may never get the answer, and then keeps its revision.
Write(b, s, content) ==
  /\ AtForm(b)
  /\ Reachable(s)
  /\ ~FormLocked
  /\ page[b] # NoForm
  /\ page[b].revision = form.revision
  /\ form.revision < MaxRevision
  /\ form' = Answered(s, content)
  /\ page' \in {page, [page EXCEPT ![b] = form']}
  /\ UNCHANGED <<proposal, late, version, grant, session, request, acking>>

\* questionnaire_autosave: one answer, which may leave the section incomplete.
Autosave(b, s, content) == Write(b, s, content)

\* customer_questionnaire (POST): a section with every required answer.
SubmitSection(b, s, content) == content \in Full /\ Write(b, s, content)

\* _linked_discovery_state
FormComplete == form.schema # 0 => form.answers \in FullAnswers

\* Variant for the mutation runs: the documents can be read in any order.
MayAcknowledgeAny(document) == FormComplete

MayAcknowledge(document) ==
  /\ FormComplete
  /\ document = "private" => "general" \in Here.ack

\* contract_acknowledge: the checks, without a lock ...
AckRead(b, document) ==
  /\ acking[b].version = 0
  /\ Open /\ HasAccess(b)
  /\ MayAcknowledge(document)
  /\ acking' = [acking EXCEPT ![b] =
       [version |-> proposal.current, document |-> document]]
  /\ UNCHANGED <<proposal, late, version, form, page, grant, session, request>>

\* ... and get_or_create, whatever has happened since.
AckWrite(b) ==
  /\ acking[b].version # 0
  /\ version' = [version EXCEPT ![acking[b].version].ack =
                                  @ \cup {acking[b].document}]
  /\ acking' = [acking EXCEPT ![b] = NotAcking]
  /\ UNCHANGED <<proposal, late, form, page, grant, session, request>>

\* contract_confirm: everything is checked again under the locks.
Confirm(b) ==
  /\ Open /\ HasAccess(b)
  /\ Here.signed = Unsigned
  /\ Here.ack = Document
  /\ FormComplete
  /\ version' = [version EXCEPT ![proposal.current].signed =
       [schema |-> form.schema, revision |-> form.revision,
        answers |-> form.answers]]
  /\ proposal' = [proposal EXCEPT !.status = "accepted"]
  /\ session' = [session EXCEPT ![b] = WithoutKey(b)]
  /\ UNCHANGED <<late, form, page, grant, request, acking>>

-----------------------------------------------------------------------------
Manage ==
  \/ \E m \in Manager :
       \/ EditRead(m) \/ RevokeRead(m) \/ RevokeSave(m)
       \/ \E terms \in Text \cup {NoText} : EditSave(m, terms)
  \/ Publish \/ PublishWorkspace \/ PrepareForm
  \/ \E phone \in Phone : GrantAccess(phone)
  \/ \E g \in DOMAIN grant : RevokeAccess(g)

Tick == Lapse \/ \E g \in DOMAIN grant : Expire(g)

Visit(b) ==
  \/ \E g \in {0} \cup DOMAIN grant : SignIn(b, g)
  \/ SignOut(b)
  \/ ReadForm(b)
  \/ \E s \in Section, content \in Content :
       Autosave(b, s, content) \/ SubmitSection(b, s, content)
  \/ \E document \in Document : AckRead(b, document)
  \/ AckWrite(b)
  \/ Confirm(b)

Next == Manage \/ Tick \/ \E b \in Device : Visit(b)

Spec == Init /\ [][Next]_vars

-----------------------------------------------------------------------------
(* Properties. *)

\* A room that is sent or accepted shows the newest version, and this is the
\* proposal as its managers see it: neither an edit that was read before the
\* publication nor another questionnaire can make the two differ behind the
\* customer's back ("published text and answers are snapshots").
OpenRoomIsItsSnapshot ==
  proposal.status \in {"sent", "accepted"} =>
    /\ proposal.current = Len(version)
    /\ proposal.current # 0
    /\ Here.terms = proposal.terms
    /\ Here.schema = form.schema

\* The answers of an accepted contract stay those it was signed with: the
\* confirmation and the saves, on two devices, exclude each other.
SignedAnswersStand ==
  proposal.status = "accepted" =>
    Here.signed = [schema |-> form.schema, revision |-> form.revision,
                   answers |-> form.answers]

\* A page whose revision matches has seen the answers it is about to
\* overwrite ("the revision keeps an old page or device from overwriting newer
\* answers").
MatchingPageIsCurrent ==
  \A b \in Device :
    page[b] # NoForm /\ page[b].revision = form.revision => page[b] = form

\* A publication or an acceptance is taken back only by a save whose request
\* had read the proposal before something else changed it; nothing done in
\* one piece undoes them.
UndoneOnlyByOldRead ==
  [][\/ proposal'.current < proposal.current
     \/ proposal.status = "accepted" /\ proposal'.status # "accepted"
     => \E m \in Manager :
          /\ request[m].kind # "none"
          /\ request'[m].kind = "none"
          /\ request[m].read # proposal]_vars

\* The room implements the record: see RoomRecord.
Record ==
  INSTANCE RoomRecord WITH Terms <- Text

KeepsRecord == Record!Spec
=============================================================================
