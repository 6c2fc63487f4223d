------------------------ MODULE ContractRoom_proofs ------------------------
(***************************************************************************)
(* Theorems of ContractRoom, for any managers, devices, phones, texts,     *)
(* questionnaires and contents of their answers.                           *)
(***************************************************************************)
EXTENDS ContractRoom, TLAPS

\* What a page has read is not newer than the answers, and nothing is read
\* before there is a questionnaire.
PagesAreBehind ==
  \A b \in Device :
    /\ page[b].revision <= form.revision
    /\ form.schema = 0 => page[b] = NoForm

\* An edit or a revocation under way has passed its check.
RequestsHavePassed ==
  \A m \in Manager :
    /\ request[m].kind = "edit" => Editable(request[m].read)
    /\ request[m].kind = "revoke" => request[m].read.status # "accepted"

\* The private terms are about to be acknowledged where the general ones are.
AcknowledgedInOrder ==
  \A b \in Device :
    acking[b].version # 0 /\ acking[b].document = "private" =>
      "general" \in version[acking[b].version].ack

IndInv ==
  /\ TypeOK
  /\ OpenRoomIsItsSnapshot
  /\ SignedAnswersStand
  /\ MatchingPageIsCurrent
  /\ PagesAreBehind
  /\ RequestsHavePassed
  /\ AcknowledgedInOrder

LEMMA InitInv == Init => IndInv
<1> SUFFICES ASSUME Init  PROVE  IndInv
  OBVIOUS
<1> USE RoomAssumption DEF Init
<1>1. NewProposal \in ProposalRow /\ NoForm \in FormRow
  BY DEF NewProposal, ProposalRow, NoForm, FormRow, Schema, Revision, Answers,
         Untouched
<1>2. TypeOK
  <2>1. NoRequest \in RequestRow /\ NotAcking \in Acking
    BY <1>1 DEF NoRequest, RequestRow, NotAcking, Acking, Document
  <2>2. /\ Len(version) = 0 /\ version \in Seq(VersionRow)
        /\ grant \in Seq(GrantRow)
    OBVIOUS
  <2>3. /\ NewProposal.current = 0 /\ NoRequest.read = NewProposal
        /\ NotAcking.version = 0
    BY DEF NewProposal, NoRequest, NotAcking
  <2>4. ASSUME NEW m \in Manager
        PROVE  request[m].read.current <= Len(version)
    <3>1. request[m].read.current = 0
      BY <2>3
    <3> QED
      BY <2>2, <3>1
  <2>5. \A b \in Device : acking[b].version <= Len(version)
    BY <2>2, <2>3
  <2>6. \A b \in Device : session[b] = {}
    OBVIOUS
  <2>7. proposal.current <= Len(version)
    BY <2>2, <2>3
  <2> QED
    BY <1>1, <2>1, <2>2, <2>4, <2>5, <2>6, <2>7 DEF TypeOK
<1>3. /\ OpenRoomIsItsSnapshot /\ SignedAnswersStand /\ MatchingPageIsCurrent
      /\ PagesAreBehind /\ RequestsHavePassed /\ AcknowledgedInOrder
  BY DEF OpenRoomIsItsSnapshot, SignedAnswersStand, MatchingPageIsCurrent,
         PagesAreBehind, RequestsHavePassed, AcknowledgedInOrder, NewProposal,
         NoForm, NoRequest, NotAcking
<1> QED
  BY <1>2, <1>3 DEF IndInv

-----------------------------------------------------------------------------
(* Managers and time. *)

\* Steps that change who may enter, and when, only concern the types.
LEMMA AccessInv ==
  ASSUME IndInv, UNCHANGED <<proposal, version, form, page, request, acking>>,
         TypeOK'
  PROVE  IndInv'
BY DEF IndInv, OpenRoomIsItsSnapshot, SignedAnswersStand, Here,
       MatchingPageIsCurrent, PagesAreBehind, RequestsHavePassed,
       AcknowledgedInOrder

LEMMA GrantInv ==
  ASSUME IndInv,
         \/ \E phone \in Phone : GrantAccess(phone)
         \/ \E g \in DOMAIN grant : RevokeAccess(g) \/ Expire(g)
  PROVE  IndInv'
<1> USE DEF IndInv
<1>1. UNCHANGED <<proposal, late, version, form, page, session, request, acking>>
  BY DEF GrantAccess, RevokeAccess, Expire
<1>2. grant' \in Seq(GrantRow) /\ Len(grant) <= Len(grant')
  <2>1. ASSUME NEW phone \in Phone, GrantAccess(phone)
        PROVE  grant' \in Seq(GrantRow) /\ Len(grant) <= Len(grant')
    <3> DEFINE replaced == [g \in DOMAIN grant |->
                              IF grant[g].phone = phone
                              THEN [grant[g] EXCEPT !.status = "revoked"]
                              ELSE grant[g]]
    <3>1. \A g \in DOMAIN grant : replaced[g] \in GrantRow
      <4>1. \A g \in DOMAIN grant : grant[g] \in GrantRow
        BY DEF TypeOK
      <4>2. \A row \in GrantRow : [row EXCEPT !.status = "revoked"] \in GrantRow
        BY DEF GrantRow
      <4> QED
        BY <4>1, <4>2
    <3>2. replaced \in Seq(GrantRow) /\ Len(replaced) = Len(grant)
      <4>1. grant \in Seq(GrantRow)
        BY DEF TypeOK
      <4> QED
        BY <3>1, <4>1
    <3>3. [phone |-> phone, status |-> "active"] \in GrantRow
      BY DEF GrantRow
    <3>4. grant' = Append(replaced, [phone |-> phone, status |-> "active"])
      BY <2>1 DEF GrantAccess
    <3> HIDE DEF replaced
    <3> QED
      BY <3>2, <3>3, <3>4
  <2>2. ASSUME NEW g \in DOMAIN grant, NEW status \in {"revoked", "expired"},
               grant' = [grant EXCEPT ![g].status = status]
        PROVE  grant' \in Seq(GrantRow) /\ Len(grant) <= Len(grant')
    <3>1. grant \in Seq(GrantRow) /\ grant[g] \in GrantRow
      BY DEF TypeOK
    <3>2. [grant[g] EXCEPT !.status = status] \in GrantRow
      BY <3>1 DEF GrantRow
    <3> QED
      BY <2>2, <3>1, <3>2
  <2> QED
    BY <2>1, <2>2 DEF RevokeAccess, Expire
<1>3. TypeOK'
  <2>1. \A b \in Device : \A key \in session'[b] :
          key.version <= Len(version') /\ key.grant <= Len(grant')
    <3>1. Len(grant) \in Nat /\ Len(grant') \in Nat
      BY <1>2 DEF TypeOK
    <3>2. \A b \in Device : \A key \in session[b] : key.grant \in Nat
      BY DEF TypeOK, SessionKey
    <3> QED
      BY <1>1, <1>2, <3>1, <3>2 DEF TypeOK
  <2> QED
    BY <1>1, <1>2, <2>1 DEF TypeOK
<1> QED
  BY <1>1, <1>3, AccessInv

LEMMA SessionInv ==
  ASSUME IndInv, NEW b \in Device,
         SignOut(b) \/ \E g \in {0} \cup DOMAIN grant : SignIn(b, g)
  PROVE  IndInv'
<1> USE DEF IndInv
<1>1. UNCHANGED <<proposal, late, version, form, page, grant, request, acking>>
  BY DEF SignIn, SignOut
<1>2. WithoutKey(b) \subseteq session[b]
  BY DEF WithoutKey
<1>3. CASE SignOut(b)
  <2>1. session' = [session EXCEPT ![b] = WithoutKey(b)]
    BY <1>3 DEF SignOut
  <2>2. TypeOK'
    BY <1>1, <1>2, <2>1 DEF TypeOK
  <2> QED
    BY <1>1, <2>2, AccessInv
<1>4. ASSUME NEW g \in {0} \cup DOMAIN grant, SignIn(b, g)
      PROVE  IndInv'
  <2> DEFINE key == [version |-> proposal.current, grant |-> g]
  <2>1. key \in SessionKey /\ key.version <= Len(version) /\ key.grant <= Len(grant)
    <3>1. proposal.current \in Nat /\ proposal.current # 0
      BY <1>4 DEF SignIn, Open, TypeOK, ProposalRow
    <3>2. g \in Nat /\ g <= Len(grant)
      <4>1. grant \in Seq(GrantRow)
        BY DEF TypeOK
      <4> QED
        BY <4>1
    <3> QED
      BY <3>1, <3>2 DEF TypeOK, SessionKey
  <2>2. session' = [session EXCEPT ![b] = WithoutKey(b) \cup {key}]
    BY <1>4 DEF SignIn
  <2> HIDE DEF key
  <2>3. TypeOK'
    BY <1>1, <1>2, <2>1, <2>2 DEF TypeOK
  <2> QED
    BY <1>1, <2>3, AccessInv
<1> QED
  BY <1>3, <1>4

LEMMA LapseInv ==
  ASSUME IndInv, Lapse
  PROVE  IndInv'
<1>1. TypeOK'
  BY DEF IndInv, TypeOK, Lapse
<1> QED
  BY <1>1, AccessInv DEF Lapse

LEMMA BeginInv ==
  ASSUME IndInv, NEW m \in Manager, EditRead(m) \/ RevokeRead(m)
  PROVE  IndInv'
<1> USE DEF IndInv
<1>1. PICK kind \in {"edit", "revoke"} :
        /\ Begin(m, kind)
        /\ kind = "edit" => Editable(proposal)
        /\ kind = "revoke" => proposal.status # "accepted"
  BY DEF EditRead, RevokeRead
<1> DEFINE begun == [kind |-> kind, read |-> proposal]
<1>2. UNCHANGED <<proposal, late, version, form, page, grant, session, acking>>
  BY <1>1 DEF Begin
<1>3. /\ request' = [request EXCEPT ![m] = begun]
      /\ begun \in RequestRow /\ begun.read = proposal /\ begun.kind = kind
  BY <1>1 DEF Begin, TypeOK, RequestRow
<1> HIDE DEF begun
<1>4. TypeOK'
  BY <1>2, <1>3 DEF TypeOK
<1>5. RequestsHavePassed'
  BY <1>1, <1>2, <1>3 DEF RequestsHavePassed, Editable, TypeOK
<1>6. /\ OpenRoomIsItsSnapshot' /\ SignedAnswersStand' /\ MatchingPageIsCurrent'
      /\ PagesAreBehind' /\ AcknowledgedInOrder'
  BY <1>2 DEF OpenRoomIsItsSnapshot, SignedAnswersStand, Here,
              MatchingPageIsCurrent, PagesAreBehind, AcknowledgedInOrder
<1> QED
  BY <1>4, <1>5, <1>6

\* The save of a manager closes the room, or leaves it closed.
LEMMA SaveInv ==
  ASSUME IndInv, NEW m \in Manager,
         RevokeSave(m) \/ \E terms \in Text \cup {NoText} : EditSave(m, terms)
  PROVE  IndInv'
<1> USE DEF IndInv
<1>1. /\ UNCHANGED <<late, version, form, page, grant, session, acking>>
      /\ request' = [request EXCEPT ![m] = NoRequest]
  BY DEF EditSave, RevokeSave
<1>2. /\ proposal' \in ProposalRow /\ proposal'.current <= Len(version)
      /\ proposal'.status \in {"draft", "revoked"}
  <2>1. ASSUME NEW terms \in Text \cup {NoText}, EditSave(m, terms)
        PROVE  /\ proposal' \in ProposalRow
               /\ proposal'.current <= Len(version)
               /\ proposal'.status \in {"draft", "revoked"}
    <3>1. /\ request[m].read \in ProposalRow
          /\ request[m].read.current <= Len(version)
      BY DEF TypeOK, RequestRow
    <3>2. request[m].read.status \in {"draft", "revoked"}
      BY <2>1 DEF EditSave, RequestsHavePassed, Editable
    <3>3. proposal' = [request[m].read EXCEPT !.terms = terms]
      BY <2>1 DEF EditSave, Saved
    <3> QED
      BY <3>1, <3>2, <3>3 DEF ProposalRow
  <2>2. CASE RevokeSave(m)
    <3>1. proposal' = [proposal EXCEPT !.status = "revoked"]
      BY <2>2 DEF RevokeSave
    <3> QED
      BY <3>1 DEF TypeOK, ProposalRow
  <2> QED
    BY <2>1, <2>2
<1>3. /\ NoRequest \in RequestRow /\ NoRequest.kind = "none"
      /\ NoRequest.read.current = 0
  BY DEF NoRequest, NewProposal, RequestRow, ProposalRow
<1>4. TypeOK'
  <2>1. Len(version) \in Nat
    BY DEF TypeOK
  <2>2. \A n \in Manager : request'[n].read.current <= Len(version)
    BY <1>1, <1>3, <2>1 DEF TypeOK
  <2> QED
    BY <1>1, <1>2, <1>3, <2>2 DEF TypeOK
<1>5. RequestsHavePassed'
  BY <1>1, <1>3 DEF RequestsHavePassed, Editable, TypeOK
<1>6. /\ OpenRoomIsItsSnapshot' /\ SignedAnswersStand' /\ MatchingPageIsCurrent'
      /\ PagesAreBehind' /\ AcknowledgedInOrder'
  BY <1>1, <1>2 DEF OpenRoomIsItsSnapshot, SignedAnswersStand, Here,
                    MatchingPageIsCurrent, PagesAreBehind, AcknowledgedInOrder
<1> QED
  BY <1>4, <1>5, <1>6

\* What a publication adds to the record.
LEMMA PublishMoves ==
  ASSUME TypeOK, Publish
  PROVE  /\ version' = Append(version, [terms |-> proposal.terms,
                schema |-> form.schema, ack |-> {}, signed |-> Unsigned])
         /\ proposal.terms \in Text
         /\ form.schema \in Schema
         /\ version' \in Seq(VersionRow)
         /\ Len(version') = Len(version) + 1
         /\ \A n \in DOMAIN version : version'[n] = version[n]
         /\ version'[Len(version) + 1] =
              [terms |-> proposal.terms, schema |-> form.schema,
               ack |-> {}, signed |-> Unsigned]
<1> DEFINE new == [terms |-> proposal.terms, schema |-> form.schema,
                   ack |-> {}, signed |-> Unsigned]
<1>1. version' = Append(version, new) /\ version \in Seq(VersionRow)
  BY DEF Publish, TypeOK
<1>2. proposal.terms \in Text /\ form.schema \in Schema
  BY DEF Publish, Publishable, TypeOK, ProposalRow, FormRow
<1>3. new \in VersionRow
  BY <1>2 DEF VersionRow
<1> HIDE DEF new
<1>4. /\ version' \in Seq(VersionRow)
      /\ Len(version') = Len(version) + 1
      /\ \A n \in DOMAIN version : version'[n] = version[n]
      /\ version'[Len(version) + 1] = new
  BY <1>1, <1>3
<1> QED
  BY <1>1, <1>2, <1>4 DEF new

LEMMA PublishInv ==
  ASSUME IndInv, Publish
  PROVE  IndInv'
<1> USE DEF IndInv
<1>1. UNCHANGED <<form, page, grant, session, request, acking>>
  BY DEF Publish
<1>2. /\ version' \in Seq(VersionRow)
      /\ Len(version') = Len(version) + 1
      /\ \A n \in DOMAIN version : version'[n] = version[n]
      /\ version'[Len(version) + 1].terms = proposal.terms
      /\ version'[Len(version) + 1].schema = form.schema
  BY PublishMoves
<1>3. /\ proposal' \in ProposalRow /\ proposal'.status = "sent"
      /\ proposal'.current = Len(version) + 1
      /\ proposal'.terms = proposal.terms
  <2>1. /\ proposal' = [proposal EXCEPT !.current = @ + 1, !.status = "sent",
                                       !.dated = TRUE]
        /\ proposal.current = Len(version)
    BY DEF Publish
  <2>2. PICK number \in Nat : number = proposal.current + 1
    BY DEF TypeOK, ProposalRow
  <2>3. proposal' = [proposal EXCEPT !.current = number, !.status = "sent",
                                     !.dated = TRUE]
    BY <2>1, <2>2
  <2> QED
    BY <2>1, <2>2, <2>3 DEF TypeOK, ProposalRow
<1>4. Len(version) \in Nat /\ DOMAIN version = 1..Len(version)
  BY DEF TypeOK
<1>5. TypeOK'
  <2>1. late' \in BOOLEAN
    BY DEF Publish
  <2>2. \A b \in Device : \A key \in session[b] :
          key.version <= Len(version') /\ key.grant <= Len(grant)
    BY <1>2, <1>4 DEF TypeOK, SessionKey
  <2>3. \A m \in Manager : request[m].read.current <= Len(version')
    BY <1>2, <1>4 DEF TypeOK, RequestRow, ProposalRow
  <2>4. \A b \in Device : acking[b].version <= Len(version')
    BY <1>2, <1>4 DEF TypeOK, Acking
  <2> QED
    <3>1. proposal'.current <= Len(version')
      BY <1>2, <1>3, <1>4
    <3>2. /\ version' \in Seq(VersionRow) /\ late' \in BOOLEAN
          /\ proposal' \in ProposalRow
      BY <1>2, <1>3, <2>1
    <3> QED
      BY <1>1, <2>2, <2>3, <2>4, <3>1, <3>2 DEF TypeOK
<1>6. OpenRoomIsItsSnapshot' /\ SignedAnswersStand'
  BY <1>1, <1>2, <1>3, <1>4 DEF OpenRoomIsItsSnapshot, SignedAnswersStand, Here
<1>7. AcknowledgedInOrder'
  <2>1. \A b \in Device :
          acking[b].version # 0 => acking[b].version \in DOMAIN version
    BY <1>4 DEF TypeOK, Acking
  <2> QED
    BY <1>1, <1>2, <2>1 DEF AcknowledgedInOrder
<1>8. MatchingPageIsCurrent' /\ PagesAreBehind' /\ RequestsHavePassed'
  BY <1>1 DEF MatchingPageIsCurrent, PagesAreBehind, RequestsHavePassed
<1> QED
  BY <1>5, <1>6, <1>7, <1>8

LEMMA PrepareInv ==
  ASSUME IndInv, PrepareForm
  PROVE  IndInv'
<1> USE DEF IndInv
<1>1. /\ UNCHANGED <<proposal, late, version, page, grant, session, request,
                     acking>>
      /\ proposal.status \in {"draft", "revoked"}
  BY DEF PrepareForm, FormReplaceable, Editable
<1>2. /\ form \in FormRow /\ form.schema < MaxForms
      /\ form.revision < MaxRevision
      /\ form' = [form EXCEPT !.schema = @ + 1,
                       !.revision = IF form.schema = 0 THEN 0 ELSE @ + 1]
      /\ MaxForms \in Nat /\ MaxRevision \in Nat
  BY RoomAssumption DEF PrepareForm, TypeOK
<1>3. /\ form' \in FormRow /\ form'.schema # 0
      /\ form.schema # 0 => form'.revision = form.revision + 1
      /\ form.revision \in Nat
  <2>1. PICK schema \in Schema : schema = form.schema + 1 /\ schema # 0
    BY <1>2 DEF FormRow, Schema
  <2>2. PICK revision \in Revision :
          /\ revision = (IF form.schema = 0 THEN 0 ELSE form.revision + 1)
          /\ form.schema # 0 => revision = form.revision + 1
    BY <1>2 DEF FormRow, Revision
  <2>3. form' = [form EXCEPT !.schema = schema, !.revision = revision]
    BY <1>2, <2>1, <2>2
  <2>4. form' \in FormRow /\ form'.schema = schema /\ form'.revision = revision
    BY <1>2, <2>1, <2>2, <2>3 DEF FormRow
  <2>5. form.revision \in Nat
    BY <1>2 DEF FormRow, Revision
  <2> QED
    BY <2>1, <2>2, <2>4, <2>5
<1>4. TypeOK'
  BY <1>1, <1>3 DEF TypeOK
<1>5. MatchingPageIsCurrent' /\ PagesAreBehind'
  <2>1. \A b \in Device : page[b].revision \in Nat
    BY DEF TypeOK, FormRow, Revision
  <2>2. CASE form.schema = 0
    <3>1. \A b \in Device : page[b] = NoForm
      BY <2>2 DEF PagesAreBehind
    <3>2. NoForm.revision = 0 /\ form'.revision \in Nat
      BY <1>3 DEF NoForm, FormRow, Revision
    <3>3. \A b \in Device : page[b].revision <= form'.revision
      BY <3>1, <3>2
    <3> QED
      BY <1>1, <1>3, <3>1, <3>3 DEF MatchingPageIsCurrent, PagesAreBehind
  <2>3. CASE form.schema # 0
    BY <1>1, <1>3, <2>1, <2>3 DEF MatchingPageIsCurrent, PagesAreBehind
  <2> QED
    BY <2>2, <2>3
<1>6. /\ OpenRoomIsItsSnapshot' /\ SignedAnswersStand'
      /\ RequestsHavePassed' /\ AcknowledgedInOrder'
  BY <1>1 DEF OpenRoomIsItsSnapshot, SignedAnswersStand, Here,
              RequestsHavePassed, AcknowledgedInOrder
<1> QED
  BY <1>4, <1>5, <1>6
-----------------------------------------------------------------------------
(* The customer. *)

LEMMA ReadFormInv ==
  ASSUME IndInv, NEW b \in Device, ReadForm(b)
  PROVE  IndInv'
<1> USE DEF IndInv
<1>1. /\ UNCHANGED <<proposal, late, version, form, grant, session, request,
                     acking>>
      /\ page' = [page EXCEPT ![b] = form]
      /\ form.schema # 0
  BY DEF ReadForm, AtForm
<1>2. TypeOK'
  BY <1>1 DEF TypeOK
<1>3. form.revision <= form.revision
  BY DEF TypeOK, FormRow, Revision
<1>4. MatchingPageIsCurrent' /\ PagesAreBehind'
  BY <1>1, <1>3 DEF MatchingPageIsCurrent, PagesAreBehind, TypeOK
<1>5. /\ OpenRoomIsItsSnapshot' /\ SignedAnswersStand'
      /\ RequestsHavePassed' /\ AcknowledgedInOrder'
  BY <1>1 DEF OpenRoomIsItsSnapshot, SignedAnswersStand, Here,
              RequestsHavePassed, AcknowledgedInOrder
<1> QED
  BY <1>2, <1>4, <1>5

LEMMA WriteInv ==
  ASSUME IndInv, NEW b \in Device, NEW s \in Section, NEW content \in Content,
         Autosave(b, s, content) \/ SubmitSection(b, s, content)
  PROVE  IndInv'
<1> USE DEF IndInv
<1>1. /\ UNCHANGED <<proposal, late, version, grant, session, request, acking>>
      /\ page' \in {page, [page EXCEPT ![b] = form']}
      /\ Here.signed = Unsigned /\ Open
      /\ form.schema # 0 /\ form.revision < MaxRevision
      /\ form' = Answered(s, content)
  BY DEF Autosave, SubmitSection, Write, AtForm, FormLocked
<1>2. /\ form' \in FormRow /\ form'.schema = form.schema
      /\ form'.revision = form.revision + 1 /\ form.revision \in Nat
  <2>1. form \in FormRow /\ form.revision \in Nat /\ MaxRevision \in Nat
    BY RoomAssumption DEF TypeOK, FormRow, Revision
  <2>2. PICK revision \in Revision : revision = form.revision + 1
    BY <1>1, <2>1 DEF Revision
  <2>3. PICK answers \in Answers :
          answers = [form.answers EXCEPT ![s] = content]
    BY <2>1 DEF FormRow, Answers
  <2>4. form' = [form EXCEPT !.answers = answers, !.started = TRUE,
                             !.revision = revision]
    BY <1>1, <2>1, <2>2, <2>3 DEF Answered, FormRow
  <2> QED
    BY <2>1, <2>2, <2>4 DEF FormRow
<1>3. TypeOK'
  BY <1>1, <1>2 DEF TypeOK
<1>4. OpenRoomIsItsSnapshot'
  BY <1>1, <1>2 DEF OpenRoomIsItsSnapshot, Here
<1>5. SignedAnswersStand'
  <2>1. proposal.status # "accepted"
    <3>1. [schema |-> form.schema, revision |-> form.revision,
           answers |-> form.answers] \in Evidence
      BY DEF TypeOK, FormRow, Evidence
    <3> QED
      BY <1>1, <3>1, UnsignedAssumption DEF SignedAnswersStand
  <2> QED
    BY <1>1, <2>1 DEF SignedAnswersStand
<1>6. MatchingPageIsCurrent' /\ PagesAreBehind'
  <2>1. ASSUME NEW d \in Device
        PROVE  /\ page'[d].revision <= form'.revision
               /\ page'[d].revision = form'.revision => page'[d] = form'
    <3>1. page'[d] = page[d] \/ page'[d] = form'
      BY <1>1 DEF TypeOK
    <3>2. page[d].revision <= form.revision /\ page[d].revision \in Nat
      BY DEF PagesAreBehind, TypeOK, FormRow, Revision
    <3> QED
      BY <1>2, <3>1, <3>2
  <2> QED
    BY <1>1, <1>2, <2>1 DEF MatchingPageIsCurrent, PagesAreBehind
<1>7. RequestsHavePassed' /\ AcknowledgedInOrder'
  BY <1>1 DEF RequestsHavePassed, AcknowledgedInOrder
<1> QED
  BY <1>3, <1>4, <1>5, <1>6, <1>7

LEMMA AckReadInv ==
  ASSUME IndInv, NEW b \in Device, NEW document \in Document,
         AckRead(b, document)
  PROVE  IndInv'
<1> USE DEF IndInv
<1> DEFINE begun == [version |-> proposal.current, document |-> document]
<1>1. /\ UNCHANGED <<proposal, late, version, form, page, grant, session, request>>
      /\ acking' = [acking EXCEPT ![b] = begun]
      /\ document = "private" => "general" \in version[proposal.current].ack
  BY DEF AckRead, MayAcknowledge, Here
<1>2. /\ begun \in Acking /\ begun.version = proposal.current
      /\ begun.document = document
  BY DEF TypeOK, ProposalRow, Acking
<1> HIDE DEF begun
<1>3. TypeOK'
  BY <1>1, <1>2 DEF TypeOK
<1>4. AcknowledgedInOrder'
  BY <1>1, <1>2 DEF AcknowledgedInOrder, TypeOK
<1>5. /\ OpenRoomIsItsSnapshot' /\ SignedAnswersStand' /\ MatchingPageIsCurrent'
      /\ PagesAreBehind' /\ RequestsHavePassed'
  BY <1>1 DEF OpenRoomIsItsSnapshot, SignedAnswersStand, Here,
              MatchingPageIsCurrent, PagesAreBehind, RequestsHavePassed
<1> QED
  BY <1>3, <1>4, <1>5

\* One version of the record is changed: in its acknowledgements, or in its
\* signature.
LEMMA VersionMoves ==
  ASSUME TypeOK, NEW n \in DOMAIN version, NEW row \in VersionRow,
         version' = [version EXCEPT ![n] = row]
  PROVE  /\ version' \in Seq(VersionRow)
         /\ Len(version') = Len(version)
         /\ version'[n] = row
         /\ \A k \in DOMAIN version \ {n} : version'[k] = version[k]
<1>1. version \in Seq(VersionRow)
  BY DEF TypeOK
<1> QED
  BY <1>1

LEMMA AckWriteMoves ==
  ASSUME TypeOK, NEW b \in Device, AckWrite(b)
  PROVE  LET n == acking[b].version IN
         /\ n \in DOMAIN version
         /\ version' \in Seq(VersionRow) /\ Len(version') = Len(version)
         /\ version'[n].ack = version[n].ack \cup {acking[b].document}
         /\ version'[n].terms = version[n].terms
         /\ version'[n].schema = version[n].schema
         /\ version'[n].signed = version[n].signed
         /\ \A k \in DOMAIN version \ {n} : version'[k] = version[k]
<1> DEFINE n == acking[b].version
           row == [version[n] EXCEPT !.ack = @ \cup {acking[b].document}]
<1>1. n \in DOMAIN version /\ version[n] \in VersionRow
  <2>1. n \in Nat /\ n # 0 /\ n <= Len(version) /\ version \in Seq(VersionRow)
    BY DEF TypeOK, Acking, AckWrite
  <2> QED
    BY <2>1
<1>2. version' = [version EXCEPT ![n] = row]
  BY <1>1 DEF AckWrite
<1>3. /\ row \in VersionRow
      /\ row.ack = version[n].ack \cup {acking[b].document}
      /\ row.terms = version[n].terms /\ row.schema = version[n].schema
      /\ row.signed = version[n].signed
  BY <1>1 DEF VersionRow, TypeOK, Acking
<1> HIDE DEF n, row
<1> QED
  BY <1>1, <1>2, <1>3, VersionMoves DEF n

LEMMA AckWriteInv ==
  ASSUME IndInv, NEW b \in Device, AckWrite(b)
  PROVE  IndInv'
<1> USE DEF IndInv
<1>1. /\ UNCHANGED <<proposal, late, form, page, grant, session, request>>
      /\ acking' = [acking EXCEPT ![b] = NotAcking]
  BY DEF AckWrite
<1>2. /\ version' \in Seq(VersionRow) /\ Len(version') = Len(version)
      /\ \A n \in DOMAIN version :
           /\ version[n].ack \subseteq version'[n].ack
           /\ version'[n].terms = version[n].terms
           /\ version'[n].schema = version[n].schema
           /\ version'[n].signed = version[n].signed
  BY AckWriteMoves
<1>3. NotAcking \in Acking /\ NotAcking.version = 0
  BY DEF NotAcking, Acking, Document
<1>4. Len(version) \in Nat /\ DOMAIN version = 1..Len(version)
  BY DEF TypeOK
<1>5. TypeOK'
  <2>1. \A d \in Device : acking'[d].version <= Len(version)
    BY <1>1, <1>3, <1>4 DEF TypeOK
  <2> QED
    BY <1>1, <1>2, <1>3, <2>1 DEF TypeOK
<1>6. OpenRoomIsItsSnapshot' /\ SignedAnswersStand'
  <2>1. proposal.current # 0 => proposal.current \in DOMAIN version
    BY <1>4 DEF TypeOK, ProposalRow
  <2>2. proposal.status = "accepted" => proposal.current # 0
    BY DEF OpenRoomIsItsSnapshot
  <2> QED
    BY <1>1, <1>2, <2>1, <2>2 DEF OpenRoomIsItsSnapshot, SignedAnswersStand, Here
<1>7. AcknowledgedInOrder'
  <2>1. ASSUME NEW d \in Device, acking'[d].version # 0
        PROVE  /\ acking'[d] = acking[d]
               /\ acking[d].version \in DOMAIN version
    <3>1. acking'[d] = acking[d]
      BY <1>1, <1>3, <2>1 DEF TypeOK
    <3> QED
      BY <1>4, <2>1, <3>1 DEF TypeOK, Acking
  <2> QED
    BY <1>2, <2>1 DEF AcknowledgedInOrder
<1>8. MatchingPageIsCurrent' /\ PagesAreBehind' /\ RequestsHavePassed'
  BY <1>1 DEF MatchingPageIsCurrent, PagesAreBehind, RequestsHavePassed
<1> QED
  BY <1>5, <1>6, <1>7, <1>8

LEMMA ConfirmMoves ==
  ASSUME IndInv, NEW b \in Device, Confirm(b)
  PROVE  LET n == proposal.current
             evidence == [schema |-> form.schema, revision |-> form.revision,
                          answers |-> form.answers]
         IN
         /\ n = Len(version) /\ n \in DOMAIN version
         /\ evidence \in Evidence
         /\ version' = [version EXCEPT ![n].signed = evidence]
         /\ version' \in Seq(VersionRow) /\ Len(version') = Len(version)
         /\ version'[n].signed = evidence
         /\ \A k \in DOMAIN version :
              /\ version'[k].ack = version[k].ack
              /\ version'[k].terms = version[k].terms
              /\ version'[k].schema = version[k].schema
<1> USE DEF IndInv
<1> DEFINE n == proposal.current
           evidence == [schema |-> form.schema, revision |-> form.revision,
                        answers |-> form.answers]
           row == [version[n] EXCEPT !.signed = evidence]
<1>1. n = Len(version) /\ n \in DOMAIN version /\ version[n] \in VersionRow
  <2>1. n = Len(version) /\ n # 0
    BY DEF OpenRoomIsItsSnapshot, Confirm, Open, PubliclyAvailable
  <2>2. version \in Seq(VersionRow)
    BY DEF TypeOK
  <2> QED
    BY <2>1, <2>2
<1>2. evidence \in Evidence
  BY DEF TypeOK, FormRow, Evidence
<1>3. version' = [version EXCEPT ![n].signed = evidence]
  BY DEF Confirm
<1>4. version' = [version EXCEPT ![n] = row]
  BY <1>1, <1>3
<1> HIDE DEF evidence
<1>5. /\ row \in VersionRow /\ row.signed = evidence
      /\ row.ack = version[n].ack
      /\ row.terms = version[n].terms /\ row.schema = version[n].schema
  BY <1>1, <1>2 DEF VersionRow
<1> HIDE DEF n, row
<1>6. /\ version' \in Seq(VersionRow) /\ Len(version') = Len(version)
      /\ version'[n] = row
      /\ \A k \in DOMAIN version \ {n} : version'[k] = version[k]
  BY <1>1, <1>4, <1>5, VersionMoves
<1> QED
  BY <1>1, <1>2, <1>3, <1>5, <1>6 DEF n, evidence

LEMMA ConfirmInv ==
  ASSUME IndInv, NEW b \in Device, Confirm(b)
  PROVE  IndInv'
<1> USE DEF IndInv
<1>1. /\ UNCHANGED <<late, form, page, grant, request, acking>>
      /\ proposal' = [proposal EXCEPT !.status = "accepted"]
      /\ session' = [session EXCEPT ![b] = WithoutKey(b)]
      /\ proposal.status \in {"sent", "accepted"}
  BY DEF Confirm, Open, PubliclyAvailable
<1>2. /\ proposal.current \in DOMAIN version
      /\ version' \in Seq(VersionRow) /\ Len(version') = Len(version)
      /\ version'[proposal.current].signed =
           [schema |-> form.schema, revision |-> form.revision,
            answers |-> form.answers]
      /\ \A k \in DOMAIN version :
           /\ version'[k].ack = version[k].ack
           /\ version'[k].terms = version[k].terms
           /\ version'[k].schema = version[k].schema
  BY ConfirmMoves
<1>3. /\ proposal' \in ProposalRow /\ proposal'.status = "accepted"
      /\ proposal'.current = proposal.current
      /\ proposal'.terms = proposal.terms
  BY <1>1 DEF TypeOK, ProposalRow
<1>4. TypeOK'
  <2>1. WithoutKey(b) \subseteq session[b]
    BY DEF WithoutKey
  <2> QED
    BY <1>1, <1>2, <1>3, <2>1 DEF TypeOK
<1>5. OpenRoomIsItsSnapshot' /\ SignedAnswersStand'
  BY <1>1, <1>2, <1>3 DEF OpenRoomIsItsSnapshot, SignedAnswersStand, Here
<1>6. AcknowledgedInOrder'
  <2>1. \A d \in Device :
          acking[d].version # 0 => acking[d].version \in DOMAIN version
    <3>1. version \in Seq(VersionRow)
      BY DEF TypeOK
    <3> QED
      BY <3>1 DEF TypeOK, Acking
  <2> QED
    BY <1>1, <1>2, <2>1 DEF AcknowledgedInOrder
<1>7. MatchingPageIsCurrent' /\ PagesAreBehind' /\ RequestsHavePassed'
  BY <1>1 DEF MatchingPageIsCurrent, PagesAreBehind, RequestsHavePassed
<1> QED
  BY <1>4, <1>5, <1>6, <1>7

LEMMA StepInv == IndInv /\ [Next]_vars => IndInv'
<1> SUFFICES ASSUME IndInv, [Next]_vars  PROVE  IndInv'
  OBVIOUS
<1>1. CASE Manage
  <2>1. PublishWorkspace => Publish
    BY DEF PublishWorkspace
  <2> QED
    BY <1>1, <2>1, BeginInv, SaveInv, PublishInv, PrepareInv, GrantInv DEF Manage
<1>2. CASE Tick
  BY <1>2, LapseInv, GrantInv DEF Tick
<1>3. ASSUME NEW b \in Device, Visit(b)
      PROVE  IndInv'
  BY <1>3, SessionInv, ReadFormInv, WriteInv, AckReadInv, AckWriteInv,
     ConfirmInv DEF Visit
<1>4. CASE UNCHANGED vars
  <2>1. TypeOK'
    BY <1>4 DEF vars, IndInv, TypeOK
  <2> QED
    BY <1>4, <2>1, AccessInv DEF vars
<1> QED
  BY <1>1, <1>2, <1>3, <1>4 DEF Next

\* The invariant all the others follow from.
THEOREM RoomInvariance == Spec => []IndInv
  BY InitInv, StepInv, PTL DEF Spec

\* Every row of a room keeps its type, and no reference dangles.
THEOREM RoomTypeCorrect == Spec => []TypeOK
<1>1. IndInv => TypeOK
  BY DEF IndInv
<1> QED
  BY <1>1, RoomInvariance, PTL

\* What a customer sees of an open room, and what managers see of it, is its
\* newest version, whatever old edits and revocations do (publish_version,
\* proposal_edit).
THEOREM OpenRoomsAreSnapshots == Spec => []OpenRoomIsItsSnapshot
<1>1. IndInv => OpenRoomIsItsSnapshot
  BY DEF IndInv
<1> QED
  BY <1>1, RoomInvariance, PTL

\* The answers of an accepted contract are those contract_confirm recorded.
THEOREM SignedAnswersRemain == Spec => []SignedAnswersStand
<1>1. IndInv => SignedAnswersStand
  BY DEF IndInv
<1> QED
  BY <1>1, RoomInvariance, PTL

\* A save with the present revision comes from a page that has seen all the
\* answers (questionnaire_autosave and customer_questionnaire).
THEOREM MatchingPagesAreCurrent == Spec => []MatchingPageIsCurrent
<1>1. IndInv => MatchingPageIsCurrent
  BY DEF IndInv
<1> QED
  BY <1>1, RoomInvariance, PTL

-----------------------------------------------------------------------------
(* What a step may not do. *)

LEMMA StepUndoes ==
  ASSUME IndInv, [Next]_vars,
         \/ proposal'.current < proposal.current
         \/ proposal.status = "accepted" /\ proposal'.status # "accepted"
  PROVE  \E m \in Manager :
           /\ request[m].kind # "none"
           /\ request'[m].kind = "none"
           /\ request[m].read # proposal
<1> USE DEF IndInv
<1>1. proposal \in ProposalRow /\ proposal.current \in Nat
  BY DEF TypeOK, ProposalRow
<1>2. proposal' # proposal
  BY <1>1
<1>3. ASSUME NEW m \in Manager,
             RevokeSave(m) \/ \E terms \in Text \cup {NoText} : EditSave(m, terms)
      PROVE  /\ request[m].kind # "none"
             /\ request'[m].kind = "none"
             /\ request[m].read # proposal
  <2>1. request' = [request EXCEPT ![m] = NoRequest] /\ request[m].kind # "none"
    BY <1>3 DEF EditSave, RevokeSave
  <2>2. request'[m].kind = "none"
    BY <2>1 DEF TypeOK, NoRequest
  <2>3. CASE RevokeSave(m)
    <3>1. request[m].read.status # "accepted"
      BY <2>3 DEF RevokeSave, RequestsHavePassed
    <3>2. proposal'.current = proposal.current
      BY <2>3, <1>1 DEF RevokeSave
    <3>3. proposal.status = "accepted"
      BY <1>1, <3>2
    <3> QED
      BY <2>1, <2>2, <3>1, <3>3
  <2>4. ASSUME NEW terms \in Text \cup {NoText}, EditSave(m, terms)
        PROVE  request[m].read # proposal
    <3>1. request[m].read.status # "accepted"
      BY <2>4 DEF EditSave, RequestsHavePassed, Editable
    <3>2. proposal'.current = request[m].read.current
      BY <2>4 DEF EditSave, Saved, TypeOK, RequestRow, ProposalRow
    <3> QED
      BY <1>1, <3>1, <3>2
  <2> QED
    BY <1>3, <2>1, <2>2, <2>3, <2>4
<1>4. CASE Publish
  <2>1. PICK number \in Nat : number = proposal.current + 1
    BY <1>1
  <2>2. proposal' = [proposal EXCEPT !.current = number, !.status = "sent",
                                     !.dated = TRUE]
    BY <1>4, <2>1 DEF Publish
  <2>3. proposal'.current = number
    BY <1>1, <2>2 DEF ProposalRow
  <2>4. proposal.status # "accepted"
    BY <1>4 DEF Publish, Publishable
  <2> QED
    BY <1>1, <2>1, <2>3, <2>4
<1>5. ASSUME NEW b \in Device, Confirm(b)
      PROVE  FALSE
  <2>1. proposal' = [proposal EXCEPT !.status = "accepted"]
    BY <1>5 DEF Confirm
  <2>2. proposal'.current = proposal.current /\ proposal'.status = "accepted"
    BY <1>1, <2>1 DEF ProposalRow
  <2> QED
    BY <1>1, <2>2
<1>6. Manage => \/ Publish
                \/ \E m \in Manager : RevokeSave(m) \/
                     \E terms \in Text \cup {NoText} : EditSave(m, terms)
  BY <1>2 DEF Manage, EditRead, RevokeRead, Begin, PublishWorkspace,
              PrepareForm, GrantAccess, RevokeAccess
<1>7. Tick => FALSE
  BY <1>2 DEF Tick, Lapse, Expire
<1>8. ASSUME NEW b \in Device, Visit(b)
      PROVE  Confirm(b)
  BY <1>2, <1>8 DEF Visit, SignIn, SignOut, ReadForm, Autosave, SubmitSection,
                    Write, AckRead, AckWrite
<1> QED
  BY <1>2, <1>3, <1>4, <1>5, <1>6, <1>7, <1>8 DEF Next, vars

\* Only the save of a request that had read the proposal before it changed
\* (proposal_edit, proposal_revoke) takes back a publication or an acceptance.
THEOREM UndoingNeedsOldRead == Spec => UndoneOnlyByOldRead
<1>1. IndInv /\ [Next]_vars =>
        [\/ proposal'.current < proposal.current
         \/ proposal.status = "accepted" /\ proposal'.status # "accepted"
         => \E m \in Manager :
              /\ request[m].kind # "none"
              /\ request'[m].kind = "none"
              /\ request[m].read # proposal]_vars
  BY StepUndoes
<1> QED
  BY <1>1, RoomInvariance, PTL DEF Spec, UndoneOnlyByOldRead

-----------------------------------------------------------------------------
(* The room implements RoomRecord. *)

LEMMA StepKeepsRecord == IndInv /\ [Next]_vars => [Record!Next]_version
<1> SUFFICES ASSUME IndInv, [Next]_vars, version' # version
             PROVE  Record!Next
  OBVIOUS
<1> USE DEF IndInv
<1>1. CASE Publish
  <2>1. Record!Publish
    BY <1>1, PublishMoves DEF Record!Publish
  <2> QED
    BY <2>1 DEF Record!Next
<1>2. ASSUME NEW b \in Device, AckWrite(b)
      PROVE  Record!Next
  <2> DEFINE n == acking[b].version
  <2>1. n \in DOMAIN version
    BY <1>2, AckWriteMoves
  <2>2. acking[b].document \in Document
    BY DEF TypeOK, Acking
  <2>3. acking[b].document = "private" => "general" \in version[n].ack
    BY <1>2 DEF AckWrite, AcknowledgedInOrder
  <2>4. version' = [version EXCEPT ![n].ack = @ \cup {acking[b].document}]
    BY <1>2 DEF AckWrite
  <2>5. Record!Acknowledge(n, acking[b].document)
    BY <2>3, <2>4 DEF Record!Acknowledge
  <2> QED
    BY <2>1, <2>2, <2>5 DEF Record!Next
<1>3. ASSUME NEW b \in Device, Confirm(b)
      PROVE  Record!Next
  <2> DEFINE evidence == [schema |-> form.schema, revision |-> form.revision,
                          answers |-> form.answers]
  <2>1. /\ proposal.current = Len(version)
        /\ proposal.current \in DOMAIN version
        /\ evidence \in Evidence
        /\ version' = [version EXCEPT ![proposal.current].signed = evidence]
    BY <1>3, ConfirmMoves
  <2>2. /\ evidence.schema = form.schema
        /\ evidence.answers = form.answers
    OBVIOUS
  <2>3. /\ Here.signed = Unsigned /\ Here.ack = Document
        /\ form.schema # 0 => form.answers \in FullAnswers
        /\ Here.schema = form.schema
        /\ proposal.current # 0
    BY <1>3 DEF Confirm, FormComplete, Open, PubliclyAvailable,
                OpenRoomIsItsSnapshot
  <2> HIDE DEF evidence
  <2>4. Record!Sign(evidence)
    BY <2>1, <2>2, <2>3 DEF Record!Sign, Here
  <2>5. evidence \in Record!Evidence
    BY <2>1 DEF Evidence, Record!Evidence
  <2> QED
    BY <2>4, <2>5 DEF Record!Next
<1>4. Manage => Publish
  BY DEF Manage, EditRead, RevokeRead, Begin, EditSave, RevokeSave,
         PublishWorkspace, PrepareForm, GrantAccess, RevokeAccess
<1>5. Tick => FALSE
  BY DEF Tick, Lapse, Expire
<1>6. ASSUME NEW b \in Device, Visit(b)
      PROVE  AckWrite(b) \/ Confirm(b)
  BY <1>6 DEF Visit, SignIn, SignOut, ReadForm, Autosave, SubmitSection,
              Write, AckRead
<1> QED
  BY <1>1, <1>2, <1>3, <1>4, <1>5, <1>6 DEF Next, vars

\* Versions are published unchanged for good, read in order, and signed once,
\* by complete answers to their own questionnaire: the room implements
\* RoomRecord.
THEOREM RoomImplementsRecord == Spec => KeepsRecord
<1>1. Init => Record!Init
  BY DEF Init, Record!Init
<1> QED
  BY <1>1, StepKeepsRecord, RoomInvariance, PTL DEF Spec, KeepsRecord, Record!Spec
=============================================================================
