----------------------------- MODULE RoomRecord -----------------------------
(***************************************************************************)
(* What a contract room promises, whoever edits, revokes or republishes    *)
(* meanwhile: a published version is never changed, its documents are      *)
(* acknowledged in order and for good, and only the newest version is      *)
(* signed, once, with both documents acknowledged and the answers complete *)
(* that its own questionnaire asks for.                                    *)
(***************************************************************************)
EXTENDS Naturals, Sequences

CONSTANTS
  Terms,          \* texts of a contract
  Schema,         \* questionnaires; 0: none
  Revision,       \* revisions of the answers
  Answers,        \* what the sections of the questionnaire may hold
  FullAnswers,    \* ... when every section is complete
  Document,       \* documents of a version, "general" and "private"
  Unsigned        \* a version nobody has signed

VARIABLE version  \* published versions, oldest first

Evidence == [schema: Schema, revision: Revision, answers: Answers]

Init == version = <<>>

\* A version joins the record.
Publish ==
  \E terms \in Terms, schema \in Schema :
    version' = Append(version,
      [terms |-> terms, schema |-> schema, ack |-> {}, signed |-> Unsigned])

\* The customer has read a document, the general terms before the private.
Acknowledge(n, document) ==
  /\ document = "private" => "general" \in version[n].ack
  /\ version' = [version EXCEPT ![n].ack = @ \cup {document}]

\* The customer agrees.
Sign(evidence) ==
  LET n == Len(version) IN
  /\ n # 0
  /\ version[n].signed = Unsigned
  /\ version[n].ack = Document
  /\ evidence.schema = version[n].schema
  /\ evidence.schema # 0 => evidence.answers \in FullAnswers
  /\ version' = [version EXCEPT ![n].signed = evidence]

Next ==
  \/ Publish
  \/ \E n \in DOMAIN version, document \in Document : Acknowledge(n, document)
  \/ \E evidence \in Evidence : Sign(evidence)

Spec == Init /\ [][Next]_version
=============================================================================
