-------------------------- MODULE FormDraft_proofs --------------------------
(***************************************************************************)
(* Theorems of FormDraft, for any rows, contents, demo selections and      *)
(* tokens and any number of pages that hold any past state of a draft; of  *)
(* DraftPage, for any contents; and of DemoHandoff, for any number of      *)
(* requests under way, sessions and selections.                            *)
(***************************************************************************)
EXTENDS DraftPage, DemoHandoff, TLAPS

-----------------------------------------------------------------------------
(* What a request may do to one row.  Plain moves leave the Leads alone.    *)

Still(d) == draft'[d] = draft[d]

Ages(d) ==
  /\ draft[d].status \in {"open", "submitted"}
  /\ draft'[d] = [draft[d] EXCEPT !.overdue = TRUE]

Expires(d) ==
  /\ Active(draft[d]) /\ draft[d].overdue
  /\ draft'[d] = [draft[d] EXCEPT !.status = "expired", !.revision = @ + 1]

Changes(d) ==
  /\ Active(draft[d]) /\ ~draft[d].overdue
  /\ \E fields \in Fields, demo \in Choice :
       /\ demo = draft[d].demo \/ demo # NoDemo
       /\ draft'[d] = Changed(draft[d], fields, demo)

Opens(d) ==
  /\ draft[d].status = "none" /\ Usable = {}
  /\ \E fields \in Fields, demo \in Choice : draft'[d] = Created(fields, demo)
  /\ \A e \in Draft \ {d} : ~Active(draft'[e])

Leaves(d) ==
  /\ draft[d].status = "expired" \/ (Active(draft[d]) /\ ~draft[d].overdue)
  /\ draft'[d] = Gone(draft[d])

Plain(d) ==
  Still(d) \/ Ages(d) \/ Expires(d) \/ Changes(d) \/ Opens(d) \/ Leaves(d)

\* A row that is submitted under the token of sub.
Submits(d, sub) ==
  /\ \/ Active(draft[d]) /\ ~draft[d].overdue /\ Carrying(sub.token) = {}
     \/ draft[d].status = "none" /\ Carrying(sub.token) = {} /\ Usable = {}
     \/ draft[d].token = sub.token /\ lead[d].status # "kept"
  /\ draft'[d] \in DraftRow
  /\ draft'[d].status = "submitted"
  /\ draft'[d].token = sub.token
  /\ draft[d].status # "none" =>
       /\ draft[d].revision <= draft'[d].revision
       /\ draft'[d].fields = draft[d].fields
       /\ draft'[d].demo = draft[d].demo
  /\ draft[d].status = "none" => draft'[d].demo = NoDemo
  /\ lead' \in [Draft -> LeadRow]
  /\ lead'[d].saved \in IF sub.demo = NoDemo THEN {NoDemo, draft'[d].demo}
                       ELSE {NoDemo}
  /\ lead'[d].status = "kept"
  /\ lead'[d].fields = sub.fields
  /\ lead'[d].demo = sub.demo
  /\ \A e \in Draft \ {d} : lead'[e] = lead[e]

\* Only committed states of active drafts become readable.
PastGrows ==
  /\ draft' = [d \in Draft |-> draft'[d]]
  /\ \A s \in past' :
       \/ s \in past
       \/ \E d \in Draft : Active(draft'[d]) /\ s = SnapshotOf(draft', d)

LEMMA SweptTyped ==
  ASSUME TypeOK
  PROVE  /\ Swept \in [Draft -> DraftRow]
         /\ \A d \in Draft :
              \/ Swept[d] = draft[d] /\ ~(Active(draft[d]) /\ draft[d].overdue)
              \/ /\ Active(draft[d]) /\ draft[d].overdue
                 /\ Swept[d] = [draft[d] EXCEPT !.status = "expired",
                                                !.revision = @ + 1]
                 /\ ~Active(Swept[d])
<1> SUFFICES ASSUME NEW d \in Draft
             PROVE  /\ Swept[d] \in DraftRow
                    /\ \/ /\ Swept[d] = draft[d]
                          /\ ~(Active(draft[d]) /\ draft[d].overdue)
                       \/ /\ Active(draft[d]) /\ draft[d].overdue
                          /\ Swept[d] = [draft[d] EXCEPT !.status = "expired",
                                                        !.revision = @ + 1]
                          /\ ~Active(Swept[d])
  BY DEF Swept
<1>1. draft[d] \in DraftRow
  BY DEF TypeOK
<1>2. CASE Active(draft[d]) /\ draft[d].overdue
  <2>1. Swept[d] = [draft[d] EXCEPT !.status = "expired", !.revision = @ + 1]
    BY <1>2 DEF Swept
  <2>2. PICK revision \in Nat : revision = draft[d].revision + 1
    BY <1>1 DEF DraftRow
  <2>3. Swept[d] = [draft[d] EXCEPT !.status = "expired", !.revision = revision]
    BY <2>1, <2>2
  <2>4. Swept[d] \in DraftRow /\ Swept[d].status = "expired"
    BY <1>1, <2>2, <2>3 DEF DraftRow
  <2> QED
    BY <1>2, <2>1, <2>4 DEF Active
<1>3. CASE ~(Active(draft[d]) /\ draft[d].overdue)
  BY <1>1, <1>3 DEF Swept
<1> QED
  BY <1>2, <1>3

LEMMA CommitGrows ==
  ASSUME NEW rows, Commit(rows), rows = [d \in Draft |-> rows[d]]
  PROVE  draft' = rows /\ PastGrows
BY DEF Commit, PastGrows, SnapshotOf, Active

\* With no usable draft, sweeping leaves no active one.
LEMMA SweptClean ==
  ASSUME TypeOK, Usable = {}
  PROVE  \A d \in Draft : ~Active(Swept[d])
BY SweptTyped DEF Usable

LEMMA OnlySweepMoves ==
  ASSUME TypeOK, OnlySweep
  PROVE  (\A d \in Draft : Plain(d)) /\ PastGrows
<1>1. draft' = Swept /\ PastGrows
  BY CommitGrows DEF OnlySweep, Swept
<1> QED
  BY <1>1, SweptTyped DEF Plain, Still, Expires

LEMMA CreateMoves ==
  ASSUME TypeOK, NEW fields \in Fields, NEW demo \in Choice, Usable = {},
         Create(fields, demo)
  PROVE  (\A d \in Draft : Plain(d)) /\ PastGrows
<1>1. PICK d \in Unused : Commit([Swept EXCEPT ![d] = Created(fields, demo)])
  BY DEF Create
<1>2. draft' = [Swept EXCEPT ![d] = Created(fields, demo)] /\ PastGrows
  BY <1>1, CommitGrows, SweptTyped
<1>3. d \in Draft /\ draft[d].status = "none"
  BY DEF Unused
<1>4. draft'[d] = Created(fields, demo)
  BY <1>2, <1>3, SweptTyped
<1>5. \A e \in Draft \ {d} : draft'[e] = Swept[e]
  BY <1>2, SweptTyped
<1>6. Opens(d)
  BY <1>3, <1>4, <1>5, SweptClean DEF Opens
<1>7. \A e \in Draft \ {d} : Still(e) \/ Expires(e)
  BY <1>5, SweptTyped DEF Still, Expires
<1> QED
  BY <1>2, <1>6, <1>7 DEF Plain

LEMMA ChangeMoves ==
  ASSUME TypeOK, NEW d \in Usable, NEW fields \in Fields, NEW demo \in Choice,
         Change(d, fields, demo), demo = draft[d].demo \/ demo # NoDemo
  PROVE  (\A e \in Draft : Plain(e)) /\ PastGrows
<1>1. /\ draft' = [draft EXCEPT ![d] = Changed(draft[d], fields, demo)]
      /\ PastGrows
  BY CommitGrows DEF Change, TypeOK
<1>2. Changes(d)
  BY <1>1 DEF Changes, Usable, TypeOK
<1>3. \A e \in Draft \ {d} : Still(e)
  BY <1>1 DEF Still, TypeOK
<1> QED
  BY <1>1, <1>2, <1>3 DEF Plain

-----------------------------------------------------------------------------
(* The steps that leave the Leads alone. *)

LEMMA PlainSteps ==
  ASSUME TypeOK, OneLeadPerToken,
         \/ \E expected \in Expected :
              Delete(expected) \/ \E fields \in Content : Save(expected, fields)
         \/ \E demo \in Demo : HandOff(demo)
         \/ \E d \in Draft : TimeUp(d) \/ CleanUp(d)
  PROVE  /\ \A d \in Draft : Plain(d)
         /\ PastGrows
         /\ UNCHANGED <<lead, confirmed>>
<1>1. ASSUME NEW expected \in Expected, Delete(expected)
      PROVE  (\A d \in Draft : Plain(d)) /\ PastGrows
  <2>1. CASE Usable = {} /\ OnlySweep
    BY <2>1, OnlySweepMoves
  <2>2. ASSUME NEW d \in Usable, Commit([draft EXCEPT ![d] = Gone(@)])
        PROVE  (\A e \in Draft : Plain(e)) /\ PastGrows
    <3>1. draft' = [draft EXCEPT ![d] = Gone(@)] /\ PastGrows
      BY <2>2, CommitGrows DEF TypeOK
    <3>2. Leaves(d) /\ \A e \in Draft \ {d} : Still(e)
      BY <3>1 DEF Leaves, Still, Usable, TypeOK
    <3> QED
      BY <3>1, <3>2 DEF Plain
  <2> QED
    BY <1>1, <2>1, <2>2 DEF Delete
<1>2. ASSUME NEW expected \in Expected, NEW fields \in Content,
             Save(expected, fields)
      PROVE  (\A d \in Draft : Plain(d)) /\ PastGrows
  <2>1. fields \in Fields /\ NoDemo \in Choice
    BY DEF Fields, Choice
  <2>2. ASSUME NEW d \in Usable, Change(d, fields, draft[d].demo)
        PROVE  (\A e \in Draft : Plain(e)) /\ PastGrows
    <3>1. draft[d].demo \in Choice
      BY DEF Usable, TypeOK, DraftRow
    <3> QED
      BY <2>1, <2>2, <3>1, ChangeMoves
  <2> QED
    BY <1>2, <2>1, <2>2, CreateMoves, OnlySweepMoves DEF Save
<1>3. ASSUME NEW demo \in Demo, HandOff(demo)
      PROVE  (\A d \in Draft : Plain(d)) /\ PastGrows
  <2>1. Blank \in Fields /\ demo \in Choice
    BY DEF Fields, Choice
  <2>2. ASSUME NEW d \in Usable, Change(d, draft[d].fields, demo)
        PROVE  (\A e \in Draft : Plain(e)) /\ PastGrows
    <3>1. draft[d].fields \in Fields /\ demo # NoDemo
      BY DraftAssumption DEF Usable, TypeOK, DraftRow
    <3> QED
      BY <2>1, <2>2, <3>1, ChangeMoves
  <2> QED
    BY <1>3, <2>1, <2>2, CreateMoves DEF HandOff
<1>4. ASSUME NEW d \in Draft, TimeUp(d)
      PROVE  (\A e \in Draft : Plain(e)) /\ PastGrows
  <2>1. Ages(d) /\ \A e \in Draft \ {d} : Still(e)
    BY <1>4 DEF TimeUp, Ages, Still, TypeOK
  <2> QED
    BY <1>4, <2>1 DEF Plain, PastGrows, TimeUp, TypeOK
<1>5. ASSUME NEW d \in Draft, CleanUp(d)
      PROVE  (\A e \in Draft : Plain(e)) /\ PastGrows
  <2>1. Leaves(d) /\ \A e \in Draft \ {d} : Still(e)
    BY <1>5 DEF CleanUp, Cleanable, Leaves, Still, TypeOK
  <2> QED
    BY <1>5, <2>1 DEF Plain, PastGrows, CleanUp, TypeOK
<1>6. UNCHANGED <<lead, confirmed>>
  BY DEF Delete, Save, HandOff, TimeUp, CleanUp
<1> QED
  BY <1>1, <1>2, <1>3, <1>4, <1>5, <1>6

-----------------------------------------------------------------------------
(* What any request guarantees of one row, and what follows for the past.   *)

RowStep(d) ==
  /\ draft'[d] \in DraftRow
  /\ draft[d].status # "none" =>
       draft'[d].status # "none" /\ draft[d].revision <= draft'[d].revision
  /\ Active(draft'[d]) => draft'[d].revision # 0
  /\ Active(draft'[d]) /\ draft[d].status # "none" =>
       /\ Active(draft[d])
       /\ draft[d].revision = draft'[d].revision =>
            SnapshotOf(draft', d) = SnapshotOf(draft, d)

LEMMA PlainRow ==
  ASSUME TypeOK, OneLeadPerToken, ActiveCounted, NEW d \in Draft, Plain(d)
  PROVE  /\ RowStep(d)
         /\ draft'[d].token = draft[d].token
         /\ draft[d].status = "submitted" <=> draft'[d].status = "submitted"
<1>1. draft[d] \in DraftRow
  BY DEF TypeOK
<1>2. draft[d].status # "submitted" => draft[d].token = NoToken
  BY DEF OneLeadPerToken
<1>3. Active(draft[d]) => draft[d].revision # 0
  BY DEF ActiveCounted
<1>4. CASE Still(d)
  BY <1>1, <1>3, <1>4 DEF Still, RowStep, DraftRow, SnapshotOf
<1>5. CASE Ages(d)
  <2>1. /\ draft'[d] \in DraftRow /\ draft'[d].status = draft[d].status
        /\ draft'[d].revision = draft[d].revision
        /\ draft'[d].token = draft[d].token
        /\ draft'[d].fields = draft[d].fields /\ draft'[d].demo = draft[d].demo
    BY <1>1, <1>5 DEF Ages, DraftRow
  <2>2. draft[d].revision <= draft[d].revision
    BY <1>1 DEF DraftRow
  <2> QED
    BY <1>3, <2>1, <2>2 DEF RowStep, SnapshotOf, Active
<1>6. CASE Expires(d)
  <2>1. PICK revision \in Nat : revision = draft[d].revision + 1
    BY <1>1 DEF DraftRow
  <2>2. draft'[d] = [draft[d] EXCEPT !.status = "expired", !.revision = revision]
    BY <1>6, <2>1 DEF Expires
  <2>3. /\ draft'[d] \in DraftRow /\ draft'[d].status = "expired"
        /\ draft'[d].revision = revision /\ draft'[d].token = draft[d].token
    BY <1>1, <2>1, <2>2 DEF DraftRow
  <2>4. draft[d].revision <= revision
    BY <1>1, <2>1 DEF DraftRow
  <2> QED
    BY <1>6, <2>3, <2>4 DEF Expires, RowStep, Active
<1>7. CASE Changes(d)
  <2>1. PICK fields \in Fields, demo \in Choice :
          draft'[d] = Changed(draft[d], fields, demo)
    BY <1>7 DEF Changes
  <2>2. PICK revision \in Nat :
          revision = IF fields # draft[d].fields \/ demo # draft[d].demo
                     THEN draft[d].revision + 1 ELSE draft[d].revision
    BY <1>1 DEF DraftRow
  <2>3. draft'[d] = [draft[d] EXCEPT !.fields = fields, !.demo = demo,
                                     !.overdue = FALSE, !.revision = revision]
    BY <2>1, <2>2 DEF Changed
  <2>4. /\ draft'[d] \in DraftRow /\ draft'[d].status = draft[d].status
        /\ draft'[d].revision = revision /\ draft'[d].token = draft[d].token
        /\ draft'[d].fields = fields /\ draft'[d].demo = demo
    BY <1>1, <2>2, <2>3 DEF DraftRow
  <2>5. draft[d].revision <= revision /\ draft[d].revision \in Nat
    BY <1>1, <2>2 DEF DraftRow
  <2>6. revision = draft[d].revision =>
          fields = draft[d].fields /\ demo = draft[d].demo
    BY <2>2, <2>5
  <2>7. Active(draft[d]) /\ draft[d].status = "open" /\ revision # 0
    BY <1>3, <1>7, <2>2, <2>5 DEF Changes, Active
  <2> QED
    BY <2>4, <2>5, <2>6, <2>7 DEF RowStep, SnapshotOf, Active
<1>8. CASE Opens(d)
  <2>1. PICK fields \in Fields, demo \in Choice :
          draft'[d] = Created(fields, demo)
    BY <1>8 DEF Opens
  <2>2. draft'[d] \in DraftRow
    BY <2>1 DEF Created, DraftRow
  <2>3. /\ draft'[d].revision = 1 /\ draft'[d].status = "open"
        /\ draft'[d].token = NoToken
    BY <2>1 DEF Created
  <2> QED
    BY <1>2, <1>8, <2>2, <2>3 DEF Opens, RowStep
<1>9. CASE Leaves(d)
  <2>1. /\ draft'[d] \in DraftRow /\ draft'[d].status = "gone"
        /\ draft'[d].revision = draft[d].revision /\ draft'[d].token = NoToken
    BY <1>1, <1>9 DEF Leaves, Gone, DraftRow
  <2>2. draft[d].revision <= draft[d].revision
    BY <1>1 DEF DraftRow
  <2> QED
    BY <1>2, <1>9, <2>1, <2>2 DEF Leaves, RowStep, Active
<1> QED
  BY <1>4, <1>5, <1>6, <1>7, <1>8, <1>9 DEF Plain

LEMMA PastStep ==
  ASSUME TypeOK, RevisionNamesContent, PastIsPast, PastGrows,
         \A d \in Draft : RowStep(d)
  PROVE  /\ draft' \in [Draft -> DraftRow]
         /\ past' \subseteq Snapshot
         /\ RevisionNamesContent'
         /\ PastIsPast'
         /\ ActiveCounted'
<1> USE DEF PastGrows
<1>1. \A d \in Draft : draft'[d] \in DraftRow
  BY DEF RowStep
<1>2. draft' \in [Draft -> DraftRow]
  BY <1>1
<1>3. ActiveCounted'
  BY DEF RowStep, ActiveCounted, Active
<1>4. past' \subseteq Snapshot
  <2> SUFFICES ASSUME NEW s \in past'  PROVE  s \in Snapshot
    OBVIOUS
  <2>1. CASE s \in past
    BY <2>1 DEF TypeOK
  <2>2. ASSUME NEW d \in Draft, Active(draft'[d]), s = SnapshotOf(draft', d)
        PROVE  s \in Snapshot
    <3>1. draft'[d].revision # 0
      BY <2>2 DEF RowStep
    <3> QED
      BY <1>1, <2>2, <3>1 DEF SnapshotOf, Snapshot, DraftRow
  <2> QED
    BY <2>1, <2>2
\* What was read of a draft is older than its present, or is its present.
<1>5. ASSUME NEW s \in past
      PROVE  /\ s.of \in Draft
             /\ draft'[s.of].status # "none"
             /\ s.revision <= draft'[s.of].revision
             /\ Active(draft'[s.of]) /\ s.revision = draft'[s.of].revision =>
                  s = SnapshotOf(draft', s.of)
  <2>1. s.of \in Draft /\ s.revision \in Nat
    BY DEF TypeOK, Snapshot
  <2>2. /\ draft[s.of].status # "none"
        /\ s.revision <= draft[s.of].revision
        /\ Active(draft[s.of]) /\ s.revision = draft[s.of].revision =>
             s = SnapshotOf(draft, s.of)
    BY DEF PastIsPast
  <2>3. draft[s.of].revision \in Nat /\ draft'[s.of].revision \in Nat
    BY <1>1, <2>1 DEF TypeOK, DraftRow
  <2>4. RowStep(s.of)
    BY <2>1
  <2>5. /\ draft'[s.of].status # "none"
        /\ draft[s.of].revision <= draft'[s.of].revision
        /\ Active(draft'[s.of]) =>
             /\ Active(draft[s.of])
             /\ draft[s.of].revision = draft'[s.of].revision =>
                  SnapshotOf(draft', s.of) = SnapshotOf(draft, s.of)
    BY <2>2, <2>4 DEF RowStep
  <2> QED
    BY <2>1, <2>2, <2>3, <2>5
<1>6. ASSUME NEW d \in Draft, Active(draft'[d])
      PROVE  LET s == SnapshotOf(draft', d)
             IN  s.of = d /\ s.revision = draft'[d].revision
                 /\ draft'[d].status # "none" /\ s.revision \in Nat
  BY <1>1, <1>6 DEF SnapshotOf, Active, DraftRow
<1>7. PastIsPast'
  <2> SUFFICES ASSUME NEW s \in past'
               PROVE  /\ draft'[s.of].status # "none"
                      /\ s.revision <= draft'[s.of].revision
                      /\ Active(draft'[s.of])
                           /\ s.revision = draft'[s.of].revision =>
                           s = SnapshotOf(draft', s.of)
    BY DEF PastIsPast, SnapshotOf, Active
  <2>1. CASE s \in past
    BY <1>5, <2>1
  <2>2. ASSUME NEW d \in Draft, Active(draft'[d]), s = SnapshotOf(draft', d)
        PROVE  /\ s.of = d /\ draft'[d].status # "none"
               /\ s.revision <= draft'[d].revision
    BY <1>6, <2>2
  <2> QED
    BY <2>1, <2>2
<1>8. RevisionNamesContent'
  <2> SUFFICES ASSUME NEW s \in past', NEW t \in past', s.of = t.of,
                      s.revision = t.revision
               PROVE  s = t
    BY DEF RevisionNamesContent
  <2>1. CASE s \in past /\ t \in past
    BY <2>1 DEF RevisionNamesContent
  <2>2. ASSUME NEW d \in Draft, Active(draft'[d]), s = SnapshotOf(draft', d)
        PROVE  s = t
    BY <1>5, <1>6, <2>2
  <2>3. ASSUME NEW d \in Draft, Active(draft'[d]), t = SnapshotOf(draft', d)
        PROVE  s = t
    BY <1>5, <1>6, <2>3
  <2> QED
    BY <2>1, <2>2, <2>3
<1> QED
  BY <1>2, <1>3, <1>4, <1>7, <1>8

-----------------------------------------------------------------------------
(* A draft is submitted. *)

LEMMA SubmitMoves ==
  ASSUME TypeOK, OneLeadPerToken, NEW sub \in Submission, NEW useSaved \in BOOLEAN,
         Submit(sub, useSaved) \/ Resubmit(sub, useSaved)
  PROVE  /\ \E d \in Draft :
              Submits(d, sub) /\ \A e \in Draft \ {d} : Still(e) \/ Expires(e)
         /\ PastGrows
         /\ confirmed' = confirmed \cup {sub}
<1> DEFINE Target(rows, d, row) ==
      /\ d \in Draft
      /\ rows \in [Draft -> DraftRow]
      /\ \A e \in Draft \ {d} :
           \/ rows[e] = draft[e]
           \/ /\ Active(draft[e]) /\ draft[e].overdue
              /\ rows[e] = [draft[e] EXCEPT !.status = "expired",
                                            !.revision = @ + 1]
      /\ row \in DraftRow
      /\ draft[d].status # "none" =>
           /\ draft[d].revision <= row.revision
           /\ row.fields = draft[d].fields
           /\ row.demo = draft[d].demo
      /\ draft[d].status = "none" => row.demo = NoDemo
      /\ \/ Active(draft[d]) /\ ~draft[d].overdue /\ Carrying(sub.token) = {}
         \/ draft[d].status = "none" /\ Carrying(sub.token) = {} /\ Usable = {}
         \/ draft[d].token = sub.token /\ lead[d].status # "kept"
<1>1. sub.token \in Token /\ sub.fields \in Content /\ sub.demo \in Demo \cup {NoDemo}
  BY DEF Submission, Choice
<1>2. ASSUME NEW rows, NEW d, NEW row, Target(rows, d, row),
             Turn(rows, d, row, sub, useSaved)
      PROVE  /\ \E e \in Draft :
                  Submits(e, sub) /\ \A x \in Draft \ {e} : Still(x) \/ Expires(x)
             /\ PastGrows
             /\ confirmed' = confirmed \cup {sub}
  <2> DEFINE new == [row EXCEPT !.status = "submitted", !.token = sub.token]
  <2>1. Commit([rows EXCEPT ![d] = new])
    BY <1>2 DEF Turn
  <2>2. draft' = [rows EXCEPT ![d] = new] /\ PastGrows
    BY <1>2, <2>1, CommitGrows
  <2>3. /\ new \in DraftRow /\ new.status = "submitted" /\ new.token = sub.token
        /\ new.revision = row.revision /\ new.fields = row.fields
        /\ new.demo = row.demo
    BY <1>1, <1>2 DEF DraftRow
  <2>4. draft'[d] = new /\ \A e \in Draft \ {d} : draft'[e] = rows[e]
    BY <1>2, <2>2
  <2>5. /\ lead' \in [Draft -> LeadRow] /\ lead'[d].status = "kept"
        /\ lead'[d].fields = sub.fields /\ lead'[d].demo = sub.demo
        /\ lead'[d].saved \in IF sub.demo = NoDemo THEN {NoDemo, row.demo}
                             ELSE {NoDemo}
        /\ \A e \in Draft \ {d} : lead'[e] = lead[e]
    <3>1. row.demo \in Choice
      BY <1>2 DEF DraftRow
    <3>2. PICK saved \in Choice :
            /\ saved \in IF sub.demo = NoDemo THEN {NoDemo, row.demo} ELSE {NoDemo}
            /\ lead' = [lead EXCEPT ![d] =
                 [status |-> "kept", fields |-> sub.fields, demo |-> sub.demo,
                  saved |-> saved]]
      BY <1>2, <3>1 DEF Turn, Choice
    <3>3. [status |-> "kept", fields |-> sub.fields, demo |-> sub.demo,
           saved |-> saved] \in LeadRow
      BY <1>1 DEF LeadRow, Fields, Choice
    <3> QED
      BY <1>2, <3>2, <3>3 DEF TypeOK
  <2>6. Submits(d, sub)
    BY <1>2, <2>3, <2>4, <2>5 DEF Submits
  <2>7. \A e \in Draft \ {d} : Still(e) \/ Expires(e)
    BY <1>2, <2>4 DEF Still, Expires
  <2>8. confirmed' = confirmed \cup {sub}
    BY <1>2 DEF Turn
  <2> QED
    BY <1>2, <2>2, <2>6, <2>7, <2>8
<1>3. ASSUME NEW d \in Draft, NEW k \in {1, 2}
      PROVE  LET row == [draft[d] EXCEPT !.revision = @ + k]
             IN  /\ row \in DraftRow /\ draft[d].revision <= row.revision
                 /\ row.fields = draft[d].fields /\ row.demo = draft[d].demo
  <2>1. draft[d] \in DraftRow
    BY DEF TypeOK
  <2>2. PICK revision \in Nat : revision = draft[d].revision + k
    BY <2>1 DEF DraftRow
  <2>3. draft[d].revision <= revision
    BY <2>1, <2>2 DEF DraftRow
  <2>4. [draft[d] EXCEPT !.revision = @ + k] =
          [draft[d] EXCEPT !.revision = revision]
    BY <2>2
  <2> QED
    BY <2>1, <2>3, <2>4 DEF DraftRow
<1>4. ASSUME Resubmit(sub, useSaved)
      PROVE  \E rows, d, row : Target(rows, d, row) /\ Turn(rows, d, row, sub, useSaved)
  <2>1. PICK d \in Carrying(sub.token) :
          /\ lead[d].status # "kept"
          /\ Turn(draft, d, [draft[d] EXCEPT !.revision = @ + 1], sub, useSaved)
    BY <1>4 DEF Resubmit
  <2>2. d \in Draft /\ draft[d].token = sub.token
    BY DEF Carrying
  <2>3. Target(draft, d, [draft[d] EXCEPT !.revision = @ + 1])
    <3>1. draft[d].status # "none"
      BY <2>2, DraftAssumption DEF Submission, OneLeadPerToken
    <3> QED
      BY <1>3, <2>1, <2>2, <3>1 DEF TypeOK
  <2> QED
    BY <2>1, <2>3
<1>5. ASSUME Submit(sub, useSaved)
      PROVE  \E rows, d, row : Target(rows, d, row) /\ Turn(rows, d, row, sub, useSaved)
  <2>1. Carrying(sub.token) = {}
    BY <1>5 DEF Submit
  <2>2. ASSUME NEW d \in Usable,
               Turn(draft, d, [draft[d] EXCEPT !.revision = @ + 2], sub, useSaved)
        PROVE  Target(draft, d, [draft[d] EXCEPT !.revision = @ + 2])
    <3>1. /\ d \in Draft /\ Active(draft[d]) /\ ~draft[d].overdue
          /\ draft[d].status # "none"
      BY DEF Usable, Active
    <3>2. LET row == [draft[d] EXCEPT !.revision = @ + 2]
          IN  /\ row \in DraftRow /\ draft[d].revision <= row.revision
              /\ row.fields = draft[d].fields /\ row.demo = draft[d].demo
      BY <1>3, <3>1
    <3> QED
      BY <2>1, <3>1, <3>2 DEF TypeOK
  <2>3. ASSUME NEW d \in Unused, Usable = {}
        PROVE  Target(Swept, d, [Created(sub.fields, NoDemo) EXCEPT !.revision = 2])
    <3>1. d \in Draft /\ draft[d].status = "none"
      BY DEF Unused
    <3>2. LET row == [Created(sub.fields, NoDemo) EXCEPT !.revision = 2]
          IN  row \in DraftRow /\ row.demo = NoDemo
      BY <1>1 DEF Created, DraftRow, Fields, Choice
    <3> QED
      BY <2>1, <2>3, <3>1, <3>2, SweptTyped
  <2> QED
    BY <1>5, <2>2, <2>3 DEF Submit
<1> QED
  BY <1>2, <1>4, <1>5

-----------------------------------------------------------------------------
(* The inductive invariant.  Its last two conjuncts are what                *)
(* RevisionNamesContent needs: a state that was read is the past or the     *)
(* present of a draft, and pages never hold revision 0.                     *)

LEMMA InitInv == Init => IndInv
<1> SUFFICES ASSUME Init  PROVE  IndInv
  OBVIOUS
<1>1. TypeOK
  BY DEF Init, TypeOK, DraftRow, LeadRow, Fields, Choice
<1>2. RevisionNamesContent /\ ThankedIsRecorded /\ PastIsPast
  BY DEF Init, RevisionNamesContent, ThankedIsRecorded, PastIsPast
<1>3. OneLeadPerToken /\ ActiveCounted
  BY DEF Init, OneLeadPerToken, ActiveCounted, Active
<1> QED
  BY <1>1, <1>2, <1>3 DEF IndInv

LEMMA PlainInv ==
  ASSUME IndInv, \A d \in Draft : Plain(d), PastGrows,
         UNCHANGED <<lead, confirmed>>
  PROVE  IndInv'
<1> USE DEF IndInv
<1>1. \A d \in Draft :
        /\ RowStep(d)
        /\ draft'[d].token = draft[d].token
        /\ draft[d].status = "submitted" <=> draft'[d].status = "submitted"
  BY PlainRow
<1>2. /\ draft' \in [Draft -> DraftRow] /\ past' \subseteq Snapshot
      /\ RevisionNamesContent' /\ PastIsPast' /\ ActiveCounted'
  BY <1>1, PastStep
<1>3. TypeOK'
  BY <1>2 DEF TypeOK
<1>4. ThankedIsRecorded'
  BY <1>1 DEF ThankedIsRecorded, Carrying
<1>5. ASSUME NEW d \in Draft, NEW e \in Draft \ {d},
             Active(draft'[d]), Active(draft'[e])
      PROVE  FALSE
  <2>1. ~Opens(d) /\ ~Opens(e)
    BY <1>5 DEF Opens
  <2>2. \A x \in {d, e} : draft[x].status = "none" => draft'[x].status = "none"
    BY <2>1 DEF Plain, Still, Ages, Expires, Changes, Leaves, Active
  <2>3. Active(draft[d]) /\ Active(draft[e])
    BY <1>1, <1>5, <2>2 DEF RowStep, Active
  <2> QED
    BY <2>3 DEF OneLeadPerToken
<1>6. OneLeadPerToken'
  <2>1. \A d \in Draft :
          /\ draft'[d].token # NoToken <=> draft'[d].status = "submitted"
          /\ draft'[d].token # NoToken <=> lead'[d].status # "none"
          /\ \A e \in Draft \ {d} :
               draft'[d].token = draft'[e].token => draft'[d].token = NoToken
    BY <1>1 DEF OneLeadPerToken
  <2> QED
    BY <1>5, <2>1 DEF OneLeadPerToken, Active
<1> QED
  BY <1>2, <1>3, <1>4, <1>6

LEMMA SubmitInv ==
  ASSUME IndInv, NEW sub \in Submission, NEW useSaved \in BOOLEAN,
         Submit(sub, useSaved) \/ Resubmit(sub, useSaved)
  PROVE  IndInv'
<1> USE DEF IndInv
<1>1. PICK d \in Draft :
        Submits(d, sub) /\ \A e \in Draft \ {d} : Still(e) \/ Expires(e)
  BY SubmitMoves
<1>2. PastGrows /\ confirmed' = confirmed \cup {sub}
  BY SubmitMoves
<1>3. sub.token \in Token /\ sub.token # NoToken
  BY DraftAssumption DEF Submission
<1>4. \A e \in Draft \ {d} :
        /\ RowStep(e)
        /\ draft'[e].token = draft[e].token
        /\ draft[e].status = "submitted" <=> draft'[e].status = "submitted"
  BY <1>1, PlainRow DEF Plain
<1>5. RowStep(d)
  BY <1>1 DEF Submits, RowStep, Active
<1>6. /\ draft' \in [Draft -> DraftRow] /\ past' \subseteq Snapshot
      /\ RevisionNamesContent' /\ PastIsPast' /\ ActiveCounted'
  BY <1>2, <1>4, <1>5, PastStep
<1>7. TypeOK'
  BY <1>1, <1>2, <1>6 DEF TypeOK, Submits
\* Nobody was thanked for the Lead the draft had, if it had one.
<1>8. ASSUME NEW other \in confirmed, NEW e \in Carrying(other.token),
             lead[e].status = "kept"
      PROVE  e # d
  <2>1. draft[e].token # NoToken
    BY DraftAssumption DEF TypeOK, Submission, Carrying
  <2>2. draft[e].status = "submitted"
    BY <2>1 DEF OneLeadPerToken, Carrying
  <2> QED
    BY <1>1, <1>8, <2>2 DEF Submits, Active
<1>9. ThankedIsRecorded'
  <2> SUFFICES ASSUME NEW other \in confirmed'
               PROVE  \E e \in Draft :
                        /\ draft'[e].token = other.token
                        /\ lead'[e].status = "kept"
                        /\ lead'[e].fields = other.fields
                        /\ lead'[e].demo = other.demo
    BY DEF ThankedIsRecorded, Carrying
  <2>1. CASE other = sub
    BY <1>1, <2>1 DEF Submits
  <2>2. CASE other \in confirmed
    <3>1. PICK e \in Carrying(other.token) :
            /\ lead[e].status = "kept"
            /\ lead[e].fields = other.fields
            /\ lead[e].demo = other.demo
      BY <2>2 DEF ThankedIsRecorded
    <3>2. e \in Draft \ {d} /\ draft[e].token = other.token
      BY <1>8, <2>2, <3>1 DEF Carrying
    <3> QED
      BY <1>1, <1>4, <3>1, <3>2 DEF Submits
  <2> QED
    BY <1>2, <2>1, <2>2
<1>10. OneLeadPerToken'
  <2>1. /\ draft'[d].token = sub.token /\ draft'[d].status = "submitted"
        /\ lead'[d].status = "kept"
    BY <1>1 DEF Submits
  <2>2. \A e \in Draft \ {d} : draft[e].token # sub.token
    <3>1. CASE Carrying(sub.token) = {}
      BY <3>1 DEF Carrying
    <3>2. CASE draft[d].token = sub.token
      BY <1>3, <3>2 DEF OneLeadPerToken
    <3> QED
      BY <1>1, <3>1, <3>2 DEF Submits
  <2>3. \A e \in Draft \ {d} :
          /\ draft'[e].token # NoToken <=> draft'[e].status = "submitted"
          /\ draft'[e].token # NoToken <=> lead'[e].status # "none"
          /\ draft'[e].token # sub.token
          /\ Active(draft'[e]) => Active(draft[e])
    <3>1. \A e \in Draft \ {d} : lead'[e] = lead[e]
      BY <1>1 DEF Submits
    <3>2. \A e \in Draft \ {d} : Active(draft'[e]) => Active(draft[e])
      BY <1>1 DEF Still, Expires
    <3> QED
      BY <1>4, <2>2, <3>1, <3>2 DEF OneLeadPerToken
  <2>4. \A e, f \in Draft \ {d} :
          e # f => /\ draft'[e].token = draft'[f].token =>
                        draft'[e].token = NoToken
                   /\ ~(Active(draft'[e]) /\ Active(draft'[f]))
    BY <1>4, <2>3 DEF OneLeadPerToken
  <2> QED
    BY <1>3, <2>1, <2>3, <2>4 DEF OneLeadPerToken, Active
<1> QED
  BY <1>6, <1>7, <1>9, <1>10

LEMMA RemoveInv ==
  ASSUME IndInv, NEW d \in Draft, RemoveLead(d)
  PROVE  IndInv'
<1> USE DEF IndInv
<1>1. /\ draft' = draft /\ past' = past
      /\ confirmed' = {sub \in confirmed : sub.token # draft[d].token}
      /\ lead' = [lead EXCEPT ![d].status = "removed"]
      /\ lead[d].status = "kept"
  BY DEF RemoveLead
<1>2. \A e \in Draft \ {d} : lead'[e] = lead[e]
  BY <1>1 DEF TypeOK
<1>3. lead' \in [Draft -> LeadRow] /\ lead'[d].status = "removed"
  BY <1>1 DEF TypeOK, LeadRow
<1>4. TypeOK'
  BY <1>1, <1>3 DEF TypeOK
<1>5. ThankedIsRecorded'
  BY <1>1, <1>2 DEF ThankedIsRecorded, Carrying
<1>6. OneLeadPerToken'
  BY <1>1, <1>2, <1>3 DEF OneLeadPerToken, Active
<1>7. RevisionNamesContent' /\ PastIsPast' /\ ActiveCounted'
  BY <1>1 DEF RevisionNamesContent, PastIsPast, ActiveCounted, Active, SnapshotOf
<1> QED
  BY <1>4, <1>5, <1>6, <1>7

LEMMA ReplayInv ==
  ASSUME IndInv, NEW sub \in Submission, Replay(sub)
  PROVE  IndInv'
<1> USE DEF IndInv
<1>1. /\ draft' = draft /\ lead' = lead /\ past' = past
      /\ confirmed' = confirmed \cup {sub}
  BY DEF Replay
<1>2. TypeOK'
  BY <1>1 DEF TypeOK
<1>3. ThankedIsRecorded'
  BY <1>1 DEF ThankedIsRecorded, Carrying, Replay, Matches
<1>4. /\ OneLeadPerToken' /\ RevisionNamesContent'
      /\ PastIsPast' /\ ActiveCounted'
  BY <1>1 DEF OneLeadPerToken, RevisionNamesContent, PastIsPast, ActiveCounted,
              Active, SnapshotOf
<1> QED
  BY <1>2, <1>3, <1>4

LEMMA StepInv == IndInv /\ [Next]_vars => IndInv'
<1> SUFFICES ASSUME IndInv, [Next]_vars  PROVE  IndInv'
  OBVIOUS
<1>1. CASE \/ \E expected \in Expected :
                Delete(expected) \/ \E fields \in Content : Save(expected, fields)
           \/ \E demo \in Demo : HandOff(demo)
           \/ \E d \in Draft : TimeUp(d) \/ CleanUp(d)
  BY <1>1, PlainSteps, PlainInv DEF IndInv
<1>2. CASE \E sub \in Submission : Replay(sub)
  BY <1>2, ReplayInv
<1>3. CASE \E sub \in Submission, useSaved \in BOOLEAN :
             Submit(sub, useSaved) \/ Resubmit(sub, useSaved)
  BY <1>3, SubmitInv
<1>4. CASE \E d \in Draft : RemoveLead(d)
  BY <1>4, RemoveInv
<1>5. CASE UNCHANGED vars
  BY <1>5 DEF vars, IndInv, TypeOK, RevisionNamesContent, ThankedIsRecorded,
              OneLeadPerToken, PastIsPast, ActiveCounted, Carrying, Active,
              SnapshotOf
<1> QED
  BY <1>1, <1>2, <1>3, <1>4, <1>5 DEF Next, Request

\* The invariant all the others follow from.
THEOREM DraftInvariance == Spec => []IndInv
  BY InitInv, StepInv, PTL DEF Spec

\* Drafts, Leads and what pages have read keep their types.
THEOREM DraftTypeCorrect == Spec => []TypeOK
<1>1. IndInv => TypeOK
  BY DEF IndInv
<1> QED
  BY <1>1, DraftInvariance, PTL

\* A revision that still matches the draft a page has read (the test of
\* save_draft_fields) means that nothing was changed since.
THEOREM RevisionsNameContent == Spec => []RevisionNamesContent
<1>1. IndInv => RevisionNamesContent
  BY DEF IndInv
<1> QED
  BY <1>1, DraftInvariance, PTL

\* Whoever was thanked by LeadCreateView has exactly this submission on record.
THEOREM ThanksAreRecorded == Spec => []ThankedIsRecorded
<1>1. IndInv => ThankedIsRecorded
  BY DEF IndInv
<1> QED
  BY <1>1, DraftInvariance, PTL

\* However often finalize_form_draft_to_lead is repeated, a token makes one Lead.
THEOREM TokensMakeOneLead == Spec => []OneLeadPerToken
<1>1. IndInv => OneLeadPerToken
  BY DEF IndInv
<1> QED
  BY <1>1, DraftInvariance, PTL

-----------------------------------------------------------------------------
(* What is over stays over. *)

StaysOver(d) ==
  /\ draft[d].status = "submitted" =>
       /\ draft'[d].status = "submitted"
       /\ draft'[d].fields = draft[d].fields
       /\ draft'[d].demo = draft[d].demo
       /\ draft'[d].token = draft[d].token
  /\ lead[d].status = "kept" =>
       lead'[d] \in {lead[d], [lead[d] EXCEPT !.status = "removed"]}
  /\ draft[d].status \in {"expired", "gone"} =>
       draft'[d].status \in {draft[d].status, "gone"}
  /\ Active(draft[d]) /\ draft[d].overdue =>
       draft'[d] = draft[d] \/ draft'[d].status = "expired"

LEMMA PlainOver ==
  ASSUME TypeOK, NEW d \in Draft, Plain(d), lead'[d] = lead[d]
  PROVE  StaysOver(d)
<1>1. draft[d] \in DraftRow
  BY DEF TypeOK
<1>2. CASE Still(d)
  BY <1>2 DEF Still, StaysOver
<1>3. CASE Ages(d)
  <2>1. /\ draft'[d].status = draft[d].status
        /\ draft'[d].fields = draft[d].fields /\ draft'[d].demo = draft[d].demo
        /\ draft'[d].token = draft[d].token
        /\ draft[d].overdue => draft'[d] = draft[d]
    BY <1>1, <1>3 DEF Ages, DraftRow
  <2> QED
    BY <1>3, <2>1 DEF Ages, StaysOver
<1>4. CASE Expires(d)
  <2>1. draft'[d].status = "expired"
    BY <1>1, <1>4 DEF Expires, DraftRow
  <2> QED
    BY <1>4, <2>1 DEF Expires, StaysOver, Active
<1>5. CASE Changes(d)
  BY <1>5 DEF Changes, StaysOver, Active
<1>6. CASE Opens(d)
  BY <1>6 DEF Opens, StaysOver, Active
<1>7. CASE Leaves(d)
  <2>1. draft'[d].status = "gone"
    BY <1>1, <1>7 DEF Leaves, Gone, DraftRow
  <2> QED
    BY <1>7, <2>1 DEF Leaves, StaysOver, Active
<1> QED
  BY <1>2, <1>3, <1>4, <1>5, <1>6, <1>7 DEF Plain

LEMMA StepOver == IndInv /\ [Next]_vars => \A d \in Draft : StaysOver(d)
<1> SUFFICES ASSUME IndInv, [Next]_vars  PROVE  \A d \in Draft : StaysOver(d)
  OBVIOUS
<1> USE DEF IndInv
<1>1. CASE \/ \E expected \in Expected :
                Delete(expected) \/ \E fields \in Content : Save(expected, fields)
           \/ \E demo \in Demo : HandOff(demo)
           \/ \E d \in Draft : TimeUp(d) \/ CleanUp(d)
  BY <1>1, PlainSteps, PlainOver
<1>2. ASSUME NEW sub \in Submission, NEW useSaved \in BOOLEAN,
             Submit(sub, useSaved) \/ Resubmit(sub, useSaved)
      PROVE  \A d \in Draft : StaysOver(d)
  <2>1. PICK d \in Draft :
          Submits(d, sub) /\ \A e \in Draft \ {d} : Still(e) \/ Expires(e)
    BY <1>2, SubmitMoves
  <2>2. \A e \in Draft \ {d} : StaysOver(e)
    BY <2>1, PlainOver DEF Submits, Plain
  <2>3. draft[d].token = sub.token => draft[d].status = "submitted"
    <3>1. sub.token # NoToken
      BY DraftAssumption DEF Submission
    <3> QED
      BY <3>1 DEF OneLeadPerToken
  <2>4. lead[d].status # "kept"
    BY <2>1 DEF Submits, OneLeadPerToken, Active
  <2>5. StaysOver(d)
    BY <2>1, <2>3, <2>4 DEF Submits, StaysOver, Active, OneLeadPerToken
  <2> QED
    BY <2>2, <2>5
<1>3. ASSUME NEW d \in Draft, RemoveLead(d)
      PROVE  \A e \in Draft : StaysOver(e)
  BY <1>3 DEF RemoveLead, StaysOver, TypeOK
<1>4. CASE (\E sub \in Submission : Replay(sub)) \/ UNCHANGED vars
  BY <1>4 DEF Replay, vars, StaysOver
<1> QED
  BY <1>1, <1>2, <1>3, <1>4 DEF Next, Request

\* No save, hand-off, submission or cleaning up revives what is over.
THEOREM OverStaysOver == Spec => OverIsOver
<1>1. IndInv /\ [Next]_vars => [\A d \in Draft : StaysOver(d)]_vars
  BY StepOver
<1> QED
  BY <1>1, DraftInvariance, PTL DEF Spec, OverIsOver, StaysOver

-----------------------------------------------------------------------------
(* The drafts implement the record of submissions. *)

\* The open draft is the only one.
LEMMA OpenIs == OneLeadPerToken => \A d \in Usable : OpenChoice = {draft[d].demo}
BY DEF OneLeadPerToken, Usable, OpenChoice

\* The same of the next state.
LEMMA OpenBecomes ==
  OneLeadPerToken' => \A d \in Usable' : OpenChoice' = {draft'[d].demo}
BY DEF OneLeadPerToken, Usable, OpenChoice, Active

\* A row that was submitted stays the same on record while its Lead does.
LEMMA RecordKept ==
  ASSUME OneLeadPerToken, NEW d \in Draft, draft[d].token # NoToken,
         StaysOver(d), lead'[d] = lead[d]
  PROVE  draft'[d].token # NoToken /\ RequestOf(d)' = RequestOf(d)
BY DEF OneLeadPerToken, StaysOver, RequestOf

\* Moves that leave the Leads alone are begins, attachments and closes of the
\* open draft, or do not show.
LEMMA PlainKeeps ==
  ASSUME IndInv, IndInv', \A d \in Draft : Plain(d) /\ StaysOver(d),
         UNCHANGED <<lead, confirmed>>
  PROVE  [Submissions!Next]_<<OpenChoice, OnRecord, confirmed>>
<1> USE DEF IndInv
<1>1. \A d \in Draft :
        /\ draft'[d].token = draft[d].token
        /\ draft[d].token # NoToken => RequestOf(d)' = RequestOf(d)
  BY PlainRow, RecordKept
<1>2. OnRecord' = OnRecord
  BY <1>1 DEF OnRecord
<1>3. CASE Usable' = {}
  <2>1. OpenChoice' = {}
    BY <1>3 DEF OpenChoice
  <2> QED
    BY <1>2, <2>1 DEF Submissions!Next, Submissions!Close
<1>4. ASSUME NEW d \in Usable'
      PROVE  [Submissions!Next]_<<OpenChoice, OnRecord, confirmed>>
  <2>1. d \in Draft /\ Active(draft'[d]) /\ ~draft'[d].overdue
    BY DEF Usable, Active
  <2>2. OpenChoice' = {draft'[d].demo}
    BY OpenBecomes
  <2>3. d \in Usable => OpenChoice = {draft[d].demo}
    BY OpenIs
  <2>4. CASE Still(d)
    <3>1. d \in Usable /\ draft'[d].demo = draft[d].demo
      BY <2>1, <2>4 DEF Still, Usable
    <3> QED
      BY <1>2, <2>2, <2>3, <3>1
  <2>5. CASE Changes(d)
    <3>1. d \in Usable
      BY <2>1, <2>5 DEF Changes, Usable
    <3>2. PICK fields \in Fields, demo \in Choice :
            /\ demo = draft[d].demo \/ demo # NoDemo
            /\ draft'[d] = Changed(draft[d], fields, demo)
      BY <2>5 DEF Changes
    <3>3. draft[d] \in DraftRow
      BY <2>1 DEF TypeOK
    <3>4. draft'[d].demo = demo
      BY <3>2, <3>3 DEF Changed, DraftRow
    <3>5. CASE demo = draft[d].demo
      BY <1>2, <2>2, <2>3, <3>1, <3>4, <3>5
    <3>6. CASE demo # NoDemo
      <4>1. Submissions!Attach(demo)
        BY <1>2, <2>2, <2>3, <3>1, <3>4, <3>6 DEF Submissions!Attach
      <4> QED
        BY <4>1 DEF Submissions!Next
    <3> QED
      BY <3>2, <3>5, <3>6
  <2>6. CASE Opens(d)
    <3>1. PICK fields \in Fields, demo \in Choice :
            draft'[d] = Created(fields, demo)
      BY <2>6 DEF Opens
    <3>2. draft'[d].demo = demo
      BY <3>1 DEF Created
    <3>3. OpenChoice = {}
      BY <2>6 DEF Opens, OpenChoice
    <3>4. Submissions!Begin(demo)
      BY <1>2, <2>2, <3>2, <3>3 DEF Submissions!Begin
    <3> QED
      BY <3>4 DEF Submissions!Next
  <2>7. draft[d] \in DraftRow
    BY <2>1 DEF TypeOK
  <2>8. CASE Ages(d)
    BY <2>1, <2>7, <2>8 DEF Ages, DraftRow
  <2>9. CASE Expires(d)
    BY <2>1, <2>7, <2>9 DEF Expires, DraftRow, Active
  <2>10. CASE Leaves(d)
    BY <2>1, <2>7, <2>10 DEF Leaves, Gone, DraftRow, Active
  <2> QED
    BY <2>1, <2>4, <2>5, <2>6, <2>8, <2>9, <2>10 DEF Plain
<1> QED
  BY <1>3, <1>4

\* A submission is a first one, or renews a removed request.
LEMMA SubmitKeeps ==
  ASSUME IndInv, IndInv', NEW sub \in Submission, NEW useSaved \in BOOLEAN,
         Submit(sub, useSaved) \/ Resubmit(sub, useSaved),
         \A d \in Draft : StaysOver(d)
  PROVE  Submissions!Next
<1> USE DEF IndInv
<1>1. PICK d \in Draft :
        Submits(d, sub) /\ \A e \in Draft \ {d} : Still(e) \/ Expires(e)
  BY SubmitMoves
<1>2. confirmed' = confirmed \cup {sub}
  BY SubmitMoves
<1>3. sub.token # NoToken
  BY DraftAssumption DEF Submission
<1>4. ASSUME NEW e \in Draft \ {d}
      PROVE  /\ draft'[e].token = draft[e].token
             /\ lead'[e] = lead[e]
             /\ draft[e].token # NoToken => RequestOf(e)' = RequestOf(e)
  <2>1. Plain(e)
    BY <1>1 DEF Plain
  <2>2. draft'[e].token = draft[e].token
    BY <2>1, PlainRow
  <2>3. lead'[e] = lead[e]
    BY <1>1 DEF Submits
  <2> QED
    BY <2>2, <2>3, RecordKept
\* What is on record beside the row submitted now.
<1> DEFINE elsewhere == {RequestOf(e) : e \in {x \in Draft \ {d} : draft[x].token # NoToken}}
<1>5. /\ draft'[d].token = sub.token /\ draft'[d].status = "submitted"
      /\ lead'[d].status = "kept"
      /\ lead'[d].fields = sub.fields /\ lead'[d].demo = sub.demo
      /\ lead'[d].saved \in IF sub.demo = NoDemo THEN {NoDemo, draft'[d].demo}
                           ELSE {NoDemo}
  BY <1>1 DEF Submits
<1>6. OnRecord' = elsewhere \cup {RequestOf(d)'}
  BY <1>3, <1>4, <1>5 DEF OnRecord
<1>7. RequestOf(d)' = [token |-> sub.token, fields |-> sub.fields,
                       demo |-> sub.demo, choice |-> draft'[d].demo,
                       saved |-> lead'[d].saved, kept |-> TRUE]
  BY <1>5 DEF RequestOf
<1>8. RequestOf(d)' \in Submissions!Recorded(sub, draft'[d].demo)
  BY <1>5, <1>7 DEF Submissions!Recorded
<1>9. sub \in Submissions!Submission
  BY DEF Submission, Submissions!Submission
<1>10. CASE draft[d].token = sub.token /\ lead[d].status # "kept"
  <2>1. draft[d].status = "submitted"
    BY <1>3, <1>10 DEF OneLeadPerToken
  <2>2. draft'[d].demo = draft[d].demo
    BY <2>1 DEF StaysOver
  <2>3. OnRecord = elsewhere \cup {RequestOf(d)}
    BY <1>3, <1>10 DEF OnRecord
  <2>4. /\ RequestOf(d).token = sub.token /\ ~RequestOf(d).kept
        /\ RequestOf(d).choice = draft[d].demo
    BY <1>10 DEF RequestOf
  <2>5. RequestOf(d) \notin elsewhere
    <3>1. \A e \in Draft \ {d} : RequestOf(e).token # sub.token
      BY <1>3, <1>10 DEF OneLeadPerToken, RequestOf
    <3> QED
      BY <2>4, <3>1
  <2>6. OpenChoice' = OpenChoice
    <3>1. ~Active(draft[d]) /\ ~Active(draft'[d])
      BY <1>5, <2>1 DEF Active
    <3>2. \A e \in Draft \ {d} :
            /\ e \in Usable <=> e \in Usable'
            /\ e \in Usable => draft'[e].demo = draft[e].demo
      <4> SUFFICES ASSUME NEW e \in Draft \ {d}
                   PROVE  /\ e \in Usable <=> e \in Usable'
                          /\ e \in Usable => draft'[e].demo = draft[e].demo
        OBVIOUS
      <4>1. CASE Still(e)
        BY <4>1 DEF Still, Usable, Active
      <4>2. CASE Expires(e)
        <5>1. draft'[e].status = "expired"
          BY <4>2 DEF Expires, TypeOK, DraftRow
        <5> QED
          BY <4>2, <5>1 DEF Expires, Usable, Active
      <4> QED
        BY <1>1, <4>1, <4>2
    <3>3. Usable' = Usable
      BY <3>1, <3>2 DEF Usable, Active
    <3> QED
      BY <3>1, <3>2, <3>3 DEF OpenChoice, Usable, Active
  <2>7. OnRecord' = (OnRecord \ {RequestOf(d)}) \cup {RequestOf(d)'}
    BY <1>6, <2>3, <2>5
  <2>8. Submissions!Renew(RequestOf(d), sub)
    BY <1>2, <1>8, <2>2, <2>4, <2>6, <2>7 DEF Submissions!Renew
  <2> QED
    BY <1>9, <2>3, <2>8 DEF Submissions!Next
<1>11. CASE /\ Carrying(sub.token) = {}
            /\ \/ Active(draft[d]) /\ ~draft[d].overdue
               \/ draft[d].status = "none" /\ Usable = {}
  <2>1. draft[d].token = NoToken
    BY <1>11 DEF OneLeadPerToken, Active
  <2>2. OnRecord = elsewhere
    BY <2>1 DEF OnRecord
  <2>3. \A r \in OnRecord : r.token # sub.token
    BY <1>11 DEF OnRecord, RequestOf, Carrying
  <2>4. draft'[d].demo \in IF OpenChoice = {} THEN {NoDemo} ELSE OpenChoice
    <3>1. CASE Active(draft[d]) /\ ~draft[d].overdue
      <4>1. d \in Usable /\ draft[d].status # "none"
        BY <3>1 DEF Usable, Active
      <4>2. OpenChoice = {draft[d].demo}
        BY <4>1, OpenIs
      <4>3. draft'[d].demo = draft[d].demo
        BY <1>1, <4>1 DEF Submits
      <4> QED
        BY <4>2, <4>3
    <3>2. CASE draft[d].status = "none" /\ Usable = {}
      BY <1>1, <3>2 DEF Submits, OpenChoice
    <3> QED
      BY <1>11, <3>1, <3>2
  <2>5. OpenChoice' = {}
    <3>1. \A e \in Draft \ {d} : e \notin Usable
      BY <1>11 DEF OneLeadPerToken, Usable
    <3>2. ASSUME NEW e \in Draft \ {d}  PROVE  e \notin Usable'
      <4>1. CASE Still(e)
        BY <3>1, <4>1 DEF Still, Usable, Active
      <4>2. CASE Expires(e)
        <5>1. draft'[e].status = "expired"
          BY <4>2 DEF Expires, TypeOK, DraftRow
        <5> QED
          BY <5>1 DEF Usable, Active
      <4> QED
        BY <1>1, <4>1, <4>2
    <3> QED
      BY <1>5, <3>2 DEF OpenChoice, Usable, Active
  <2>6. Submissions!Submit(sub)
    BY <1>2, <1>6, <1>8, <2>2, <2>3, <2>4, <2>5 DEF Submissions!Submit
  <2> QED
    BY <1>9, <2>6 DEF Submissions!Next
<1> QED
  BY <1>1, <1>10, <1>11 DEF Submits

\* An answer that was lost is given again.
LEMMA ReplayKeeps ==
  ASSUME NEW sub \in Submission, Replay(sub)
  PROVE  Submissions!Next
<1>1. PICK d \in Carrying(sub.token) :
        lead[d].status = "kept" /\ Matches(lead[d], sub)
  BY DEF Replay
<1>2. d \in Draft /\ draft[d].token = sub.token /\ sub.token # NoToken
  BY DraftAssumption DEF Carrying, Submission
<1>3. RequestOf(d) \in OnRecord
  BY <1>2 DEF OnRecord
<1>4. /\ RequestOf(d).kept /\ RequestOf(d).token = sub.token
      /\ RequestOf(d).fields = sub.fields /\ RequestOf(d).demo = sub.demo
  BY <1>1, <1>2 DEF RequestOf, Matches
<1>5. OpenChoice' = OpenChoice /\ OnRecord' = OnRecord
  BY DEF Replay, OpenChoice, OnRecord, RequestOf, Usable, Active
<1>6. Submissions!Repeat(sub)
  BY <1>3, <1>4, <1>5 DEF Replay, Submissions!Repeat
<1> QED
  BY <1>6 DEF Submissions!Next, Submission, Submissions!Submission

\* The staff removes a request.
LEMMA RemoveKeeps ==
  ASSUME IndInv, NEW d \in Draft, RemoveLead(d)
  PROVE  Submissions!Next
<1> USE DEF IndInv
<1>1. /\ draft' = draft
      /\ confirmed' = {sub \in confirmed : sub.token # draft[d].token}
      /\ lead' = [lead EXCEPT ![d].status = "removed"]
      /\ lead[d].status = "kept"
  BY DEF RemoveLead
<1>2. draft[d].token # NoToken
  BY <1>1 DEF OneLeadPerToken
<1>3. lead'[d] = [lead[d] EXCEPT !.status = "removed"]
  BY <1>1 DEF TypeOK
<1>4. lead[d] \in LeadRow
  BY DEF TypeOK
<1>5. RequestOf(d)' = [RequestOf(d) EXCEPT !.kept = FALSE]
  <2> DEFINE Entry == [token: Token \cup {NoToken}, fields: Fields,
                       demo: Choice, choice: Choice, saved: Choice,
                       kept: BOOLEAN]
  <2>1. ASSUME NEW old \in Entry, NEW new \in Entry,
               new.token = old.token, new.fields = old.fields,
               new.demo = old.demo, new.choice = old.choice,
               new.saved = old.saved, new.kept = FALSE
        PROVE  new = [old EXCEPT !.kept = FALSE]
    <3>1. PICK removed \in Entry : removed = [old EXCEPT !.kept = FALSE]
      OBVIOUS
    <3>2. /\ removed.token = old.token /\ removed.fields = old.fields
          /\ removed.demo = old.demo /\ removed.choice = old.choice
          /\ removed.saved = old.saved /\ removed.kept = FALSE
      BY <3>1
    <3>3. removed = new
      BY <2>1, <3>2
    <3> QED
      BY <3>1, <3>3
  <2>2. /\ lead'[d].fields = lead[d].fields /\ lead'[d].demo = lead[d].demo
        /\ lead'[d].saved = lead[d].saved /\ lead'[d].status = "removed"
    BY <1>3, <1>4 DEF LeadRow
  <2>3. draft[d] \in DraftRow
    BY DEF TypeOK
  <2>4. RequestOf(d) \in Entry
    BY <1>4, <2>3 DEF RequestOf, DraftRow, LeadRow
  <2>5. LET old == RequestOf(d)
            new == RequestOf(d)'
        IN  /\ new \in Entry
            /\ new.token = old.token /\ new.fields = old.fields
            /\ new.demo = old.demo /\ new.choice = old.choice
            /\ new.saved = old.saved /\ new.kept = FALSE
    BY <1>1, <1>4, <2>2, <2>3 DEF RequestOf, DraftRow, LeadRow
  <2> HIDE DEF Entry
  <2> QED
    BY <2>1, <2>4, <2>5
<1>6. \A e \in Draft \ {d} : RequestOf(e)' = RequestOf(e)
  BY <1>1 DEF RequestOf, TypeOK
<1> DEFINE elsewhere == {RequestOf(e) : e \in {x \in Draft \ {d} : draft[x].token # NoToken}}
<1>7. OnRecord = elsewhere \cup {RequestOf(d)}
  BY <1>2 DEF OnRecord
<1>8. OnRecord' = elsewhere \cup {RequestOf(d)'}
  BY <1>1, <1>2, <1>6 DEF OnRecord
<1>9. RequestOf(d) \notin elsewhere
  <2>1. \A e \in Draft \ {d} : RequestOf(e).token # RequestOf(d).token
    BY <1>2 DEF OneLeadPerToken, RequestOf
  <2> QED
    BY <2>1
<1>10. OnRecord' =
         (OnRecord \ {RequestOf(d)}) \cup {[RequestOf(d) EXCEPT !.kept = FALSE]}
  BY <1>5, <1>7, <1>8, <1>9
<1>11. RequestOf(d).kept /\ RequestOf(d).token = draft[d].token
  BY <1>1 DEF RequestOf
<1>12. OpenChoice' = OpenChoice
  BY <1>1 DEF OpenChoice, Usable, Active
<1>13. Submissions!Remove(RequestOf(d))
  BY <1>1, <1>10, <1>11, <1>12 DEF Submissions!Remove
<1> QED
  BY <1>7, <1>13 DEF Submissions!Next

LEMMA StepKeepsSubmissions ==
  IndInv /\ IndInv' /\ [Next]_vars =>
    [Submissions!Next]_<<OpenChoice, OnRecord, confirmed>>
<1> SUFFICES ASSUME IndInv, IndInv', [Next]_vars
             PROVE  [Submissions!Next]_<<OpenChoice, OnRecord, confirmed>>
  OBVIOUS
<1>1. \A d \in Draft : StaysOver(d)
  BY StepOver
<1>2. CASE \/ \E expected \in Expected :
                Delete(expected) \/ \E fields \in Content : Save(expected, fields)
           \/ \E demo \in Demo : HandOff(demo)
           \/ \E d \in Draft : TimeUp(d) \/ CleanUp(d)
  <2>1. (\A d \in Draft : Plain(d)) /\ UNCHANGED <<lead, confirmed>>
    BY <1>2, PlainSteps DEF IndInv
  <2> QED
    BY <1>1, <2>1, PlainKeeps
<1>3. CASE \E sub \in Submission : Replay(sub)
  BY <1>3, ReplayKeeps
<1>4. CASE \E sub \in Submission, useSaved \in BOOLEAN :
             Submit(sub, useSaved) \/ Resubmit(sub, useSaved)
  BY <1>1, <1>4, SubmitKeeps
<1>5. CASE \E d \in Draft : RemoveLead(d)
  BY <1>5, RemoveKeeps
<1>6. CASE UNCHANGED vars
  BY <1>6 DEF vars, OpenChoice, OnRecord, RequestOf, Usable, Active
<1> QED
  BY <1>2, <1>3, <1>4, <1>5, <1>6 DEF Next, Request

\* The drafts, Leads and thanks of one customer implement SubmissionRecord:
\* whatever save_draft_fields, finalize_form_draft_to_lead, the hand-off,
\* expiry, the cleaning up and LeadAdmin do, what is seen of them is one open
\* draft at most and each submission recorded once under its token.
THEOREM DraftsImplementSubmissions == Spec => KeepsSubmissions
<1>1. Init => Submissions!Init
  BY DEF Init, Submissions!Init, OpenChoice, OnRecord, Usable, Active
<1>2. IndInv /\ IndInv' /\ [Next]_vars =>
        [Submissions!Next]_<<OpenChoice, OnRecord, confirmed>>
  BY StepKeepsSubmissions
<1> QED
  BY <1>1, <1>2, DraftInvariance, PTL DEF Spec, KeepsSubmissions, Submissions!Spec

-----------------------------------------------------------------------------
(* The contact page: its steps are steps of the drafts.                      *)

\* What is current has been read, and nothing read is forgotten.
ActiveIsPast(S) == \A d \in Draft : Active(draft[d]) => SnapshotOf(draft, d) \in S

LEMMA CommitReads ==
  ASSUME NEW rows, Commit(rows)
  PROVE  past \subseteq past' /\ ActiveIsPast(past)'
BY DEF Commit, ActiveIsPast

LEMMA StepReads ==
  ASSUME TypeOK, ActiveIsPast(past), [Next]_vars
  PROVE  past \subseteq past' /\ ActiveIsPast(past)'
<1>1. ASSUME Request PROVE past \subseteq past' /\ ActiveIsPast(past)'
  <2>1. ASSUME NEW sub \in Submission, Replay(sub)
        PROVE  past \subseteq past' /\ ActiveIsPast(past)'
    BY <2>1 DEF Replay, ActiveIsPast
  <2>2. CASE \E rows : Commit(rows)
    BY <2>2, CommitReads
  <2>3. \/ \E rows : Commit(rows)
        \/ \E sub \in Submission : Replay(sub)
    BY <1>1 DEF Request, Delete, Save, HandOff, Change, Create, OnlySweep,
                Submit, Resubmit, Turn
  <2> QED
    BY <2>1, <2>2, <2>3
<1>2. ASSUME NEW d \in Draft, TimeUp(d)
      PROVE  past \subseteq past' /\ ActiveIsPast(past)'
  <2>1. /\ UNCHANGED past
        /\ \A e \in Draft : Active(draft'[e]) =>
             Active(draft[e]) /\ SnapshotOf(draft', e) = SnapshotOf(draft, e)
    BY <1>2 DEF TimeUp, TypeOK, DraftRow, Active, SnapshotOf
  <2> QED
    BY <2>1 DEF ActiveIsPast
<1>3. ASSUME NEW d \in Draft, CleanUp(d)
      PROVE  past \subseteq past' /\ ActiveIsPast(past)'
  <2>1. /\ UNCHANGED past
        /\ \A e \in Draft : Active(draft'[e]) =>
             Active(draft[e]) /\ SnapshotOf(draft', e) = SnapshotOf(draft, e)
    BY <1>3 DEF CleanUp, Gone, TypeOK, DraftRow, Active, SnapshotOf
  <2> QED
    BY <2>1 DEF ActiveIsPast
<1>4. ASSUME UNCHANGED <<draft, past>>
      PROVE  past \subseteq past' /\ ActiveIsPast(past)'
  BY <1>4 DEF ActiveIsPast
<1> QED
  BY <1>1, <1>2, <1>3, <1>4 DEF Next, RemoveLead, vars

\* A save that is no conflict leaves one active draft, which holds the fields.
LEMMA SaveStores ==
  ASSUME IndInv, NEW expected \in Expected, NEW fields \in Content,
         Save(expected, fields), Usable = {} => expected = 0,
         NEW d \in Draft, Active(draft'[d])
  PROVE  draft'[d].fields = fields
<1>0. TypeOK /\ OneLeadPerToken
  BY DEF IndInv
<1>1. IndInv'
  BY StepInv DEF Next, Request
<1>2. \A e \in Draft \ {d} : ~Active(draft'[e])
  BY <1>1 DEF IndInv, OneLeadPerToken
<1>3. \E e \in Draft : Active(draft'[e]) /\ draft'[e].fields = fields
  <2>1. ASSUME NEW e \in Usable, Change(e, fields, draft[e].demo)
        PROVE  e \in Draft /\ Active(draft'[e]) /\ draft'[e].fields = fields
    <3>1. e \in Draft /\ Active(draft[e]) /\ draft[e] \in DraftRow
      BY <1>0 DEF Usable, TypeOK
    <3>2. draft' = [draft EXCEPT ![e] = Changed(draft[e], fields, draft[e].demo)]
      BY <2>1 DEF Change, Commit
    <3>3. draft'[e] = Changed(draft[e], fields, draft[e].demo)
      BY <1>0, <3>1, <3>2 DEF TypeOK
    <3> QED
      BY <3>1, <3>3 DEF Changed, Active, DraftRow
  <2>2. ASSUME Create(fields, NoDemo)
        PROVE  \E e \in Draft : Active(draft'[e]) /\ draft'[e].fields = fields
    <3>1. PICK e \in Unused : draft' = [Swept EXCEPT ![e] = Created(fields, NoDemo)]
      BY <2>2 DEF Create, Commit
    <3>2. e \in Draft /\ draft'[e] = Created(fields, NoDemo)
      BY <3>1 DEF Unused, Swept
    <3> QED
      BY <3>2 DEF Created, Active
  <2> QED
    BY <2>1, <2>2 DEF Save
<1> QED
  BY <1>2, <1>3

-----------------------------------------------------------------------------
(* The invariant of the page, and what leaves it alone. *)

\* The conjuncts of the page's invariant, of a page p with the requests w, of
\* which m was missed, when S has been read.
Revisions(S) == {0} \cup {s.revision : s \in S}

\* What a request was sent with and answered with has been read.
InformedBy(q, S) ==
  /\ q.expected \in Revisions(S)
  /\ q.known \in S \cup {NoDraft} /\ q.answer.draft \in S \cup {NoDraft}
  /\ q.kind \in Writing => q.expected = RevisionOf(q.known)

ReturnedBy(q, S) ==
  /\ q.kind = "none" => q = Idle
  /\ q.answer.kind = "conflict" => q.kind # "load"
  /\ q.kind \in Writing /\ q.answer.kind = "ok" =>
       q.answer.draft \in S /\ q.answer.draft.fields = q.fields

WellSent(q, S) == InformedBy(q, S) /\ ReturnedBy(q, S)

\* What the page knows has been read.
Read(p, S) ==
  /\ p.base \in S \cup {NoDraft} /\ p.offer \in S \cup {NoDraft}
  /\ p.revision = RevisionOf(p.base)
  /\ p.rows \subseteq Revisions(S)
  /\ InformedBy(p.again, S)

Loads(p, w) == p.panel = "load" \/ \E s \in Slot : w[s].kind = "load"

InOrder(p, w, m) ==
  /\ Loads(p, w) => /\ ~p.ready /\ ~p.banner /\ p.panel \in {"none", "load"}
                    /\ p.rerendered => m
  /\ p.panel = "load" => \A s \in Slot : w[s].kind = "none"
  /\ \A s, t \in Slot : w[s].kind = "load" /\ w[t].kind # "none" => s = t
  /\ p.banner => /\ ~p.ready /\ p.panel # "conflict"
                 /\ p.again.kind \in {"none", "move", "restart"}
                 /\ \A s \in Slot : w[s].kind \in {"none", "move", "restart"}
  /\ p.ready \/ (~Saving(w) /\ ~p.retry)

Holds(p, S) ==
  \/ p.revision = 0 /\ p.form = Empty
  \/ \E s \in S : s.revision = p.revision /\ s.fields = p.form

Settled(p, w, m, S) ==
  p.ready /\ p.pause = "no" =>
    Holds(p, S) \/ m \/ Saving(w) \/ p.retry \/ p.panel = "save"

Accounted(p, w, m, S) ==
  /\ Loads(p, w) \/ p.banner => p.form = Empty \/ m
  /\ \A s \in Slot : Covered(w[s], p, m)
  /\ Settled(p, w, m, S)

Typed(p, w, m) == p \in Page /\ w \in [Slot -> PageRequest] /\ m \in BOOLEAN

Sound(p, w, m, S) ==
  /\ Typed(p, w, m)
  /\ Read(p, S)
  /\ \A s \in Slot : WellSent(w[s], S)
  /\ InOrder(p, w, m)

Whole(p, w, m, S) == Sound(p, w, m, S) /\ Accounted(p, w, m, S)

Bounded ==
  /\ access \in {"customer", "none"}
  /\ others \in 0..MaxOthers /\ lost \in 0..MaxLost /\ decided \in 0..MaxDecided

LEMMA PageInvIs ==
  /\ PageInv <=> /\ TypeOK /\ Bounded /\ ActiveIsPast(past)
                 /\ Whole(page, wire, missed, past)
  /\ PageInv' <=> /\ TypeOK' /\ Bounded' /\ ActiveIsPast(past)'
                  /\ Whole(page', wire', missed', past')
<1>1. PageTypeOK <=> TypeOK /\ Bounded /\ Typed(page, wire, missed)
  BY DEF PageTypeOK, Typed, Bounded
<1>2. /\ KnownIsPast <=> /\ Read(page, past) /\ ActiveIsPast(past)
                         /\ \A s \in Slot : InformedBy(wire[s], past)
  BY DEF KnownIsPast, Known, Informed, Read, InformedBy, ActiveIsPast, Expected,
         Revisions
<1>3. AnsweredAsSent <=> \A s \in Slot : ReturnedBy(wire[s], past)
  BY DEF AnsweredAsSent, ReturnedBy
<1>4. ReadyLast <=> InOrder(page, wire, missed)
  BY DEF ReadyLast, InOrder, Loading, Loads
<1>5. ChangesAccounted <=> Accounted(page, wire, missed, past)
  BY DEF ChangesAccounted, Accounted, Settled, Loading, Loads, Stored, Holds
<1>6. PageTypeOK' <=> TypeOK' /\ Bounded' /\ Typed(page', wire', missed')
  BY DEF PageTypeOK, Typed, Bounded
<1>7. KnownIsPast' <=> /\ Read(page', past') /\ ActiveIsPast(past)'
                       /\ \A s \in Slot : InformedBy(wire'[s], past')
  BY DEF KnownIsPast, Known, Informed, Read, InformedBy, ActiveIsPast, Expected,
         Revisions
<1>8. AnsweredAsSent' <=> \A s \in Slot : ReturnedBy(wire'[s], past')
  BY DEF AnsweredAsSent, ReturnedBy
<1>9. ReadyLast' <=> InOrder(page', wire', missed')
  BY DEF ReadyLast, InOrder, Loading, Loads, Saving
<1>10. ChangesAccounted' <=> Accounted(page', wire', missed', past')
  BY DEF ChangesAccounted, Accounted, Settled, Loading, Loads, Stored, Holds,
         Covered, Saving
<1> QED
  BY <1>1, <1>2, <1>3, <1>4, <1>5, <1>6, <1>7, <1>8, <1>9, <1>10
  DEF PageInv, Sound, Whole, WellSent

LEMMA KnownGrows ==
  ASSUME NEW p, NEW w, NEW m, NEW S, NEW T, S \subseteq T, Whole(p, w, m, S)
  PROVE  Whole(p, w, m, T)
<1>1. \A q : InformedBy(q, S) => InformedBy(q, T)
  BY DEF InformedBy, Revisions
<1>2. \A q : WellSent(q, S) => WellSent(q, T)
  BY <1>1 DEF WellSent, ReturnedBy
<1>3. Read(p, S) => Read(p, T)
  BY <1>1 DEF Read, Revisions
<1>4. Accounted(p, w, m, S) => Accounted(p, w, m, T)
  BY DEF Accounted, Settled, Holds
<1> QED
  BY <1>2, <1>3, <1>4 DEF Whole, Sound

LEMMA FieldsAreContent == Fields = Content
BY DraftPageAssumption DEF Fields

-----------------------------------------------------------------------------
(* What the page's operators return. *)

LEMMA AskedIs ==
  ASSUME NEW kind \in Kind \cup {"none"}, NEW expected \in Nat,
         NEW fields \in Content, NEW known \in Snapshot \cup {NoDraft}
  PROVE  LET q == Asked(kind, expected, fields, known) IN
         /\ q \in PageRequest
         /\ q.kind = kind /\ q.expected = expected /\ q.fields = fields
         /\ q.known = known /\ ~q.overtaken
         /\ q.answer = Unanswered /\ q.answer.kind = "none"
         /\ q.answer.draft = NoDraft
BY DEF Asked, PageRequest, Unanswered

LEMMA IdleIs ==
  /\ Idle \in PageRequest /\ Idle.kind = "none" /\ Idle.expected = 0
  /\ Idle.known = NoDraft /\ Idle.answer.draft = NoDraft
  /\ Idle.answer.kind = "none"
<1>1. "none" \in Kind \cup {"none"} /\ 0 \in Nat /\ Empty \in Content
  BY DraftPageAssumption
<1> QED
  BY <1>1, AskedIs DEF Idle

\* A request as it is sent, when S has been read.
LEMMA RequestIs ==
  ASSUME NEW S \in SUBSET Snapshot, NEW kind \in Kind,
         NEW expected \in Revisions(S), NEW fields \in Content,
         NEW known \in S \cup {NoDraft},
         kind \in Writing => expected = RevisionOf(known)
  PROVE  LET q == Asked(kind, expected, fields, known) IN
         /\ q \in PageRequest /\ WellSent(q, S)
         /\ q.kind = kind /\ q.kind # "none" /\ q.fields = fields
<1>1. expected \in Nat /\ known \in Snapshot \cup {NoDraft}
  BY DEF Revisions, Snapshot
<1>2. kind # "none"
  BY DEF Kind
<1> QED
  BY <1>1, <1>2, AskedIs DEF WellSent, InformedBy, ReturnedBy

LEMMA IdleIsRead == \A S : WellSent(Idle, S)
BY IdleIs DEF WellSent, InformedBy, ReturnedBy, Revisions, Writing

LEMMA RevisionIs ==
  ASSUME NEW canonical \in Snapshot \cup {NoDraft}
  PROVE  /\ RevisionOf(canonical) \in Nat
         /\ canonical \in Snapshot =>
              /\ RevisionOf(canonical) = canonical.revision
              /\ canonical.fields \in Content
BY FieldsAreContent, DraftPageAssumption DEF RevisionOf, Snapshot

\* A page q as p, but for the panel and the buttons.
Like(q, p) ==
  /\ q \in Page
  /\ q.form = p.form /\ q.rerendered = p.rerendered /\ q.local = p.local
  /\ q.ready = p.ready /\ q.revision = p.revision /\ q.dirty = p.dirty
  /\ q.pause = p.pause /\ q.retry = p.retry /\ q.banner = p.banner
  /\ q.offer = p.offer /\ q.base = p.base

LEMMA ShowsIs ==
  ASSUME NEW p \in Page, NEW panel \in Panel
  PROVE  LET q == Shows(p, panel) IN
         Like(q, p) /\ q.panel = panel /\ q.again = Idle /\ q.rows = p.rows
BY IdleIs DEF Shows, Like, Page

\* A page q that goes on from p with the account's draft.
GoesOn(q, p, canonical) ==
  /\ q \in Page
  /\ q.ready /\ q.revision = RevisionOf(canonical) /\ q.pause = "no"
  /\ ~q.banner /\ q.offer \in {p.offer, NoDraft} /\ q.base = canonical
  /\ q.form = p.form /\ q.panel = p.panel /\ q.retry = p.retry
  /\ q.dirty = p.dirty /\ q.again = p.again /\ q.rows = {}

LEMMA EnabledIs ==
  ASSUME NEW p \in Page, NEW canonical \in Snapshot \cup {NoDraft}
  PROVE  GoesOn(Enabled(p, canonical), p, canonical)
<1>1. RevisionOf(canonical) \in Nat
  BY RevisionIs
<1> DEFINE r == Revised(p, canonical)
           offer == IF p.panel = "conflict" THEN p.offer ELSE NoDraft
           used == IF p.again.kind = "move" THEN p.used ELSE {}
<1>2. /\ r \in Page /\ r.revision = RevisionOf(canonical) /\ r.base = canonical
      /\ r.rows = {} /\ r.form = p.form /\ r.panel = p.panel
      /\ r.retry = p.retry /\ r.dirty = p.dirty /\ r.again = p.again
      /\ r.used = p.used /\ r.offer = p.offer
  BY <1>1 DEF Revised, Page
<1>3. offer \in Snapshot \cup {NoDraft} /\ used \in SUBSET Button
  BY DEF Page
<1>4. Enabled(p, canonical) =
        [r EXCEPT !.ready = TRUE, !.pause = "no", !.banner = FALSE,
                  !.local = NoLocal, !.rerendered = FALSE, !.used = used,
                  !.offer = offer]
  BY <1>2 DEF Enabled
<1>5. offer \in {p.offer, NoDraft}
  OBVIOUS
<1> HIDE DEF r, offer, used
<1> DEFINE q == Enabled(p, canonical)
<1>6. q \in Page
  BY <1>2, <1>3, <1>4 DEF Page
<1>7. /\ q.ready /\ q.revision = r.revision /\ q.pause = "no"
      /\ ~q.banner /\ q.offer = offer /\ q.base = r.base
      /\ q.form = r.form /\ q.panel = r.panel /\ q.retry = r.retry
      /\ q.dirty = r.dirty /\ q.again = r.again /\ q.rows = r.rows
  BY <1>2, <1>4 DEF Page
<1> QED
  BY <1>2, <1>5, <1>6, <1>7 DEF GoesOn

\* Requests v as w, but for those that are over; those of kinds are overtaken.
Fewer(v, w, kinds) ==
  /\ v \in [Slot -> PageRequest]
  /\ \A s \in Slot :
       \/ v[s] = Idle
       \/ /\ v[s].kind = w[s].kind /\ v[s].expected = w[s].expected
          /\ v[s].fields = w[s].fields /\ v[s].known = w[s].known
          /\ v[s].answer = w[s].answer /\ v[s].kind # "none"
          /\ w[s].overtaken \/ w[s].kind \in kinds => v[s].overtaken

\* None is over that saves.
KeepsSaves(v, w) == \A s \in Slot : w[s].kind = "save" => v[s].kind = "save"

LEMMA OvertakenIs ==
  ASSUME NEW w \in [Slot -> PageRequest], NEW kinds \in SUBSET Settling,
         \A s \in Slot : w[s].kind = "none" => w[s] = Idle
  PROVE  Fewer(Overtaken(w, kinds), w, kinds) /\ KeepsSaves(Overtaken(w, kinds), w)
<1> DEFINE v == Overtaken(w, kinds)
<1>1. ASSUME NEW s \in Slot
      PROVE  /\ v[s] \in PageRequest
             /\ v[s].kind = w[s].kind /\ v[s].expected = w[s].expected
             /\ v[s].fields = w[s].fields /\ v[s].known = w[s].known
             /\ v[s].answer = w[s].answer
             /\ v[s].overtaken = (w[s].overtaken \/ w[s].kind \in kinds)
  <2>1. w[s] \in PageRequest
    OBVIOUS
  <2>2. v[s] = [w[s] EXCEPT !.overtaken = @ \/ w[s].kind \in kinds]
    BY DEF Overtaken
  <2> QED
    BY <2>1, <2>2 DEF PageRequest
<1>2. v \in [Slot -> PageRequest]
  BY <1>1 DEF Overtaken
<1>3. ASSUME NEW s \in Slot, w[s].kind = "none"
      PROVE  v[s] = Idle
  <2>1. w[s] = Idle /\ w[s].kind \notin kinds
    BY <1>3, IdleIs DEF Settling, Choices
  <2>2. v[s] = [w[s] EXCEPT !.overtaken = @ \/ FALSE]
    BY <2>1 DEF Overtaken
  <2> QED
    BY <2>1, <2>2, IdleIs DEF PageRequest
<1> QED
  BY <1>1, <1>2, <1>3 DEF Fewer, KeepsSaves

LEMMA DoneIs ==
  ASSUME NEW S, Sound(page, wire, missed, S), NEW s \in Slot
  PROVE  /\ Done(s) \in [Slot -> PageRequest]
         /\ Done(s)[s] = Idle /\ \A t \in Slot \ {s} : Done(s)[t] = wire[t]
         /\ Fewer(Done(s), wire, {})
         /\ wire[s].kind # "save" => KeepsSaves(Done(s), wire)
         /\ \A t \in Slot : Done(s)[t].kind = "none" => Done(s)[t] = Idle
<1>1. /\ Done(s) \in [Slot -> PageRequest]
      /\ Done(s)[s] = Idle /\ \A t \in Slot \ {s} : Done(s)[t] = wire[t]
  BY IdleIs DEF Done, Sound, Typed
<1>2. \A t \in Slot : wire[t].kind = "none" => wire[t] = Idle
  BY DEF Sound, WellSent, ReturnedBy
<1> QED
  BY <1>1, <1>2, IdleIs DEF Fewer, KeepsSaves

LEMMA FewerAgain ==
  ASSUME NEW u, NEW v, NEW w, NEW kinds, NEW none, Fewer(v, w, none), Fewer(u, v, kinds)
  PROVE  Fewer(u, w, kinds)
BY IdleIs DEF Fewer

\* What is over or overtaken leaves the rest in order.
LEMMA FewerIsSound ==
  ASSUME NEW S, NEW p, NEW w, NEW m, Sound(p, w, m, S),
         NEW v, NEW kinds, Fewer(v, w, kinds)
  PROVE  /\ Sound(p, v, m, S)
         /\ \A s \in Slot : WellSent(v[s], S)
         /\ \A s \in Slot : v[s].kind = w[s].kind \/ v[s].kind = "none"
         /\ \A q, n : Loads(q, v) => Loads(q, w)
<1>1. \A s \in Slot : v[s].kind = w[s].kind \/ v[s].kind = "none"
  BY IdleIs DEF Fewer
<1>2. ASSUME NEW s \in Slot PROVE WellSent(v[s], S)
  <2>1. WellSent(w[s], S)
    BY DEF Sound
  <2>2. CASE v[s] = Idle
    BY <2>2, IdleIsRead
  <2>3. CASE v[s] # Idle
    BY <2>1, <2>3 DEF Fewer, WellSent, InformedBy, ReturnedBy
  <2> QED
    BY <2>2, <2>3
<1>3. InOrder(p, v, m)
  BY <1>1 DEF Sound, InOrder, Loads, Saving
<1>4. \A q : Loads(q, v) => Loads(q, w)
  BY <1>1 DEF Loads
<1> QED
  BY <1>1, <1>2, <1>3, <1>4 DEF Sound, Typed, Fewer

\* A page q as p is as sound.
LEMMA LikeIsSound ==
  ASSUME NEW S, NEW p, NEW w, NEW m, Sound(p, w, m, S),
         NEW q, Like(q, p), q.rows \subseteq Revisions(S),
         q.again \in {p.again, Idle}, q.panel \in {p.panel, "none"}
  PROVE  Sound(q, w, m, S)
<1>1. InformedBy(q.again, S) /\ Idle.kind = "none"
  BY IdleIsRead, IdleIs DEF Sound, Read, WellSent
<1>2. InOrder(q, w, m)
  BY <1>1 DEF Sound, InOrder, Loads, Like
<1> QED
  BY <1>1, <1>2 DEF Sound, Typed, Read, Like

LEMMA LikeIsWhole ==
  ASSUME NEW S, NEW p, NEW w, NEW m, Whole(p, w, m, S),
         NEW q, Like(q, p), q.rows \subseteq Revisions(S),
         q.again \in {p.again, Idle},
         q.panel = p.panel \/ (q.panel = "none" /\ p.panel # "save")
  PROVE  Whole(q, w, m, S)
<1>1. Sound(q, w, m, S)
  BY LikeIsSound DEF Whole
<1>2. Accounted(q, w, m, S)
  BY DEF Whole, Accounted, Settled, Holds, Loads, Covered, Like
<1> QED
  BY <1>1, <1>2 DEF Whole

\* A page that does not load goes on as q; what it asked for before counts no
\* more.
LEMMA OvertakenStep ==
  ASSUME NEW S, Sound(page, wire, missed, S), ~Loads(page, wire),
         NEW v, Fewer(v, wire, Settling), NEW q \in Page, NEW n \in BOOLEAN,
         Read(q, S), q.panel # "load", ~q.banner,
         q.ready \/ (q.ready = page.ready /\ q.retry = page.retry),
         Settled(q, v, n, S)
  PROVE  Whole(q, v, n, S)
<1>1. /\ \A s \in Slot : WellSent(v[s], S)
      /\ \A s \in Slot : v[s].kind = wire[s].kind \/ v[s].kind = "none"
      /\ ~Loads(page, v)
  BY FewerIsSound
<1>2. ~Loads(q, v)
  BY <1>1 DEF Loads
<1>3. InOrder(q, v, n)
  BY <1>1, <1>2 DEF InOrder, Loads, Saving, Sound
<1>4. \A s \in Slot : Covered(v[s], q, n)
  BY IdleIs DEF Fewer, Covered, Settling, Choices
<1> QED
  BY <1>1, <1>2, <1>3, <1>4 DEF Whole, Sound, Typed, Accounted, Fewer

\* A page that goes on from p with the account's draft.
LEMMA EnabledStep ==
  ASSUME NEW S, Sound(page, wire, missed, S), ~Loads(page, wire),
         Fewer(wire', wire, Settling),
         NEW p, InformedBy(p.again, S), p.panel # "load",
         p.offer \in S \cup {NoDraft}, NEW canonical \in S \cup {NoDraft},
         GoesOn(page', p, canonical), missed' \in BOOLEAN,
         Holds(page', S) \/ missed'
  PROVE  Whole(page', wire', missed', S)
<1>1. Read(page', S)
  BY DEF Read, GoesOn
<1>2. Settled(page', wire', missed', S)
  BY DEF Settled
<1> QED
  BY <1>1, <1>2, OvertakenStep DEF GoesOn

\* A request is sent in a slot that was free.
LEMMA SentIs ==
  ASSUME NEW S, NEW w \in [Slot -> PageRequest],
         \A s \in Slot : WellSent(w[s], S),
         NEW q \in PageRequest, WellSent(q, S), Sends(w, q)
  PROVE  /\ wire' \in [Slot -> PageRequest]
         /\ \A s \in Slot : WellSent(wire'[s], S)
         /\ \E t \in Slot : /\ w[t].kind = "none" /\ wire'[t] = q
                            /\ \A s \in Slot \ {t} : wire'[s] = w[s]
<1>1. PICK t \in Slot : w[t] = Idle /\ wire' = [w EXCEPT ![t] = q]
  BY DEF Sends
<1>2. /\ wire' \in [Slot -> PageRequest] /\ wire'[t] = q
      /\ \A s \in Slot \ {t} : wire'[s] = w[s]
  BY <1>1
<1> QED
  BY <1>1, <1>2, IdleIs

\* A choice or a deletion is sent.
LEMMA SendingStep ==
  ASSUME NEW S, NEW w, Whole(page', w, missed', S), ~Loads(page', w),
         NEW q \in PageRequest, WellSent(q, S), Sends(w, q),
         q.kind \in {"move", "keep", "restart", "clear"},
         page'.banner => q.kind \in {"move", "restart"},
         Covered(q, page', missed')
  PROVE  Whole(page', wire', missed', S)
<1>1. PICK t \in Slot :
        /\ wire' \in [Slot -> PageRequest]
        /\ \A s \in Slot : WellSent(wire'[s], S)
        /\ w[t].kind = "none" /\ wire'[t] = q
        /\ \A s \in Slot \ {t} : wire'[s] = w[s]
  BY SentIs DEF Whole, Sound, Typed
<1>2. ~Loads(page', wire')
  BY <1>1 DEF Loads
<1>3. InOrder(page', wire', missed')
  BY <1>1, <1>2 DEF Whole, Sound, InOrder, Loads, Saving
<1>4. Saving(w) => Saving(wire')
  BY <1>1 DEF Saving
<1>5. Accounted(page', wire', missed', S)
  BY <1>1, <1>2, <1>4 DEF Whole, Accounted, Settled
<1> QED
  BY <1>1, <1>3, <1>5 DEF Whole, Sound, Typed

-----------------------------------------------------------------------------
(* The autosave queue. *)

\* queueServerSave leaves every change accounted for, whatever was before it.
LEMMA QueueStep ==
  ASSUME NEW S \in SUBSET Snapshot, NEW p, NEW w, Sound(p, w, missed, S),
         Queue(p, w)
  PROVE  Whole(page', wire', missed', S)
<1>1. p \in Page /\ w \in [Slot -> PageRequest] /\ missed \in BOOLEAN
  BY DEF Sound, Typed
<1>2. p.ready => ~Loads(p, w) /\ ~p.banner /\ p.panel # "load"
  BY DEF Sound, InOrder, Loads
<1> DEFINE v == Overtaken(w, Choices)
<1>3. Fewer(v, w, Choices) /\ KeepsSaves(v, w)
  BY <1>1, OvertakenIs DEF Sound, WellSent, ReturnedBy, Settling
<1> HIDE DEF v
<1>4. /\ Sound(p, v, missed, S) /\ \A s \in Slot : WellSent(v[s], S)
      /\ \A s \in Slot : v[s].kind = w[s].kind \/ v[s].kind = "none"
      /\ p.ready => ~Loads(p, v)
  BY <1>2, <1>3, FewerIsSound
<1>5. CASE page' = p /\ wire' = w /\ missed' = TRUE /\ (~p.ready \/ p.pause # "no")
  BY <1>5 DEF Whole, Sound, Typed, InOrder, Accounted, Settled, Covered
<1>6. CASE /\ p.ready /\ p.pause = "no"
           /\ Saving(w) \/ p.retry
           /\ page' = [p EXCEPT !.dirty = TRUE] /\ wire' = v
           /\ missed' = missed
  <2>1. /\ page' \in Page /\ page'.dirty /\ page'.form = p.form
        /\ page'.rerendered = p.rerendered
        /\ page'.ready = p.ready /\ page'.revision = p.revision
        /\ page'.pause = p.pause /\ page'.retry = p.retry
        /\ page'.panel = p.panel /\ page'.banner = p.banner
        /\ page'.offer = p.offer /\ page'.base = p.base
        /\ page'.rows = p.rows /\ page'.again = p.again
    BY <1>1, <1>6 DEF Page
  <2>2. Sound(page', wire', missed', S)
    BY <1>4, <1>6, <2>1 DEF Sound, Typed, Read, InOrder, Loads
  <2>3. \A s \in Slot : Covered(wire'[s], page', missed')
    BY <1>3, <1>6, <2>1, IdleIs DEF Fewer, Covered, Choices
  <2>4. Saving(wire') \/ page'.retry
    BY <1>3, <1>6, <2>1 DEF Saving, KeepsSaves
  <2>5. ~Loads(page', wire') /\ ~page'.banner
    BY <1>2, <1>4, <1>6, <2>1 DEF Loads
  <2> QED
    BY <2>2, <2>3, <2>4, <2>5 DEF Whole, Accounted, Settled
<1>7. CASE /\ p.ready /\ p.pause = "no" /\ ~Saving(w) /\ ~p.retry
           /\ page' = [p EXCEPT !.dirty = FALSE]
           /\ Sends(v, Asked("save", p.revision, p.form, p.base))
           /\ missed' = FALSE
  <2>1. /\ page' \in Page /\ page'.form = p.form
        /\ page'.rerendered = p.rerendered
        /\ page'.ready = p.ready /\ page'.revision = p.revision
        /\ page'.pause = p.pause /\ page'.retry = p.retry
        /\ page'.panel = p.panel /\ page'.banner = p.banner
        /\ page'.offer = p.offer /\ page'.base = p.base
        /\ page'.rows = p.rows /\ page'.again = p.again
    BY <1>1, <1>7 DEF Page
  <2> DEFINE q == Asked("save", p.revision, p.form, p.base)
  <2>2. /\ p.revision \in Revisions(S) /\ p.form \in Content
        /\ p.base \in S \cup {NoDraft} /\ p.revision = RevisionOf(p.base)
    BY <1>1, DraftPageAssumption DEF Sound, Read, Page, RevisionOf, Revisions
  <2>3. /\ q \in PageRequest /\ WellSent(q, S) /\ q.kind = "save"
        /\ q.fields = p.form
    BY <2>2, RequestIs DEF Kind
  <2> HIDE DEF q
  <2>4. PICK t \in Slot :
          /\ wire' \in [Slot -> PageRequest]
          /\ \A s \in Slot : WellSent(wire'[s], S)
          /\ v[t].kind = "none" /\ wire'[t] = q
          /\ \A s \in Slot \ {t} : wire'[s] = v[s]
    BY <1>3, <1>4, <1>7, <2>3, SentIs DEF q, Fewer
  <2>5. ~Loads(page', wire') /\ ~page'.banner
    BY <1>2, <1>4, <1>7, <2>1, <2>3, <2>4 DEF Loads
  <2>6. InOrder(page', wire', missed')
    BY <1>7, <2>1, <2>5 DEF InOrder, Loads
  <2>7. \A s \in Slot : Covered(wire'[s], page', missed')
    <3>1. Covered(wire'[t], page', missed')
      BY <2>1, <2>3, <2>4 DEF Covered
    <3>2. ASSUME NEW s \in Slot \ {t} PROVE Covered(wire'[s], page', missed')
      <4>1. wire'[s].kind # "save"
        BY <1>4, <1>7, <2>4 DEF Saving
      <4>2. wire'[s].kind \in Choices => wire'[s].overtaken
        BY <1>3, <2>4, IdleIs DEF Fewer, Choices
      <4> QED
        BY <4>1, <4>2 DEF Covered, Choices
    <3> QED
      BY <3>1, <3>2
  <2>8. Saving(wire')
    BY <2>3, <2>4 DEF Saving
  <2>9. Read(page', S)
    BY <2>1, <1>4 DEF Sound, Read
  <2> QED
    BY <1>7, <2>1, <2>4, <2>5, <2>6, <2>7, <2>8, <2>9
    DEF Whole, Sound, Typed, Accounted, Settled
<1> QED
  BY <1>5, <1>6, <1>7 DEF Queue, v

LEMMA QueuedSteps ==
  ASSUME NEW S \in SUBSET Snapshot, Whole(page, wire, missed, S),
         \/ \E f \in Content : Edit(f)
         \/ RetrySave \/ SaveAgain
  PROVE  Whole(page', wire', missed', S)
<1>1. page \in Page /\ Sound(page, wire, missed, S)
  BY DEF Whole, Sound, Typed
<1>2. ASSUME NEW f \in Content, Edit(f)
      PROVE  Whole(page', wire', missed', S)
  <2> DEFINE p == [page EXCEPT !.form = f]
  <2>1. /\ p \in Page /\ p.rerendered = page.rerendered
        /\ p.ready = page.ready /\ p.revision = page.revision
        /\ p.pause = page.pause /\ p.retry = page.retry
        /\ p.panel = page.panel /\ p.banner = page.banner
        /\ p.offer = page.offer /\ p.base = page.base
        /\ p.rows = page.rows /\ p.again = page.again
    BY <1>1 DEF Page
  <2>2. Queue(p, wire)
    BY <1>2 DEF Edit
  <2> HIDE DEF p
  <2>3. Sound(p, wire, missed, S)
    BY <1>1, <2>1 DEF Sound, Typed, Read, InOrder, Loads
  <2> QED
    BY <2>2, <2>3, QueueStep
<1>3. ASSUME RetrySave
      PROVE  Whole(page', wire', missed', S)
  <2> DEFINE p == [page EXCEPT !.retry = FALSE]
  <2>1. /\ p \in Page /\ p.rerendered = page.rerendered
        /\ p.ready = page.ready /\ p.revision = page.revision
        /\ p.pause = page.pause /\ ~p.retry
        /\ p.panel = page.panel /\ p.banner = page.banner
        /\ p.offer = page.offer /\ p.base = page.base
        /\ p.rows = page.rows /\ p.again = page.again
    BY <1>1 DEF Page
  <2>2. Queue(p, wire)
    BY <1>3 DEF RetrySave
  <2> HIDE DEF p
  <2>3. Sound(p, wire, missed, S)
    BY <1>1, <2>1 DEF Sound, Typed, Read, InOrder, Loads
  <2> QED
    BY <2>2, <2>3, QueueStep
<1>4. ASSUME SaveAgain
      PROVE  Whole(page', wire', missed', S)
  <2> DEFINE p == Shows(page, "none")
  <2>1. /\ Like(p, page) /\ p.panel = "none" /\ p.again = Idle
        /\ p.rows = page.rows
    BY <1>1, ShowsIs DEF Panel
  <2>2. Queue(p, wire)
    BY <1>4 DEF SaveAgain
  <2> HIDE DEF p
  <2>3. Sound(p, wire, missed, S)
    BY <1>1, <2>1, LikeIsSound DEF Sound, Read
  <2> QED
    BY <2>2, <2>3, QueueStep
<1> QED
  BY <1>2, <1>3, <1>4

-----------------------------------------------------------------------------
(* The customer decides. *)

LEMMA LoadAgainStep ==
  ASSUME NEW S \in SUBSET Snapshot, Whole(page, wire, missed, S), LoadAgain
  PROVE  Whole(page', wire', missed', S)
<1>1. /\ page \in Page /\ page.panel = "load" /\ missed' = missed
      /\ page' = Shows(page, "none")
      /\ wire \in [Slot -> PageRequest] /\ \A s \in Slot : WellSent(wire[s], S)
  BY DEF LoadAgain, Whole, Sound, Typed
<1>2. /\ Like(page', page) /\ page'.panel = "none" /\ page'.again = Idle
      /\ page'.rows = page.rows
  BY <1>1, ShowsIs DEF Panel
<1> DEFINE q == Asked("load", 0, Empty, NoDraft)
<1>3. q \in PageRequest /\ WellSent(q, S) /\ q.kind = "load"
  <2>1. /\ 0 \in Revisions(S) /\ "load" \in Kind /\ "load" \notin Writing
        /\ Empty \in Content
    BY DraftPageAssumption DEF Revisions, Kind, Writing
  <2> QED
    BY <2>1, RequestIs
<1> HIDE DEF q
<1>4. PICK t \in Slot :
        /\ wire' \in [Slot -> PageRequest]
        /\ \A s \in Slot : WellSent(wire'[s], S)
        /\ wire'[t] = q
        /\ \A s \in Slot \ {t} : wire'[s] = wire[s]
  BY <1>1, <1>3, SentIs DEF LoadAgain, q
<1>5. \A s \in Slot \ {t} : wire'[s].kind = "none"
  BY <1>1, <1>4 DEF Whole, Sound, InOrder
<1>6. Sound(page', wire, missed, S)
  BY <1>1, <1>2, LikeIsSound DEF Whole, Sound, Read
<1>7. /\ ~page.ready /\ ~page.banner /\ ~page.retry
      /\ page.rerendered => missed
      /\ page.form = Empty \/ missed
  BY <1>1 DEF Whole, Sound, InOrder, Loads, Accounted
<1>8. InOrder(page', wire', missed')
  BY <1>1, <1>2, <1>3, <1>4, <1>5, <1>7 DEF InOrder, Saving, Like
<1>9. Accounted(page', wire', missed', S)
  BY <1>1, <1>2, <1>3, <1>4, <1>5, <1>7 DEF Accounted, Settled, Covered, Like
<1> QED
  BY <1>1, <1>4, <1>6, <1>8, <1>9 DEF Whole, Sound, Typed

\* A page that shows the banner, or asks about a conflict, does not load.
LEMMA AskingIs ==
  ASSUME NEW S, NEW p, NEW w, NEW m, Sound(p, w, m, S),
         p.banner \/ p.panel \in {"conflict", "retry"} \/ p.ready
  PROVE  ~Loads(p, w) /\ p.panel # "load"
BY DEF Sound, InOrder, Loads

LEMMA StartFreshStep ==
  ASSUME NEW S \in SUBSET Snapshot, Whole(page, wire, missed, S), StartFresh
  PROVE  Whole(page', wire', missed', S)
<1>1. /\ page \in Page /\ missed' = missed /\ missed \in BOOLEAN
      /\ page.banner /\ page' = Enabled(page, NoDraft)
      /\ wire' = Overtaken(wire, Settling) /\ Sound(page, wire, missed, S)
  BY DEF StartFresh, Whole, Sound, Typed
<1>2. ~Loads(page, wire) /\ page.panel # "load"
  BY <1>1, AskingIs
<1>3. Fewer(wire', wire, Settling)
  BY <1>1, OvertakenIs DEF Sound, Typed, WellSent, ReturnedBy
<1>4. GoesOn(page', page, NoDraft) /\ RevisionOf(NoDraft) = 0
  BY <1>1, EnabledIs DEF RevisionOf
<1>5. Holds(page', S) \/ missed'
  BY <1>1, <1>4 DEF Whole, Accounted, Holds, GoesOn
<1> QED
  BY <1>1, <1>2, <1>3, <1>4, <1>5, EnabledStep DEF Sound, Read

LEMMA TakeAccountStep ==
  ASSUME NEW S \in SUBSET Snapshot, Whole(page, wire, missed, S), TakeAccount
  PROVE  Whole(page', wire', missed', S)
<1> DEFINE p == IF page.banner THEN page ELSE Shows(page, "none")
           r == [p EXCEPT !.form = Applied(@, page.offer)]
<1>1. /\ page \in Page /\ Sound(page, wire, missed, S)
      /\ page' = Enabled(r, page.offer) /\ wire' = Overtaken(wire, Settling)
      /\ missed' = (page'.form # page.offer.fields)
      /\ page.banner \/ page.panel = "conflict"
      /\ page.offer # NoDraft
  BY DEF TakeAccount, Whole, Sound, Typed
<1>2. ~Loads(page, wire) /\ page.panel # "load"
  BY <1>1, AskingIs
<1>3. /\ page.offer \in S /\ page.offer \in Snapshot
      /\ page.offer.fields \in Content
      /\ RevisionOf(page.offer) = page.offer.revision
  BY <1>1, RevisionIs DEF Sound, Read
<1>4. /\ p \in Page /\ p.form \in Content /\ p.panel # "load"
      /\ p.again \in {page.again, Idle} /\ p.offer = page.offer
  BY <1>1, <1>2, ShowsIs DEF Panel, Like, Page
<1>5. Applied(p.form, page.offer) \in Content
  BY <1>3, <1>4, DraftPageAssumption DEF Applied
<1> HIDE DEF p
<1>6. /\ r \in Page /\ r.panel = p.panel /\ r.again = p.again
      /\ r.offer = p.offer
  BY <1>4, <1>5 DEF Page
<1> HIDE DEF r
<1>7. GoesOn(page', r, page.offer)
  BY <1>1, <1>3, <1>6, EnabledIs
<1>8. Fewer(wire', wire, Settling)
  BY <1>1, OvertakenIs DEF Sound, Typed, WellSent, ReturnedBy
<1>9. Holds(page', S) \/ missed'
  BY <1>1, <1>3, <1>7 DEF Holds, GoesOn
<1>10. InformedBy(r.again, S)
  BY <1>1, <1>4, <1>6, IdleIsRead DEF Sound, Read, WellSent
<1> QED
  BY <1>1, <1>2, <1>3, <1>4, <1>6, <1>7, <1>8, <1>9, <1>10, EnabledStep

\* "Move this draft to my account", and again.
LEMMA MoveStep ==
  ASSUME NEW S \in SUBSET Snapshot, Whole(page, wire, missed, S),
         NEW p \in Page, Like(p, page), p.rows = page.rows,
         p.again \in {page.again, Idle},
         p.panel = page.panel \/ (p.panel = "none" /\ page.panel # "save"),
         ~Loads(page, wire), NEW q \in PageRequest, WellSent(q, S),
         q.kind = "move", Move(p, q)
  PROVE  Whole(page', wire', missed', S)
<1>1. /\ page' = [p EXCEPT !.used = @ \cup {"move"}] /\ missed' = missed
      /\ Sends(wire, q)
  BY DEF Move
<1>2. p.used \cup {"move"} \in SUBSET Button
  BY DEF Page, Button
<1>3. /\ Like(page', page) /\ page'.rows = page.rows /\ page'.again = p.again
      /\ page'.panel = p.panel
  BY <1>1, <1>2 DEF Like, Page
<1>4. Whole(page', wire, missed', S)
  <2>1. page'.rows \subseteq Revisions(S)
    BY <1>3 DEF Whole, Sound, Read
  <2> QED
    BY <1>1, <1>3, <2>1, LikeIsWhole
<1>5. ~Loads(page', wire)
  BY <1>3 DEF Loads
<1> QED
  BY <1>1, <1>4, <1>5, SendingStep DEF Covered

LEMMA TakeDeviceStep ==
  ASSUME NEW S \in SUBSET Snapshot, Whole(page, wire, missed, S), TakeDevice
  PROVE  Whole(page', wire', missed', S)
<1> DEFINE q == Asked("move", RevisionOf(page.offer), page.local, page.offer)
<1>1. /\ page \in Page /\ Sound(page, wire, missed, S) /\ page.banner
      /\ page.local \in Content /\ Move(page, q)
  BY DEF TakeDevice, Whole, Sound, Typed, Page
<1>2. page.offer \in S \cup {NoDraft} /\ RevisionOf(page.offer) \in Revisions(S)
  BY <1>1 DEF Sound, Read, RevisionOf, Revisions
<1>3. q \in PageRequest /\ WellSent(q, S) /\ q.kind = "move"
  BY <1>1, <1>2, RequestIs DEF Kind
<1> HIDE DEF q
<1> QED
  BY <1>1, <1>3, AskingIs, MoveStep DEF Like

\* "Save my current version", and again.
LEMMA KeepStep ==
  ASSUME NEW S \in SUBSET Snapshot, Whole(page, wire, missed, S),
         NEW p \in Page, Like(p, page), p.rows = page.rows,
         p.again \in {page.again, Idle},
         p.panel = page.panel \/ (p.panel = "none" /\ page.panel # "save"),
         ~Loads(page, wire), page.panel # "load", ~page.banner,
         NEW expected \in Revisions(S),
         NEW known \in S \cup {NoDraft}, expected = RevisionOf(known),
         Keep(p, expected, known)
  PROVE  Whole(page', wire', missed', S)
<1> DEFINE w == IF p.pause = "no" THEN wire ELSE Overtaken(wire, Settling)
           q == Asked("keep", expected, p.form, known)
<1>1. /\ page' = p /\ Sends(w, q) /\ missed' = (missed /\ p.pause = "no")
      /\ Sound(page, wire, missed, S) /\ missed \in BOOLEAN
  BY DEF Keep, Whole, Sound, Typed
<1>2. q \in PageRequest /\ WellSent(q, S) /\ q.kind = "keep" /\ q.fields = p.form
  BY RequestIs DEF Kind, Page
<1>3. Whole(page', w, missed', S)
  <2>1. CASE p.pause = "no"
    BY <1>1, <2>1, LikeIsWhole DEF Sound, Read
  <2>2. CASE p.pause # "no"
    <3>1. Fewer(w, wire, Settling)
      BY <1>1, <2>2, OvertakenIs DEF Sound, Typed, WellSent, ReturnedBy
    <3>2. Read(p, S)
      BY <1>1, IdleIsRead DEF Like, Sound, Read, WellSent
    <3>3. Settled(p, w, missed', S) /\ p.panel # "load" /\ ~p.banner
      BY <2>2 DEF Like, Settled
    <3> HIDE DEF w
    <3> QED
      BY <1>1, <3>1, <3>2, <3>3, OvertakenStep DEF Like
  <2> QED
    BY <2>1, <2>2
<1>4. ~Loads(page', w)
  <2>1. \A s \in Slot : w[s].kind = "load" => wire[s].kind = "load"
    <3>1. CASE p.pause = "no"
      BY <3>1
    <3>2. CASE p.pause # "no"
      <4>1. Fewer(w, wire, Settling)
        BY <1>1, <3>2, OvertakenIs DEF Sound, Typed, WellSent, ReturnedBy
      <4> QED
        BY <4>1, IdleIs DEF Fewer
    <3> QED
      BY <3>1, <3>2
  <2> QED
    BY <1>1, <2>1 DEF Loads
<1> HIDE DEF w, q
<1> QED
  BY <1>1, <1>2, <1>3, <1>4, SendingStep DEF Covered, Like

LEMMA KeepMineStep ==
  ASSUME NEW S \in SUBSET Snapshot, Whole(page, wire, missed, S), KeepMine
  PROVE  Whole(page', wire', missed', S)
<1> DEFINE p == [page EXCEPT !.used = @ \cup {"keep"}]
<1>1. /\ page \in Page /\ Sound(page, wire, missed, S)
      /\ page.panel = "conflict" /\ Keep(p, RevisionOf(page.offer), page.offer)
  BY DEF KeepMine, Whole, Sound, Typed
<1>2. page.used \cup {"keep"} \in SUBSET Button
  BY <1>1 DEF Page, Button
<1>3. /\ Like(p, page) /\ p.rows = page.rows /\ p.again = page.again
      /\ p.panel = page.panel
  BY <1>1, <1>2 DEF Like, Page
<1> HIDE DEF p
<1>4. /\ page.offer \in S \cup {NoDraft}
      /\ RevisionOf(page.offer) \in Revisions(S)
  BY <1>1 DEF Sound, Read, RevisionOf, Revisions
<1>5. ~Loads(page, wire) /\ ~page.banner
  BY <1>1, AskingIs DEF Sound, InOrder
<1> QED
  BY <1>1, <1>3, <1>4, <1>5, KeepStep DEF Like

LEMMA ClearStep ==
  ASSUME NEW S \in SUBSET Snapshot, Whole(page, wire, missed, S), Clear
  PROVE  Whole(page', wire', missed', S)
<1>1. PICK expected \in page.rows \cup {page.revision} :
        /\ page' = [page EXCEPT !.rows = @ \ {expected}]
        /\ Sends(wire, Asked("clear", expected, Empty, NoDraft))
  BY DEF Clear
<1>2. /\ page \in Page /\ Sound(page, wire, missed, S) /\ page.ready
      /\ missed' = missed
  BY DEF Clear, Whole, Sound, Typed
<1>3. /\ Like(page', page) /\ page'.rows \subseteq page.rows
      /\ page'.again = page.again /\ page'.panel = page.panel
  BY <1>1, <1>2 DEF Like, Page
<1>4. Whole(page', wire, missed', S)
  BY <1>2, <1>3, LikeIsWhole DEF Sound, Read
<1> DEFINE q == Asked("clear", expected, Empty, NoDraft)
<1>5. expected \in Revisions(S)
  BY <1>1, <1>2 DEF Sound, Read, RevisionOf, Revisions
<1>6. q \in PageRequest /\ WellSent(q, S) /\ q.kind = "clear"
  BY <1>5, RequestIs, DraftPageAssumption DEF Kind, Writing
<1> HIDE DEF q
<1>7. ~Loads(page', wire) /\ ~page'.banner
  BY <1>2, <1>3, AskingIs DEF Sound, InOrder, Loads, Like
<1> QED
  BY <1>1, <1>4, <1>6, <1>7, SendingStep DEF Covered, q

LEMMA RestartStep ==
  ASSUME NEW S \in SUBSET Snapshot, Whole(page, wire, missed, S), Restart
  PROVE  Whole(page', wire', missed', S)
<1> DEFINE q == Asked("restart", RevisionOf(page.offer), Empty, NoDraft)
<1>1. /\ page \in Page /\ Sound(page, wire, missed, S) /\ page.banner
      /\ page' = page /\ missed' = missed /\ Sends(wire, q)
  BY DEF Restart, Whole, Sound, Typed
<1>2. page.offer \in S \cup {NoDraft} /\ RevisionOf(page.offer) \in Revisions(S)
  BY <1>1 DEF Sound, Read, RevisionOf, Revisions
<1>3. q \in PageRequest /\ WellSent(q, S) /\ q.kind = "restart"
  BY <1>2, RequestIs, DraftPageAssumption DEF Kind, Writing
<1> HIDE DEF q
<1>4. Covered(q, page', missed')
  BY <1>1, <1>3 DEF Whole, Accounted, Covered
<1> QED
  BY <1>1, <1>3, <1>4, AskingIs, SendingStep

LEMMA TryAgainStep ==
  ASSUME NEW S \in SUBSET Snapshot, Whole(page, wire, missed, S), TryAgain
  PROVE  Whole(page', wire', missed', S)
<1> DEFINE q == page.again
           p == Shows(page, "none")
<1>1. /\ page \in Page /\ Sound(page, wire, missed, S) /\ page.panel = "retry"
      /\ q \in PageRequest /\ InformedBy(q, S)
  BY DEF TryAgain, Whole, Sound, Typed, Read, Page
<1>2. Like(p, page) /\ p.panel = "none" /\ p.again = Idle /\ p.rows = page.rows
  BY <1>1, ShowsIs DEF Panel
<1>3. /\ \/ q.kind = "move" /\ Move(p, Asked("move", q.expected, q.fields, q.known))
         \/ q.kind = "keep" /\ Keep(p, q.expected, q.known)
         \/ page' = p /\ UNCHANGED <<wire, missed>>
         \/ /\ page' = [p EXCEPT !.rows = @ \cup {q.expected}]
            /\ UNCHANGED <<wire, missed>>
  BY DEF TryAgain
<1>4. ~Loads(page, wire)
  BY <1>1, AskingIs
<1> HIDE DEF p, q
<1>5. CASE q.kind = "move" /\ Move(p, Asked("move", q.expected, q.fields, q.known))
  <2> DEFINE r == Asked("move", q.expected, q.fields, q.known)
  <2>1. r \in PageRequest /\ WellSent(r, S) /\ r.kind = "move"
    BY <1>1, <1>5, RequestIs DEF Kind, InformedBy, Writing, PageRequest
  <2> HIDE DEF r
  <2> QED
    BY <1>1, <1>2, <1>4, <1>5, <2>1, MoveStep DEF Like, r
<1>6. CASE q.kind = "keep" /\ Keep(p, q.expected, q.known)
  <2>1. /\ q.expected \in Revisions(S) /\ q.known \in S \cup {NoDraft}
        /\ q.expected = RevisionOf(q.known)
    BY <1>1, <1>6 DEF InformedBy, Writing
  <2>2. ~page.banner
    BY <1>1, <1>6 DEF Sound, InOrder, q
  <2> QED
    BY <1>1, <1>2, <1>4, <1>6, <2>1, <2>2, KeepStep DEF Like
<1>7. CASE page' = p /\ UNCHANGED <<wire, missed>>
  BY <1>1, <1>2, <1>7, LikeIsWhole DEF Sound, Read
<1>8. CASE /\ page' = [p EXCEPT !.rows = @ \cup {q.expected}]
           /\ UNCHANGED <<wire, missed>>
  <2>1. /\ Like(page', page) /\ page'.panel = "none" /\ page'.again = Idle
        /\ page'.rows = page.rows \cup {q.expected}
    BY <1>1, <1>2, <1>8 DEF Like, Page, PageRequest
  <2>2. page'.rows \subseteq Revisions(S)
    BY <1>1, <2>1 DEF Sound, Read, InformedBy
  <2> QED
    BY <1>1, <1>8, <2>1, <2>2, LikeIsWhole
<1> QED
  BY <1>3, <1>5, <1>6, <1>7, <1>8

-----------------------------------------------------------------------------
(* The answers are handled. *)

\* A request that does not load is over, and the form is as it was.
LEMMA DoneStep ==
  ASSUME NEW S, Whole(page, wire, missed, S), NEW s \in Slot,
         wire[s].kind \notin {"none", "load"}, wire' = Done(s),
         page' \in Page, Read(page', S), page'.form = page.form,
         page'.dirty = page.dirty, page'.panel # "load",
         page'.ready = page.ready,
         page'.banner => /\ page.banner /\ page'.panel # "conflict"
                         /\ page'.again.kind \in {"none", "move", "restart"},
         page.ready \/ ~page'.retry,
         missed' \in BOOLEAN, missed => missed',
         Settled(page', wire', missed', S)
  PROVE  Whole(page', wire', missed', S)
<1>1. /\ wire' \in [Slot -> PageRequest]
      /\ wire'[s] = Idle /\ \A t \in Slot \ {s} : wire'[t] = wire[t]
  BY DoneIs DEF Whole
<1>2. /\ \A t \in Slot : WellSent(wire'[t], S)
      /\ \A t \in Slot : wire'[t].kind = wire[t].kind \/ wire'[t].kind = "none"
  BY <1>1, IdleIs, IdleIsRead DEF Whole, Sound
<1>3. \A t \in Slot : wire[t].kind # "load"
  BY DEF Whole, Sound, InOrder
<1>4. ~Loads(page', wire')
  BY <1>2, <1>3 DEF Loads
<1>5. InOrder(page', wire', missed')
  <2>1. ~page'.ready => ~Saving(wire') /\ ~page'.retry
    BY <1>2 DEF Whole, Sound, InOrder, Saving
  <2>2. page'.banner =>
          /\ ~page'.ready
          /\ \A t \in Slot : wire'[t].kind \in {"none", "move", "restart"}
    BY <1>2 DEF Whole, Sound, InOrder
  <2> QED
    BY <1>2, <1>3, <1>4, <2>1, <2>2 DEF InOrder
<1>6. \A t \in Slot : Covered(wire'[t], page', missed')
  <2>1. Covered(wire'[s], page', missed')
    BY <1>1, IdleIs DEF Covered
  <2>2. ASSUME NEW t \in Slot \ {s} PROVE Covered(wire'[t], page', missed')
    BY <1>1 DEF Whole, Accounted, Covered
  <2> QED
    BY <2>1, <2>2
<1>7. page'.banner => page'.form = Empty \/ missed'
  BY DEF Whole, Accounted
<1> QED
  BY <1>1, <1>2, <1>4, <1>5, <1>6, <1>7 DEF Whole, Sound, Typed, Accounted

\* A request that loads is the only one.
LEMMA LoadedIs ==
  ASSUME NEW S, Whole(page, wire, missed, S), NEW s \in Slot,
         wire[s].kind = "load"
  PROVE  /\ Done(s) \in [Slot -> PageRequest]
         /\ \A t \in Slot : WellSent(Done(s)[t], S) /\ Done(s)[t].kind = "none"
         /\ ~page.ready /\ ~page.banner /\ ~page.retry
         /\ page.rerendered => missed
         /\ page.form = Empty \/ missed
<1>1. /\ Done(s) \in [Slot -> PageRequest]
      /\ Done(s)[s] = Idle /\ \A t \in Slot \ {s} : Done(s)[t] = wire[t]
  BY DoneIs DEF Whole
<1>2. \A t \in Slot \ {s} : wire[t].kind = "none"
  BY DEF Whole, Sound, InOrder
<1>3. \A t \in Slot : WellSent(Done(s)[t], S) /\ Done(s)[t].kind = "none"
  BY <1>1, <1>2, IdleIs, IdleIsRead DEF Whole, Sound
<1> QED
  BY <1>1, <1>3 DEF Whole, Sound, InOrder, Loads, Accounted

LEMMA ConflictStep ==
  ASSUME NEW S \in SUBSET Snapshot, Whole(page, wire, missed, S),
         NEW s \in Slot, HandleConflict(s)
  PROVE  Whole(page', wire', missed', S)
<1>1. /\ page \in Page /\ missed \in BOOLEAN /\ missed' = missed
      /\ wire' = Done(s) /\ wire[s].answer.kind = "conflict"
      /\ Sound(page, wire, missed, S)
      /\ page' = InConflict(s, wire[s].answer.draft)
  BY DEF HandleConflict, Whole, Sound, Typed
<1>2. /\ wire[s].kind \notin {"none", "load"}
      /\ wire[s].answer.draft \in S \cup {NoDraft}
  BY <1>1, IdleIs DEF Sound, WellSent, ReturnedBy, InformedBy
<1> DEFINE p == Shows(page, "conflict")
           d == wire[s].answer.draft
           banner == page.banner /\ wire[s].kind \notin {"move", "restart"}
<1>3. /\ Like(p, page) /\ p.panel = "conflict" /\ p.again = Idle
      /\ p.rows = page.rows
  BY <1>1, ShowsIs DEF Panel
<1>4. page' = [p EXCEPT !.pause = "conflict", !.offer = d, !.banner = banner]
  BY <1>1, <1>3 DEF InConflict, Like
<1> HIDE DEF p
<1>5. d \in Snapshot \cup {NoDraft} /\ banner \in BOOLEAN
  BY <1>2
<1>6. ~banner
  BY <1>1, <1>2 DEF Sound, InOrder
<1> HIDE DEF d, banner
<1>7. /\ page' \in Page /\ page'.form = page.form /\ page'.dirty = page.dirty
      /\ page'.panel = "conflict" /\ page'.ready = page.ready
      /\ ~page'.banner /\ page'.retry = page.retry /\ page'.offer = d
      /\ page'.pause = "conflict" /\ page'.base = page.base
      /\ page'.revision = page.revision /\ page'.rows = page.rows
      /\ page'.again = Idle
  BY <1>3, <1>4, <1>5, <1>6 DEF Like, Page
<1>8. Read(page', S)
  BY <1>1, <1>2, <1>7, IdleIsRead DEF Sound, Read, WellSent, d
<1>9. Settled(page', wire', missed', S)
  BY <1>7 DEF Settled
<1>10. page.ready \/ ~page'.retry
  BY <1>1, <1>7 DEF Sound, InOrder
<1> QED
  BY <1>1, <1>2, <1>7, <1>8, <1>9, <1>10, DoneStep

LEMMA DeniedStep ==
  ASSUME NEW S \in SUBSET Snapshot, Whole(page, wire, missed, S),
         NEW s \in Slot, Denied(s), HandleDenied(s)
  PROVE  Whole(page', wire', missed', S)
<1>1. /\ page \in Page /\ missed \in BOOLEAN /\ missed' = missed
      /\ wire' = Done(s) /\ Sound(page, wire, missed, S)
      /\ page' = [Shows(page, "notice") EXCEPT !.pause = "denied"]
  BY DEF HandleDenied, Whole, Sound, Typed
<1>2. wire[s].kind # "none"
  BY <1>1 DEF Denied, Sound, WellSent, ReturnedBy
<1>3. /\ Like(Shows(page, "notice"), page) /\ Shows(page, "notice").again = Idle
      /\ Shows(page, "notice").panel = "notice"
      /\ Shows(page, "notice").rows = page.rows
  BY <1>1, ShowsIs DEF Panel
<1>4. /\ page' \in Page /\ page'.form = page.form /\ page'.dirty = page.dirty
      /\ page'.panel = "notice" /\ page'.ready = page.ready
      /\ page'.banner = page.banner /\ page'.retry = page.retry
      /\ page'.offer = page.offer
      /\ page'.pause = "denied" /\ page'.base = page.base
      /\ page'.revision = page.revision /\ page'.rows = page.rows
      /\ page'.again = Idle
  BY <1>1, <1>3 DEF Like, Page
<1>5. Read(page', S)
  BY <1>1, <1>4, IdleIsRead DEF Sound, Read, WellSent
<1>6. Settled(page', wire', missed', S)
  BY <1>4 DEF Settled
<1>7. CASE wire[s].kind = "load"
  <2>1. /\ wire' \in [Slot -> PageRequest]
        /\ \A t \in Slot : WellSent(wire'[t], S) /\ wire'[t].kind = "none"
        /\ ~page.ready /\ ~page.banner /\ ~page.retry
    BY <1>1, <1>7, LoadedIs
  <2>2. InOrder(page', wire', missed')
    BY <1>4, <2>1 DEF InOrder, Loads, Saving
  <2>3. Accounted(page', wire', missed', S)
    BY <1>4, <1>6, <2>1 DEF Accounted, Loads, Covered
  <2> QED
    BY <1>1, <1>4, <1>5, <2>1, <2>2, <2>3 DEF Whole, Sound, Typed
<1>8. CASE wire[s].kind # "load"
  <2>1. page.ready \/ ~page'.retry
    BY <1>1, <1>4 DEF Sound, InOrder
  <2> QED
    BY <1>1, <1>2, <1>4, <1>5, <1>6, <1>8, <2>1, DoneStep, IdleIs
<1> QED
  BY <1>7, <1>8

LEMMA UnloadedStep ==
  ASSUME NEW S \in SUBSET Snapshot, Whole(page, wire, missed, S),
         NEW s \in Slot, wire[s].kind = "load", HandleUnloaded(s)
  PROVE  Whole(page', wire', missed', S)
<1>1. /\ page \in Page /\ missed \in BOOLEAN /\ missed' = missed
      /\ wire' = Done(s) /\ Sound(page, wire, missed, S)
      /\ page' = Shows(page, "load")
  BY DEF HandleUnloaded, Whole, Sound, Typed
<1>2. /\ Like(page', page) /\ page'.panel = "load" /\ page'.again = Idle
      /\ page'.rows = page.rows
  BY <1>1, ShowsIs DEF Panel
<1>3. /\ wire' \in [Slot -> PageRequest]
      /\ \A t \in Slot : WellSent(wire'[t], S) /\ wire'[t].kind = "none"
      /\ ~page.ready /\ ~page.banner /\ ~page.retry
      /\ page.rerendered => missed
      /\ page.form = Empty \/ missed
  BY <1>1, LoadedIs
<1>4. Read(page', S)
  BY <1>1, <1>2, IdleIsRead DEF Sound, Read, WellSent, Like
<1>5. InOrder(page', wire', missed')
  BY <1>1, <1>2, <1>3 DEF InOrder, Saving, Like
<1>6. Accounted(page', wire', missed', S)
  BY <1>1, <1>2, <1>3 DEF Accounted, Settled, Covered, Like
<1> QED
  BY <1>1, <1>2, <1>3, <1>4, <1>5, <1>6 DEF Whole, Sound, Typed, Like

LEMMA LoadedStep ==
  ASSUME NEW S \in SUBSET Snapshot, Whole(page, wire, missed, S),
         NEW s \in Slot, wire[s].kind = "load",
         NEW canonical \in S \cup {NoDraft}, HandleLoaded(s, canonical)
  PROVE  Whole(page', wire', missed', S)
<1> DEFINE p == Shows(page, "none")
<1>1. /\ page \in Page /\ missed \in BOOLEAN /\ missed' = missed
      /\ wire' = Done(s) /\ Sound(page, wire, missed, S)
      /\ page' = IF page.rerendered \/ (canonical = NoDraft /\ page.local = NoLocal)
                 THEN Enabled(p, canonical)
                 ELSE [p EXCEPT !.banner = TRUE, !.offer = canonical]
  BY DEF HandleLoaded, Whole, Sound, Typed
<1>2. Like(p, page) /\ p.panel = "none" /\ p.again = Idle /\ p.rows = page.rows
  BY <1>1, ShowsIs DEF Panel
<1>3. /\ wire' \in [Slot -> PageRequest]
      /\ \A t \in Slot : WellSent(wire'[t], S) /\ wire'[t].kind = "none"
      /\ ~page.ready /\ ~page.banner /\ ~page.retry
      /\ page.rerendered => missed
      /\ page.form = Empty \/ missed
  BY <1>1, LoadedIs
<1>4. canonical \in Snapshot \cup {NoDraft}
  OBVIOUS
<1> HIDE DEF p
<1>5. CASE page' = Enabled(p, canonical) /\ (canonical = NoDraft \/ missed)
  <2>1. GoesOn(page', p, canonical)
    BY <1>2, <1>4, <1>5, EnabledIs DEF Like
  <2>2. Read(page', S)
    BY <1>1, <1>2, <2>1, IdleIsRead DEF Sound, Read, GoesOn, Like, WellSent
  <2>3. InOrder(page', wire', missed')
    BY <1>2, <1>3, <2>1 DEF InOrder, Loads, GoesOn, Saving
  <2>4. Holds(page', S) \/ missed'
    BY <1>1, <1>2, <1>3, <1>5, <2>1 DEF Holds, GoesOn, RevisionOf, Like
  <2>5. Accounted(page', wire', missed', S)
    BY <1>2, <1>3, <2>1, <2>4 DEF Accounted, Settled, Loads, Covered, GoesOn
  <2> QED
    BY <1>1, <1>3, <2>1, <2>2, <2>3, <2>5 DEF Whole, Sound, Typed, GoesOn
<1>6. CASE page' = [p EXCEPT !.banner = TRUE, !.offer = canonical]
  <2>1. /\ page' \in Page /\ page'.form = page.form /\ page'.panel = "none"
        /\ ~page'.ready /\ page'.banner /\ ~page'.retry
        /\ page'.offer = canonical /\ page'.base = page.base
        /\ page'.revision = page.revision /\ page'.rows = page.rows
        /\ page'.again = Idle
    BY <1>2, <1>3, <1>4, <1>6 DEF Like, Page
  <2>2. Read(page', S)
    BY <1>1, <2>1, IdleIsRead DEF Sound, Read, WellSent
  <2>3. InOrder(page', wire', missed')
    BY <1>3, <2>1, IdleIs DEF InOrder, Loads, Saving
  <2>4. Accounted(page', wire', missed', S)
    BY <1>1, <1>3, <2>1 DEF Accounted, Settled, Covered
  <2> QED
    BY <1>1, <1>3, <2>1, <2>2, <2>3, <2>4 DEF Whole, Sound, Typed
<1> QED
  BY <1>1, <1>3, <1>5, <1>6

LEMMA UnsavedStep ==
  ASSUME NEW S \in SUBSET Snapshot, Whole(page, wire, missed, S),
         NEW s \in Slot, wire[s].kind = "save", HandleUnsaved(s)
  PROVE  Whole(page', wire', missed', S)
<1>1. /\ page \in Page /\ missed \in BOOLEAN /\ missed' = missed
      /\ wire' = Done(s) /\ Sound(page, wire, missed, S)
      /\ \/ page' = [page EXCEPT !.retry = TRUE]
         \/ page' = Shows(page, "save")
  BY DEF HandleUnsaved, Whole, Sound, Typed
<1>2. page.ready /\ ~page.banner /\ page.panel # "load"
  BY <1>1 DEF Sound, InOrder, Saving
<1>3. /\ page' \in Page /\ page'.form = page.form /\ page'.dirty = page.dirty
      /\ page'.ready = page.ready /\ ~page'.banner /\ page'.panel # "load"
      /\ page'.retry \/ page'.panel = "save"
      /\ page'.offer = page.offer /\ page'.base = page.base
      /\ page'.revision = page.revision /\ page'.rows = page.rows
      /\ page'.again \in {page.again, Idle}
  <2>1. CASE page' = [page EXCEPT !.retry = TRUE]
    BY <1>1, <1>2, <2>1 DEF Page
  <2>2. CASE page' = Shows(page, "save")
    BY <1>1, <1>2, <2>2, ShowsIs DEF Panel, Like
  <2> QED
    BY <1>1, <2>1, <2>2
<1>4. Read(page', S)
  BY <1>1, <1>3, IdleIsRead DEF Sound, Read, WellSent
<1>5. Settled(page', wire', missed', S)
  BY <1>3 DEF Settled
<1> QED
  BY <1>1, <1>2, <1>3, <1>4, <1>5, DoneStep

LEMMA SavedStep ==
  ASSUME NEW S \in SUBSET Snapshot, Whole(page, wire, missed, S),
         NEW s \in Slot, wire[s].kind = "save", NEW canonical \in S,
         canonical.fields = wire[s].fields, HandleSaved(s, canonical)
  PROVE  Whole(page', wire', missed', S)
<1> DEFINE q == [Shows(page, "none") EXCEPT !.retry = FALSE]
           p == Revised(q, canonical)
           r == [p EXCEPT !.dirty = FALSE]
<1>1. /\ page \in Page /\ missed \in BOOLEAN /\ Sound(page, wire, missed, S)
      /\ \/ p.dirty /\ Queue(r, Done(s))
         \/ /\ ~p.dirty /\ page' = p /\ wire' = Done(s)
            /\ missed' = (missed \/ wire[s].overtaken)
  BY DEF HandleSaved, AfterSave, Whole, Sound, Typed
<1>2. /\ RevisionOf(canonical) = canonical.revision
      /\ canonical.revision \in Nat /\ canonical \in Snapshot
  BY RevisionIs
<1>3. page.ready /\ ~page.banner
  BY <1>1 DEF Sound, InOrder, Saving
<1>4. /\ q \in Page /\ q.form = page.form /\ q.dirty = page.dirty
      /\ q.ready = page.ready /\ q.banner = page.banner /\ ~q.retry
      /\ q.panel = "none" /\ q.again = Idle /\ q.offer = page.offer
      /\ q.rerendered = page.rerendered
  <2> DEFINE n == Shows(page, "none")
  <2>1. Like(n, page) /\ n.panel = "none" /\ n.again = Idle
    BY <1>1, ShowsIs DEF Panel
  <2> HIDE DEF n
  <2>2. q = [n EXCEPT !.retry = FALSE]
    BY DEF n
  <2> QED
    BY <2>1, <2>2 DEF Like, Page
<1> HIDE DEF q
<1>5. /\ p \in Page /\ p.form = page.form /\ p.dirty = page.dirty
      /\ p.ready = page.ready /\ p.banner = page.banner /\ ~p.retry
      /\ p.panel = "none" /\ p.again = Idle /\ p.offer = page.offer
      /\ p.revision = canonical.revision /\ p.base = canonical /\ p.rows = {}
      /\ p.rerendered = page.rerendered
  BY <1>2, <1>4 DEF Revised, Page
<1> HIDE DEF p
<1>6. /\ r \in Page /\ r.form = p.form /\ r.ready = p.ready
      /\ r.banner = p.banner /\ r.retry = p.retry /\ r.panel = p.panel
      /\ r.again = p.again /\ r.offer = p.offer /\ r.revision = p.revision
      /\ r.base = p.base /\ r.rows = p.rows /\ r.rerendered = p.rerendered
  BY <1>5 DEF Page
<1> HIDE DEF r
<1>7. CASE p.dirty /\ Queue(r, Done(s))
  <2>1. Sound(page, Done(s), missed, S)
    BY <1>1, DoneIs, FewerIsSound
  <2>2. Read(r, S)
    BY <1>1, <1>2, <1>5, <1>6, IdleIsRead DEF Sound, Read, WellSent
  <2>3. InOrder(r, Done(s), missed)
    BY <1>3, <1>5, <1>6, <2>1 DEF Sound, InOrder, Loads
  <2>4. Sound(r, Done(s), missed, S)
    BY <1>6, <2>1, <2>2, <2>3 DEF Sound, Typed
  <2> QED
    BY <1>7, <2>4, QueueStep
<1>8. CASE /\ ~p.dirty /\ page' = p /\ wire' = Done(s)
           /\ missed' = (missed \/ wire[s].overtaken)
  <2>1. Read(page', S)
    BY <1>1, <1>2, <1>5, <1>8, IdleIsRead DEF Sound, Read, WellSent
  <2>2. Covered(wire[s], page, missed)
    BY DEF Whole, Accounted
  <2>3. Holds(page', S) \/ missed'
    BY <1>5, <1>8, <2>2 DEF Holds, Covered
  <2>4. Settled(page', wire', missed', S) /\ missed' \in BOOLEAN
    BY <1>1, <1>8, <2>3 DEF Settled, Sound, Typed, PageRequest
  <2> QED
    BY <1>1, <1>3, <1>5, <1>8, <2>1, <2>4, DoneStep
<1> QED
  BY <1>1, <1>7, <1>8

\* A page that is answered by Enabled, when what it asked for before counts no
\* more.
LEMMA OverIs ==
  ASSUME NEW S, Sound(page, wire, missed, S), NEW s \in Slot
  PROVE  /\ Fewer(Overtaken(Done(s), Settling), wire, Settling)
         /\ wire[s].kind \notin {"none", "load"} => ~Loads(page, wire)
<1>1. /\ Done(s) \in [Slot -> PageRequest] /\ Fewer(Done(s), wire, {})
      /\ \A t \in Slot : Done(s)[t].kind = "none" => Done(s)[t] = Idle
  BY DoneIs
<1>2. Fewer(Overtaken(Done(s), Settling), Done(s), Settling)
  BY <1>1, OvertakenIs
<1>3. wire[s].kind \notin {"none", "load"} => ~Loads(page, wire)
  BY DEF Sound, InOrder, Loads
<1> QED
  BY <1>1, <1>2, <1>3, FewerAgain

LEMMA MovedStep ==
  ASSUME NEW S \in SUBSET Snapshot, Whole(page, wire, missed, S),
         NEW s \in Slot, wire[s].kind = "move",
         NEW canonical \in S, HandleMoved(s, canonical)
  PROVE  Whole(page', wire', missed', S)
<1> DEFINE p == [page EXCEPT !.form = Applied(@, canonical)]
<1>1. /\ page \in Page /\ Sound(page, wire, missed, S)
      /\ page' = Enabled(p, canonical)
      /\ missed' = (page'.form # canonical.fields)
      /\ wire' = Overtaken(Done(s), Settling)
  BY DEF HandleMoved, Whole, Sound, Typed
<1>2. Fewer(wire', wire, Settling) /\ ~Loads(page, wire) /\ page.panel # "load"
  BY <1>1, OverIs DEF Loads
<1>3. /\ canonical \in Snapshot /\ canonical.fields \in Content
      /\ RevisionOf(canonical) = canonical.revision
  BY RevisionIs
<1>4. Applied(page.form, canonical) \in Content
  BY <1>1, <1>3, DraftPageAssumption DEF Applied, Page
<1>5. /\ p \in Page /\ p.panel = page.panel /\ p.again = page.again
      /\ p.offer = page.offer
  BY <1>1, <1>4 DEF Page
<1> HIDE DEF p
<1>6. GoesOn(page', p, canonical)
  BY <1>1, <1>3, <1>5, EnabledIs
<1>7. Holds(page', S) \/ missed'
  BY <1>1, <1>3, <1>6 DEF Holds, GoesOn
<1> QED
  BY <1>1, <1>2, <1>5, <1>6, <1>7, EnabledStep DEF Sound, Read

\* After "Save my current version", or "Start over".
LEMMA ShownStep ==
  ASSUME NEW S \in SUBSET Snapshot, Sound(page, wire, missed, S),
         NEW s \in Slot, wire[s].kind \in {"keep", "restart"},
         NEW canonical \in S \cup {NoDraft},
         page' = Enabled(Shows(page, "none"), canonical),
         wire' = Overtaken(Done(s), Settling), missed' \in BOOLEAN,
         \/ missed'
         \/ canonical = NoDraft /\ page.form = Empty
         \/ canonical \in S /\ canonical.fields = page.form
  PROVE  Whole(page', wire', missed', S)
<1> DEFINE p == Shows(page, "none")
<1>1. Like(p, page) /\ p.panel = "none" /\ p.again = Idle
  BY ShowsIs DEF Panel, Sound, Typed
<1>2. canonical \in Snapshot \cup {NoDraft} /\ page' = Enabled(p, canonical)
  OBVIOUS
<1> HIDE DEF p
<1>3. GoesOn(page', p, canonical)
  BY <1>1, <1>2, EnabledIs DEF Like
<1>4. Holds(page', S) \/ missed'
  BY <1>1, <1>2, <1>3, RevisionIs DEF Holds, GoesOn, Like, RevisionOf
<1>5. Fewer(wire', wire, Settling) /\ ~Loads(page, wire)
  BY OverIs
<1>6. InformedBy(p.again, S) /\ p.offer \in S \cup {NoDraft}
  BY <1>1, IdleIsRead DEF Sound, Read, WellSent, Like
<1> QED
  BY <1>1, <1>3, <1>4, <1>5, <1>6, EnabledStep

LEMMA KeptStep ==
  ASSUME NEW S \in SUBSET Snapshot, Whole(page, wire, missed, S),
         NEW s \in Slot, wire[s].kind = "keep", NEW canonical \in S,
         canonical.fields = wire[s].fields, HandleKept(s, canonical)
  PROVE  Whole(page', wire', missed', S)
<1>1. Covered(wire[s], page, missed) /\ Sound(page, wire, missed, S)
  BY DEF Whole, Accounted
<1>2. missed' = (missed \/ wire[s].overtaken) /\ missed' \in BOOLEAN
  BY DEF HandleKept, Whole, Sound, Typed, PageRequest
<1>3. missed' \/ canonical.fields = page.form
  BY <1>1, <1>2 DEF Covered
<1> QED
  BY <1>1, <1>2, <1>3, ShownStep DEF HandleKept

LEMMA RestartedStep ==
  ASSUME NEW S \in SUBSET Snapshot, Whole(page, wire, missed, S),
         NEW s \in Slot, wire[s].kind = "restart", HandleRestarted(s)
  PROVE  Whole(page', wire', missed', S)
<1>1. Covered(wire[s], page, missed) /\ Sound(page, wire, missed, S)
  BY DEF Whole, Accounted
<1>2. missed' = (missed \/ wire[s].overtaken) /\ missed' \in BOOLEAN
  BY DEF HandleRestarted, Whole, Sound, Typed, PageRequest
<1>3. missed' \/ page.form = Empty
  BY <1>1, <1>2 DEF Covered
<1> QED
  BY <1>1, <1>2, <1>3, ShownStep DEF HandleRestarted

LEMMA ClearedStep ==
  ASSUME NEW S \in SUBSET Snapshot, Whole(page, wire, missed, S),
         NEW s \in Slot, wire[s].kind = "clear", HandleCleared(s)
  PROVE  Whole(page', wire', missed', S)
<1> DEFINE p == Shows(page, "none")
           r == Revised(p, NoDraft)
<1>1. /\ page \in Page /\ Sound(page, wire, missed, S)
      /\ page' = [r EXCEPT !.form = Empty] /\ missed' = FALSE
      /\ wire' = Overtaken(Done(s), Settling)
  BY DEF HandleCleared, Whole, Sound, Typed
<1>2. Like(p, page) /\ p.panel = "none" /\ p.again = Idle
  BY <1>1, ShowsIs DEF Panel
<1> HIDE DEF p
<1>3. /\ r \in Page /\ r.panel = "none" /\ r.again = Idle
      /\ r.revision = 0 /\ r.base = NoDraft /\ r.rows = {}
      /\ r.ready = page.ready /\ r.retry = page.retry
      /\ r.banner = page.banner /\ r.offer = page.offer
  BY <1>2 DEF Revised, RevisionOf, Like, Page
<1> HIDE DEF r
<1>4. /\ page' \in Page /\ page'.panel = "none" /\ page'.again = Idle
      /\ page'.revision = 0 /\ page'.base = NoDraft /\ page'.rows = {}
      /\ page'.ready = page.ready /\ page'.retry = page.retry
      /\ page'.banner = page.banner /\ page'.offer = page.offer
      /\ page'.form = Empty
  BY <1>1, <1>3, DraftPageAssumption DEF Page
<1>5. Fewer(wire', wire, Settling) /\ ~Loads(page, wire)
  BY <1>1, OverIs
<1>6. ~page'.banner
  BY <1>1, <1>4 DEF Sound, InOrder
<1>7. Read(page', S)
  BY <1>1, <1>4, IdleIsRead DEF Sound, Read, WellSent, RevisionOf
<1>8. Settled(page', wire', missed', S)
  BY <1>4 DEF Settled, Holds
<1> QED
  BY <1>1, <1>4, <1>5, <1>6, <1>7, <1>8, OvertakenStep

LEMMA FailedStep ==
  ASSUME NEW S \in SUBSET Snapshot, Whole(page, wire, missed, S),
         NEW s \in Slot, wire[s].kind \in {"move", "keep", "restart", "clear"},
         HandleFailed(s)
  PROVE  Whole(page', wire', missed', S)
<1> DEFINE q == wire[s]
           p == Shows(page, "retry")
           fields == IF q.kind = "move" THEN q.fields ELSE Empty
           again == Asked(q.kind, q.expected, fields, q.known)
           used == IF q.kind = "move" THEN p.used \ {"move"} ELSE p.used
<1>1. /\ page \in Page /\ Sound(page, wire, missed, S) /\ q \in PageRequest
      /\ page' = [p EXCEPT !.again = again, !.used = used]
      /\ wire' = Done(s) /\ missed' = (missed \/ Displaced)
      /\ missed \in BOOLEAN
  BY DEF HandleFailed, Whole, Sound, Typed
<1>2. /\ Like(p, page) /\ p.panel = "retry" /\ p.rows = page.rows
      /\ p.used \in SUBSET Button
  BY <1>1, ShowsIs DEF Panel, Like, Page
<1>3. used \in SUBSET Button /\ fields \in Content
  BY <1>1, <1>2, DraftPageAssumption DEF PageRequest
<1>4. again \in PageRequest /\ again.kind = q.kind /\ InformedBy(again, S)
  <2>1. /\ q.kind \in Kind /\ q.expected \in Revisions(S)
        /\ q.known \in S \cup {NoDraft}
        /\ q.kind \in Writing => q.expected = RevisionOf(q.known)
    BY <1>1 DEF Sound, WellSent, InformedBy, Kind
  <2> HIDE DEF fields, q
  <2> QED
    BY <1>3, <2>1, RequestIs DEF WellSent
<1> HIDE DEF p, fields, again, used
<1>5. /\ page' \in Page /\ page'.form = page.form /\ page'.dirty = page.dirty
      /\ page'.panel = "retry" /\ page'.ready = page.ready
      /\ page'.banner = page.banner /\ page'.retry = page.retry
      /\ page'.offer = page.offer /\ page'.pause = page.pause
      /\ page'.base = page.base /\ page'.revision = page.revision
      /\ page'.rows = page.rows /\ page'.again = again
  BY <1>1, <1>2, <1>3, <1>4 DEF Like, Page
<1>6. Read(page', S)
  BY <1>1, <1>4, <1>5 DEF Sound, Read
<1>7. page.banner => again.kind \in {"none", "move", "restart"}
  BY <1>1, <1>4 DEF Sound, InOrder
<1>8. Saving(wire) => Saving(wire')
  BY <1>1, DoneIs DEF KeepsSaves, Saving
<1>9. Settled(page', wire', missed', S) /\ missed' \in BOOLEAN
  BY <1>1, <1>5, <1>8 DEF Whole, Accounted, Settled, Holds, Displaced
<1>10. page.ready \/ ~page'.retry
  BY <1>1, <1>5 DEF Sound, InOrder
<1> QED
  BY <1>1, <1>5, <1>6, <1>7, <1>9, <1>10, DoneStep

LEMMA HandledStep ==
  ASSUME NEW S \in SUBSET Snapshot, Whole(page, wire, missed, S),
         NEW s \in Slot, Handle(s)
  PROVE  Whole(page', wire', missed', S)
<1>1. CASE HandleConflict(s)
  BY <1>1, ConflictStep
<1>2. CASE Denied(s) /\ HandleDenied(s)
  BY <1>2, DeniedStep
<1>3. CASE HandleLost(s)
  BY <1>3, UnloadedStep, UnsavedStep, FailedStep DEF HandleLost
<1>4. CASE HandleDone(s)
  <2> DEFINE canonical == wire[s].answer.draft
  <2>1. /\ canonical \in S \cup {NoDraft}
        /\ wire[s].kind \in {"save", "move", "keep"} =>
             canonical \in S /\ canonical.fields = wire[s].fields
    BY <1>4 DEF HandleDone, Whole, Sound, WellSent, InformedBy, ReturnedBy, Writing
  <2>2. \/ wire[s].kind = "load" /\ HandleLoaded(s, canonical)
        \/ wire[s].kind = "save" /\ HandleSaved(s, canonical)
        \/ wire[s].kind = "move" /\ HandleMoved(s, canonical)
        \/ wire[s].kind = "keep" /\ HandleKept(s, canonical)
        \/ wire[s].kind = "restart" /\ HandleRestarted(s)
        \/ wire[s].kind = "clear" /\ HandleCleared(s)
    BY <1>4 DEF HandleDone
  <2> HIDE DEF canonical
  <2> QED
    BY <2>1, <2>2, LoadedStep, SavedStep, MovedStep, KeptStep, RestartedStep,
       ClearedStep
<1> QED
  BY <1>1, <1>2, <1>3, <1>4 DEF Handle

LEMMA DecidedStep ==
  ASSUME NEW S \in SUBSET Snapshot, Whole(page, wire, missed, S), Decide
  PROVE  Whole(page', wire', missed', S)
BY TakeAccountStep, StartFreshStep, TakeDeviceStep, KeepMineStep, ClearStep,
   RestartStep, TryAgainStep
DEF Decide

-----------------------------------------------------------------------------
(* The page and the drafts together. *)

\* A request of the page is one of those the drafts expect.
LEMMA ArriveIsStep ==
  ASSUME PageInv, NEW s \in Slot, Arrive(s)
  PROVE  [Next]_vars
<1>1. wire[s].expected \in Expected /\ wire[s].fields \in Content
  BY DEF PageInv, PageTypeOK, KnownIsPast, Informed, PageRequest
<1>2. \/ UNCHANGED vars \/ Save(wire[s].expected, wire[s].fields)
      \/ Delete(wire[s].expected)
  BY DEF Arrive, Load, Refuse, Store, Stores, Remove
<1> QED
  BY <1>1, <1>2 DEF Next, Request

LEMMA PageStepIsStep ==
  ASSUME PageInv, [PageNext]_allVars
  PROVE  [Next]_vars
<1>1. CASE \E s \in Slot : Arrive(s)
  BY <1>1, ArriveIsStep
<1>2. CASE Others
  BY <1>2 DEF Others
<1>3. CASE \/ \E f \in Content : Edit(f)
           \/ RetrySave \/ SaveAgain \/ LoadAgain \/ Decide
           \/ \E s \in Slot : Handle(s)
           \/ UNCHANGED allVars
  BY <1>3 DEF Edit, RetrySave, SaveAgain, LoadAgain, Elsewhere, Decide, Handle,
              allVars
<1> QED
  BY <1>1, <1>2, <1>3 DEF PageNext

\* What the page is answered with was current once, and a save it is thanked
\* for is stored.
LEMMA ArriveStep ==
  ASSUME IndInv, PageInv, NEW s \in Slot, Arrive(s),
         past \subseteq past', past' \in SUBSET Snapshot, ActiveIsPast(past)'
  PROVE  Whole(page', wire', missed', past')
<1>1. Whole(page, wire, missed, past') /\ ActiveIsPast(past)
  BY PageInvIs, KnownGrows
<1>2. Canonical \in past' \cup {NoDraft}
  BY <1>1 DEF Canonical, ActiveIsPast, Usable
<1>3. PICK kind \in {"ok", "conflict"}, canonical \in past' \cup {NoDraft} :
        /\ Respond(s, kind, canonical)
        /\ wire[s].kind # "none"
        /\ kind = "conflict" => wire[s].kind # "load"
        /\ kind = "ok" /\ wire[s].kind \in Writing =>
             canonical \in past' /\ canonical.fields = wire[s].fields
  <2>1. CASE Load(s)
    BY <1>2, <2>1 DEF Load, Arrives, Writing
  <2>2. CASE Refuse(s)
    BY <1>2, <2>2 DEF Refuse, Arrives, Writing, Deleting
  <2>3. CASE Remove(s)
    BY <2>3 DEF Remove, Arrives, Writing, Deleting
  <2>4. CASE Store(s)
    <3>1. PICK d \in Draft :
            Active(draft'[d]) /\ Respond(s, "ok", SnapshotOf(draft', d))
      BY <2>4 DEF Store
    <3>2. /\ wire[s].expected \in Expected /\ wire[s].fields \in Content
          /\ Save(wire[s].expected, wire[s].fields)
          /\ Usable = {} => wire[s].expected = 0
          /\ wire[s].kind # "none"
      BY <2>4 DEF Store, Stores, Arrives, Writing, PageInv, PageTypeOK,
                  KnownIsPast, Informed, PageRequest
    <3>3. draft'[d].fields = wire[s].fields
      BY <3>1, <3>2, SaveStores
    <3>4. /\ SnapshotOf(draft', d) \in past'
          /\ SnapshotOf(draft', d).fields = wire[s].fields
      BY <3>1, <3>3 DEF ActiveIsPast, SnapshotOf
    <3> QED
      BY <3>1, <3>2, <3>4
  <2> QED
    BY <2>1, <2>2, <2>3, <2>4 DEF Arrive
<1> DEFINE answer == [kind |-> kind, draft |-> canonical]
<1>4. /\ wire' = [wire EXCEPT ![s].answer = answer]
      /\ page' = page /\ missed' = missed
      /\ wire \in [Slot -> PageRequest]
  BY <1>1, <1>3 DEF Respond, Whole, Sound, Typed
<1>5. answer \in [kind: {"none", "ok", "conflict"}, draft: Snapshot \cup {NoDraft}]
  BY <1>3
<1>6. answer.kind = kind /\ answer.draft = canonical
  OBVIOUS
<1> HIDE DEF answer
<1>7. /\ wire' \in [Slot -> PageRequest]
      /\ wire'[s].answer = answer
      /\ \A t \in Slot : /\ wire'[t].kind = wire[t].kind
                         /\ wire'[t].expected = wire[t].expected
                         /\ wire'[t].fields = wire[t].fields
                         /\ wire'[t].known = wire[t].known
                         /\ wire'[t].overtaken = wire[t].overtaken
      /\ \A t \in Slot \ {s} : wire'[t] = wire[t]
  BY <1>4, <1>5 DEF PageRequest
<1>8. \A t \in Slot : WellSent(wire'[t], past')
  BY <1>1, <1>3, <1>6, <1>7
  DEF Whole, Sound, WellSent, InformedBy, ReturnedBy
<1>9. InOrder(page', wire', missed')
  BY <1>1, <1>4, <1>7 DEF Whole, Sound, InOrder, Loads, Saving
<1>10. Accounted(page', wire', missed', past')
  BY <1>1, <1>4, <1>7 DEF Whole, Accounted, Settled, Covered, Loads, Saving
<1> QED
  BY <1>1, <1>4, <1>7, <1>8, <1>9, <1>10 DEF Whole, Sound, Typed

LEMMA PageInitInv ==
  PageInit => IndInv /\ PageInv
<1> SUFFICES ASSUME PageInit
             PROVE  IndInv /\ PageInv
  OBVIOUS
<1>1. IndInv /\ TypeOK /\ past = {} /\ \A d \in Draft : ~Active(draft[d])
  BY InitInv DEF PageInit, IndInv, Init, Active
<1>2. /\ page \in Page /\ missed \in BOOLEAN
      /\ page.form = Empty /\ ~page.ready /\ page.revision = 0
      /\ ~page.retry /\ page.panel = "none" /\ ~page.banner
      /\ page.offer = NoDraft /\ page.base = NoDraft
      /\ page.again = Idle /\ page.rows = {}
      /\ missed = page.rerendered
  <2>1. PICK r \in BOOLEAN, l \in Content \cup {NoLocal} :
          page = [form |-> Empty, rerendered |-> r, local |-> l, ready |-> FALSE,
                  revision |-> 0, dirty |-> FALSE, pause |-> "no",
                  retry |-> FALSE, panel |-> "none", banner |-> FALSE,
                  offer |-> NoDraft, used |-> {}, again |-> Idle, rows |-> {},
                  base |-> NoDraft]
    BY DEF PageInit
  <2>2. page \in Page
    BY <2>1, IdleIs, DraftPageAssumption DEF Page, Panel
  <2>3. missed = page.rerendered
    BY DEF PageInit
  <2> QED
    BY <2>1, <2>2, <2>3
<1>3. Bounded
  BY DraftPageAssumption DEF PageInit, Bounded
<1> DEFINE load == Asked("load", 0, Empty, NoDraft)
<1>4. load \in PageRequest /\ WellSent(load, past) /\ load.kind = "load"
  <2>1. /\ 0 \in Revisions(past) /\ "load" \in Kind /\ "load" \notin Writing
        /\ Empty \in Content /\ past \in SUBSET Snapshot
    BY <1>1, DraftPageAssumption DEF Revisions, Kind, Writing
  <2> QED
    BY <2>1, RequestIs
<1>5. PICK first \in Slot : wire = [s \in Slot |-> IF s = first THEN load ELSE Idle]
  BY DEF PageInit
<1> HIDE DEF load
<1>6. /\ wire \in [Slot -> PageRequest] /\ wire[first].kind = "load"
      /\ \A s \in Slot \ {first} : wire[s].kind = "none"
      /\ \A s \in Slot : WellSent(wire[s], past)
  BY <1>4, <1>5, IdleIs, IdleIsRead
<1>7. Read(page, past)
  BY <1>2, IdleIsRead DEF Read, WellSent, RevisionOf
<1>8. InOrder(page, wire, missed)
  BY <1>2, <1>6 DEF InOrder, Saving
<1>9. Accounted(page, wire, missed, past)
  BY <1>2, <1>6 DEF Accounted, Settled, Covered
<1>10. Whole(page, wire, missed, past)
  BY <1>2, <1>6, <1>7, <1>8, <1>9 DEF Whole, Sound, Typed
<1>11. ActiveIsPast(past)
  BY <1>1 DEF ActiveIsPast
<1> QED
  BY <1>1, <1>3, <1>10, <1>11, PageInvIs

LEMMA PageStepInv ==
  IndInv /\ PageInv /\ [PageNext]_allVars => IndInv' /\ PageInv'
<1> SUFFICES ASSUME IndInv, PageInv, [PageNext]_allVars
             PROVE  IndInv' /\ PageInv'
  OBVIOUS
<1>1. [Next]_vars
  BY PageStepIsStep
<1>2. IndInv' /\ TypeOK'
  BY <1>1, StepInv DEF IndInv
<1>3. past \subseteq past' /\ ActiveIsPast(past)'
  BY <1>1, StepReads, PageInvIs DEF IndInv
<1>4. past' \in SUBSET Snapshot
  BY <1>2 DEF TypeOK
<1>5. Whole(page, wire, missed, past')
  BY <1>3, PageInvIs, KnownGrows
<1>6. Bounded'
  <2>1. Bounded
    BY PageInvIs
  <2>2. CASE Decide
    BY <2>1, <2>2, DraftPageAssumption DEF Decide, Bounded
  <2>3. CASE Others
    BY <2>1, <2>3, DraftPageAssumption DEF Others, Bounded
  <2>4. CASE \E s \in Slot : Handle(s)
    BY <2>1, <2>4, DraftPageAssumption DEF Handle, HandleLost, Bounded
  <2>5. CASE \/ \E f \in Content : Edit(f)
             \/ RetrySave \/ SaveAgain \/ LoadAgain
             \/ \E s \in Slot : Arrive(s)
             \/ UNCHANGED allVars
    <3>1. UNCHANGED <<access, bounded>>
      BY <2>5 DEF Edit, RetrySave, SaveAgain, LoadAgain, Elsewhere, Arrive, Load,
                  Refuse, Store, Remove, Respond, allVars, pageVars
    <3> QED
      BY <2>1, <3>1 DEF bounded, Bounded
  <2> QED
    BY <2>2, <2>3, <2>4, <2>5 DEF PageNext
<1>7. Whole(page', wire', missed', past')
  <2>1. CASE (\E f \in Content : Edit(f)) \/ RetrySave \/ SaveAgain
    BY <1>4, <1>5, <2>1, QueuedSteps
  <2>2. CASE LoadAgain \/ Decide
    BY <1>4, <1>5, <2>2, LoadAgainStep, DecidedStep
  <2>3. CASE Others \/ UNCHANGED allVars
    BY <1>5, <2>3 DEF Others, allVars, pageVars
  <2>4. ASSUME NEW s \in Slot, Arrive(s) \/ Handle(s)
        PROVE  Whole(page', wire', missed', past')
    BY <1>3, <1>4, <1>5, <2>4, ArriveStep, HandledStep
  <2> QED
    BY <2>1, <2>2, <2>3, <2>4 DEF PageNext
<1> QED
  BY <1>2, <1>3, <1>6, <1>7, PageInvIs

\* On every page, whatever else becomes of the drafts.
THEOREM PageInvariance == PageSpec => [](IndInv /\ PageInv)
<1>1. PageInit => IndInv /\ PageInv
  BY PageInitInv
<1>2. IndInv /\ PageInv /\ [PageNext]_allVars => (IndInv /\ PageInv)'
  BY PageStepInv
<1> QED
  BY <1>1, <1>2, PTL DEF PageSpec

\* A page does with the drafts only what FormDraft says of them: its theorems
\* hold whatever the page sends, however late.
THEOREM PageImplementsDrafts == PageSpec => Spec
<1>1. PageInit => Init
  BY DEF PageInit
<1>2. PageInv /\ [PageNext]_allVars => [Next]_vars
  BY PageStepIsStep
<1> QED
  BY <1>1, <1>2, PageInvariance, PTL DEF PageSpec, Spec

\* So the promise of the contact form holds of the wizard, whatever its network.
THEOREM PageKeepsSubmissions == PageSpec => KeepsSubmissions
BY PageImplementsDrafts, DraftsImplementSubmissions

\* What a page at rest shows is stored, unless it has missed changes, whichever
\* of its buttons are pressed beside the requests under way (wizard-engine.js in
\* the server mode).
THEOREM SavedAtRest == PageSpec => []AtRestStored
<1>1. PageInv => AtRestStored
  BY DEF PageInv, ChangesAccounted, AtRestStored, Quiet
<1> QED
  BY <1>1, PageInvariance, PTL

\* What a save of the page is about to replace.
LEMMA KnowsWhatItReplaces ==
  ASSUME IndInv, PageInv, NEW s \in Slot, NEW d \in Draft,
         Stores(s), Active(draft[d]), draft'[d].fields # draft[d].fields,
         wire[s].known = NoDraft \/ wire[s].known.of = d
  PROVE  wire[s].known = SnapshotOf(draft, d)
<1>0. TypeOK /\ OneLeadPerToken /\ PastIsPast /\ ActiveCounted
  BY DEF IndInv
<1>1. /\ Save(wire[s].expected, wire[s].fields)
      /\ Usable = {} => wire[s].expected = 0
  BY DEF Stores
<1>2. /\ wire[s].known \in past \cup {NoDraft}
      /\ wire[s].expected = RevisionOf(wire[s].known)
  BY DEF PageInv, KnownIsPast, Informed, Known, Stores, Arrives
<1>3. Usable # {}
  <2>1. ASSUME Create(wire[s].fields, NoDemo)
        PROVE  draft'[d].fields = draft[d].fields
    <3>1. PICK e \in Unused : draft' = [Swept EXCEPT ![e] = Created(wire[s].fields, NoDemo)]
      BY <2>1 DEF Create, Commit
    <3>2. e # d
      BY DEF Unused, Active
    <3>3. draft'[d] = Swept[d]
      BY <3>1, <3>2 DEF Swept
    <3> QED
      BY <1>0, <3>3 DEF Swept, TypeOK, DraftRow
  <2> QED
    BY <1>1, <2>1 DEF Save
<1>4. PICK e \in Usable : draft[e].revision = wire[s].expected
  BY <1>1, <1>3 DEF Save
<1>5. e = d
  BY <1>0, <1>4 DEF Usable, OneLeadPerToken
<1>6. draft[d].revision = wire[s].expected /\ draft[d].revision # 0
  BY <1>0, <1>4, <1>5 DEF ActiveCounted
<1>7. wire[s].known \in past /\ wire[s].known.revision = draft[d].revision
  BY <1>2, <1>6 DEF RevisionOf
<1> QED
  BY <1>0, <1>7, DraftPageAssumption DEF PastIsPast, TypeOK

\* A save of the page replaces no content the page was not answered with, unless
\* the draft it knew is over.
THEOREM SavesAreInformed == PageSpec => NeverBlind
<1> DEFINE Knowing ==
      \A s \in Slot, d \in Draft :
        LET known == wire[s].known
        IN /\ Stores(s) /\ wire'[s] # wire[s]
           /\ Active(draft[d]) /\ draft'[d].fields # draft[d].fields
           /\ known = NoDraft \/ known.of = d
           => known = SnapshotOf(draft, d)
<1>1. IndInv /\ PageInv => Knowing
  BY KnowsWhatItReplaces
<1> HIDE DEF Knowing
<1>2. [][Knowing]_allVars <=> NeverBlind
  BY DEF Knowing, NeverBlind
<1> QED
  BY <1>1, <1>2, PageInvariance, PTL

-----------------------------------------------------------------------------
(* The hand-off of a demo selection: what it does to the drafts. *)

\* The steps that are not about the drafts.
Aside ==
  \/ \E r \in Handler :
       \/ \E kind \in RequestKind, demo \in Choice : Begin(r, kind, demo)
       \/ Configure(r) \/ StoreMarker(r) \/ SkipNamed(r) \/ NothingToDo(r)
       \/ Reject(r) \/ SignOut(r) \/ DropPending(r) \/ FailPending(r)
       \/ Finish(r) \/ Die(r)
       \/ \E user \in {"customer", "staff"} : SignIn(r, user)
  \/ \E m \in Demo : CleanUpSelection(m)
  \/ UNCHANGED flowVars

LEMMA AsideLeavesDrafts ==
  ASSUME Aside
  PROVE  UNCHANGED vars
<1>1. ASSUME NEW r \in Handler, NEW kind, NEW demo, NEW user,
             Begin(r, kind, demo) \/ Configure(r) \/ SignIn(r, user) \/ SignOut(r)
      PROVE  UNCHANGED vars
  BY <1>1 DEF Begin, Configure, SignIn, SignOut
<1>2. ASSUME NEW r \in Handler,
             StoreMarker(r) \/ SkipNamed(r) \/ NothingToDo(r) \/ Reject(r)
      PROVE  UNCHANGED vars
  BY <1>2 DEF StoreMarker, SkipNamed, NothingToDo, Reject
<1>3. ASSUME NEW r \in Handler,
             DropPending(r) \/ FailPending(r) \/ Finish(r) \/ Die(r)
      PROVE  UNCHANGED vars
  BY <1>3 DEF DropPending, FailPending, Finish, Die
<1>4. CASE \E m \in Demo : CleanUpSelection(m)
  BY <1>4 DEF CleanUpSelection
<1>5. CASE UNCHANGED flowVars
  BY <1>5 DEF flowVars
<1> QED
  BY <1>1, <1>2, <1>3, <1>4, <1>5 DEF Aside

\* Whatever a request does, the drafts make a step of FormDraft's.
LEMMA HandoffStepIsStep ==
  ASSUME HandoffTypeOK, [HandoffNext]_flowVars
  PROVE  [Next]_vars
<1>1. ASSUME NEW m \in Choice \ {NoDemo}, HandOff(m) PROVE Next
  BY <1>1 DEF Next, Request, Choice
<1>2. ASSUME NEW r \in Handler, AttachNamed(r) PROVE Next
  <2>1. handler[r].demo \in Choice \ {NoDemo} /\ HandOff(handler[r].demo)
    BY <1>2 DEF AttachNamed, Resolved, HandoffTypeOK, HandlerState
  <2> QED
    BY <1>1, <2>1
<1>3. ASSUME NEW r \in Handler, AttachPending(r) PROVE Next
  <2>1. /\ handler[r].data.marker \in Choice \ {NoDemo}
        /\ HandOff(handler[r].data.marker)
    BY <1>3 DEF AttachPending, HandoffTypeOK, HandlerState, SessionData
  <2> QED
    BY <1>1, <2>1
<1>4. ASSUME NEW r \in Handler, NEW token \in Token, NEW fields \in Content,
             Finalize(r, token, fields)
      PROVE  Next
  <2> DEFINE sub == [token |-> token, fields |-> fields,
                     demo |-> IF Resolved(r) THEN handler[r].demo ELSE NoDemo]
  <2>1. handler[r].demo \in Choice /\ NoDemo \in Choice
    BY DEF HandoffTypeOK, HandlerState, Choice
  <2>2. sub \in Submission
    BY <2>1 DEF Submission
  <2>3. Replay(sub) \/ Submit(sub, handler[r].demo = NoDemo)
    BY <1>4 DEF Finalize
  <2> HIDE DEF sub
  <2> QED
    BY <2>2, <2>3 DEF Next, Request
<1>5. DeleteElsewhere => Next
  BY DEF DeleteElsewhere, Next, Request
<1>6. CASE Aside
  BY <1>6, AsideLeavesDrafts
<1> QED
  BY <1>2, <1>3, <1>4, <1>5, <1>6 DEF HandoffNext, Aside

-----------------------------------------------------------------------------
(* The invariant of the hand-off: what a request does between its beginning  *)
(* and its answer.                                                           *)

\* The type of a request.
LEMMA HandlersAre ==
  ASSUME HandoffTypeOK, NEW r \in Handler
  PROVE  /\ handler[r] \in HandlerState
         /\ handler[r].data \in SessionData
         /\ handler[r].demo \in Choice /\ handler[r].data.marker \in Choice
         /\ handler[r].session \in Session \cup {NoSession}
BY DEF HandoffTypeOK, HandlerState, SessionData

\* RequestsKept, of one request.
Kept(h) ==
  /\ h.marked => h.kind \in {"visit", "post"} /\ h.stage = "done" /\ h.session # NoSession
  /\ h.kind = "sign in" /\ h.stage # "begun" => h.dirty
  /\ h.attached => h.stage # "begun" /\ ~h.marked /\ h.data.marker = NoDemo

LEMMA KeptIs ==
  /\ RequestsKept <=> \A r \in Handler : Kept(handler[r])
  /\ RequestsKept' <=> \A r \in Handler : Kept(handler'[r])
BY DEF RequestsKept, Kept

LEMMA OneIsKept ==
  ASSUME RequestsKept, NEW r \in Handler, Kept(handler'[r]),
         \A o \in Handler \ {r} : handler'[o] = handler[o]
  PROVE  RequestsKept'
<1>1. \A q \in Handler : Kept(handler[q])
  BY KeptIs
<1>2. \A q \in Handler : Kept(handler'[q])
  <2>1. ASSUME NEW q \in Handler \ {r} PROVE Kept(handler'[q])
    BY <1>1
  <2> QED
    BY <2>1
<1> QED
  BY <1>2, KeptIs

\* A request h that goes on as g keeps its place, and what it does to the
\* pending choice is known.
Inner(r) ==
  LET h == handler[r]
      g == handler'[r]
  IN /\ h.stage \in {"begun", "signed in", "handed off"}
     /\ g \in HandlerState
     /\ handler' = [handler EXCEPT ![r] = g]
     /\ g.kind = h.kind /\ g.session = h.session /\ g.old = h.old
     /\ g.stage # "begun" /\ (h.kind = "sign in" => g.dirty)
     /\ h.dirty /\ h.stage # "begun" => g.dirty
     /\ g.marked => /\ h.kind \in {"visit", "post"} /\ g.stage = "done"
                    /\ h.session # NoSession
     /\ g.attached => /\ ~g.marked /\ g.data.marker = NoDemo
                      /\ \/ h.attached
                         \/ /\ h.stage = "begun" /\ h.session # NoSession
                            /\ g.dirty \/ h.data.marker = NoDemo
     /\ owed' # NoDemo => /\ owed' = owed
                          /\ h.data.marker = owed => g.marked \/ g.data.marker = owed
     /\ Harmless(h.data) => g.marked \/ Harmless(g.data)
     /\ owed' \in Choice
     /\ UNCHANGED <<session, cookie, made, standing>>

\* Such a step keeps the invariant.
LEMMA InnerStep ==
  ASSUME HandoffInv, TypeOK', NEW r \in Handler, Inner(r),
         selection' \in [Demo -> SelectionRow]
  PROVE  HandoffInv'
<1> DEFINE h == handler[r]
           g == handler'[r]
<1>0. HandoffTypeOK /\ RequestsKept /\ CopyIsCurrent /\ OwedIsHeld /\ NoOlderMarker
  BY DEF HandoffInv
<1>1. HandoffTypeOK'
  BY <1>0 DEF HandoffTypeOK, Inner
<1>2. /\ \A o \in Handler \ {r} : handler'[o] = handler[o]
      /\ UNCHANGED <<session, cookie, standing>>
      /\ \A s : Alive(s)' <=> Alive(s)
  BY <1>0 DEF HandoffTypeOK, Inner, Alive
<1>3. ~h.marked /\ h # NoRequest
  <2>1. h.stage \in {"begun", "signed in", "handed off"}
    BY DEF Inner
  <2>2. NoRequest.stage = "idle"
    BY DEF NoRequest
  <2>3. h.marked => h.stage = "done"
    BY <1>0 DEF RequestsKept
  <2> QED
    BY <2>1, <2>2, <2>3
<1>4. RequestsKept'
  <2>1. Kept(g)
    BY DEF Inner, Kept
  <2> QED
    BY <1>0, <1>2, <2>1, OneIsKept
<1>5. CopyIsCurrent'
  <2>1. ASSUME NEW q \in Handler \ {r}
        PROVE  /\ /\ handler'[q].stage = "begun" /\ ~handler'[q].old
                  /\ handler'[q].session # NoSession
                  => /\ handler'[q].session = cookie'
                     /\ Alive(cookie)' => session'[cookie'].data = handler'[q].data
               /\ /\ handler'[q].attached /\ ~handler'[q].dirty
                  /\ ~handler'[q].old /\ Alive(cookie)'
                  => session'[cookie'].data.marker = NoDemo
    BY <1>0, <1>2 DEF CopyIsCurrent, Alive
  <2>2. ASSUME g.attached, ~g.dirty, ~g.old, Alive(cookie)
        PROVE  session[cookie].data.marker = NoDemo
    <3>1. CASE h.attached
      <4>1. ~h.dirty
        BY <1>0, <2>2, <3>1 DEF RequestsKept, Inner
      <4> QED
        BY <1>0, <2>2, <3>1, <4>1 DEF CopyIsCurrent, Inner
    <3>2. CASE h.stage = "begun" /\ h.session # NoSession /\ h.data.marker = NoDemo
      BY <1>0, <2>2, <3>2 DEF CopyIsCurrent, Inner
    <3> QED
      BY <2>2, <3>1, <3>2 DEF Inner
  <2>3. g.stage # "begun"
    BY DEF Inner
  <2> QED
    BY <1>2, <2>1, <2>2, <2>3 DEF CopyIsCurrent, Alive
<1>6. OwedIsHeld'
  <2>1. CASE owed' = NoDemo
    BY <2>1 DEF OwedIsHeld
  <2>2. ASSUME owed' = owed, owed # NoDemo, InSession PROVE InSession'
    <3>1. ASSUME NEW q \in Handler, handler'[q] # NoRequest, ~handler'[q].old
          PROVE  /\ handler'[q].session = cookie
                 /\ handler'[q].marked \/ handler'[q].data.marker = owed
      <4>1. CASE q = r
        BY <1>3, <2>2, <3>1, <4>1 DEF InSession, Inner
      <4>2. CASE q # r
        BY <1>2, <2>2, <3>1, <4>2 DEF InSession
      <4> QED
        BY <4>1, <4>2
    <3> QED
      BY <1>2, <2>2, <3>1 DEF InSession, Alive
  <2>3. ASSUME owed' = owed, owed # NoDemo, NEW q \in Handler, WithSignIn(q)
        PROVE  WithSignIn(q)'
    <3>1. \A o \in Handler : handler'[o].session = handler[o].session
      BY <1>2 DEF Inner
    <3>2. /\ handler'[q].kind = "sign in" /\ handler'[q].stage # "begun"
          /\ handler'[q].data.marker = owed
      BY <1>2, <2>3 DEF WithSignIn, Inner
    <3> QED
      BY <1>2, <2>3, <3>1, <3>2 DEF WithSignIn
  <2> QED
    BY <1>0, <2>1, <2>2, <2>3 DEF Inner, OwedIsHeld
<1>7. NoOlderMarker'
  BY <1>0, <1>2, <1>3 DEF NoOlderMarker, Inner, Harmless
<1> QED
  BY <1>1, <1>4, <1>5, <1>6, <1>7 DEF HandoffInv

\* A visitor's choice is put in the marker.
LEMMA StoreMarkerStep ==
  ASSUME HandoffInv, TypeOK', NEW r \in Handler, StoreMarker(r)
  PROVE  HandoffInv'
<1> DEFINE h == handler[r]
           g == [h EXCEPT !.stage = "done",
                          !.data = [h.data EXCEPT !.marker = h.demo, !.crossed = FALSE],
                          !.marked = TRUE, !.dirty = @ \/ Shown(r) \/ h.data.marker # h.demo]
<1>1. HandoffTypeOK /\ RequestsKept
  BY DEF HandoffInv
<1>2. /\ h \in HandlerState /\ h.data \in SessionData /\ h.demo \in Choice
  BY <1>1, HandlersAre
<1>3. handler' = [handler EXCEPT ![r] = g]
  BY <1>1 DEF StoreMarker, HandoffTypeOK
<1>4. /\ g \in HandlerState /\ g.stage = "done" /\ g.marked /\ g.kind = h.kind
      /\ g.session = h.session /\ g.old = h.old /\ g.attached = h.attached
      /\ h.dirty => g.dirty
  BY <1>2 DEF HandlerState, SessionData
<1>5. /\ h.stage = "begun" /\ h.kind \in {"visit", "post"} /\ h.session # NoSession
      /\ UNCHANGED <<selection, session, cookie, standing, owed, made>>
  BY DEF StoreMarker, OnContactPage, Resolved, historyVars
<1>6. ~h.attached
  BY <1>1, <1>5 DEF RequestsKept
<1> HIDE DEF g
<1>7. handler'[r] = g
  BY <1>1, <1>3 DEF HandoffTypeOK
<1>8. Inner(r)
  BY <1>1, <1>3, <1>4, <1>5, <1>6, <1>7 DEF Inner, HandoffTypeOK
<1> QED
  BY <1>1, <1>5, <1>8, InnerStep DEF HandoffTypeOK

\* A customer's choice is attached.
LEMMA AttachNamedStep ==
  ASSUME HandoffInv, TypeOK', NEW r \in Handler, AttachNamed(r)
  PROVE  HandoffInv'
<1> DEFINE h == handler[r]
           g == [h EXCEPT !.stage = Rest(r), !.attached = TRUE,
                          !.data = Superseded(h.data),
                          !.dirty = @ \/ Shown(r) \/ h.data.marker # NoDemo]
<1>1. HandoffTypeOK /\ RequestsKept
  BY DEF HandoffInv
<1>2. h \in HandlerState /\ h.data \in SessionData
  BY <1>1, HandlersAre
<1>3. handler' = [handler EXCEPT ![r] = g]
  BY <1>1 DEF AttachNamed, HandoffTypeOK
<1>4. /\ h.stage = "begun" /\ h.kind \in {"visit", "post"} /\ h.session # NoSession
      /\ owed' = NoDemo /\ NoDemo \in Choice
      /\ UNCHANGED <<selection, session, cookie, standing, made>>
  BY DEF AttachNamed, OnContactPage, Resolved, Choice
<1>5. ~h.attached /\ ~h.marked
  BY <1>1, <1>4 DEF RequestsKept
<1>6. Rest(r) \in {"handed off", "done"}
  BY DEF Rest
<1>7. Superseded(h.data) \in SessionData /\ Superseded(h.data).marker = NoDemo
  BY <1>2, <1>4 DEF Superseded, Unmarked, SessionData
<1>8. /\ g \in HandlerState /\ g.stage # "begun" /\ g.kind = h.kind
      /\ g.session = h.session /\ g.old = h.old /\ g.attached /\ ~g.marked
      /\ h.dirty => g.dirty
      /\ g.dirty \/ h.data.marker = NoDemo
      /\ g.data.marker = NoDemo
  BY <1>2, <1>5, <1>6, <1>7 DEF HandlerState
<1> HIDE DEF g
<1>9. handler'[r] = g
  BY <1>1, <1>3 DEF HandoffTypeOK
<1>10. Inner(r)
  BY <1>3, <1>4, <1>8, <1>9 DEF Inner, Harmless
<1> QED
  BY <1>1, <1>4, <1>10, InnerStep DEF HandoffTypeOK

\* What does not look at the pending choice, or does with it what it must.
LEMMA GoesStep ==
  ASSUME HandoffInv, TypeOK', NEW r \in Handler,
         NEW data \in SessionData, NEW dirty \in BOOLEAN,
         Goes(r, data, dirty),
         OnContactPage(r) \/ Consuming(r),
         handler[r].data.marker = NoDemo => data.marker = NoDemo,
         Harmless(handler[r].data) => Harmless(data),
         owed' # NoDemo => /\ owed' = owed
                           /\ handler[r].data.marker = owed => data.marker = owed,
         owed' \in Choice,
         UNCHANGED <<selection, session, cookie, standing, made>>
  PROVE  HandoffInv'
<1> DEFINE h == handler[r]
           g == [h EXCEPT !.stage = Rest(r), !.data = data, !.dirty = @ \/ dirty]
<1>1. HandoffTypeOK /\ RequestsKept
  BY DEF HandoffInv
<1>2. h \in HandlerState
  BY <1>1, HandlersAre
<1>3. handler' = [handler EXCEPT ![r] = g]
  BY <1>1 DEF Goes, HandoffTypeOK
<1>4. /\ h.stage \in {"begun", "signed in"}
      /\ h.kind = "sign in" => h.stage # "begun"
  BY DEF OnContactPage, Consuming, At
<1>5. Rest(r) \in {"handed off", "done"}
  BY DEF Rest
<1>6. /\ ~h.marked /\ (h.attached => h.data.marker = NoDemo)
      /\ h.kind = "sign in" => h.dirty
  BY <1>1, <1>4 DEF RequestsKept
<1>7. /\ g \in HandlerState /\ g.stage # "begun" /\ g.kind = h.kind
      /\ g.session = h.session /\ g.old = h.old /\ g.attached = h.attached
      /\ ~g.marked /\ g.data = data
      /\ h.dirty => g.dirty
  BY <1>2, <1>5, <1>6 DEF HandlerState
<1> HIDE DEF g
<1>8. handler'[r] = g
  BY <1>1, <1>3 DEF HandoffTypeOK
<1>9. Inner(r)
  BY <1>3, <1>4, <1>6, <1>7, <1>8 DEF Inner
<1> QED
  BY <1>1, <1>9, InnerStep DEF HandoffTypeOK

\* The contact page, and a pending choice taken up.
LEMMA ContactPageSteps ==
  ASSUME HandoffInv, TypeOK', NEW r \in Handler,
         \/ SkipNamed(r) \/ NothingToDo(r)
         \/ AttachPending(r) \/ DropPending(r) \/ FailPending(r)
  PROVE  HandoffInv'
<1> DEFINE data == handler[r].data
           m == data.marker
<1>1. HandoffTypeOK
  BY DEF HandoffInv
<1>2. /\ data \in SessionData /\ NoDemo \in Choice /\ owed \in Choice
      /\ Shown(r) \in BOOLEAN
  BY <1>1, HandlersAre DEF HandoffTypeOK, Choice, Shown
<1>3. /\ Unmarked(data) \in SessionData /\ Unmarked(data).marker = NoDemo
      /\ Harmless(Unmarked(data)) /\ Restored(data) = data
  BY <1>2 DEF Unmarked, SessionData, Harmless, Restored
<1>4. OwedAfter(m) \in {owed, NoDemo} /\ (OwedAfter(m) # NoDemo => owed # m)
  BY DEF OwedAfter
<1>5. CASE SkipNamed(r)
  BY <1>2, <1>5, GoesStep DEF SkipNamed, historyVars
<1>6. CASE NothingToDo(r)
  BY <1>2, <1>6, GoesStep DEF NothingToDo, historyVars
<1>7. CASE AttachPending(r)
  BY <1>2, <1>3, <1>4, <1>7, GoesStep DEF AttachPending
<1>8. CASE DropPending(r)
  <2>1. CASE m = NoDemo
    BY <1>2, <1>3, <1>8, <2>1, GoesStep DEF DropPending
  <2>2. CASE m # NoDemo
    BY <1>2, <1>3, <1>4, <1>8, <2>2, GoesStep DEF DropPending
  <2> QED
    BY <2>1, <2>2
<1>9. CASE FailPending(r)
  BY <1>2, <1>3, <1>9, GoesStep DEF FailPending, historyVars
<1> QED
  BY <1>5, <1>6, <1>7, <1>8, <1>9

\* A form is submitted or refused.
LEMMA EndOfPostSteps ==
  ASSUME HandoffInv, TypeOK', NEW r \in Handler,
         \/ \E token \in Token, fields \in Content : Finalize(r, token, fields)
         \/ Reject(r)
  PROVE  HandoffInv'
<1> DEFINE h == handler[r]
           g == [h EXCEPT !.stage = "done"]
<1>1. HandoffTypeOK /\ RequestsKept
  BY DEF HandoffInv
<1>2. h \in HandlerState /\ owed \in Choice
  BY <1>1, HandlersAre DEF HandoffTypeOK
<1>3. /\ handler' = [handler EXCEPT ![r] = g]
      /\ h.kind = "post" /\ h.stage = "handed off"
      /\ UNCHANGED <<selection, session, cookie, standing, owed, made>>
  BY <1>1 DEF Finalize, Reject, At, historyVars, HandoffTypeOK
<1>4. ~h.marked /\ (h.attached => h.data.marker = NoDemo)
  BY <1>1, <1>3 DEF RequestsKept
<1>5. /\ g \in HandlerState /\ g.stage = "done" /\ g.kind = h.kind
      /\ g.session = h.session /\ g.old = h.old /\ g.attached = h.attached
      /\ ~g.marked /\ g.data = h.data /\ g.dirty = h.dirty
  BY <1>2, <1>4 DEF HandlerState
<1> HIDE DEF g
<1>6. handler'[r] = g
  BY <1>1, <1>3 DEF HandoffTypeOK
<1>7. Inner(r)
  BY <1>2, <1>3, <1>4, <1>5, <1>6 DEF Inner
<1> QED
  BY <1>1, <1>3, <1>7, InnerStep DEF HandoffTypeOK

-----------------------------------------------------------------------------
(* A request comes, dies, signs out, configures or signs in.                 *)

\* The fields of no request.
LEMMA NoRequestIs ==
  /\ NoRequest \in HandlerState
  /\ NoRequest.kind = "none" /\ NoRequest.stage = "idle"
  /\ NoRequest.session = NoSession /\ ~NoRequest.dirty /\ ~NoRequest.marked
  /\ ~NoRequest.attached /\ ~NoRequest.old
  /\ NoRequest.data = NoData /\ NoData \in SessionData /\ NoData.marker = NoDemo
  /\ NoData.user = "nobody"
BY DEF NoRequest, NoData, HandlerState, SessionData, User, Choice

\* A request reads what its browser has.
LEMMA BeginStep ==
  ASSUME HandoffInv, TypeOK', NEW r \in Handler,
         NEW kind \in RequestKind, NEW demo \in Choice, Begin(r, kind, demo)
  PROVE  HandoffInv'
<1> DEFINE g == handler'[r]
<1>0. HandoffTypeOK /\ RequestsKept /\ CopyIsCurrent /\ OwedIsHeld /\ NoOlderMarker
  BY DEF HandoffInv
<1>1. /\ handler[r] = NoRequest /\ made' \in 0..MaxRequests
      /\ UNCHANGED <<selection, session, cookie, standing, owed>>
      /\ \A s : Alive(s)' <=> Alive(s)
  BY <1>0, HandoffAssumption DEF Begin, historyVars, HandoffTypeOK, Alive
<1>2. /\ \A o \in Handler \ {r} : handler'[o] = handler[o]
      /\ g = IF Alive(cookie)
             THEN [NoRequest EXCEPT !.kind = kind, !.stage = "begun", !.demo = demo,
                                    !.session = cookie, !.data = session[cookie].data]
             ELSE [NoRequest EXCEPT !.kind = kind, !.stage = "begun", !.demo = demo,
                                    !.dirty = cookie # NoSession]
  BY <1>0 DEF Begin, HandoffTypeOK
<1>3. Alive(cookie) => cookie \in Session /\ session[cookie].data \in SessionData
  BY <1>0 DEF HandoffTypeOK, Alive, SessionRow
<1>4. /\ g \in HandlerState /\ g.stage = "begun" /\ ~g.marked /\ ~g.attached /\ ~g.old
      /\ Alive(cookie) => g.session = cookie /\ g.data = session[cookie].data
      /\ ~Alive(cookie) => g.session = NoSession /\ g.data = NoData
  <2>1. CASE Alive(cookie)
    <3>1. g = [NoRequest EXCEPT !.kind = kind, !.stage = "begun", !.demo = demo,
                                !.session = cookie, !.data = session[cookie].data]
      BY <1>2, <2>1
    <3> HIDE DEF g
    <3> QED
      BY <1>3, <2>1, <3>1, NoRequestIs DEF HandlerState
  <2>2. CASE ~Alive(cookie)
    <3>1. g = [NoRequest EXCEPT !.kind = kind, !.stage = "begun", !.demo = demo,
                                !.dirty = cookie # NoSession]
      BY <1>2, <2>2
    <3> HIDE DEF g
    <3> QED
      BY <2>2, <3>1, NoRequestIs DEF HandlerState
  <2> QED
    BY <2>1, <2>2
<1> HIDE DEF g
<1>5. HandoffTypeOK'
  BY <1>0, <1>1, <1>4 DEF HandoffTypeOK, Begin, g
<1>6. RequestsKept'
  <2>1. Kept(handler'[r])
    BY <1>4 DEF Kept, g
  <2> QED
    BY <1>0, <1>2, <2>1, OneIsKept
<1>7. CopyIsCurrent'
  BY <1>0, <1>1, <1>2, <1>4 DEF CopyIsCurrent, g
<1>8. OwedIsHeld'
  <2>1. ASSUME InSession PROVE InSession'
    BY <1>1, <1>2, <1>4, <2>1 DEF InSession, g
  <2>2. ASSUME NEW q \in Handler, WithSignIn(q) PROVE WithSignIn(q)'
    <3>1. q # r /\ handler'[q] = handler[q]
      BY <1>1, <1>2, <2>2, NoRequestIs DEF WithSignIn
    <3>2. handler'[r].session # handler[q].session
      BY <1>4, <2>2 DEF WithSignIn, Alive, g
    <3> QED
      BY <1>1, <1>2, <2>2, <3>1, <3>2 DEF WithSignIn
  <2> QED
    BY <1>0, <1>1, <2>1, <2>2 DEF OwedIsHeld
<1>9. NoOlderMarker'
  <2> SUFFICES ASSUME standing # NoDemo
               PROVE  /\ Alive(cookie) => Harmless(session[cookie].data)
                      /\ \A q \in Handler : \/ handler'[q].old \/ handler'[q].marked
                                            \/ Harmless(handler'[q].data)
    BY <1>1 DEF NoOlderMarker, Harmless
  <2>1. Harmless(NoData)
    BY NoRequestIs DEF Harmless
  <2>2. Alive(cookie) => Harmless(session[cookie].data)
    BY <1>0 DEF NoOlderMarker
  <2>3. Harmless(g.data)
    BY <1>4, <2>1, <2>2
  <2>4. ASSUME NEW q \in Handler \ {r}
        PROVE  handler[q].old \/ handler[q].marked \/ Harmless(handler[q].data)
    BY <1>0 DEF NoOlderMarker
  <2> QED
    BY <1>2, <2>2, <2>3, <2>4 DEF g
<1> QED
  BY <1>5, <1>6, <1>7, <1>8, <1>9 DEF HandoffInv

\* A request dies.
LEMMA DieStep ==
  ASSUME HandoffInv, TypeOK', NEW r \in Handler, Die(r)
  PROVE  HandoffInv'
<1>0. HandoffTypeOK /\ RequestsKept /\ CopyIsCurrent /\ OwedIsHeld /\ NoOlderMarker
  BY DEF HandoffInv
<1>1. /\ UNCHANGED <<selection, session, cookie, standing, made>>
      /\ \A s : Alive(s)' <=> Alive(s)
      /\ handler'[r] = NoRequest
      /\ \A o \in Handler \ {r} : handler'[o] = handler[o]
      /\ owed' \in {owed, NoDemo} /\ owed' \in Choice
      /\ handler[r].kind = "sign in" /\ handler[r].session # cookie => owed' = NoDemo
  BY <1>0 DEF Die, HandoffTypeOK, Alive, Choice
<1>2. HandoffTypeOK'
  BY <1>0, <1>1, NoRequestIs DEF HandoffTypeOK, Die
<1>3. RequestsKept'
  <2>1. Kept(NoRequest)
    BY NoRequestIs DEF Kept
  <2> QED
    BY <1>0, <1>1, <2>1, OneIsKept
<1>4. CopyIsCurrent'
  BY <1>0, <1>1, NoRequestIs DEF CopyIsCurrent
<1>5. OwedIsHeld'
  <2>1. ASSUME owed' = owed, InSession PROVE InSession'
    BY <1>1, <2>1 DEF InSession
  <2>2. ASSUME owed' = owed, owed # NoDemo, NEW q \in Handler, WithSignIn(q)
        PROVE  WithSignIn(q)'
    <3>1. q # r
      BY <1>1, <2>2 DEF WithSignIn
    <3>2. \A o \in Handler \ {q} : handler'[o].session # handler[q].session
      BY <1>1, <2>2, NoRequestIs DEF WithSignIn, Alive
    <3> QED
      BY <1>1, <2>2, <3>1, <3>2 DEF WithSignIn, Alive
  <2> QED
    BY <1>0, <1>1, <2>1, <2>2 DEF OwedIsHeld
<1>6. NoOlderMarker'
  BY <1>0, <1>1, NoRequestIs DEF NoOlderMarker, Harmless
<1> QED
  BY <1>2, <1>3, <1>4, <1>5, <1>6 DEF HandoffInv

\* The session is emptied.
LEMMA SignOutStep ==
  ASSUME HandoffInv, TypeOK', NEW r \in Handler, SignOut(r)
  PROVE  HandoffInv'
<1> DEFINE h == handler[r]
           g == [NoRequest EXCEPT !.kind = "sign out", !.stage = "done", !.old = h.old,
                                  !.dirty = h.dirty \/ h.session # NoSession]
<1>0. HandoffTypeOK /\ RequestsKept /\ CopyIsCurrent /\ OwedIsHeld /\ NoOlderMarker
  BY DEF HandoffInv
<1>1. /\ UNCHANGED <<selection, cookie, standing, made>>
      /\ handler' = [handler EXCEPT ![r] = g]
      /\ handler'[r] = g
      /\ \A o \in Handler \ {r} : handler'[o] = handler[o]
      /\ owed' = IF h.session # NoSession THEN NoDemo ELSE owed
      /\ h.kind = "sign out" /\ h.stage = "begun"
      /\ session' = [k \in Session |-> IF k = h.session THEN NoRow ELSE session[k]]
  BY <1>0 DEF SignOut, HandoffTypeOK, At
<1>2. /\ g \in HandlerState /\ g.kind = "sign out" /\ g.stage = "done"
      /\ g.session = NoSession /\ g.old = h.old /\ ~g.marked /\ ~g.attached
      /\ g.data = NoData
  <2>1. h.old \in BOOLEAN /\ h.dirty \in BOOLEAN
    BY <1>0, HandlersAre DEF HandlerState
  <2> QED
    BY <2>1, NoRequestIs DEF HandlerState, RequestKind
<1> HIDE DEF g
<1>3. NoRow \in SessionRow /\ ~NoRow.alive
  BY NoRequestIs DEF NoRow, SessionRow
<1>4. \A k \in Session : session'[k].alive =>
        session'[k] = session[k] /\ k # h.session
  BY <1>1, <1>3
<1>5. \A s \in Session \cup {NoSession} :
        Alive(s)' => Alive(s) /\ session'[s] = session[s]
  BY <1>4 DEF Alive
<1>6. HandoffTypeOK'
  <2>1. session' \in [Session -> SessionRow]
    BY <1>0, <1>1, <1>3 DEF HandoffTypeOK
  <2> QED
    BY <1>0, <1>1, <1>2, <2>1 DEF HandoffTypeOK, Choice
<1>7. RequestsKept'
  <2>1. Kept(g)
    BY <1>2 DEF Kept
  <2> QED
    BY <1>0, <1>1, <2>1, OneIsKept
<1>8. CopyIsCurrent'
  <2>1. cookie \in Session \cup {NoSession}
    BY <1>0 DEF HandoffTypeOK
  <2>2. Alive(cookie)' => Alive(cookie) /\ session'[cookie] = session[cookie]
    BY <1>1, <1>5, <2>1
  <2>3. ASSUME NEW q \in Handler \ {r}
        PROVE  /\ /\ handler'[q].stage = "begun" /\ ~handler'[q].old
                  /\ handler'[q].session # NoSession
                  => /\ handler'[q].session = cookie'
                     /\ Alive(cookie)' => session'[cookie'].data = handler'[q].data
               /\ /\ handler'[q].attached /\ ~handler'[q].dirty
                  /\ ~handler'[q].old /\ Alive(cookie)'
                  => session'[cookie'].data.marker = NoDemo
    BY <1>0, <1>1, <2>2 DEF CopyIsCurrent
  <2> QED
    BY <1>1, <1>2, <2>3 DEF CopyIsCurrent
<1>9. OwedIsHeld'
  <2>1. CASE owed' = NoDemo
    BY <2>1 DEF OwedIsHeld
  <2>2. CASE owed' # NoDemo
    <3>1. owed' = owed /\ h.session = NoSession
      BY <1>1, <2>2
    <3>2. session' = session
      BY <1>0, <1>1, <3>1, HandoffAssumption DEF HandoffTypeOK
    <3>3. ASSUME InSession PROVE InSession'
      <4>1. h.old
        BY <1>1, <3>1, <3>3, NoRequestIs DEF InSession, Alive
      <4>2. ASSUME NEW q \in Handler, handler'[q] # NoRequest, ~handler'[q].old
            PROVE  /\ handler'[q].session = cookie
                   /\ handler'[q].marked \/ handler'[q].data.marker = owed
        <5>1. q # r /\ handler'[q] = handler[q]
          BY <1>1, <1>2, <4>1, <4>2
        <5> QED
          BY <3>3, <4>2, <5>1 DEF InSession
      <4>3. cookie' = cookie /\ Alive(cookie) /\ session[cookie].data.marker = owed
        BY <1>1, <3>3 DEF InSession
      <4> QED
        BY <3>1, <3>2, <4>2, <4>3 DEF InSession, Alive
    <3>4. ASSUME NEW q \in Handler, WithSignIn(q) PROVE WithSignIn(q)'
      <4>1. q # r
        BY <1>1, <3>4 DEF WithSignIn
      <4>2. handler'[q] = handler[q] /\ cookie' = cookie
        BY <1>1, <4>1
      <4>3. \A o \in Handler \ {q} : handler'[o].session # handler[q].session
        BY <1>1, <1>2, <3>4 DEF WithSignIn, Alive
      <4> QED
        BY <3>1, <3>2, <3>4, <4>2, <4>3 DEF WithSignIn, Alive
    <3> QED
      BY <1>0, <2>2, <3>1, <3>3, <3>4 DEF OwedIsHeld
  <2> QED
    BY <2>1, <2>2
<1>10. NoOlderMarker'
  <2>1. Harmless(NoData)
    BY NoRequestIs DEF Harmless
  <2>2. ASSUME standing # NoDemo, Alive(cookie)' PROVE Harmless(session'[cookie].data)
    BY <1>0, <1>1, <1>5, <2>2 DEF NoOlderMarker, HandoffTypeOK
  <2>3. ASSUME standing # NoDemo, NEW q \in Handler \ {r}
        PROVE  handler[q].old \/ handler[q].marked \/ Harmless(handler[q].data)
    BY <1>0, <2>3 DEF NoOlderMarker
  <2> QED
    BY <1>1, <1>2, <2>1, <2>2, <2>3 DEF NoOlderMarker, Harmless
<1> QED
  BY <1>6, <1>7, <1>8, <1>9, <1>10 DEF HandoffInv

\* A selection is made, in a new session if there was none.
LEMMA ConfigureStep ==
  ASSUME HandoffInv, TypeOK', NEW r \in Handler, Configure(r)
  PROVE  HandoffInv'
<1> DEFINE h == handler[r]
           m == h.demo
<1>0. HandoffTypeOK /\ RequestsKept /\ CopyIsCurrent /\ OwedIsHeld /\ NoOlderMarker
  BY DEF HandoffInv
<1>1. PICK s \in Session :
        /\ IF h.session = NoSession THEN Fresh(s) ELSE s = h.session
        /\ selection' = [selection EXCEPT ![m] =
             IF @.status = "none" THEN [status |-> "kept", session |-> s] ELSE @]
        /\ session' = [session EXCEPT ![s] =
             IF h.session = NoSession THEN Row(NoData) ELSE @]
        /\ handler' = [handler EXCEPT ![r].session = s, ![r].stage = "done",
             ![r].dirty = h.session = NoSession \/ selection'[m].session = s]
  BY DEF Configure
<1> DEFINE g == [h EXCEPT !.session = s, !.stage = "done",
                          !.dirty = h.session = NoSession \/ selection'[m].session = s]
<1>2. /\ h.kind = "configure" /\ h.stage = "begun"
      /\ UNCHANGED <<cookie, standing, owed, made>>
  BY DEF Configure, At, historyVars
<1>3. h \in HandlerState
  BY <1>0, HandlersAre
<1>4. ~h.marked /\ ~h.attached
  BY <1>0, <1>2 DEF RequestsKept
<1>5. handler' = [handler EXCEPT ![r] = g]
  BY <1>0, <1>1 DEF HandoffTypeOK
<1>6. /\ g \in HandlerState /\ g.stage = "done" /\ g.kind = h.kind
      /\ g.session = s /\ g.old = h.old /\ ~g.attached /\ ~g.marked /\ g.data = h.data
  BY <1>3, <1>4 DEF HandlerState
<1> HIDE DEF g
<1>7. /\ handler'[r] = g
      /\ \A o \in Handler \ {r} : handler'[o] = handler[o]
  BY <1>0, <1>5 DEF HandoffTypeOK
<1>8. selection' \in [Demo -> SelectionRow]
  BY <1>0, <1>1 DEF HandoffTypeOK, SelectionRow
<1>9. CASE h.session # NoSession
  <2>1. session' = session
    BY <1>0, <1>1, <1>9 DEF HandoffTypeOK
  <2>2. g.session = h.session /\ owed \in Choice
    BY <1>0, <1>1, <1>6, <1>9 DEF HandoffTypeOK
  <2>3. Inner(r)
    BY <1>2, <1>4, <1>5, <1>6, <1>7, <2>1, <2>2 DEF Inner
  <2> QED
    BY <1>8, <2>3, InnerStep
<1>10. CASE h.session = NoSession
  <2>1. /\ s # cookie /\ s # NoSession
        /\ \A o \in Handler : handler[o].session # s
    BY <1>1, <1>10, HandoffAssumption DEF Fresh
  <2>2. /\ session' = [session EXCEPT ![s] = Row(NoData)]
        /\ Row(NoData) \in SessionRow
    BY <1>1, <1>10, NoRequestIs DEF Row, SessionRow
  <2>3. \A k \in Session \ {s} : session'[k] = session[k]
    BY <1>0, <2>2 DEF HandoffTypeOK
  <2>4. \A k \in (Session \cup {NoSession}) \ {s} :
          /\ Alive(k)' <=> Alive(k)
          /\ Alive(k) => session'[k] = session[k]
    BY <2>3 DEF Alive
  <2>5. /\ Alive(cookie)' <=> Alive(cookie)
        /\ Alive(cookie) => session'[cookie] = session[cookie]
    BY <1>0, <1>2, <2>1, <2>4 DEF HandoffTypeOK, Alive
  <2>6. HandoffTypeOK'
    <3>1. session' \in [Session -> SessionRow]
      BY <1>0, <2>2 DEF HandoffTypeOK
    <3> QED
      BY <1>0, <1>2, <1>5, <1>6, <1>8, <3>1 DEF HandoffTypeOK
  <2>7. RequestsKept'
    <3>1. Kept(g)
      BY <1>2, <1>6 DEF Kept
    <3> QED
      BY <1>0, <1>7, <3>1, OneIsKept
  <2>8. CopyIsCurrent'
    BY <1>0, <1>2, <1>6, <1>7, <2>5 DEF CopyIsCurrent
  <2>9. OwedIsHeld'
    <3>1. ASSUME InSession PROVE InSession'
      <4>1. h # NoRequest
        BY <1>2, NoRequestIs
      <4>2. h.old
        BY <1>10, <3>1, <4>1 DEF InSession, Alive
      <4> QED
        BY <1>2, <1>6, <1>7, <2>5, <3>1, <4>2 DEF InSession
    <3>2. ASSUME NEW q \in Handler, WithSignIn(q) PROVE WithSignIn(q)'
      <4>1. q # r /\ handler'[q] = handler[q]
        BY <1>2, <1>7, <3>2 DEF WithSignIn
      <4>2. handler[q].session # s
        BY <2>1
      <4>3. Alive(handler[q].session) /\ handler[q].session \in Session
        BY <1>0, <3>2, HandlersAre DEF WithSignIn, Alive
      <4>4. Alive(handler[q].session)'
        BY <2>3, <4>1, <4>2, <4>3 DEF Alive
      <4> QED
        BY <1>2, <1>6, <1>7, <2>1, <3>2, <4>1, <4>4 DEF WithSignIn
    <3> QED
      BY <1>0, <1>2, <3>1, <3>2 DEF OwedIsHeld
  <2>10. NoOlderMarker'
    <3>1. ASSUME standing # NoDemo, NEW q \in Handler
          PROVE  handler[q].old \/ handler[q].marked \/ Harmless(handler[q].data)
      BY <1>0, <3>1 DEF NoOlderMarker
    <3>2. ASSUME standing # NoDemo, Alive(cookie)' PROVE Harmless(session'[cookie].data)
      BY <1>0, <2>5, <3>2 DEF NoOlderMarker
    <3> QED
      BY <1>2, <1>4, <1>6, <1>7, <3>1, <3>2 DEF NoOlderMarker, Harmless
  <2> QED
    BY <2>6, <2>7, <2>8, <2>9, <2>10 DEF HandoffInv
<1> QED
  BY <1>9, <1>10

\* A sign-in keeps an anonymous session's choice.
LEMMA SignedInIs ==
  ASSUME NEW data \in SessionData, NEW user \in {"customer", "staff"}
  PROVE  /\ SignedIn(data, user) \in SessionData
         /\ Harmless(data) => Harmless(SignedIn(data, user))
         /\ data.user = "nobody" => SignedIn(data, user).marker = data.marker
<1>1. CASE data.user = "nobody"
  BY <1>1 DEF SignedIn, SessionData, User, Harmless
<1>2. CASE data.user # "nobody"
  BY <1>2, NoRequestIs DEF SignedIn, SessionData, User, Harmless
<1> QED
  BY <1>1, <1>2

\* A sign-in takes an owed choice with it to the new session.
LEMMA SignInStep ==
  ASSUME HandoffInv, TypeOK', NEW r \in Handler,
         NEW user \in {"customer", "staff"}, SignIn(r, user)
  PROVE  HandoffInv'
<1> DEFINE h == handler[r]
<1>0. HandoffTypeOK /\ RequestsKept /\ CopyIsCurrent /\ OwedIsHeld /\ NoOlderMarker
  BY DEF HandoffInv
<1>1. /\ h.kind = "sign in" /\ h.stage = "begun"
      /\ UNCHANGED <<selection, cookie, standing, made>>
  BY DEF SignIn, At
<1>2. h \in HandlerState /\ h.data \in SessionData
  BY <1>0, HandlersAre
<1>3. ~h.marked /\ ~h.attached
  BY <1>0, <1>1 DEF RequestsKept
<1>4. CASE h.data.user = user
  <2> DEFINE g == [h EXCEPT !.stage = "signed in", !.dirty = TRUE]
  <2>1. /\ handler' = [handler EXCEPT ![r] = g]
        /\ UNCHANGED <<session, owed>>
    BY <1>0, <1>4 DEF SignIn, HandoffTypeOK
  <2>2. /\ g \in HandlerState /\ g.stage = "signed in" /\ g.kind = h.kind /\ g.dirty
        /\ g.session = h.session /\ g.old = h.old /\ ~g.attached /\ ~g.marked
        /\ g.data = h.data
    BY <1>2, <1>3 DEF HandlerState
  <2> HIDE DEF g
  <2>3. handler'[r] = g /\ owed \in Choice
    BY <1>0, <2>1 DEF HandoffTypeOK
  <2>4. Inner(r)
    BY <1>1, <2>1, <2>2, <2>3 DEF Inner
  <2> QED
    BY <1>0, <1>1, <2>4, InnerStep DEF HandoffTypeOK
<1>5. CASE h.data.user # user
  <2> DEFINE d == SignedIn(h.data, user)
  <2>1. PICK s \in Session :
          /\ Fresh(s)
          /\ session' = [k \in Session |-> IF k = s THEN Row(d)
                                           ELSE IF k = h.session THEN NoRow ELSE session[k]]
          /\ handler' = [handler EXCEPT ![r].stage = "signed in", ![r].session = s,
                                        ![r].data = d, ![r].dirty = TRUE]
    BY <1>5 DEF SignIn
  <2>2. owed' = IF h.old \/ h.data.user # "nobody" THEN NoDemo ELSE owed
    BY <1>5 DEF SignIn
  <2>3. /\ d \in SessionData /\ (Harmless(h.data) => Harmless(d))
        /\ h.data.user = "nobody" => d.marker = h.data.marker
    BY <1>2, SignedInIs
  <2> HIDE DEF d
  <2> DEFINE g == [h EXCEPT !.stage = "signed in", !.session = s, !.data = d,
                            !.dirty = TRUE]
  <2>4. handler' = [handler EXCEPT ![r] = g]
    BY <1>0, <2>1 DEF HandoffTypeOK
  <2>5. /\ g \in HandlerState /\ g.stage = "signed in" /\ g.kind = h.kind /\ g.dirty
        /\ g.session = s /\ g.old = h.old /\ ~g.attached /\ ~g.marked /\ g.data = d
    BY <1>2, <1>3, <2>3 DEF HandlerState
  <2> HIDE DEF g
  <2>6. /\ handler'[r] = g
        /\ \A o \in Handler \ {r} : handler'[o] = handler[o]
    BY <1>0, <2>4 DEF HandoffTypeOK
  <2>7. /\ s # cookie /\ s # NoSession
        /\ \A o \in Handler : handler[o].session # s
    BY <2>1, HandoffAssumption DEF Fresh
  <2>8. /\ Row(d) \in SessionRow /\ Row(d).alive
        /\ NoRow \in SessionRow /\ ~NoRow.alive
    BY <2>3, NoRequestIs DEF Row, NoRow, SessionRow
  <2>9. /\ session'[s] = Row(d)
        /\ \A k \in Session \ {s} : session'[k].alive => session'[k] = session[k]
        /\ \A k \in Session \ {s, h.session} : session'[k] = session[k]
    BY <2>1, <2>8
  <2>10. Alive(cookie)' => Alive(cookie) /\ session'[cookie] = session[cookie]
    BY <1>0, <1>1, <2>7, <2>9 DEF HandoffTypeOK, Alive
  <2>11. HandoffTypeOK'
    <3>1. session' \in [Session -> SessionRow]
      BY <1>0, <2>1, <2>8 DEF HandoffTypeOK
    <3> QED
      BY <1>0, <1>1, <2>2, <2>4, <2>5, <3>1 DEF HandoffTypeOK, Choice
  <2>12. RequestsKept'
    <3>1. Kept(g)
      BY <2>5 DEF Kept
    <3> QED
      BY <1>0, <2>6, <3>1, OneIsKept
  <2>13. CopyIsCurrent'
    BY <1>0, <1>1, <2>5, <2>6, <2>10 DEF CopyIsCurrent
  <2>14. OwedIsHeld'
    <3>1. CASE owed' = NoDemo
      BY <3>1 DEF OwedIsHeld
    <3>2. CASE owed' # NoDemo
      <4>1. owed' = owed /\ ~h.old /\ d.marker = h.data.marker
        BY <2>2, <2>3, <3>2
      <4>2. ASSUME InSession PROVE WithSignIn(r)'
        <5>1. h.data.marker = owed
          BY <1>1, <1>3, <4>1, <4>2, NoRequestIs DEF InSession
        <5>2. Alive(s)'
          BY <2>7, <2>8, <2>9 DEF Alive
        <5>3. \A o \in Handler \ {r} : handler'[o].session # s
          BY <2>6, <2>7
        <5>4. Alive(handler[r].session)'
          BY <2>5, <2>6, <5>2 DEF Alive
        <5> QED
          BY <1>1, <2>5, <2>6, <2>7, <4>1, <5>1, <5>3, <5>4 DEF WithSignIn
      <4>3. ASSUME NEW q \in Handler, WithSignIn(q) PROVE WithSignIn(q)'
        <5>1. q # r /\ handler'[q] = handler[q]
          BY <1>1, <2>6, <4>3 DEF WithSignIn
        <5>2. handler[q].session \in Session \ {s, h.session}
          BY <1>0, <2>7, <4>3, <5>1, HandlersAre DEF WithSignIn, Alive
        <5>3. Alive(handler[q].session)'
          BY <2>9, <4>3, <5>1, <5>2 DEF WithSignIn, Alive
        <5>4. \A o \in Handler \ {q} : handler'[o].session # handler[q].session
          BY <2>5, <2>6, <2>7, <4>3 DEF WithSignIn
        <5> QED
          BY <1>1, <4>1, <4>3, <5>1, <5>3, <5>4 DEF WithSignIn
      <4> QED
        BY <1>0, <3>2, <4>1, <4>2, <4>3 DEF OwedIsHeld
    <3> QED
      BY <3>1, <3>2
  <2>15. NoOlderMarker'
    <3>1. ASSUME standing # NoDemo, NEW q \in Handler
          PROVE  handler[q].old \/ handler[q].marked \/ Harmless(handler[q].data)
      BY <1>0, <3>1 DEF NoOlderMarker
    <3>2. ASSUME standing # NoDemo, Alive(cookie)' PROVE Harmless(session'[cookie].data)
      BY <1>0, <2>10, <3>2 DEF NoOlderMarker
    <3> QED
      BY <1>1, <1>3, <2>3, <2>5, <2>6, <3>1, <3>2 DEF NoOlderMarker, Harmless
  <2> QED
    BY <2>11, <2>12, <2>13, <2>14, <2>15 DEF HandoffInv
<1> QED
  BY <1>4, <1>5

-----------------------------------------------------------------------------
(* The answer, which saves the request's copy of the session.                *)

\* What the answer of r does, its conditions apart.
SavedCopy(r) ==
  [handler[r].data EXCEPT !.crossed =
     @ \/ (handler[r].old /\ ~handler[r].marked /\ handler[r].data.marker # NoDemo)]

SavesCopy(r) ==
  handler[r].dirty /\ (handler[r].session = NoSession \/ Alive(handler[r].session))

\* One conjunct for each thing an answer does.
Aged(h, old) == [h EXCEPT !.old = old]

LEMMA AgedIs ==
  ASSUME NEW h \in HandlerState, NEW old \in BOOLEAN
  PROVE  /\ Aged(h, old) \in HandlerState
         /\ Aged(h, old).kind = h.kind /\ Aged(h, old).stage = h.stage
         /\ Aged(h, old).session = h.session /\ Aged(h, old).data = h.data
         /\ Aged(h, old).dirty = h.dirty /\ Aged(h, old).marked = h.marked
         /\ Aged(h, old).attached = h.attached /\ Aged(h, old).old = old
BY DEF Aged, HandlerState

LEMMA FinishIs ==
  ASSUME HandoffTypeOK, NEW r \in Handler, Finish(r)
  PROVE  /\ handler[r].stage = "done" /\ UNCHANGED <<selection, made>>
         /\ handler'[r] = NoRequest
         /\ \A o \in Handler \ {r} :
              /\ handler'[o] \in HandlerState
              /\ handler'[o].kind = handler[o].kind /\ handler'[o].stage = handler[o].stage
              /\ handler'[o].session = handler[o].session
              /\ handler'[o].data = handler[o].data /\ handler'[o].dirty = handler[o].dirty
              /\ handler'[o].marked = handler[o].marked
              /\ handler'[o].attached = handler[o].attached
              /\ handler[o] = NoRequest => handler'[o] = NoRequest
              /\ handler[o].old => handler'[o].old
              /\ SavesCopy(r) \/ handler[r].attached =>
                   handler'[o] = NoRequest \/ handler'[o].old
         /\ ~SavesCopy(r) => UNCHANGED <<session, cookie>>
         /\ SavesCopy(r) => cookie' = handler[r].session
         /\ SavesCopy(r) /\ handler[r].session = NoSession => session' = session
         /\ SavesCopy(r) /\ handler[r].session # NoSession =>
              session' = [session EXCEPT ![handler[r].session] = Row(SavedCopy(r))]
         /\ standing' = IF SavesCopy(r) /\ handler[r].marked THEN NoDemo
                        ELSE IF ~handler[r].attached THEN standing
                        ELSE IF handler[r].old \/ (handler[r].dirty /\ ~SavesCopy(r))
                             THEN NoDemo ELSE handler[r].demo
         /\ owed' = IF SavesCopy(r) /\ handler[r].marked THEN handler[r].data.marker
                    ELSE IF SavesCopy(r) /\ handler[r].old THEN NoDemo ELSE owed
         /\ handler' \in [Handler -> HandlerState]
<1> DEFINE h == handler[r]
           K(o) == \/ handler[o].old
                   \/ (SavesCopy(r) \/ h.attached) /\ handler[o] # NoRequest
<1>1. /\ handler[r].stage = "done" /\ UNCHANGED <<selection, made>>
      /\ ~SavesCopy(r) => UNCHANGED <<session, cookie>>
      /\ SavesCopy(r) => cookie' = handler[r].session
      /\ SavesCopy(r) /\ handler[r].session = NoSession => session' = session
      /\ SavesCopy(r) /\ handler[r].session # NoSession =>
           session' = [session EXCEPT ![handler[r].session] = Row(SavedCopy(r))]
  BY DEF Finish, SavesCopy, SavedCopy
<1>2. /\ standing' = IF SavesCopy(r) /\ handler[r].marked THEN NoDemo
                     ELSE IF ~handler[r].attached THEN standing
                     ELSE IF handler[r].old \/ (handler[r].dirty /\ ~SavesCopy(r))
                          THEN NoDemo ELSE handler[r].demo
      /\ owed' = IF SavesCopy(r) /\ handler[r].marked THEN handler[r].data.marker
                 ELSE IF SavesCopy(r) /\ handler[r].old THEN NoDemo ELSE owed
  BY DEF Finish, SavesCopy
<1>3. handler' = [o \in Handler |-> IF o = r THEN NoRequest
                                    ELSE [handler[o] EXCEPT !.old = K(o)]]
  BY DEF Finish, SavesCopy
<1>4. handler'[r] = NoRequest
  BY <1>3
<1>5. ASSUME NEW o \in Handler \ {r}
      PROVE  /\ handler'[o] = [handler[o] EXCEPT !.old = K(o)]
             /\ handler[o] \in HandlerState /\ K(o) \in BOOLEAN
  BY <1>3, HandlersAre DEF HandlerState
<1>6. ASSUME NEW o \in Handler \ {r}
      PROVE  /\ handler'[o] \in HandlerState
             /\ handler'[o].kind = handler[o].kind /\ handler'[o].stage = handler[o].stage
             /\ handler'[o].session = handler[o].session
             /\ handler'[o].data = handler[o].data /\ handler'[o].dirty = handler[o].dirty
             /\ handler'[o].marked = handler[o].marked
             /\ handler'[o].attached = handler[o].attached
             /\ handler'[o].old = K(o)
  <2>1. handler'[o] = Aged(handler[o], K(o))
    BY <1>5 DEF Aged
  <2>2. handler[o] \in HandlerState /\ K(o) \in BOOLEAN
    BY <1>5
  <2> HIDE DEF K, h
  <2> QED
    BY <2>1, <2>2, AgedIs
<1>7. ASSUME NEW o \in Handler \ {r}, handler[o] = NoRequest
      PROVE  handler'[o] = NoRequest
  <2>1. K(o) = FALSE
    BY <1>5, <1>7, NoRequestIs
  <2>2. [NoRequest EXCEPT !.old = FALSE] = NoRequest
    <3>1. \A g \in HandlerState : [g EXCEPT !.old = g.old] = g
      BY DEF HandlerState
    <3>2. NoRequest.old = FALSE
      BY DEF NoRequest
    <3> QED
      BY <3>1, <3>2, NoRequestIs
  <2>3. handler'[o] = [NoRequest EXCEPT !.old = K(o)]
    BY <1>5, <1>7
  <2> HIDE DEF K
  <2> QED
    BY <2>1, <2>2, <2>3
<1>8. handler' \in [Handler -> HandlerState]
  BY <1>3, <1>4, <1>6, NoRequestIs
<1>9. ASSUME NEW o \in Handler \ {r}
      PROVE  /\ handler[o].old => handler'[o].old
             /\ SavesCopy(r) \/ h.attached => handler'[o] = NoRequest \/ handler'[o].old
  BY <1>6, <1>7
<1> HIDE DEF K, h
<1> QED
  BY <1>1, <1>2, <1>4, <1>6, <1>7, <1>8, <1>9 DEF h

\* An answer saves its copy of the session over what others have saved.
LEMMA FinishStep ==
  ASSUME HandoffInv, TypeOK', NEW r \in Handler, Finish(r)
  PROVE  HandoffInv'
<1> DEFINE h == handler[r]
<1>0. HandoffTypeOK /\ RequestsKept /\ CopyIsCurrent /\ OwedIsHeld /\ NoOlderMarker
  BY DEF HandoffInv
<1>1. /\ h.stage = "done" /\ UNCHANGED <<selection, made>>
      /\ handler'[r] = NoRequest
      /\ handler' \in [Handler -> HandlerState]
      /\ ~SavesCopy(r) => UNCHANGED <<session, cookie>>
      /\ SavesCopy(r) => cookie' = h.session
      /\ SavesCopy(r) /\ h.session = NoSession => session' = session
      /\ SavesCopy(r) /\ h.session # NoSession =>
           session' = [session EXCEPT ![h.session] = Row(SavedCopy(r))]
  BY <1>0, FinishIs
<1>2. /\ standing' = IF SavesCopy(r) /\ h.marked THEN NoDemo
                     ELSE IF ~h.attached THEN standing
                     ELSE IF h.old \/ (h.dirty /\ ~SavesCopy(r)) THEN NoDemo ELSE h.demo
      /\ owed' = IF SavesCopy(r) /\ h.marked THEN h.data.marker
                 ELSE IF SavesCopy(r) /\ h.old THEN NoDemo ELSE owed
  BY <1>0, FinishIs
<1>3. ASSUME NEW o \in Handler \ {r}
      PROVE  /\ handler'[o].kind = handler[o].kind /\ handler'[o].stage = handler[o].stage
             /\ handler'[o].session = handler[o].session
             /\ handler'[o].data = handler[o].data /\ handler'[o].dirty = handler[o].dirty
             /\ handler'[o].marked = handler[o].marked
             /\ handler'[o].attached = handler[o].attached
  BY <1>0, FinishIs
<1>4. ASSUME NEW o \in Handler \ {r}
      PROVE  /\ handler[o] = NoRequest => handler'[o] = NoRequest
             /\ handler[o].old => handler'[o].old
             /\ SavesCopy(r) \/ h.attached => handler'[o] = NoRequest \/ handler'[o].old
  BY <1>0, FinishIs
<1>5. /\ h \in HandlerState /\ h.data \in SessionData /\ h.demo \in Choice
      /\ h.session \in Session \cup {NoSession} /\ h.data.marker \in Choice
  BY <1>0, HandlersAre
<1>6. /\ h.marked => h.session # NoSession
      /\ h.kind = "sign in" => h.dirty
      /\ h.attached => ~h.marked /\ h.data.marker = NoDemo
  BY <1>0, <1>1 DEF RequestsKept
<1>7. h # NoRequest
  BY <1>1, NoRequestIs
<1>8. /\ SavedCopy(r) \in SessionData /\ SavedCopy(r).marker = h.data.marker
      /\ Harmless(h.data) \/ (h.old /\ ~h.marked) => Harmless(SavedCopy(r))
  <2>1. h.old \in BOOLEAN /\ h.marked \in BOOLEAN
    BY <1>5 DEF HandlerState
  <2> QED
    BY <1>5, <2>1 DEF SavedCopy, SessionData, Harmless
<1>9. ASSUME SavesCopy(r), h.session # NoSession
      PROVE  /\ cookie' = h.session /\ Alive(cookie)'
             /\ session'[h.session].data = SavedCopy(r) /\ session'[h.session].alive
             /\ session' \in [Session -> SessionRow]
             /\ \A k \in Session \ {h.session} : session'[k] = session[k]
  <2>1. Row(SavedCopy(r)) \in SessionRow /\ Row(SavedCopy(r)).alive
        /\ Row(SavedCopy(r)).data = SavedCopy(r)
    BY <1>8 DEF Row, SessionRow
  <2>2. session' = [session EXCEPT ![h.session] = Row(SavedCopy(r))] /\ h.session \in Session
    BY <1>1, <1>5, <1>9
  <2>3. session'[h.session] = Row(SavedCopy(r))
    BY <1>0, <2>2 DEF HandoffTypeOK
  <2> QED
    BY <1>0, <1>1, <1>9, <2>1, <2>2, <2>3 DEF HandoffTypeOK, Alive
<1>10. HandoffTypeOK'
  <2>1. session' \in [Session -> SessionRow] /\ cookie' \in Session \cup {NoSession}
    BY <1>0, <1>1, <1>5, <1>9 DEF HandoffTypeOK
  <2>2. standing' \in Choice /\ owed' \in Choice
    BY <1>0, <1>2, <1>5 DEF HandoffTypeOK, Choice
  <2> QED
    BY <1>0, <1>1, <2>1, <2>2 DEF HandoffTypeOK
<1>11. RequestsKept'
  <2>1. ASSUME NEW q \in Handler \ {r} PROVE Kept(handler'[q])
    <3>1. Kept(handler[q])
      BY <1>0, KeptIs
    <3> QED
      BY <1>3, <3>1 DEF Kept
  <2>2. Kept(NoRequest)
    BY NoRequestIs DEF Kept
  <2> QED
    BY <1>1, <2>1, <2>2, KeptIs
<1>12. ASSUME NEW q \in Handler \ {r}, handler[q] # NoRequest, ~handler'[q].old,
              handler'[q] # NoRequest
       PROVE  ~SavesCopy(r) /\ ~h.attached /\ ~handler[q].old
  BY <1>4, <1>12
<1>13. CopyIsCurrent'
  <2>1. ASSUME NEW q \in Handler \ {r}, ~handler'[q].old,
               handler'[q].stage = "begun" \/ handler'[q].attached
        PROVE  ~SavesCopy(r) /\ ~handler[q].old
    <3>1. handler[q] # NoRequest /\ handler'[q] # NoRequest
      BY <1>3, <2>1, NoRequestIs
    <3> QED
      BY <1>12, <2>1, <3>1
  <2>2. ASSUME NEW q \in Handler \ {r}, handler'[q].stage = "begun", ~handler'[q].old,
               handler'[q].session # NoSession
        PROVE  /\ handler'[q].session = cookie'
               /\ Alive(cookie)' => session'[cookie'].data = handler'[q].data
    BY <1>0, <1>1, <1>3, <2>1, <2>2 DEF CopyIsCurrent, Alive
  <2>3. ASSUME NEW q \in Handler \ {r}, handler'[q].attached, ~handler'[q].dirty,
               ~handler'[q].old, Alive(cookie)'
        PROVE  session'[cookie'].data.marker = NoDemo
    BY <1>0, <1>1, <1>3, <2>1, <2>3 DEF CopyIsCurrent, Alive
  <2> QED
    BY <1>1, <2>2, <2>3, NoRequestIs DEF CopyIsCurrent
<1>14. OwedIsHeld'
  <2>1. CASE SavesCopy(r) /\ h.marked
    <3>1. Alive(cookie)' /\ session'[cookie'].data.marker = owed'
      BY <1>2, <1>6, <1>8, <1>9, <2>1
    <3>2. \A q \in Handler : handler'[q] = NoRequest \/ handler'[q].old
      BY <1>1, <1>4, <2>1
    <3> QED
      BY <3>1, <3>2 DEF OwedIsHeld, InSession
  <2>2. CASE SavesCopy(r) /\ ~h.marked
    <3>1. owed' = NoDemo \/ (owed' = owed /\ ~h.old)
      BY <1>2, <2>2
    <3>2. \A q \in Handler : handler'[q] = NoRequest \/ handler'[q].old
      BY <1>1, <1>4, <2>2
    <3>3. ASSUME ~h.old, owed' = owed, InSession PROVE InSession'
      <4>1. h.session # NoSession /\ h.data.marker = owed
        BY <1>7, <2>2, <3>3 DEF InSession, Alive
      <4>2. Alive(cookie)' /\ session'[cookie'].data.marker = owed'
        BY <1>8, <1>9, <2>2, <3>3, <4>1
      <4> QED
        BY <3>2, <4>2 DEF InSession
    <3>4. ASSUME owed' = owed, WithSignIn(r) PROVE InSession'
      <4>1. h.session # NoSession /\ h.data.marker = owed
        BY <3>4 DEF WithSignIn, Alive
      <4>2. Alive(cookie)' /\ session'[cookie'].data.marker = owed'
        BY <1>8, <1>9, <2>2, <3>4, <4>1
      <4> QED
        BY <3>2, <4>2 DEF InSession
    <3>5. ASSUME owed' = owed, NEW q \in Handler \ {r}, WithSignIn(q)
          PROVE  WithSignIn(q)'
      <4>1. /\ handler[q].session \in Session /\ handler[q].session # h.session
            /\ Alive(handler[q].session)
        BY <1>0, <3>5, HandlersAre DEF WithSignIn, Alive
      <4>2. Alive(handler[q].session)' /\ handler'[q].session # cookie'
        BY <1>1, <1>3, <1>9, <2>2, <4>1 DEF Alive
      <4>3. \A o \in Handler \ {q} : handler'[o].session # handler'[q].session
        <5>1. handler[q].session # NoSession /\ handler'[q].session = handler[q].session
          BY <1>3, <3>5 DEF WithSignIn, Alive
        <5>2. ASSUME NEW o \in Handler \ {q, r}
              PROVE  handler'[o].session # handler[q].session
          BY <1>3, <3>5 DEF WithSignIn
        <5>3. handler'[r].session # handler[q].session
          BY <1>1, <5>1, NoRequestIs
        <5> QED
          BY <5>1, <5>2, <5>3
      <4> QED
        BY <1>3, <3>5, <4>2, <4>3 DEF WithSignIn
    <3> QED
      BY <1>0, <3>1, <3>3, <3>4, <3>5 DEF OwedIsHeld
  <2>3. CASE ~SavesCopy(r)
    <3>1. UNCHANGED <<session, cookie, owed>>
      BY <1>1, <1>2, <2>3
    <3>2. ASSUME InSession PROVE InSession'
      <4>1. ASSUME NEW q \in Handler, handler'[q] # NoRequest, ~handler'[q].old
            PROVE  /\ handler'[q].session = cookie
                   /\ handler'[q].marked \/ handler'[q].data.marker = owed
        <5>1. q # r /\ handler[q] # NoRequest /\ ~handler[q].old
          BY <1>1, <1>4, <4>1
        <5> QED
          BY <1>3, <3>2, <5>1 DEF InSession
      <4> QED
        BY <3>1, <3>2, <4>1 DEF InSession, Alive
    <3>3. ~WithSignIn(r)
      BY <1>6, <2>3 DEF WithSignIn, SavesCopy
    <3>4. ASSUME NEW q \in Handler \ {r}, WithSignIn(q) PROVE WithSignIn(q)'
      <4>1. Alive(handler[q].session)' /\ handler'[q].session # cookie'
        BY <1>3, <3>1, <3>4 DEF WithSignIn, Alive
      <4>2. \A o \in Handler \ {q} : handler'[o].session # handler'[q].session
        <5>1. handler[q].session # NoSession /\ handler'[q].session = handler[q].session
          BY <1>3, <3>4 DEF WithSignIn, Alive
        <5>2. ASSUME NEW o \in Handler \ {q, r}
              PROVE  handler'[o].session # handler[q].session
          BY <1>3, <3>4 DEF WithSignIn
        <5>3. handler'[r].session # handler[q].session
          BY <1>1, <5>1, NoRequestIs
        <5> QED
          BY <5>1, <5>2, <5>3
      <4> QED
        BY <1>3, <3>1, <3>4, <4>1, <4>2 DEF WithSignIn
    <3> QED
      BY <1>0, <3>1, <3>2, <3>3, <3>4 DEF OwedIsHeld
  <2> QED
    BY <2>1, <2>2, <2>3
<1>15. NoOlderMarker'
  <2> DEFINE Fine == /\ Alive(cookie)' => Harmless(session'[cookie'].data)
                     /\ \A q \in Handler : \/ handler'[q].old \/ handler'[q].marked
                                           \/ Harmless(handler'[q].data)
  <2>1. Harmless(NoData)
    BY NoRequestIs DEF Harmless
  <2>2. ASSUME standing' # NoDemo, ~h.attached PROVE Fine
    <3>1. standing # NoDemo /\ ~(SavesCopy(r) /\ h.marked)
      BY <1>2, <2>2
    <3>2. /\ Alive(cookie) => Harmless(session[cookie].data)
          /\ \A q \in Handler : \/ handler[q].old \/ handler[q].marked
                                \/ Harmless(handler[q].data)
      BY <1>0, <3>1 DEF NoOlderMarker
    <3>3. ASSUME Alive(cookie)' PROVE Harmless(session'[cookie'].data)
      <4>1. CASE SavesCopy(r)
        <5>1. h.session # NoSession
          BY <1>1, <3>3, <4>1 DEF Alive
        <5>2. Harmless(SavedCopy(r))
          BY <1>8, <3>1, <3>2, <4>1
        <5> QED
          BY <1>9, <4>1, <5>1, <5>2
      <4>2. CASE ~SavesCopy(r)
        BY <1>1, <3>2, <3>3, <4>2 DEF Alive
      <4> QED
        BY <4>1, <4>2
    <3>4. ASSUME NEW q \in Handler
          PROVE  handler'[q].old \/ handler'[q].marked \/ Harmless(handler'[q].data)
      <4>1. CASE q = r
        BY <1>1, <2>1, <4>1, NoRequestIs
      <4>2. CASE q # r
        BY <1>3, <1>4, <3>2, <4>2
      <4> QED
        BY <4>1, <4>2
    <3> QED
      BY <3>3, <3>4
  <2>3. ASSUME standing' # NoDemo, h.attached PROVE Fine
    <3>1. ~h.old /\ (h.dirty => SavesCopy(r)) /\ ~h.marked /\ h.data.marker = NoDemo
      BY <1>2, <1>6, <2>3
    <3>2. ASSUME Alive(cookie)' PROVE Harmless(session'[cookie'].data)
      <4>1. CASE SavesCopy(r)
        <5>1. h.session # NoSession
          BY <1>1, <3>2, <4>1 DEF Alive
        <5>2. Harmless(SavedCopy(r))
          BY <1>8, <3>1 DEF Harmless
        <5> QED
          BY <1>9, <4>1, <5>1, <5>2
      <4>2. CASE ~SavesCopy(r)
        BY <1>0, <1>1, <2>3, <3>1, <3>2, <4>2 DEF CopyIsCurrent, Harmless, Alive
      <4> QED
        BY <4>1, <4>2
    <3>3. ASSUME NEW q \in Handler
          PROVE  handler'[q].old \/ handler'[q].marked \/ Harmless(handler'[q].data)
      BY <1>1, <1>4, <2>1, <2>3, NoRequestIs
    <3> QED
      BY <3>2, <3>3
  <2> QED
    BY <2>2, <2>3 DEF NoOlderMarker, Harmless
<1> QED
  BY <1>10, <1>11, <1>13, <1>14, <1>15 DEF HandoffInv

-----------------------------------------------------------------------------
(* The invariant of the hand-off, and what follows from it.                  *)

\* The selections and the drafts are not what the invariant is about.
LEMMA RestStep ==
  ASSUME HandoffInv, TypeOK', selection' \in [Demo -> SelectionRow],
         UNCHANGED <<session, cookie, handler, made, standing, owed>>
  PROVE  HandoffInv'
<1>1. \A s : Alive(s)' <=> Alive(s)
  BY DEF Alive
<1>2. HandoffTypeOK' /\ RequestsKept' /\ CopyIsCurrent'
  BY <1>1 DEF HandoffInv, HandoffTypeOK, RequestsKept, CopyIsCurrent
<1>3. (InSession => InSession') /\ \A r \in Handler : WithSignIn(r) => WithSignIn(r)'
  BY <1>1 DEF InSession, WithSignIn, Alive
<1>4. OwedIsHeld' /\ NoOlderMarker'
  BY <1>1, <1>3 DEF HandoffInv, OwedIsHeld, NoOlderMarker, Harmless
<1> QED
  BY <1>2, <1>4 DEF HandoffInv

\* The first request finds the invariant true ...
LEMMA HandoffInitInv == HandoffInit => IndInv /\ HandoffInv
<1> SUFFICES ASSUME HandoffInit PROVE IndInv /\ HandoffInv
  OBVIOUS
<1>1. IndInv
  BY InitInv DEF HandoffInit
<1>2. /\ cookie \in Session /\ cookie # NoSession
      /\ handler = [r \in Handler |-> NoRequest] /\ made = 0 /\ standing = NoDemo
  BY HandoffAssumption DEF HandoffInit
<1>3. \A r \in Handler : handler[r] = NoRequest
  BY <1>2
<1>4. PICK user \in {"nobody", "customer"}, marker \in Choice, here \in SUBSET Demo :
        /\ session = [s \in Session |->
             IF s = cookie THEN Row([NoData EXCEPT !.user = user, !.marker = marker])
             ELSE NoRow]
        /\ selection = [m \in Demo |->
             [status |-> IF m \in here \cup {marker} THEN "kept" ELSE "none",
              session |-> IF m \in here THEN cookie ELSE NoSession]]
        /\ owed = marker
  BY DEF HandoffInit
<1> DEFINE data == [NoData EXCEPT !.user = user, !.marker = marker]
<1>5. data \in SessionData /\ data.marker = marker
  BY NoRequestIs DEF SessionData, User
<1> HIDE DEF data
<1>6. /\ Row(data) \in SessionRow /\ Row(data).alive /\ Row(data).data = data
      /\ NoRow \in SessionRow
  BY <1>5, NoRequestIs DEF Row, NoRow, SessionRow
<1>7. session = [s \in Session |-> IF s = cookie THEN Row(data) ELSE NoRow]
  BY <1>4 DEF data
<1>8. Alive(cookie) /\ session[cookie].data.marker = owed
  BY <1>2, <1>4, <1>5, <1>6, <1>7 DEF Alive
<1>9. HandoffTypeOK
  <2>1. selection \in [Demo -> SelectionRow]
    BY <1>2, <1>4 DEF SelectionRow
  <2>2. session \in [Session -> SessionRow]
    BY <1>6, <1>7
  <2>3. handler \in [Handler -> HandlerState]
    BY <1>2, NoRequestIs
  <2>4. made \in 0..MaxRequests /\ standing \in Choice /\ owed \in Choice
    BY <1>2, <1>4, HandoffAssumption DEF Choice
  <2> QED
    BY <1>1, <1>2, <2>1, <2>2, <2>3, <2>4 DEF HandoffTypeOK, IndInv
<1>10. RequestsKept /\ CopyIsCurrent
  BY <1>3, NoRequestIs DEF RequestsKept, CopyIsCurrent
<1>11. OwedIsHeld
  BY <1>3, <1>8 DEF OwedIsHeld, InSession
<1>12. NoOlderMarker
  BY <1>2 DEF NoOlderMarker
<1> QED
  BY <1>1, <1>9, <1>10, <1>11, <1>12 DEF HandoffInv

\* ... and every step keeps it.
LEMMA HandoffStepInv ==
  IndInv /\ HandoffInv /\ [HandoffNext]_flowVars => (IndInv /\ HandoffInv)'
<1> SUFFICES ASSUME IndInv, HandoffInv, [HandoffNext]_flowVars
             PROVE  (IndInv /\ HandoffInv)'
  OBVIOUS
<1>1. HandoffTypeOK
  BY DEF HandoffInv
<1>2. IndInv'
  BY <1>1, HandoffStepIsStep, StepInv
<1>3. TypeOK'
  BY <1>2 DEF IndInv
<1>4. HandoffInv'
  <2>1. CASE \E r \in Handler :
               \/ \E kind \in RequestKind, demo \in Choice : Begin(r, kind, demo)
               \/ Configure(r)
               \/ StoreMarker(r) \/ AttachNamed(r) \/ SkipNamed(r) \/ NothingToDo(r)
    BY <1>3, <2>1, BeginStep, ConfigureStep, StoreMarkerStep, AttachNamedStep,
       ContactPageSteps
  <2>2. CASE \E r \in Handler :
               \/ \E token \in Token, fields \in Content : Finalize(r, token, fields)
               \/ Reject(r)
               \/ \E user \in {"customer", "staff"} : SignIn(r, user)
               \/ SignOut(r)
    BY <1>3, <2>2, EndOfPostSteps, SignInStep, SignOutStep
  <2>3. CASE \E r \in Handler :
               \/ AttachPending(r) \/ DropPending(r) \/ FailPending(r)
               \/ Finish(r) \/ Die(r)
    BY <1>3, <2>3, ContactPageSteps, FinishStep, DieStep
  <2>4. CASE \E m \in Demo : CleanUpSelection(m)
    <3>1. PICK m \in Demo : CleanUpSelection(m)
      BY <2>4
    <3>2. selection' \in [Demo -> SelectionRow]
      BY <1>1, <3>1 DEF CleanUpSelection, HandoffTypeOK, SelectionRow
    <3> QED
      BY <1>3, <3>1, <3>2, RestStep DEF CleanUpSelection, historyVars
  <2>5. CASE DeleteElsewhere
    BY <1>1, <1>3, <2>5, RestStep DEF DeleteElsewhere, handoffVars, HandoffTypeOK
  <2>6. CASE UNCHANGED flowVars
    BY <1>1, <1>3, <2>6, RestStep DEF flowVars, handoffVars, HandoffTypeOK
  <2> QED
    BY <2>1, <2>2, <2>3, <2>4, <2>5, <2>6 DEF HandoffNext
<1> QED
  BY <1>2, <1>4

\* The invariant of the hand-off: of every browser, with any number of requests
\* under way and sessions, whatever the order in which they read and save.
THEOREM HandoffInvariance == HandoffSpec => [](IndInv /\ HandoffInv)
<1>1. HandoffInit => IndInv /\ HandoffInv
  BY HandoffInitInv
<1>2. IndInv /\ HandoffInv /\ [HandoffNext]_flowVars => (IndInv /\ HandoffInv)'
  BY HandoffStepInv
<1> QED
  BY <1>1, <1>2, PTL DEF HandoffSpec

\* The hand-off does with the drafts only what FormDraft says of them, so its
\* theorems hold of every browser.
THEOREM HandoffImplementsDrafts == HandoffSpec => Spec
<1>1. HandoffInit => Init
  BY DEF HandoffInit
<1>2. HandoffInv /\ [HandoffNext]_flowVars => [Next]_vars
  BY HandoffStepIsStep DEF HandoffInv
<1> QED
  BY <1>1, <1>2, HandoffInvariance, PTL DEF HandoffSpec, Spec

\* So the promise of the contact form holds of the whole hand-off.
THEOREM HandoffKeepsSubmissions == HandoffSpec => KeepsSubmissions
BY HandoffImplementsDrafts, DraftsImplementSubmissions

\* A choice that an answered visit has marked stays pending until it is settled.
THEOREM ChoicesStayPending == HandoffSpec => []PendingUntilSettled
<1>1. HandoffInv => PendingUntilSettled
  BY DEF HandoffInv, OwedIsHeld, InSession, WithSignIn, PendingUntilSettled
<1> QED
  BY <1>1, HandoffInvariance, PTL

\* Nothing but a hand-off changes the demo of a usable draft.
LEMMA DemoKept ==
  ASSUME TypeOK, NEW d \in Usable,
         \/ \E expected \in Expected : Delete(expected)
         \/ \E sub, useSaved : Replay(sub) \/ Submit(sub, useSaved)
  PROVE  draft'[d].demo = draft[d].demo
<1>1. d \in Draft /\ draft[d] \in DraftRow /\ Usable # {}
  BY DEF Usable, TypeOK
<1>2. ASSUME NEW e \in Usable, draft' = [draft EXCEPT ![e] = Gone(@)]
      PROVE  draft'[d].demo = draft[d].demo
  <2>1. draft'[d] = IF d = e THEN Gone(draft[d]) ELSE draft[d]
    BY <1>1, <1>2 DEF TypeOK
  <2> QED
    BY <1>1, <2>1 DEF Gone, DraftRow
<1>3. ASSUME NEW sub, NEW useSaved, Submit(sub, useSaved)
      PROVE  draft'[d].demo = draft[d].demo
  <2>1. PICK e \in Usable :
          draft' = [draft EXCEPT ![e] = [[draft[e] EXCEPT !.revision = @ + 2] EXCEPT
                                           !.status = "submitted", !.token = sub.token]]
    BY <1>1, <1>3 DEF Submit, Turn, Commit
  <2>2. draft'[d] = IF d = e THEN [[draft[d] EXCEPT !.revision = @ + 2] EXCEPT
                                     !.status = "submitted", !.token = sub.token]
                    ELSE draft[d]
    BY <1>1, <2>1 DEF TypeOK
  <2> QED
    BY <1>1, <2>2 DEF DraftRow
<1> QED
  BY <1>1, <1>2, <1>3 DEF Delete, Commit, Replay

\* The step of AttachedChoiceStands.
LEMMA OnlyNewerReplace ==
  ASSUME IndInv, HandoffInv, [HandoffNext]_flowVars, NEW d \in Usable,
         standing # NoDemo, draft'[d].demo # draft[d].demo
  PROVE  \E r \in Handler :
           /\ handler'[r] # handler[r]
           /\ handler'[r].attached \/ handler[r].old \/ handler[r].data.crossed
<1>1. TypeOK /\ HandoffTypeOK /\ RequestsKept /\ NoOlderMarker
  BY DEF IndInv, HandoffInv
<1>2. CASE \E r \in Handler : AttachNamed(r)
  <2>1. PICK r \in Handler : AttachNamed(r)
    BY <1>2
  <2>2. handler[r] \in HandlerState /\ ~handler[r].attached
    BY <1>1, <2>1, HandlersAre DEF AttachNamed, OnContactPage, RequestsKept
  <2>3. handler'[r].attached
    BY <1>1, <2>1, <2>2 DEF AttachNamed, HandoffTypeOK, HandlerState
  <2> QED
    BY <2>2, <2>3
<1>3. CASE \E r \in Handler : AttachPending(r)
  <2>1. PICK r \in Handler : AttachPending(r)
    BY <1>3
  <2>2. /\ handler[r] \in HandlerState /\ handler[r].stage \in {"begun", "signed in"}
        /\ ~handler[r].marked /\ handler[r].data.marker # NoDemo
    BY <1>1, <2>1, HandlersAre
    DEF AttachPending, Consuming, At, OnContactPage, RequestsKept
  <2>3. handler'[r].stage \in {"handed off", "done"}
    BY <1>1, <2>1, <2>2 DEF AttachPending, Goes, Rest, HandoffTypeOK, HandlerState
  <2>4. handler[r].old \/ handler[r].data.crossed
    BY <1>1, <2>2 DEF NoOlderMarker, Harmless
  <2> QED
    BY <2>2, <2>3, <2>4
<1>4. CASE \/ DeleteElsewhere
           \/ \E r \in Handler, token \in Token, fields \in Content :
                Finalize(r, token, fields)
  BY <1>1, <1>4, DemoKept DEF DeleteElsewhere, Finalize
<1>5. CASE Aside
  BY <1>5, AsideLeavesDrafts DEF vars
<1> QED
  BY <1>2, <1>3, <1>4, <1>5 DEF HandoffNext, Aside

\* The choice an answered visit has attached gives way to a newer one only, or to
\* what was under way at the same time.
THEOREM AttachedChoicesStand == HandoffSpec => AttachedChoiceStands
<1> DEFINE Stands ==
      \A d \in Usable :
        /\ standing # NoDemo
        /\ draft[d].demo = standing
        /\ draft'[d].demo # draft[d].demo
        => \E r \in Handler :
             /\ handler'[r] # handler[r]
             /\ handler'[r].attached \/ handler[r].old \/ handler[r].data.crossed
<1>1. IndInv /\ HandoffInv /\ [HandoffNext]_flowVars => Stands
  BY OnlyNewerReplace
<1> HIDE DEF Stands
<1>2. [][Stands]_flowVars <=> AttachedChoiceStands
  BY DEF Stands, AttachedChoiceStands
<1> QED
  BY <1>1, <1>2, HandoffInvariance, PTL DEF HandoffSpec
=============================================================================
