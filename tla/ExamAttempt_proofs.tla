------------------------ MODULE ExamAttempt_proofs ------------------------
(***************************************************************************)
(* Theorems of ExamAttempt, for any number of entitlements, choices,       *)
(* events and points and any limits; and of ExamPage above it.             *)
(***************************************************************************)
EXTENDS ExamPage, FiniteSetTheorems, TLAPS

-----------------------------------------------------------------------------
(* Type correctness. *)

LEMMA LoweredTyped ==
  ASSUME NEW score \in Nat, NEW points \in Nat
  PROVE  Lowered(score, points) \in Nat
BY DEF Lowered

\* An attempt row stays one whatever the operations write to it.
LEMMA RowTyped ==
  ASSUME NEW row \in AttemptRow
  PROVE  /\ [row EXCEPT !.overdue = TRUE] \in AttemptRow
         /\ [row EXCEPT !.recent = FALSE] \in AttemptRow
         /\ [row EXCEPT !.status = "invalidated"] \in AttemptRow
         /\ \A b \in BOOLEAN :
              [row EXCEPT !.status = "in_progress", !.recent = TRUE,
                          !.acknowledged = b] \in AttemptRow
         /\ Stopped(row) \in AttemptRow
BY DEF AttemptRow, Stopped

LEMMA ChargedTyped ==
  ASSUME NEW row \in AttemptRow, NEW points \in Nat
  PROVE  Charged(row, points) \in AttemptRow
BY LoweredTyped DEF AttemptRow, Charged

LEMMA ScoredTyped ==
  ASSUME NEW row \in AttemptRow, NEW pace \in Nat,
         NEW r \in {"manual", "timeout"}
  PROVE  Scored(row, r, pace) \in AttemptRow
BY LoweredTyped DEF AttemptRow, Scored

\* Scoring keeps the rows it writes well-formed.
LEMMA CompleteTyped ==
  ASSUME TypeOK, NEW e \in Entitlement, NEW r \in {"manual", "timeout"},
         Complete(e, r)
  PROVE  /\ attempt' \in [Entitlement -> AttemptRow]
         /\ result' \in [Entitlement -> Choice \cup {NoChoice, NotScored}]
BY ScoredTyped, AttemptAssumption DEF TypeOK, Complete

\* A recorded event is an event row.
LEMMA RecordTyped ==
  ASSUME TypeOK, NEW e \in Entitlement, NEW kind, NEW id, NEW points,
         [kind |-> kind, id |-> id, points |-> points] \in EventRow,
         Record(e, kind, id, points)
  PROVE  events' \in [Entitlement -> SUBSET EventRow]
BY DEF TypeOK, Record

\* Every step keeps the types.
LEMMA TypeStep ==
  ASSUME TypeOK, NEW e \in Entitlement, Lifecycle(e) \/ Browser(e)
  PROVE  TypeOK'
<1>0. attempt[e] \in AttemptRow
  BY DEF TypeOK
<1>1. ASSUME NEW acknowledged \in BOOLEAN, Start(e, acknowledged)
      PROVE  TypeOK'
  <2>1. [attempt[e] EXCEPT !.status = "in_progress", !.recent = TRUE,
           !.acknowledged = acknowledged] \in AttemptRow
    BY <1>0, RowTyped
  <2>2. attempt' \in [Entitlement -> AttemptRow]
    BY <1>1, <2>1 DEF TypeOK, Start
  <2>3. access' \in [Entitlement -> [left: 0..1, revoked: BOOLEAN]]
    <3>1. access[e] \in [left: 0..1, revoked: BOOLEAN] /\ access[e].left = 1
      BY <1>1 DEF TypeOK, Start
    <3>2. [access[e] EXCEPT !.left = access[e].left - 1]
            \in [left: 0..1, revoked: BOOLEAN]
      BY <3>1
    <3> QED
      BY <1>1, <3>2 DEF TypeOK, Start
  <2> QED
    BY <1>1, <2>2, <2>3 DEF TypeOK, Start
<1>2. CASE DayPasses(e)
  <2>1. [attempt[e] EXCEPT !.recent = FALSE] \in AttemptRow
    BY <1>0, RowTyped
  <2> QED
    BY <1>2, <2>1 DEF TypeOK, DayPasses
<1>3. CASE TimeUp(e)
  <2>1. [attempt[e] EXCEPT !.overdue = TRUE] \in AttemptRow
    BY <1>0, RowTyped
  <2> QED
    BY <1>3, <2>1 DEF TypeOK, TimeUp
<1>4. CASE Visit(e)
  BY <1>4, CompleteTyped DEF TypeOK, Visit, CloseExpired
<1>5. CASE FinishOpen(e)
  BY <1>5 DEF TypeOK, FinishOpen
<1>6. CASE FinishSubmit(e)
  <2>1. /\ attempt' \in [Entitlement -> AttemptRow]
        /\ result' \in [Entitlement -> Choice \cup {NoChoice, NotScored}]
    BY <1>6, CompleteTyped DEF TypeOK, FinishSubmit, Submitted, CloseExpired
  <2> QED
    BY <1>6, <2>1 DEF TypeOK, FinishSubmit
<1>7. CASE Revoke(e)
  <2>1. [attempt[e] EXCEPT !.status = "invalidated"] \in AttemptRow
    BY <1>0, RowTyped
  <2>2. attempt' \in [Entitlement -> AttemptRow]
    BY <1>7, <2>1 DEF TypeOK, Revoke, Invalidated
  <2>3. access' \in [Entitlement -> [left: 0..1, revoked: BOOLEAN]]
    BY <1>7 DEF TypeOK, Revoke
  <2> QED
    BY <1>7, <2>2, <2>3 DEF TypeOK, Revoke
<1>8. CASE RefuseSave(e)
  BY <1>8, CompleteTyped DEF TypeOK, RefuseSave, CloseExpired
<1>9. ASSUME NEW choice \in Choice, Save(e, choice)
      PROVE  TypeOK'
  BY <1>9 DEF TypeOK, Save
<1>10. ASSUME NEW id \in CopyId, Copy(e, id)
       PROVE  TypeOK'
  <2>1. CopyPoints \in Nat
    BY AttemptAssumption
  <2>2. attempt' \in [Entitlement -> AttemptRow]
    BY <1>10, <2>1, ChargedTyped, RowTyped DEF TypeOK, Copy
  <2>3. [kind |-> "copy", id |-> id, points |-> CopyPoints] \in EventRow
    BY DEF EventRow
  <2>4. events' \in [Entitlement -> SUBSET EventRow]
    BY <1>10, <2>3, RecordTyped DEF Copy
  <2> QED
    BY <1>10, <2>2, <2>4 DEF TypeOK, Copy
<1>11. ASSUME NEW burst \in PasteBurst, Paste(e, burst)
       PROVE  TypeOK'
  <2>1. PastePoints \in Nat
    BY AttemptAssumption
  <2>2. attempt' \in [Entitlement -> AttemptRow]
    BY <1>11, <2>1, ChargedTyped DEF TypeOK, Paste
  <2>3. [kind |-> "paste", id |-> burst, points |-> PastePoints] \in EventRow
    BY DEF EventRow
  <2>4. events' \in [Entitlement -> SUBSET EventRow]
    BY <1>11, <2>3, RecordTyped DEF Paste
  <2> QED
    BY <1>11, <2>2, <2>4 DEF TypeOK, Paste
<1>12. ASSUME NEW id \in Absence, Hide(e, id)
       PROVE  TypeOK'
  <2>1. [kind |-> "hidden", id |-> id, points |-> 0] \in EventRow
    BY DEF EventRow
  <2>2. events' \in [Entitlement -> SUBSET EventRow]
    BY <1>12, <2>1, RecordTyped DEF Hide
  <2> QED
    BY <1>12, <2>2 DEF TypeOK, Hide
<1>13. ASSUME NEW id \in Absence, NEW points \in AwayPoints \cup {0},
              Return(e, id, points)
       PROVE  TypeOK'
  <2>1. points \in Nat
    BY AttemptAssumption
  <2>2. attempt' \in [Entitlement -> AttemptRow]
    BY <1>13, <2>1, ChargedTyped DEF TypeOK, Return
  <2>3. [kind |-> "returned", id |-> id, points |-> points] \in EventRow
    BY DEF EventRow
  <2>4. events' \in [Entitlement -> SUBSET EventRow]
    BY <1>13, <2>3, RecordTyped DEF Return
  <2> QED
    BY <1>13, <2>2, <2>4 DEF TypeOK, Return
<1> QED
  BY <1>1, <1>2, <1>3, <1>4, <1>5, <1>6, <1>7, <1>8, <1>9, <1>10, <1>11,
     <1>12, <1>13 DEF Lifecycle, Browser

-----------------------------------------------------------------------------
(* What a step on one entitlement does to the rows. *)

\* What a step may do to the row of the attempt it is about.
Untouched(e) ==
  /\ UNCHANGED <<access, attempt, events, result>>
  /\ answer' = answer \/ (InTime(e) /\ answer'[e] \in Choice)

Begun(e) ==
  \E acknowledged \in BOOLEAN :
    /\ Start(e, acknowledged)
    /\ attempt'[e] = [attempt[e] EXCEPT !.status = "in_progress",
                                        !.recent = TRUE,
                                        !.acknowledged = acknowledged]
    /\ access'[e] = [access[e] EXCEPT !.left = access[e].left - 1]

Aged(e) ==
  /\ attempt'[e] = [attempt[e] EXCEPT !.recent = FALSE]
  /\ UNCHANGED <<access, answer, events, result>>

RunOut(e) ==
  /\ Open(e)
  /\ attempt'[e] = [attempt[e] EXCEPT !.overdue = TRUE]
  /\ UNCHANGED <<access, answer, events, result>>

Completed(e) ==
  /\ Open(e)
  /\ \E pace \in PacePoints, r \in {"manual", "timeout"} :
       attempt'[e] = Scored(attempt[e], r, pace)
  /\ result'[e] = answer[e]
  /\ UNCHANGED <<access, answer, events>>

Revoked(e) ==
  /\ access'[e] = [access[e] EXCEPT !.revoked = TRUE]
  /\ attempt'[e] = IF Open(e) THEN [attempt[e] EXCEPT !.status = "invalidated"]
                   ELSE attempt[e]
  /\ UNCHANGED <<answer, events, result>>

Copied(e) ==
  /\ InTime(e)
  /\ \E id \in CopyId : ~Recorded(e, "copy", id) /\ events'[e] = events[e] \cup
       {[kind |-> "copy", id |-> id, points |-> CopyPoints]}
  /\ attempt'[e] = IF CopyLimited(e) /\ AtCopyLimit(e)
                   THEN Stopped(Charged(attempt[e], CopyPoints))
                   ELSE Charged(attempt[e], CopyPoints)
  /\ UNCHANGED <<access, answer, result>>

Signalled(e) ==
  /\ InTime(e)
  /\ \E kind \in {"paste", "hidden", "returned"} : \E id : \E points \in Nat :
       /\ ~Recorded(e, kind, id)
       /\ kind = "returned" /\ points > 0 => Recorded(e, "hidden", id)
       /\ events'[e] = events[e] \cup
            {[kind |-> kind, id |-> id, points |-> points]}
       /\ attempt'[e] = Charged(attempt[e], points)
  /\ UNCHANGED <<access, answer, result>>

\* The rows of the other entitlements are left alone.
OthersAlone(e) ==
  \A f \in Entitlement \ {e} :
    /\ access'[f] = access[f]
    /\ attempt'[f] = attempt[f]
    /\ answer'[f] = answer[f]
    /\ events'[f] = events[f]
    /\ result'[f] = result[f]

\* Scoring, whoever asks for it.
LEMMA CompleteMoves ==
  ASSUME TypeOK, NEW e \in Entitlement, NEW r \in {"manual", "timeout"},
         Open(e), Complete(e, r), UNCHANGED <<access, answer, events>>
  PROVE  Completed(e) /\ OthersAlone(e)
BY DEF TypeOK, Complete, Completed, OthersAlone

LEMMA RowsMove ==
  ASSUME TypeOK, NEW e \in Entitlement, Lifecycle(e) \/ Browser(e)
  PROVE  /\ OthersAlone(e)
         /\ \/ Untouched(e) \/ Begun(e) \/ Aged(e) \/ RunOut(e)
            \/ Completed(e) \/ Revoked(e) \/ Copied(e) \/ Signalled(e)
<1>1. ASSUME NEW acknowledged \in BOOLEAN, Start(e, acknowledged)
      PROVE  Begun(e) /\ OthersAlone(e)
  BY <1>1 DEF TypeOK, Start, Begun, OthersAlone
<1>2. CASE DayPasses(e)
  BY <1>2 DEF TypeOK, DayPasses, Aged, OthersAlone
<1>3. CASE TimeUp(e)
  BY <1>3 DEF TypeOK, TimeUp, RunOut, OthersAlone
<1>4. CASE Visit(e)
  BY <1>4, CompleteMoves DEF Visit, CloseExpired, Expired
<1>5. CASE FinishOpen(e)
  BY <1>5 DEF FinishOpen, Untouched, OthersAlone
<1>6. CASE FinishSubmit(e)
  <2>1. CASE ~Open(e) /\ UNCHANGED <<attempt, result>>
    BY <1>6, <2>1 DEF FinishSubmit, Untouched, OthersAlone
  <2> QED
    BY <1>6, <2>1, CompleteMoves
       DEF FinishSubmit, Submitted, CloseExpired, Expired, InTime
<1>7. CASE Revoke(e)
  BY <1>7 DEF TypeOK, Revoke, Invalidated, Revoked, OthersAlone
<1>8. CASE RefuseSave(e)
  <2>1. CASE UNCHANGED <<attempt, result>>
    BY <1>8, <2>1 DEF RefuseSave, Untouched, OthersAlone
  <2> QED
    BY <1>8, <2>1, CompleteMoves DEF RefuseSave, CloseExpired, Expired
<1>9. ASSUME NEW choice \in Choice, Save(e, choice)
      PROVE  Untouched(e) /\ OthersAlone(e)
  BY <1>9 DEF TypeOK, Save, Untouched, OthersAlone
<1>10. ASSUME NEW id \in CopyId, Copy(e, id)
       PROVE  Copied(e) /\ OthersAlone(e)
  <2>1. OthersAlone(e)
    BY <1>10 DEF TypeOK, Copy, Record, OthersAlone
  <2>2. attempt'[e] = IF CopyLimited(e) /\ AtCopyLimit(e)
                      THEN Stopped(Charged(attempt[e], CopyPoints))
                      ELSE Charged(attempt[e], CopyPoints)
    BY <1>10 DEF TypeOK, Copy
  <2>3. events'[e] = events[e] \cup
          {[kind |-> "copy", id |-> id, points |-> CopyPoints]}
    BY <1>10 DEF TypeOK, Copy, Record
  <2> QED
    BY <1>10, <2>1, <2>2, <2>3 DEF Copy, Copied
<1>11. ASSUME NEW burst \in PasteBurst, Paste(e, burst)
       PROVE  Signalled(e) /\ OthersAlone(e)
  <2>1. /\ events'[e] = events[e] \cup
             {[kind |-> "paste", id |-> burst, points |-> PastePoints]}
        /\ attempt'[e] = Charged(attempt[e], PastePoints)
    BY <1>11 DEF TypeOK, Paste, Record
  <2>2. OthersAlone(e)
    BY <1>11 DEF TypeOK, Paste, Record, OthersAlone
  <2> QED
    BY <1>11, <2>1, <2>2, AttemptAssumption DEF Paste, Signalled
<1>12. ASSUME NEW id \in Absence, Hide(e, id)
       PROVE  Signalled(e) /\ OthersAlone(e)
  <2>1. /\ events'[e] = events[e] \cup
             {[kind |-> "hidden", id |-> id, points |-> 0]}
        /\ attempt'[e] = attempt[e]
    BY <1>12 DEF TypeOK, Hide, Record
  <2>3. Charged(attempt[e], 0) = attempt[e]
    <3>1. attempt[e] \in AttemptRow
      BY DEF TypeOK
    <3>2. Lowered(attempt[e].score, 0) = attempt[e].score
      <4>1. attempt[e].score \in Nat
        BY <3>1 DEF AttemptRow
      <4> QED
        BY <4>1 DEF Lowered
    <3> QED
      BY <3>1, <3>2 DEF AttemptRow, Charged
  <2>2. OthersAlone(e)
    BY <1>12 DEF TypeOK, Hide, Record, OthersAlone
  <2> QED
    BY <1>12, <2>1, <2>2, <2>3 DEF Hide, Signalled
<1>13. ASSUME NEW id \in Absence, NEW points \in AwayPoints \cup {0},
              Return(e, id, points)
       PROVE  Signalled(e) /\ OthersAlone(e)
  <2>1. /\ events'[e] = events[e] \cup
             {[kind |-> "returned", id |-> id, points |-> points]}
        /\ attempt'[e] = Charged(attempt[e], points)
    BY <1>13 DEF TypeOK, Return, Record
  <2>2. OthersAlone(e)
    BY <1>13 DEF TypeOK, Return, Record, OthersAlone
  <2>3. points \in Nat
    BY AttemptAssumption
  <2>4. /\ ~Recorded(e, "returned", id)
        /\ points > 0 => Recorded(e, "hidden", id)
    BY <1>13, <2>3 DEF Return, Paired
  <2>5. InTime(e) /\ UNCHANGED <<access, answer, result>>
    BY <1>13 DEF Return
  <2> QED
    BY <2>1, <2>2, <2>3, <2>4, <2>5 DEF Signalled
<1> QED
  BY <1>1, <1>2, <1>3, <1>4, <1>5, <1>6, <1>7, <1>8, <1>9, <1>10, <1>11,
     <1>12, <1>13 DEF Lifecycle, Browser

-----------------------------------------------------------------------------
(* The parts of the invariant, each kept by every move.  A part speaks of    *)
(* one entitlement at a time, so it is enough to look at the row that moves. *)

LEMMA ResultStep ==
  ASSUME TypeOK, ResultIsOfStoredAnswers, NEW e \in Entitlement,
         Lifecycle(e) \/ Browser(e)
  PROVE  ResultIsOfStoredAnswers'
<1>1. OthersAlone(e)
  BY RowsMove
<1>2. /\ result'[e] # NotScored <=> attempt'[e].status = "completed"
      /\ result'[e] # NotScored => result'[e] = answer'[e]
  <2>0. /\ result[e] # NotScored <=> attempt[e].status = "completed"
        /\ result[e] # NotScored => result[e] = answer[e]
        /\ attempt[e] \in AttemptRow
    BY DEF ResultIsOfStoredAnswers, TypeOK
  <2>1. CASE Untouched(e)
    BY <2>0, <2>1 DEF Untouched, InTime, Open
  <2>2. CASE Begun(e)
    BY <2>0, <2>2 DEF Begun, Start, AttemptRow
  <2>3. CASE Aged(e) \/ RunOut(e)
    BY <2>0, <2>3 DEF Aged, RunOut, AttemptRow
  <2>4. CASE Completed(e)
    <3>1. answer[e] # NotScored
      BY AttemptAssumption DEF TypeOK
    <3>2. attempt'[e].status = "completed"
      BY <2>0, <2>4 DEF Completed, Scored, AttemptRow
    <3> QED
      BY <2>4, <3>1, <3>2 DEF Completed
  <2>5. CASE Revoked(e)
    BY <2>0, <2>5 DEF Revoked, AttemptRow, Open
  <2>6. CASE Copied(e)
    BY <2>0, <2>6 DEF Copied, AttemptRow, InTime, Open, Stopped, Charged
  <2>7. CASE Signalled(e)
    BY <2>0, <2>7 DEF Signalled, AttemptRow, InTime, Open, Charged
  <2> QED
    BY <2>1, <2>2, <2>3, <2>4, <2>5, <2>6, <2>7, RowsMove
<1> QED
  BY <1>1, <1>2 DEF ResultIsOfStoredAnswers, OthersAlone

LEMMA StartsStep ==
  ASSUME TypeOK, TypeOK', StartsAreLimited, NEW e \in Entitlement,
         Lifecycle(e) \/ Browser(e)
  PROVE  StartsAreLimited'
<1>1. OthersAlone(e)
  BY RowsMove
<1>2. attempt[e] \in AttemptRow /\ access[e] \in [left: 0..1, revoked: BOOLEAN]
  BY DEF TypeOK
<1>3. IsFiniteSet(StartedToday) /\ Cardinality(StartedToday) \in Nat
  <2>1. StartedToday \in SUBSET Entitlement
    BY DEF StartedToday
  <2> QED
    BY <2>1, AttemptAssumption, FS_Subset, FS_CardinalityType
<1>4. \/ Begun(e)
      \/ /\ attempt'[e].recent => attempt[e].recent
         /\ access'[e].left = access[e].left
         /\ attempt'[e].status = "none" <=> attempt[e].status = "none"
  <2>1. CASE Untouched(e)
    BY <2>1 DEF Untouched
  <2>2. CASE Aged(e) \/ RunOut(e)
    BY <1>2, <2>2 DEF Aged, RunOut, AttemptRow
  <2>3. CASE Completed(e)
    BY <1>2, <2>3 DEF Completed, Scored, AttemptRow, Open
  <2>4. CASE Revoked(e)
    BY <1>2, <2>4 DEF Revoked, AttemptRow, Open
  <2>5. CASE Copied(e)
    BY <1>2, <2>5 DEF Copied, Stopped, Charged, AttemptRow, Open, InTime
  <2>6. CASE Signalled(e)
    BY <1>2, <2>6 DEF Signalled, Charged, AttemptRow
  <2> QED
    BY <2>1, <2>2, <2>3, <2>4, <2>5, <2>6, RowsMove
<1>5. CASE Begun(e)
  <2>1. StartedToday' = StartedToday \cup {e}
    BY <1>1, <1>2, <1>5 DEF StartedToday, Begun, OthersAlone, AttemptRow
  <2>2. Cardinality(StartedToday) < PerDay
    BY <1>5 DEF Begun, Start, MayStart
  <2>3. Cardinality(StartedToday \cup {e}) <= Cardinality(StartedToday) + 1
    <3>1. Cardinality(StartedToday \cup {e}) =
            IF e \in StartedToday THEN Cardinality(StartedToday)
            ELSE Cardinality(StartedToday) + 1
      BY <1>3, FS_AddElement, ZenonT(60)
    <3>2. \A n \in Nat : n <= n + 1
      OBVIOUS
    <3> QED
      BY <1>3, <3>1, <3>2
  <2>4. /\ PerDay \in Nat
        /\ Cardinality(StartedToday \cup {e}) \in Nat
    BY <1>3, AttemptAssumption, FS_AddElement, FS_CardinalityType
  <2>5. Cardinality(StartedToday \cup {e}) <= PerDay
    BY <1>3, <2>2, <2>3, <2>4
  <2>6. (Cardinality(StartedToday) <= PerDay)'
    BY <2>1, <2>5
  <2>7. access[e].left = 1
    BY <1>2, <1>5 DEF Begun, Start
  <2>8. access'[e].left = 0
    BY <1>2, <1>5, <2>7 DEF Begun
  <2>9. attempt'[e].status = "in_progress"
    BY <1>2, <1>5 DEF Begun, AttemptRow
  <2> QED
    BY <1>1, <2>6, <2>8, <2>9 DEF StartsAreLimited, OthersAlone
<1>6. CASE /\ attempt'[e].recent => attempt[e].recent
           /\ access'[e].left = access[e].left
           /\ attempt'[e].status = "none" <=> attempt[e].status = "none"
  <2>1. StartedToday' \in SUBSET StartedToday
    BY <1>1, <1>6 DEF StartedToday, OthersAlone
  <2>2. /\ Cardinality(StartedToday') <= Cardinality(StartedToday)
        /\ Cardinality(StartedToday') \in Nat
    BY <1>3, <2>1, FS_Subset, FS_CardinalityType
  <2>3. Cardinality(StartedToday') <= PerDay
    BY <1>3, <2>2, AttemptAssumption DEF StartsAreLimited
  <2> QED
    BY <1>1, <1>6, <2>3 DEF StartsAreLimited, OthersAlone
<1> QED
  BY <1>4, <1>5, <1>6

LEMMA RevokedStep ==
  ASSUME TypeOK, RevokedIsClosed, NEW e \in Entitlement,
         Lifecycle(e) \/ Browser(e)
  PROVE  RevokedIsClosed'
<1>1. OthersAlone(e)
  BY RowsMove
<1>2. /\ attempt[e] \in AttemptRow
      /\ access[e] \in [left: 0..1, revoked: BOOLEAN]
      /\ access[e].revoked => ~Open(e)
  BY DEF TypeOK, RevokedIsClosed
<1>3. access'[e].revoked => attempt'[e].status # "in_progress"
  <2>1. CASE Untouched(e) \/ Begun(e) \/ Aged(e) \/ RunOut(e)
    BY <1>2, <2>1 DEF Untouched, Begun, Start, Aged, RunOut, AttemptRow, Open
  <2>2. CASE Completed(e) \/ Revoked(e)
    BY <1>2, <2>2 DEF Completed, Revoked, AttemptRow, Scored, Open, InTime
  <2>3. CASE Copied(e) \/ Signalled(e)
    BY <1>2, <2>3 DEF Copied, Signalled, AttemptRow, Charged, Stopped, Open, InTime
  <2> QED
    BY <2>1, <2>2, <2>3, RowsMove
<1> QED
  BY <1>1, <1>3 DEF RevokedIsClosed, OthersAlone, Open

LEMMA AcknowledgedStep ==
  ASSUME TypeOK, GiftsAcknowledged, OpenIsUnstopped, NEW e \in Entitlement,
         Lifecycle(e) \/ Browser(e)
  PROVE  GiftsAcknowledged' /\ OpenIsUnstopped'
<1>1. OthersAlone(e)
  BY RowsMove
<1>2. /\ attempt[e] \in AttemptRow
      /\ e \in Gift /\ attempt[e].status # "none" => attempt[e].acknowledged
      /\ attempt[e].status \in {"none", "in_progress"} => attempt[e].reason = ""
  BY DEF TypeOK, GiftsAcknowledged, OpenIsUnstopped
<1>3. /\ e \in Gift /\ attempt'[e].status # "none" => attempt'[e].acknowledged
      /\ attempt'[e].status \in {"none", "in_progress"}
           => attempt'[e].reason = ""
  <2>1. CASE Untouched(e)
    BY <1>2, <2>1 DEF Untouched
  <2>2. CASE Begun(e)
    <3>1. PICK acknowledged \in BOOLEAN :
            /\ Start(e, acknowledged)
            /\ attempt'[e] = [attempt[e] EXCEPT !.status = "in_progress",
                                !.recent = TRUE,
                                !.acknowledged = acknowledged]
      BY <2>2 DEF Begun
    <3>2. /\ attempt'[e].acknowledged = acknowledged
          /\ attempt'[e].reason = attempt[e].reason
      BY <1>2, <3>1 DEF AttemptRow
    <3>3. e \in Gift => acknowledged
      BY <3>1 DEF Start
    <3>4. attempt[e].reason = ""
      BY <1>2, <3>1 DEF Start
    <3> QED
      BY <3>2, <3>3, <3>4
  <2>3. CASE Aged(e) \/ RunOut(e)
    BY <1>2, <2>3 DEF Aged, RunOut, AttemptRow
  <2>4. CASE Completed(e)
    BY <1>2, <2>4 DEF Completed, Scored, AttemptRow, Open
  <2>5. CASE Revoked(e)
    BY <1>2, <2>5 DEF Revoked, AttemptRow, Open
  <2>6. CASE Copied(e)
    BY <1>2, <2>6 DEF Copied, Stopped, Charged, AttemptRow, Open, InTime
  <2>7. CASE Signalled(e)
    BY <1>2, <2>7 DEF Signalled, Charged, AttemptRow, Open, InTime
  <2> QED
    BY <2>1, <2>2, <2>3, <2>4, <2>5, <2>6, <2>7, RowsMove
<1> QED
  BY <1>1, <1>3, AttemptAssumption
     DEF GiftsAcknowledged, OpenIsUnstopped, OthersAlone

\* No time runs before the start.
LEMMA UnusedStep ==
  ASSUME TypeOK, UnusedInTime, NEW e \in Entitlement, Lifecycle(e) \/ Browser(e)
  PROVE  UnusedInTime'
<1>1. OthersAlone(e)
  BY RowsMove
<1>2. attempt[e] \in AttemptRow /\ (attempt[e].status = "none" => ~attempt[e].overdue)
  BY DEF TypeOK, UnusedInTime
<1>3. attempt'[e].status = "none" =>
        /\ attempt[e].status = "none"
        /\ attempt'[e].overdue = attempt[e].overdue
  <2>1. CASE Untouched(e)
    BY <1>2, <2>1 DEF Untouched
  <2>2. CASE Begun(e) \/ Aged(e) \/ RunOut(e)
    BY <1>2, <2>2 DEF Begun, Aged, RunOut, AttemptRow, Open
  <2>3. CASE Completed(e) \/ Revoked(e)
    BY <1>2, <2>3 DEF Completed, Scored, Revoked, AttemptRow, Open
  <2>4. CASE Copied(e) \/ Signalled(e)
    BY <1>2, <2>4 DEF Copied, Signalled, Stopped, Charged, AttemptRow, Open, InTime
  <2> QED
    BY <2>1, <2>2, <2>3, <2>4, RowsMove
<1> QED
  BY <1>1, <1>2, <1>3 DEF UnusedInTime, OthersAlone

LEMMA FiniteStep ==
  ASSUME TypeOK, EventsFinite, NEW e \in Entitlement,
         Lifecycle(e) \/ Browser(e)
  PROVE  EventsFinite'
<1>1. OthersAlone(e)
  BY RowsMove
<1>2. events'[e] = events[e] \/ \E event : events'[e] = events[e] \cup {event}
  BY RowsMove
     DEF Untouched, Begun, Start, Aged, RunOut, Completed, Revoked, Copied,
         Signalled
<1>3. IsFiniteSet(events'[e])
  BY <1>2, FS_AddElement DEF EventsFinite
<1> QED
  BY <1>1, <1>3 DEF EventsFinite, OthersAlone

\* The copy stop is exact: an open gift attempt is below the limit, so the copy
\* that stops it is the one that reaches it.
LEMMA CopyStopStep ==
  ASSUME TypeOK, CopyStopIsExact, GiftsAcknowledged, OpenIsUnstopped,
         EventsFinite, NEW e \in Entitlement, Lifecycle(e) \/ Browser(e)
  PROVE  CopyStopIsExact'
<1> DEFINE copies == Cardinality(EventsOf(e, "copy"))
<1>1. OthersAlone(e)
  BY RowsMove
<1>2. /\ attempt[e] \in AttemptRow
      /\ e \in Gift /\ attempt[e].status # "none" => attempt[e].acknowledged
      /\ attempt[e].status \in {"none", "in_progress"} => attempt[e].reason = ""
      /\ attempt[e].reason = "copy_limit" => e \in Gift /\ copies = CopyLimit
      /\ e \in Gift /\ copies >= CopyLimit => attempt[e].reason = "copy_limit"
  BY DEF TypeOK, GiftsAcknowledged, OpenIsUnstopped, CopyStopIsExact
<1>3. IsFiniteSet(EventsOf(e, "copy")) /\ copies \in Nat
  <2>1. EventsOf(e, "copy") \in SUBSET events[e]
    BY DEF EventsOf
  <2> QED
    BY <2>1, FS_Subset, FS_CardinalityType DEF EventsFinite
<1>4. CopyLimit \in Nat
  BY AttemptAssumption
<1>5. /\ attempt'[e].reason = "copy_limit" => e \in Gift /\ copies' = CopyLimit
      /\ e \in Gift /\ copies' >= CopyLimit
           => attempt'[e].reason = "copy_limit"
  <2>1. CASE Untouched(e) \/ Begun(e) \/ Aged(e) \/ RunOut(e) \/ Revoked(e)
    <3>1. EventsOf(e, "copy")' = EventsOf(e, "copy")
      BY <2>1 DEF Untouched, Begun, Start, Aged, RunOut, Revoked, EventsOf
    <3>2. attempt'[e].reason = attempt[e].reason
      BY <1>2, <2>1 DEF Untouched, Begun, Aged, RunOut, Revoked, AttemptRow
    <3> QED
      BY <1>2, <3>1, <3>2
  <2>2. CASE Completed(e)
    <3>1. EventsOf(e, "copy")' = EventsOf(e, "copy")
      BY <2>2 DEF Completed, EventsOf
    <3>2. attempt'[e].reason \in {"manual", "timeout"}
      BY <1>2, <2>2 DEF Completed, Scored, AttemptRow
    <3>3. attempt[e].reason = ""
      BY <1>2, <2>2 DEF Completed, Open
    <3> QED
      BY <1>2, <3>1, <3>2, <3>3
  <2>3. CASE Copied(e)
    <3>1. Open(e) /\ attempt[e].reason = ""
      BY <1>2, <2>3 DEF Copied, InTime, Open
    <3>2. copies' = copies + 1
      <4>1. PICK id \in CopyId :
              /\ ~Recorded(e, "copy", id)
              /\ events'[e] = events[e] \cup
                   {[kind |-> "copy", id |-> id, points |-> CopyPoints]}
        BY <2>3 DEF Copied
      <4> DEFINE new == [kind |-> "copy", id |-> id, points |-> CopyPoints]
      <4>2. EventsOf(e, "copy")' = EventsOf(e, "copy") \cup {new}
        BY <4>1 DEF EventsOf
      <4>3. new \notin EventsOf(e, "copy")
        BY <4>1 DEF Recorded
      <4> HIDE DEF new
      <4> QED
        BY <1>3, <4>2, <4>3, FS_AddElement
    <3>3. CASE CopyLimited(e) /\ AtCopyLimit(e)
      <4>1. attempt'[e].reason = "copy_limit"
        BY <1>2, <2>3, <3>3 DEF Copied, Stopped, Charged, AttemptRow
      <4>2. e \in Gift /\ copies + 1 >= CopyLimit
        BY <3>3 DEF CopyLimited, AtCopyLimit
      <4>3. ~(copies >= CopyLimit)
        BY <1>2, <3>1, <4>2
      <4> QED
        BY <1>3, <1>4, <3>2, <4>1, <4>2, <4>3
    <3>4. CASE ~(CopyLimited(e) /\ AtCopyLimit(e))
      <4>1. attempt'[e].reason = ""
        BY <1>2, <2>3, <3>1, <3>4 DEF Copied, Charged, AttemptRow
      <4>2. e \in Gift => ~(copies + 1 >= CopyLimit)
        BY <1>2, <3>1, <3>4 DEF CopyLimited, AtCopyLimit, Open
      <4> QED
        BY <3>2, <4>1, <4>2
    <3> QED
      BY <3>3, <3>4
  <2>4. CASE Signalled(e)
    <3>1. EventsOf(e, "copy")' = EventsOf(e, "copy")
      BY <2>4 DEF Signalled, EventsOf
    <3>2. attempt'[e].reason = attempt[e].reason
      BY <1>2, <2>4 DEF Signalled, Charged, AttemptRow
    <3> QED
      BY <1>2, <3>1, <3>2
  <2> QED
    BY <2>1, <2>2, <2>3, <2>4, RowsMove
<1>6. \A f \in Entitlement \ {e} :
        EventsOf(f, "copy")' = EventsOf(f, "copy")
  BY <1>1 DEF OthersAlone, EventsOf
<1> QED
  BY <1>1, <1>5, <1>6 DEF CopyStopIsExact, OthersAlone

-----------------------------------------------------------------------------
(* The points of a set of events.  Their sum is a fold over the set, which   *)
(* takes the events in whatever order CHOOSE has; it is the number of        *)
(* tokens, which has no order.                                               *)

\* An event worth n points is n tokens.
TokensOf(event) == {event} \X (1..event.points)
Tokens(S) == UNION {TokensOf(event) : event \in S}

PointsOf(S) == MapThenSumSet(LAMBDA event : event.points, S)

Chosen(s) == CHOOSE x \in s : TRUE

\* What the fold's recursion asks of a function.
IsSum(sum, S) ==
  sum = [s \in SUBSET S |->
           IF s = {} THEN 0 ELSE Chosen(s).points + sum[s \ {Chosen(s)}]]

\* The fold is the function its recursion defines.
LEMMA PointsOfIs ==
  ASSUME NEW S
  PROVE  PointsOf(S) = (CHOOSE sum : IsSum(sum, S))[S]
BY DEF PointsOf, MapThenSumSet, MapThenFoldSet, IsSum, Chosen

\* An event has as many tokens as points.
LEMMA TokensOfOne ==
  ASSUME NEW event, event.points \in Nat
  PROVE  /\ IsFiniteSet(TokensOf(event))
         /\ Cardinality(TokensOf(event)) = event.points
<1>1. /\ IsFiniteSet({event})
      /\ Cardinality({event}) = 1
  BY FS_Singleton
<1>2. /\ IsFiniteSet(1..event.points)
      /\ Cardinality(1..event.points) = event.points
  BY FS_Interval
<1>3. /\ IsFiniteSet({event} \X (1..event.points))
      /\ Cardinality({event} \X (1..event.points)) =
           Cardinality({event}) * Cardinality(1..event.points)
  BY <1>1, <1>2, FS_Product
<1>4. Cardinality({event}) * Cardinality(1..event.points) = event.points
  BY <1>1, <1>2
<1> QED
  BY <1>3, <1>4 DEF TokensOf

\* A further event adds its own tokens.
LEMMA TokensAdd ==
  ASSUME NEW S, NEW event, event \notin S, event.points \in Nat,
         IsFiniteSet(Tokens(S))
  PROVE  /\ IsFiniteSet(Tokens(S \cup {event}))
         /\ Cardinality(Tokens(S \cup {event})) =
              event.points + Cardinality(Tokens(S))
<1>1. /\ IsFiniteSet(TokensOf(event))
      /\ Cardinality(TokensOf(event)) = event.points
  BY TokensOfOne
<1>2. Tokens(S \cup {event}) = Tokens(S) \cup TokensOf(event)
  BY DEF Tokens
<1>3. Tokens(S) \cap TokensOf(event) = {}
  BY DEF Tokens, TokensOf
<1>4. /\ Cardinality({}) = 0
      /\ Cardinality(Tokens(S)) \in Nat
  BY FS_EmptySet, FS_CardinalityType
<1>5. /\ IsFiniteSet(Tokens(S) \cup TokensOf(event))
      /\ Cardinality(Tokens(S) \cup TokensOf(event)) =
           Cardinality(Tokens(S)) + Cardinality(TokensOf(event))
             - Cardinality(Tokens(S) \cap TokensOf(event))
  BY <1>1, FS_Union
<1>6. /\ IsFiniteSet(Tokens(S) \cup TokensOf(event))
      /\ Cardinality(Tokens(S) \cup TokensOf(event)) =
           Cardinality(Tokens(S)) + event.points - 0
  BY <1>1, <1>3, <1>4, <1>5
<1>7. Cardinality(Tokens(S)) + event.points - 0 =
        event.points + Cardinality(Tokens(S))
  BY <1>4
<1> QED
  BY <1>2, <1>6, <1>7

\* Induction over the subsets of a finite set, for a property given as the set
\* of the subsets that have it.
LEMMA SubsetInduction ==
  ASSUME NEW S, IsFiniteSet(S), NEW Good, {} \in Good,
         \A T \in SUBSET S : (\A x \in T : T \ {x} \in Good) => T \in Good
  PROVE  \A T \in SUBSET S : T \in Good
<1> SUFFICES ASSUME NEW W \in SUBSET S, W \notin Good
             PROVE  FALSE
  OBVIOUS
<1> DEFINE Bad == {T \in SUBSET S : T \notin Good}
<1>1. IsWellFoundedOn(StrictSubsetOrdering(S), SUBSET S)
  <2>1. FiniteSubsetsOf(S) = SUBSET S
    BY FS_FiniteSubsetsOfFinite
  <2>2. IsWellFoundedOn(StrictSubsetOrdering(S), FiniteSubsetsOf(S))
    BY FS_StrictSubsetOrderingWellFounded
  <2> QED
    BY <2>1, <2>2
<1>2. PICK T \in Bad : \A U \in Bad : <<U, T>> \notin StrictSubsetOrdering(S)
  <2>1. Bad \subseteq SUBSET S /\ Bad # {}
    OBVIOUS
  <2> HIDE DEF Bad
  <2> QED
    BY <1>1, <2>1, WFMin
<1>3. ASSUME NEW x \in T
      PROVE  T \ {x} \in Good
  <2>1. <<T \ {x}, T>> \in StrictSubsetOrdering(S)
    BY DEF StrictSubsetOrdering
  <2> QED
    BY <1>2, <2>1
<1> QED
  BY <1>3

\* Finitely many events have finitely many tokens.
LEMMA TokensFinite ==
  ASSUME NEW S, IsFiniteSet(S), \A event \in S : event.points \in Nat
  PROVE  \A T \in SUBSET S : IsFiniteSet(Tokens(T))
<1> DEFINE Good == {T \in SUBSET S : IsFiniteSet(Tokens(T))}
<1>1. {} \in Good
  <2>1. Tokens({}) = {}
    BY DEF Tokens
  <2> QED
    BY <2>1, FS_EmptySet
<1>2. ASSUME NEW T \in SUBSET S, \A x \in T : T \ {x} \in Good, T # {}
      PROVE  T \in Good
  <2>0. PICK x \in T : T \ {x} \in Good
    BY <1>2
  <2>1. x \notin T \ {x} /\ x.points \in Nat /\ T = (T \ {x}) \cup {x}
    OBVIOUS
  <2>2. IsFiniteSet(Tokens(T \ {x}))
    BY <2>0
  <2>3. IsFiniteSet(Tokens((T \ {x}) \cup {x}))
    BY <2>1, <2>2, TokensAdd
  <2> QED
    BY <2>1, <2>3
<1> HIDE DEF Good
<1>3. \A T \in SUBSET S : T \in Good
  BY <1>1, <1>2, SubsetInduction
<1> QED
  BY <1>3 DEF Good

\* The sum counts the tokens: that count satisfies the recursion, and by
\* induction nothing else does.
LEMMA SumCountsTokens ==
  ASSUME NEW S, IsFiniteSet(S), \A event \in S : event.points \in Nat
  PROVE  PointsOf(S) = Cardinality(Tokens(S))
<1> DEFINE count == [s \in SUBSET S |-> Cardinality(Tokens(s))]
           sum == CHOOSE g : IsSum(g, S)
           Good == {T \in SUBSET S : sum[T] = Cardinality(Tokens(T))}
<1>1. Tokens({}) = {} /\ Cardinality({}) = 0
  BY FS_EmptySet DEF Tokens
<1>2. ASSUME NEW T \in SUBSET S, NEW x \in T
      PROVE  Cardinality(Tokens(T)) = x.points + Cardinality(Tokens(T \ {x}))
  <2>1. IsFiniteSet(Tokens(T \ {x}))
    BY TokensFinite
  <2>2. x \notin T \ {x} /\ x.points \in Nat /\ T = (T \ {x}) \cup {x}
    OBVIOUS
  <2>3. Cardinality(Tokens((T \ {x}) \cup {x})) =
          x.points + Cardinality(Tokens(T \ {x}))
    BY <2>1, <2>2, TokensAdd
  <2> QED
    BY <2>2, <2>3
<1>3. \A T \in SUBSET S : T # {} => Chosen(T) \in T
  BY DEF Chosen
<1>4. IsSum(count, S)
  <2>1. ASSUME NEW T \in SUBSET S
        PROVE  count[T] = IF T = {} THEN 0
                          ELSE Chosen(T).points + count[T \ {Chosen(T)}]
    BY <1>1, <1>2, <1>3
  <2> QED
    BY <2>1 DEF IsSum
<1> HIDE DEF count
<1>5. IsSum(sum, S)
  BY <1>4
<1> HIDE DEF sum
<1>6. ASSUME NEW T \in SUBSET S
      PROVE  sum[T] = IF T = {} THEN 0
                      ELSE Chosen(T).points + sum[T \ {Chosen(T)}]
  BY <1>5 DEF IsSum
<1>7. {} \in Good
  BY <1>1, <1>6
<1>8. \A T \in SUBSET S : (\A x \in T : T \ {x} \in Good) => T \in Good
  BY <1>1, <1>2, <1>3, <1>6
<1> HIDE DEF Good
<1>9. S \in Good
  <2>1. \A T \in SUBSET S : T \in Good
    BY <1>7, <1>8, SubsetInduction
  <2> QED
    BY <2>1
<1> QED
  BY <1>9, PointsOfIs DEF Good, sum

\* What the module calls the points of an attempt.
LEMMA PointsAre ==
  ASSUME NEW e
  PROVE  Points(e) = PointsOf(events[e]) /\ Points(e)' = PointsOf(events'[e])
BY DEF Points, PointsOf, MapThenSumSet, MapThenFoldSet

\* No evidence, no points.
LEMMA PointsOfNone == PointsOf({}) = 0
<1>1. Tokens({}) = {} /\ Cardinality({}) = 0
  BY FS_EmptySet DEF Tokens
<1>2. PointsOf({}) = Cardinality(Tokens({}))
  BY FS_EmptySet, SumCountsTokens
<1> QED
  BY <1>1, <1>2

\* A further event adds its points, whatever the order of the fold.
LEMMA PointsAdd ==
  ASSUME NEW S, IsFiniteSet(S), \A other \in S : other.points \in Nat,
         NEW event, event \notin S, event.points \in Nat
  PROVE  /\ PointsOf(S) \in Nat
         /\ PointsOf(S \cup {event}) = PointsOf(S) + event.points
<1>1. /\ IsFiniteSet(Tokens(S))
      /\ PointsOf(S) = Cardinality(Tokens(S))
  BY TokensFinite, SumCountsTokens
<1>2. Cardinality(Tokens(S)) \in Nat
  BY <1>1, FS_CardinalityType
<1>3. /\ IsFiniteSet(S \cup {event})
      /\ \A other \in S \cup {event} : other.points \in Nat
  BY FS_AddElement
<1>4. PointsOf(S \cup {event}) = Cardinality(Tokens(S \cup {event}))
  BY <1>3, SumCountsTokens
<1>5. Cardinality(Tokens(S \cup {event})) = event.points + Cardinality(Tokens(S))
  BY <1>1, TokensAdd
<1> QED
  BY <1>1, <1>2, <1>4, <1>5

\* Points taken one after the other, down to 0, are taken together.
LEMMA LoweredTwice ==
  ASSUME NEW score \in Nat, NEW m \in Nat, NEW n \in Nat
  PROVE  Lowered(Lowered(score, m), n) = Lowered(score, m + n)
BY DEF Lowered

\* An event row is worth points; so is every recorded event.
LEMMA EventsWorth ==
  ASSUME TypeOK, NEW e \in Entitlement
  PROVE  \A event \in events[e] : event.points \in Nat
<1>1. ASSUME NEW event \in EventRow
      PROVE  event.points \in Nat
  <2>1. /\ {CopyPoints} \subseteq Nat /\ {PastePoints} \subseteq Nat
        /\ AwayPoints \cup {0} \subseteq Nat
    BY AttemptAssumption
  <2>2. event.points \in {CopyPoints} \cup {PastePoints} \cup (AwayPoints \cup {0})
    BY DEF EventRow
  <2> QED
    BY <2>1, <2>2
<1> QED
  BY <1>1 DEF TypeOK

\* The points of an attempt's events are a number.
LEMMA EventsTotal ==
  ASSUME TypeOK, EventsFinite, NEW e \in Entitlement
  PROVE  Points(e) \in Nat
<1>1. IsFiniteSet(events[e]) /\ \A event \in events[e] : event.points \in Nat
  BY EventsWorth DEF EventsFinite
<1>2. IsFiniteSet(Tokens(events[e])) /\ PointsOf(events[e]) = Cardinality(Tokens(events[e]))
  BY <1>1, TokensFinite, SumCountsTokens
<1> QED
  BY <1>2, FS_CardinalityType, PointsAre

\* Evidence and its points are recorded in one step: one new event, charged.
LEMMA ChargeStep ==
  ASSUME TypeOK, EventsFinite, ScoreIsExplained, PaceIsScored,
         NEW e \in Entitlement, Open(e),
         NEW kind, NEW id, NEW points \in Nat, ~Recorded(e, kind, id),
         events'[e] = events[e] \cup
           {[kind |-> kind, id |-> id, points |-> points]},
         attempt'[e].score = Lowered(attempt[e].score, points),
         attempt'[e].pace = attempt[e].pace
  PROVE  attempt'[e].score = Lowered(FullScore, Points(e)' + attempt'[e].pace)
<1> DEFINE event == [kind |-> kind, id |-> id, points |-> points]
<1>1. event \notin events[e] /\ event.points = points
  BY DEF Recorded, EventsOf
<1> HIDE DEF event
<1>2. \A other \in events[e] : other.points \in Nat
  BY EventsWorth
<1>3. IsFiniteSet(events[e])
  BY DEF EventsFinite
<1>4. /\ PointsOf(events[e]) \in Nat
      /\ PointsOf(events[e] \cup {event}) = PointsOf(events[e]) + points
  BY <1>1, <1>2, <1>3, PointsAdd
<1>5. /\ Points(e) = PointsOf(events[e])
      /\ Points(e)' = PointsOf(events[e] \cup {event})
  BY PointsAre DEF event
<1>6. attempt[e].pace = 0
  BY DEF Open, PaceIsScored
<1>7. attempt[e].score = Lowered(FullScore, Points(e))
  BY <1>4, <1>5, <1>6 DEF ScoreIsExplained
<1>8. attempt'[e].score = Lowered(FullScore, PointsOf(events[e]) + points)
  BY <1>4, <1>5, <1>7, LoweredTwice, AttemptAssumption
<1> QED
  BY <1>4, <1>5, <1>6, <1>8

\* Every move keeps the score explained.
LEMMA ScoreStep ==
  ASSUME TypeOK, EventsFinite, ScoreIsExplained, PaceIsScored,
         NEW e \in Entitlement, Lifecycle(e) \/ Browser(e)
  PROVE  ScoreIsExplained' /\ PaceIsScored'
<1> DEFINE Explained(f) ==
      /\ attempt[f].score = Lowered(FullScore, Points(f) + attempt[f].pace)
      /\ \A event \in EventsOf(f, "returned") :
           event.points > 0 => Recorded(f, "hidden", event.id)
      /\ attempt[f].status # "completed" => attempt[f].pace = 0
<1>0. attempt[e] \in AttemptRow /\ Explained(e)
  BY DEF TypeOK, ScoreIsExplained, PaceIsScored
<1>1. OthersAlone(e)
  BY RowsMove
<1>2. \A f \in Entitlement \ {e} : Explained(f)'
  <2> SUFFICES ASSUME NEW f \in Entitlement \ {e} PROVE Explained(f)'
    OBVIOUS
  <2>1. Explained(f)
    BY DEF ScoreIsExplained, PaceIsScored
  <2>2. attempt'[f] = attempt[f] /\ events'[f] = events[f]
    BY <1>1 DEF OthersAlone
  <2>3. Points(f)' = Points(f) /\ EventsOf(f, "returned")' = EventsOf(f, "returned")
    BY <2>2, PointsAre DEF EventsOf
  <2>4. \A id : Recorded(f, "hidden", id)' <=> Recorded(f, "hidden", id)
    BY <2>2 DEF Recorded, EventsOf
  <2> QED
    BY <2>1, <2>2, <2>3, <2>4
<1> SUFFICES Explained(e)'
  BY <1>2 DEF ScoreIsExplained, PaceIsScored
<1>3. ASSUME events'[e] = events[e]
      PROVE  /\ Points(e)' = Points(e)
             /\ EventsOf(e, "returned")' = EventsOf(e, "returned")
             /\ \A id : Recorded(e, "hidden", id)' <=> Recorded(e, "hidden", id)
  BY <1>3, PointsAre DEF Recorded, EventsOf
<1>4. ASSUME events'[e] = events[e], attempt'[e].score = attempt[e].score,
             attempt'[e].pace = attempt[e].pace,
             attempt[e].status = "completed" => attempt'[e].status = "completed"
      PROVE  Explained(e)'
  <2>1. attempt'[e].score = Lowered(FullScore, Points(e)' + attempt'[e].pace)
    BY <1>0, <1>3, <1>4
  <2>2. \A event \in EventsOf(e, "returned")' :
          event.points > 0 => Recorded(e, "hidden", event.id)'
    BY <1>0, <1>3, <1>4
  <2>3. attempt'[e].status # "completed" => attempt'[e].pace = 0
    BY <1>0, <1>4
  <2> QED
    BY <2>1, <2>2, <2>3
<1>5. CASE Untouched(e) \/ Begun(e) \/ Aged(e) \/ RunOut(e) \/ Revoked(e)
  <2>1. events'[e] = events[e]
    BY <1>5 DEF Untouched, Begun, Start, Aged, RunOut, Revoked
  <2>2. /\ attempt'[e].score = attempt[e].score
        /\ attempt'[e].pace = attempt[e].pace
        /\ attempt[e].status = "completed" => attempt'[e].status = "completed"
    <3>1. CASE Untouched(e) \/ Aged(e) \/ RunOut(e)
      BY <1>0, <3>1 DEF Untouched, Aged, RunOut, AttemptRow
    <3>2. CASE Begun(e)
      BY <1>0, <3>2 DEF Begun, Start, AttemptRow
    <3>3. CASE Revoked(e)
      BY <1>0, <3>3 DEF Revoked, Open, AttemptRow
    <3> QED
      BY <1>5, <3>1, <3>2, <3>3
  <2> QED
    BY <1>4, <2>1, <2>2
<1>6. CASE Completed(e)
  <2>1. PICK r \in {"manual", "timeout"}, pace \in Nat :
          attempt'[e] = Scored(attempt[e], r, pace)
    BY <1>6, AttemptAssumption DEF Completed
  <2>2. /\ attempt'[e].score = Lowered(attempt[e].score, pace)
        /\ attempt'[e].pace = pace
        /\ attempt'[e].status = "completed"
    BY <1>0, <2>1 DEF Scored, AttemptRow
  <2>3. attempt[e].pace = 0 /\ events'[e] = events[e]
    BY <1>0, <1>6 DEF Completed, Open
  <2>4. Points(e) \in Nat
    BY EventsTotal
  <2>5. attempt[e].score = Lowered(FullScore, Points(e))
    BY <1>0, <2>3, <2>4
  <2>6. Lowered(Lowered(FullScore, Points(e)), pace) =
          Lowered(FullScore, Points(e) + pace)
    <3>1. FullScore \in Nat
      BY AttemptAssumption
    <3> QED
      BY <2>4, <3>1, LoweredTwice
  <2>7. attempt'[e].score = Lowered(FullScore, Points(e)' + attempt'[e].pace)
    BY <1>3, <2>2, <2>3, <2>5, <2>6
  <2>8. \A event \in EventsOf(e, "returned")' :
          event.points > 0 => Recorded(e, "hidden", event.id)'
    BY <1>0, <1>3, <2>3
  <2> QED
    BY <2>2, <2>7, <2>8
<1>7. ASSUME Open(e), NEW kind, NEW id, NEW points \in Nat,
             ~Recorded(e, kind, id),
             kind = "returned" /\ points > 0 => Recorded(e, "hidden", id),
             events'[e] = events[e] \cup
               {[kind |-> kind, id |-> id, points |-> points]},
             attempt'[e].score = Lowered(attempt[e].score, points),
             attempt'[e].pace = attempt[e].pace,
             attempt'[e].status # "completed"
      PROVE  Explained(e)'
  <2>1. attempt'[e].score = Lowered(FullScore, Points(e)' + attempt'[e].pace)
    BY <1>7, ChargeStep
  <2>2. \A other : Recorded(e, "hidden", other) => Recorded(e, "hidden", other)'
    BY <1>7 DEF Recorded, EventsOf
  <2>3. \A event \in EventsOf(e, "returned")' :
          \/ event \in EventsOf(e, "returned")
          \/ event.points = points /\ event.id = id /\ kind = "returned"
    BY <1>7 DEF EventsOf
  <2>4. \A event \in EventsOf(e, "returned")' :
          event.points > 0 => Recorded(e, "hidden", event.id)'
    BY <1>0, <1>7, <2>2, <2>3
  <2>5. attempt[e].pace = 0
    BY <1>0, <1>7 DEF Open
  <2> QED
    BY <1>7, <2>1, <2>4, <2>5
<1>8. CASE Copied(e)
  <2>1. CopyPoints \in Nat
    BY AttemptAssumption
  <2>2. /\ attempt'[e].score = Lowered(attempt[e].score, CopyPoints)
        /\ attempt'[e].pace = attempt[e].pace
        /\ attempt'[e].status # "completed"
        /\ Open(e)
    BY <1>0, <1>8 DEF Copied, Charged, Stopped, AttemptRow, InTime, Open
  <2>3. PICK id \in CopyId :
          /\ ~Recorded(e, "copy", id)
          /\ events'[e] = events[e] \cup
               {[kind |-> "copy", id |-> id, points |-> CopyPoints]}
    BY <1>8 DEF Copied
  <2> QED
    BY <1>7, <2>1, <2>2, <2>3
<1>9. CASE Signalled(e)
  <2> DEFINE Charge(kind, id, points) ==
          /\ ~Recorded(e, kind, id)
          /\ kind = "returned" /\ points > 0 => Recorded(e, "hidden", id)
          /\ events'[e] = events[e] \cup
               {[kind |-> kind, id |-> id, points |-> points]}
          /\ attempt'[e] = Charged(attempt[e], points)
  <2>3. PICK kind, id : \E points \in Nat : Charge(kind, id, points)
    BY <1>9 DEF Signalled
  <2>1. PICK points \in Nat : Charge(kind, id, points)
    BY <2>3
  <2>2. /\ attempt'[e].score = Lowered(attempt[e].score, points)
        /\ attempt'[e].pace = attempt[e].pace
        /\ attempt'[e].status # "completed"
        /\ Open(e)
    BY <1>0, <1>9, <2>1 DEF Signalled, Charged, AttemptRow, InTime, Open
  <2> QED
    BY <1>7, <2>1, <2>2
<1> QED
  BY <1>5, <1>6, <1>8, <1>9, RowsMove

-----------------------------------------------------------------------------
(* The theorems. *)

LEMMA InitInv == Init => IndInv
<1> SUFFICES ASSUME Init PROVE IndInv
  OBVIOUS
<1>0. FullScore \in Nat /\ PerDay \in Nat
  BY AttemptAssumption
<1>1. TypeOK
  <2>1. attempt \in [Entitlement -> AttemptRow]
    BY <1>0 DEF Init, AttemptRow
  <2>2. access \in [Entitlement -> [left: 0..1, revoked: BOOLEAN]]
    <3>1. 1 \in 0..1
      OBVIOUS
    <3>2. [left |-> 1, revoked |-> FALSE] \in [left: 0..1, revoked: BOOLEAN]
      BY <3>1, Zenon
    <3> QED
      BY <3>2 DEF Init
  <2>3. /\ answer \in [Entitlement -> Choice \cup {NoChoice}]
        /\ events \in [Entitlement -> SUBSET EventRow]
        /\ result \in [Entitlement -> Choice \cup {NoChoice, NotScored}]
        /\ finishing \subseteq Entitlement
    BY DEF Init
  <2> QED
    BY <2>1, <2>2, <2>3 DEF TypeOK
<1>2. StartedToday = {}
  BY DEF Init, StartedToday
<1>3. StartsAreLimited
  <2>1. Cardinality(StartedToday) <= PerDay
    BY <1>0, <1>2, FS_EmptySet
  <2> QED
    BY <2>1 DEF StartsAreLimited, Init
<1>4. EventsFinite
  BY FS_EmptySet DEF Init, EventsFinite
<1>5. CopyStopIsExact
  <2>1. \A e \in Entitlement : EventsOf(e, "copy") = {}
    BY DEF Init, EventsOf
  <2>2. \A e \in Entitlement : Cardinality(EventsOf(e, "copy")) = 0
    BY <2>1, FS_EmptySet
  <2>3. ~(0 >= CopyLimit)
    BY AttemptAssumption
  <2> QED
    BY <2>2, <2>3 DEF Init, CopyStopIsExact
<1>6. /\ ResultIsOfStoredAnswers /\ RevokedIsClosed
      /\ GiftsAcknowledged /\ OpenIsUnstopped /\ UnusedInTime
  BY AttemptAssumption
     DEF Init, ResultIsOfStoredAnswers, RevokedIsClosed, Open,
         GiftsAcknowledged, OpenIsUnstopped, UnusedInTime
<1>7. ScoreIsExplained /\ PaceIsScored
  <2>1. \A e \in Entitlement :
          /\ events[e] = {}
          /\ attempt[e].score = FullScore
          /\ attempt[e].pace = 0
    BY DEF Init
  <2>2. \A e \in Entitlement : Points(e) = 0 /\ EventsOf(e, "returned") = {}
    BY <2>1, PointsOfNone, PointsAre DEF EventsOf
  <2>3. Lowered(FullScore, 0 + 0) = FullScore
    BY <1>0 DEF Lowered
  <2> QED
    BY <2>1, <2>2, <2>3 DEF ScoreIsExplained, PaceIsScored
<1> QED
  BY <1>1, <1>3, <1>4, <1>5, <1>6, <1>7 DEF IndInv

LEMMA StepInv == IndInv /\ [Next]_vars => IndInv'
<1> SUFFICES ASSUME IndInv, [Next]_vars PROVE IndInv'
  OBVIOUS
<1>1. ASSUME NEW e \in Entitlement, Lifecycle(e) \/ Browser(e)
      PROVE  IndInv'
  <2>1. TypeOK'
    BY <1>1, TypeStep DEF IndInv
  <2> QED
    BY <1>1, <2>1, ResultStep, StartsStep, RevokedStep, AcknowledgedStep,
       FiniteStep, CopyStopStep, ScoreStep, UnusedStep DEF IndInv
<1>2. CASE UNCHANGED vars
  <2>1. ScoreIsExplained' /\ PaceIsScored'
    <3>1. attempt' = attempt /\ events' = events
      BY <1>2 DEF vars
    <3>2. \A e : Points(e)' = Points(e)
      BY <3>1, PointsAre
    <3> QED
      BY <3>1, <3>2 DEF IndInv, ScoreIsExplained, PaceIsScored, EventsOf, Recorded
  <2> QED
    BY <1>2, <2>1
     DEF vars, IndInv, TypeOK, ResultIsOfStoredAnswers, StartsAreLimited,
         StartedToday, RevokedIsClosed, Open, CopyStopIsExact, EventsOf,
         GiftsAcknowledged, OpenIsUnstopped, EventsFinite, UnusedInTime
<1> QED
  BY <1>1, <1>2 DEF Next

\* The invariant holds in every reachable state.
THEOREM AttemptInvariance == Spec => []IndInv
BY InitInv, StepInv, PTL DEF Spec

\* Every table keeps its shape: attempts have one status and one reason of the
\* lists in the models, and the integrity score never falls below 0.
THEOREM AttemptTypeCorrect == Spec => []TypeOK
BY AttemptInvariance, PTL DEF IndInv

\* Results are exactly of completed attempts and of the answers as stored,
\* whatever was saved, refused, submitted twice or expired.
THEOREM ResultsMatchAnswers == Spec => []ResultIsOfStoredAnswers
BY AttemptInvariance, PTL DEF IndInv

\* The daily limit and the one attempt per entitlement hold for any limit and
\* any number of entitlements of the customer.
THEOREM StartsStayLimited == Spec => []StartsAreLimited
BY AttemptInvariance, PTL DEF IndInv

\* Revocation closes the running attempt and no start gets past it.
THEOREM RevocationCloses == Spec => []RevokedIsClosed
BY AttemptInvariance, PTL DEF IndInv

\* The copy stop hits gift attempts alone and at the limit exactly.
THEOREM CopyStopsExactly == Spec => []CopyStopIsExact
BY AttemptInvariance, PTL DEF IndInv

\* The integrity score is the full score less the points of the recorded
\* evidence and the pace penalty, whatever was recorded in whatever order, sent
\* twice or left unpaired: for any points, and any number of events.
THEOREM ScoresAreExplained == Spec => []ScoreIsExplained
BY AttemptInvariance, PTL DEF IndInv

LEMMA ClosedStep ==
  ASSUME IndInv, NEW e \in Entitlement, Lifecycle(e) \/ Browser(e),
         attempt[e].status \in {"completed", "invalidated"}
  PROVE  /\ answer'[e] = answer[e]
         /\ result'[e] = result[e]
         /\ events'[e] = events[e]
         /\ [attempt'[e] EXCEPT !.recent = attempt[e].recent] = attempt[e]
<1>1. attempt[e] \in AttemptRow
  BY DEF IndInv, TypeOK
<1>2. ~Open(e) /\ ~InTime(e)
  BY DEF Open, InTime
<1>3. Untouched(e) \/ Aged(e) \/ Revoked(e)
  BY <1>2, RowsMove
     DEF IndInv, Begun, Start, RunOut, Completed, Copied, Signalled
<1>4. attempt'[e] = attempt[e] \/ attempt'[e] = [attempt[e] EXCEPT !.recent = FALSE]
  BY <1>2, <1>3 DEF Untouched, Aged, Revoked
<1>5. [attempt'[e] EXCEPT !.recent = attempt[e].recent] = attempt[e]
  BY <1>1, <1>4 DEF AttemptRow
<1> QED
  BY <1>2, <1>3, <1>5 DEF Untouched, Aged, Revoked

\* A closed attempt never changes again, but for the age of its start.
THEOREM ClosedStaysClosed == Spec => ClosedForGood
<1> DEFINE Kept ==
      \A e \in Entitlement :
        attempt[e].status \in {"completed", "invalidated"} =>
          /\ answer'[e] = answer[e]
          /\ result'[e] = result[e]
          /\ events'[e] = events[e]
          /\ [attempt'[e] EXCEPT !.recent = attempt[e].recent] = attempt[e]
<1>1. IndInv /\ [Next]_vars => [Kept]_vars
  <2> SUFFICES ASSUME IndInv, Next PROVE Kept
    OBVIOUS
  <2>1. PICK e \in Entitlement : Lifecycle(e) \/ Browser(e)
    BY DEF Next
  <2>2. OthersAlone(e)
    BY <2>1, RowsMove DEF IndInv
  <2>3. \A f \in Entitlement : attempt[f] \in AttemptRow
    BY DEF IndInv, TypeOK
  <2>4. \A row \in AttemptRow : [row EXCEPT !.recent = row.recent] = row
    BY DEF AttemptRow
  <2> QED
    BY <2>1, <2>2, <2>3, <2>4, ClosedStep DEF OthersAlone
<1> QED
  BY <1>1, AttemptInvariance, PTL DEF Spec, ClosedForGood

-----------------------------------------------------------------------------
(* The attempts implement the sittings of an exam. *)

Stages == [e \in Entitlement |-> StageOf(e)]
Verdicts == [e \in Entitlement |-> VerdictOf(e)]
Barred == {e \in Entitlement : access[e].revoked}

Shown == <<Stages, answer, events, Verdicts, Barred>>

\* The stages are told apart by the row alone.
LEMMA StageIs ==
  ASSUME NEW e
  PROVE  /\ attempt[e].status = "none" => StageOf(e) = "unused"
         /\ attempt[e].status = "in_progress" =>
              StageOf(e) = IF attempt[e].overdue THEN "late" ELSE "sitting"
         /\ attempt[e].status = "completed" => StageOf(e) = "judged"
         /\ attempt[e].status = "invalidated" => StageOf(e) = "void"
BY DEF StageOf, InTime, Expired, Open

\* The same of the next state.
LEMMA StageBecomes ==
  ASSUME NEW e
  PROVE  /\ attempt'[e].status = "none" => StageOf(e)' = "unused"
         /\ attempt'[e].status = "in_progress" =>
              StageOf(e)' = IF attempt'[e].overdue THEN "late" ELSE "sitting"
         /\ attempt'[e].status = "completed" => StageOf(e)' = "judged"
         /\ attempt'[e].status = "invalidated" => StageOf(e)' = "void"
BY DEF StageOf, InTime, Expired, Open

\* The other sittings are left alone.
LEMMA OthersShown ==
  ASSUME NEW e \in Entitlement, OthersAlone(e)
  PROVE  /\ Stages' = [Stages EXCEPT ![e] = StageOf(e)']
         /\ Verdicts' = [Verdicts EXCEPT ![e] = VerdictOf(e)']
         /\ Barred' = IF access'[e].revoked THEN Barred \cup {e} ELSE Barred \ {e}
<1>1. \A f \in Entitlement \ {e} :
        StageOf(f)' = StageOf(f) /\ VerdictOf(f)' = VerdictOf(f)
  BY DEF OthersAlone, StageOf, VerdictOf, InTime, Expired, Open
<1>2. Stages' = [Stages EXCEPT ![e] = StageOf(e)']
  BY <1>1 DEF Stages
<1>3. Verdicts' = [Verdicts EXCEPT ![e] = VerdictOf(e)']
  BY <1>1 DEF Verdicts
<1>4. \A f \in Entitlement \ {e} : access'[f] = access[f]
  BY DEF OthersAlone
<1> QED
  BY <1>2, <1>3, <1>4 DEF Barred

\* Stages and verdicts stay if the row of the attempt keeps what they show.
LEMMA RowHidden ==
  ASSUME NEW e \in Entitlement, OthersAlone(e),
         attempt'[e].status = attempt[e].status,
         attempt'[e].overdue = attempt[e].overdue,
         attempt'[e].score = attempt[e].score \/ attempt[e].status # "completed",
         result'[e] = result[e], access'[e].revoked = access[e].revoked
  PROVE  UNCHANGED <<Stages, Verdicts, Barred>>
<1>1. StageOf(e)' = StageOf(e) /\ VerdictOf(e)' = VerdictOf(e)
  BY DEF StageOf, VerdictOf, InTime, Expired, Open
<1> QED
  BY <1>1, OthersShown DEF Stages, Verdicts, Barred

\* The integrity of a sitting is the full score, lowered by what was found.
LEMMA IntegrityIs ==
  ASSUME NEW found, NEW pace
  PROVE  Sittings!Integrity(found, pace) = Lowered(FullScore, PointsOf(found) + pace)
BY DEF Sittings!Integrity, Lowered, PointsOf, MapThenSumSet, MapThenFoldSet,
       Sittings!MapThenSumSet, Sittings!MapThenFoldSet

\* A gift with the evidence of copying is stopped, and no other attempt.
LEMMA EnoughIs ==
  ASSUME CopyStopIsExact', NEW e \in Entitlement
  PROVE  Sittings!Enough(e, events'[e]) <=> attempt'[e].reason = "copy_limit"
<1> DEFINE copies == Cardinality({event \in events'[e] : event.kind = "copy"})
<1>1. Sittings!Enough(e, events'[e]) <=> e \in Gift /\ copies >= CopyLimit
  <2>1. \A S : Sittings!Cardinality(S) = Cardinality(S)
    BY DEF Sittings!Cardinality, Cardinality
  <2> QED
    BY <2>1 DEF Sittings!Enough
<1>2. /\ attempt'[e].reason = "copy_limit" => e \in Gift /\ copies = CopyLimit
      /\ e \in Gift /\ copies >= CopyLimit => attempt'[e].reason = "copy_limit"
  BY DEF CopyStopIsExact, EventsOf
<1>3. CopyLimit \in Nat
  BY AttemptAssumption
<1> HIDE DEF copies
<1> QED
  BY <1>1, <1>2, <1>3

\* New evidence, whatever its kind.
LEMMA WitnessShows ==
  ASSUME IndInv, IndInv', NEW e \in Entitlement, OthersAlone(e), InTime(e),
         NEW kind, NEW id, NEW points, ~Recorded(e, kind, id),
         kind = "returned" /\ points > 0 => Recorded(e, "hidden", id),
         events'[e] = events[e] \cup
           {[kind |-> kind, id |-> id, points |-> points]},
         attempt'[e].overdue = attempt[e].overdue,
         \/ attempt'[e].status = "in_progress"
         \/ attempt'[e].status = "invalidated" /\ attempt'[e].reason = "copy_limit",
         UNCHANGED <<access, answer, result>>
  PROVE  Sittings!Next
<1> USE DEF IndInv
<1> DEFINE event == [kind |-> kind, id |-> id, points |-> points]
<1>1. attempt[e].status = "in_progress" /\ ~attempt[e].overdue
  BY DEF InTime, Open
<1>2. event \in EventRow
  BY DEF TypeOK
<1>3. event.kind = kind /\ event.id = id /\ event.points = points
  OBVIOUS
<1> HIDE DEF event
<1>4. StageOf(e) = "sitting"
  BY <1>1, StageIs
<1>5. StageOf(e)' = IF Sittings!Enough(e, events[e] \cup {event}) THEN "void"
                    ELSE "sitting"
  <2>1. events'[e] = events[e] \cup {event}
    BY DEF event
  <2>2. attempt'[e].status = "in_progress" => attempt'[e].reason = ""
    BY DEF OpenIsUnstopped
  <2> QED
    BY <1>1, <2>1, <2>2, StageBecomes, EnoughIs
<1>6. Verdicts' = Verdicts /\ Barred' = Barred
  <2>1. VerdictOf(e)' = VerdictOf(e)
    BY <1>1 DEF VerdictOf
  <2> QED
    BY <2>1, OthersShown DEF Verdicts, Barred
<1>7. events' = [events EXCEPT ![e] = @ \cup {event}]
  BY DEF TypeOK, OthersAlone, event
<1>8. /\ \A old \in events[e] : old.kind # event.kind \/ old.id # event.id
      /\ event.kind = "returned" /\ event.points > 0 =>
           \E left \in events[e] : left.kind = "hidden" /\ left.id = event.id
  BY <1>3 DEF Recorded, EventsOf
<1>9. Stages' = [Stages EXCEPT ![e] =
        IF Sittings!Enough(e, events[e] \cup {event}) THEN "void" ELSE "sitting"]
  BY <1>5, OthersShown
<1>10. Sittings!Witness(e, event)
  BY <1>4, <1>6, <1>7, <1>8, <1>9 DEF Sittings!Witness, Stages, Verdicts, Barred
<1> QED
  BY <1>2, <1>10 DEF Sittings!Next

\* Scoring judges by the answer and the evidence as they stand.
LEMMA JudgeShows ==
  ASSUME IndInv, IndInv', NEW e \in Entitlement, OthersAlone(e), Completed(e)
  PROVE  Sittings!Next
<1> USE DEF IndInv
<1>1. PICK pace \in PacePoints, r \in {"manual", "timeout"} :
        attempt'[e] = Scored(attempt[e], r, pace)
  BY DEF Completed
<1>2. /\ Open(e) /\ result'[e] = answer[e]
      /\ UNCHANGED <<access, answer, events>>
  BY DEF Completed
<1>3. attempt'[e].status = "completed" /\ attempt'[e].pace = pace
  <2>1. attempt[e] \in AttemptRow
    BY DEF TypeOK
  <2> QED
    BY <1>1, <2>1 DEF Scored, AttemptRow
<1>4. attempt'[e].score = Sittings!Integrity(events[e], pace)
  <2>1. attempt'[e].score = Lowered(FullScore, Points(e)' + pace)
    BY <1>3 DEF ScoreIsExplained
  <2>2. Points(e)' = PointsOf(events[e])
    BY <1>2, PointsAre
  <2> QED
    BY <2>1, <2>2, IntegrityIs
<1>5. VerdictOf(e)' =
        {[answer |-> answer[e], integrity |-> Sittings!Integrity(events[e], pace)]}
  BY <1>2, <1>3, <1>4 DEF VerdictOf
<1>6. StageOf(e) \in {"sitting", "late"} /\ StageOf(e)' = "judged"
  BY <1>2, <1>3, StageIs, StageBecomes DEF Open
<1>7. Barred' = Barred
  BY <1>2 DEF Barred
<1>8. Sittings!Judge(e)
  BY <1>2, <1>5, <1>6, <1>7, OthersShown
     DEF Sittings!Judge, Stages, Verdicts, Barred
<1> QED
  BY <1>8 DEF Sittings!Next

LEMMA StepKeepsSittings ==
  ASSUME IndInv, IndInv', NEW e \in Entitlement, Lifecycle(e) \/ Browser(e)
  PROVE  Sittings!Next \/ UNCHANGED Shown
<1> USE DEF IndInv
<1>0. attempt[e] \in AttemptRow /\ OthersAlone(e)
  BY RowsMove DEF TypeOK
<1>1. CASE Untouched(e)
  <2>1. UNCHANGED <<Stages, Verdicts, Barred, events>>
    BY <1>1 DEF Untouched, Stages, StageOf, InTime, Expired, Open, Verdicts,
                VerdictOf, Barred
  <2>2. CASE answer' = answer
    BY <2>1, <2>2 DEF Shown
  <2>3. CASE InTime(e) /\ answer'[e] \in Choice
    <3>1. StageOf(e) = "sitting"
      BY <2>3, StageIs DEF InTime, Open
    <3>2. answer' = [answer EXCEPT ![e] = answer'[e]]
      BY <1>0 DEF TypeOK, OthersAlone
    <3>3. Sittings!Answer(e, answer'[e])
      BY <2>1, <3>1, <3>2 DEF Sittings!Answer, Stages, Verdicts, Barred
    <3> QED
      BY <2>3, <3>3 DEF Sittings!Next
  <2> QED
    BY <1>1, <2>2, <2>3 DEF Untouched
<1>2. CASE Begun(e)
  <2>1. PICK acknowledged \in BOOLEAN :
          /\ Start(e, acknowledged)
          /\ attempt'[e] = [attempt[e] EXCEPT !.status = "in_progress",
                                              !.recent = TRUE,
                                              !.acknowledged = acknowledged]
          /\ access'[e] = [access[e] EXCEPT !.left = access[e].left - 1]
    BY <1>2 DEF Begun
  <2>2. /\ attempt[e].status = "none" /\ ~access[e].revoked
        /\ UNCHANGED <<answer, events, result>>
    BY <2>1 DEF Start
  <2>3. /\ attempt'[e].status = "in_progress"
        /\ attempt'[e].overdue = attempt[e].overdue
        /\ access'[e].revoked = access[e].revoked
    <3>1. access[e] \in [left: 0..1, revoked: BOOLEAN]
      BY DEF TypeOK
    <3> QED
      BY <1>0, <2>1, <3>1 DEF AttemptRow
  <2>4. ~attempt[e].overdue
    BY <2>2 DEF UnusedInTime
  <2>5. StageOf(e) = "unused" /\ StageOf(e)' = "sitting"
    BY <2>2, <2>3, <2>4, StageIs, StageBecomes
  <2>6. VerdictOf(e)' = VerdictOf(e)
    BY <2>2, <2>3 DEF VerdictOf
  <2>7. Verdicts' = Verdicts /\ Barred' = Barred
    BY <1>0, <2>3, <2>6, OthersShown DEF Verdicts, Barred
  <2>8. Sittings!Begin(e)
    BY <1>0, <2>2, <2>5, <2>7, OthersShown
       DEF Sittings!Begin, Stages, Verdicts, Barred
  <2> QED
    BY <2>8 DEF Sittings!Next
<1>3. CASE Aged(e)
  <2>1. /\ attempt'[e].status = attempt[e].status
        /\ attempt'[e].overdue = attempt[e].overdue
        /\ attempt'[e].score = attempt[e].score
        /\ UNCHANGED <<access, answer, events, result>>
    BY <1>0, <1>3 DEF Aged, AttemptRow
  <2> QED
    BY <1>0, <2>1, RowHidden DEF Shown
<1>4. CASE RunOut(e)
  <2>1. /\ attempt[e].status = "in_progress" /\ attempt'[e].status = "in_progress"
        /\ attempt'[e].overdue = TRUE
        /\ UNCHANGED <<access, answer, events, result>>
    BY <1>0, <1>4 DEF RunOut, Open, AttemptRow
  <2>2. CASE attempt[e].overdue
    BY <1>0, <2>1, <2>2, RowHidden DEF Shown, AttemptRow
  <2>3. CASE ~attempt[e].overdue
    <3>1. StageOf(e) = "sitting" /\ StageOf(e)' = "late"
      BY <2>1, <2>3, StageIs, StageBecomes
    <3>2. VerdictOf(e)' = VerdictOf(e)
      BY <2>1 DEF VerdictOf
    <3>3. Verdicts' = Verdicts /\ Barred' = Barred
      BY <1>0, <2>1, <3>2, OthersShown DEF Verdicts, Barred
    <3>4. Sittings!TimeUp(e)
      BY <1>0, <2>1, <3>1, <3>3, OthersShown
         DEF Sittings!TimeUp, Stages, Verdicts, Barred
    <3> QED
      BY <3>4 DEF Sittings!Next
  <2> QED
    BY <2>2, <2>3
<1>5. CASE Completed(e)
  BY <1>0, <1>5, JudgeShows
<1>6. CASE Revoked(e)
  <2>1. UNCHANGED <<answer, events, result>> /\ access'[e].revoked
    BY <1>6 DEF Revoked, TypeOK
  <2>2. Barred' = Barred \cup {e}
    BY <1>0, <2>1, OthersShown
  <2>3. /\ Open(e) => attempt'[e].status = "invalidated"
        /\ ~Open(e) => attempt'[e] = attempt[e]
    BY <1>0, <1>6 DEF Revoked, AttemptRow
  <2>4. VerdictOf(e)' = VerdictOf(e)
    BY <2>1, <2>3 DEF VerdictOf, Open
  <2>5. Verdicts' = Verdicts
    BY <1>0, <2>4, OthersShown DEF Verdicts
  <2>6. StageOf(e)' = IF StageOf(e) \in {"sitting", "late"} THEN "void"
                      ELSE StageOf(e)
    <3>1. CASE Open(e)
      BY <2>3, <3>1, StageIs, StageBecomes DEF Open
    <3>2. CASE ~Open(e)
      <4>1. attempt[e].status \in {"none", "completed", "invalidated"}
        BY <1>0, <3>2 DEF Open, AttemptRow
      <4> QED
        BY <2>3, <3>2, <4>1, StageIs, StageBecomes
    <3> QED
      BY <3>1, <3>2
  <2>7. Sittings!Bar(e)
    BY <1>0, <2>1, <2>2, <2>5, <2>6, OthersShown
       DEF Sittings!Bar, Stages, Verdicts, Barred
  <2> QED
    BY <2>7 DEF Sittings!Next
<1>7. CASE Copied(e)
  <2>1. PICK id \in CopyId :
          /\ ~Recorded(e, "copy", id)
          /\ events'[e] = events[e] \cup
               {[kind |-> "copy", id |-> id, points |-> CopyPoints]}
    BY <1>7 DEF Copied
  <2>2. InTime(e) /\ UNCHANGED <<access, answer, result>>
    BY <1>7 DEF Copied
  <2>3. /\ attempt'[e].overdue = attempt[e].overdue
        /\ \/ attempt'[e].status = "in_progress"
           \/ /\ attempt'[e].status = "invalidated"
              /\ attempt'[e].reason = "copy_limit"
    BY <1>0, <1>7 DEF Copied, Stopped, Charged, AttemptRow, InTime, Open
  <2> QED
    BY <1>0, <2>1, <2>2, <2>3, WitnessShows
<1>8. CASE Signalled(e)
  <2>1. PICK kind \in {"paste", "hidden", "returned"} :
          \E id : \E points \in Nat :
            /\ ~Recorded(e, kind, id)
            /\ kind = "returned" /\ points > 0 => Recorded(e, "hidden", id)
            /\ events'[e] = events[e] \cup
                 {[kind |-> kind, id |-> id, points |-> points]}
            /\ attempt'[e] = Charged(attempt[e], points)
    BY <1>8 DEF Signalled
  <2>2. PICK id : \E points \in Nat :
          /\ ~Recorded(e, kind, id)
          /\ kind = "returned" /\ points > 0 => Recorded(e, "hidden", id)
          /\ events'[e] = events[e] \cup
               {[kind |-> kind, id |-> id, points |-> points]}
          /\ attempt'[e] = Charged(attempt[e], points)
    BY <2>1
  <2>3. PICK points \in Nat :
          /\ ~Recorded(e, kind, id)
          /\ kind = "returned" /\ points > 0 => Recorded(e, "hidden", id)
          /\ events'[e] = events[e] \cup
               {[kind |-> kind, id |-> id, points |-> points]}
          /\ attempt'[e] = Charged(attempt[e], points)
    BY <2>2
  <2>4. InTime(e) /\ UNCHANGED <<access, answer, result>>
    BY <1>8 DEF Signalled
  <2>5. /\ attempt'[e].overdue = attempt[e].overdue
        /\ attempt'[e].status = "in_progress"
    BY <1>0, <2>3, <2>4 DEF Charged, AttemptRow, InTime, Open
  <2> QED
    BY <1>0, <2>3, <2>4, <2>5, WitnessShows
<1> QED
  BY <1>1, <1>2, <1>3, <1>4, <1>5, <1>6, <1>7, <1>8, RowsMove

\* The services and views of an attempt implement ExamSitting: whatever meets
\* whatever on its way, an attempt is answered in time, judged once by what is
\* stored, with its integrity the full score less its evidence, or void.
THEOREM AttemptsImplementSittings == Spec => KeepsSittings
<1>1. Init => Sittings!Init
  <2> SUFFICES ASSUME Init PROVE Sittings!Init
    OBVIOUS
  <2>1. \A e \in Entitlement : StageOf(e) = "unused" /\ VerdictOf(e) = {}
    BY StageIs DEF Init, VerdictOf
  <2>2. {e \in Entitlement : access[e].revoked} = {}
    BY DEF Init
  <2>3. /\ answer = [e \in Entitlement |-> NoChoice]
        /\ events = [e \in Entitlement |-> {}]
    BY DEF Init
  <2> QED
    BY <2>1, <2>2, <2>3 DEF Sittings!Init
<1>2. IndInv /\ IndInv' /\ [Next]_vars =>
        [Sittings!Next]_<<[e \in Entitlement |-> StageOf(e)], answer, events,
                          [e \in Entitlement |-> VerdictOf(e)],
                          {e \in Entitlement : access[e].revoked}>>
  <2> SUFFICES ASSUME IndInv, IndInv', [Next]_vars
               PROVE  Sittings!Next \/ UNCHANGED Shown
    BY DEF Shown, Stages, Verdicts, Barred
  <2>1. CASE UNCHANGED vars
    BY <2>1 DEF vars, Shown, Stages, StageOf, InTime, Expired, Open, Verdicts,
                VerdictOf, Barred
  <2> QED
    BY <2>1, StepKeepsSittings DEF Next
<1>3. IndInv /\ [Next]_vars => IndInv'
  BY StepInv
<1> QED
  BY <1>1, <1>2, <1>3, AttemptInvariance, PTL
     DEF Spec, KeepsSittings, Sittings!Spec, Sittings!sittings

-----------------------------------------------------------------------------
(* The page: its steps are steps of the attempt.                             *)

\* Every step of the page, of the network or of the customer is a step of the
\* attempt or leaves the attempt alone.
LEMMA PageStepIsStep == PageTypeOK /\ [PageNext]_allVars => [Next]_vars
<1> SUFFICES ASSUME PageTypeOK, [PageNext]_allVars PROVE [Next]_vars
  OBVIOUS
<1>0. Sitting \in Entitlement
  BY PageAssumption
<1>1. ASSUME NEW choice \in Choice, ServeSave(choice) PROVE Next
  BY <1>0, <1>1 DEF ServeSave, Next, Browser
<1>2. ASSUME RefuseEvent PROVE [Next]_vars
  BY <1>0, <1>2 DEF RefuseEvent, Next, Lifecycle
<1>3. CASE ArriveSave
  <2>1. page.awaited \in Choice
    BY <1>3 DEF ArriveSave, Flushing, Nobody, PageTypeOK, Page
  <2> QED
    BY <1>1, <1>3, <2>1 DEF ArriveSave
<1>4. ASSUME NEW choice \in Choice, ArriveLate(choice) PROVE Next
  BY <1>1, <1>4 DEF ArriveLate
<1>5. CASE Elsewhere \/ Submit
  BY <1>0, <1>5 DEF Elsewhere, Submit, Next, Lifecycle
<1>6. ASSUME NEW id \in CopyId, Signal(id) PROVE Next
  BY <1>0, <1>6 DEF Signal, Next, Browser
<1>7. ASSUME NEW id \in Absence, ArriveExit(id) \/ ArriveReturn(id)
      PROVE  [Next]_vars
  BY <1>0, <1>2, <1>7 DEF ArriveExit, ArriveReturn, Next, Browser
<1>8. ASSUME NEW id \in Absence,
             Leave(id) \/ ComeBack(id) \/ ExitFails(id) \/ SendReturn(id)
      PROVE  UNCHANGED vars
  BY <1>8 DEF Leave, ComeBack, ExitFails, SendReturn
<1>9. ASSUME \/ Load \/ Continue \/ HearSaved \/ HearClosed \/ HearRefused
             \/ Abort \/ UNCHANGED allVars
             \/ \E choice \in Choice : Pick(choice)
      PROVE  UNCHANGED vars
  BY <1>9 DEF Load, Continue, HearSaved, HearClosed, HearRefused, Abort,
              Pick, allVars
<1> QED
  BY <1>3, <1>4, <1>5, <1>6, <1>7, <1>8, <1>9 DEF PageNext

\* What no step of the attempt undoes: it is started once, events stay
\* recorded, and once started and out of time it takes none any more.
LEMMA AttemptGoesOn ==
  ASSUME TypeOK, [Next]_vars
  PROVE  /\ attempt[Sitting].status # "none" => attempt'[Sitting].status # "none"
         /\ attempt[Sitting].status # "none" /\ ~InTime(Sitting) => ~InTime(Sitting)'
         /\ \A kind, id : Recorded(Sitting, kind, id) => Recorded(Sitting, kind, id)'
<1>0. Sitting \in Entitlement /\ attempt[Sitting] \in AttemptRow
  BY PageAssumption DEF TypeOK
<1>1. CASE UNCHANGED vars
  BY <1>1 DEF vars, InTime, Open, Recorded, EventsOf
<1>2. CASE Next
  <2>1. PICK e \in Entitlement : Lifecycle(e) \/ Browser(e)
    BY <1>2 DEF Next
  <2>2. CASE e # Sitting
    <3>1. attempt'[Sitting] = attempt[Sitting] /\ events'[Sitting] = events[Sitting]
      BY <1>0, <2>1, <2>2, RowsMove DEF OthersAlone
    <3> QED
      BY <3>1 DEF InTime, Open, Recorded, EventsOf
  <2>3. CASE e = Sitting
    <3> DEFINE Moves ==
          /\ attempt[Sitting].status # "none" => attempt'[Sitting].status # "none"
          /\ attempt[Sitting].status # "none" /\ ~InTime(Sitting) => ~InTime(Sitting)'
          /\ events[Sitting] \subseteq events'[Sitting]
    <3>1. ASSUME Untouched(Sitting) PROVE Moves
      BY <3>1 DEF Untouched, InTime, Open
    <3>2. ASSUME Begun(Sitting) PROVE Moves
      BY <1>0, <3>2 DEF Begun, Start, AttemptRow
    <3>3. ASSUME Aged(Sitting) \/ RunOut(Sitting) PROVE Moves
      BY <1>0, <3>3 DEF Aged, RunOut, AttemptRow, InTime, Open
    <3>4. ASSUME Completed(Sitting) PROVE Moves
      BY <1>0, <3>4 DEF Completed, Scored, AttemptRow, InTime, Open
    <3>5. ASSUME Revoked(Sitting) PROVE Moves
      BY <1>0, <3>5 DEF Revoked, AttemptRow, InTime, Open
    <3>6. ASSUME Copied(Sitting) PROVE Moves
      BY <1>0, <3>6 DEF Copied, Stopped, Charged, AttemptRow, InTime, Open
    <3>7. ASSUME Signalled(Sitting) PROVE Moves
      BY <1>0, <3>7 DEF Signalled, Charged, AttemptRow, InTime, Open
    <3>8. Moves
      BY <2>1, <2>3, <3>1, <3>2, <3>3, <3>4, <3>5, <3>6, <3>7, RowsMove
    <3> QED
      BY <3>8 DEF Recorded, EventsOf
  <2> QED
    BY <2>2, <2>3
<1> QED
  BY <1>1, <1>2

-----------------------------------------------------------------------------
(* The parts of the page's invariant. *)

\* The other steps leave the page's own variables and the stored answer alone.
LEMMA PageAlone ==
  ASSUME PageNext
  PROVE  \/ Load \/ Continue \/ HearSaved \/ HearClosed \/ HearRefused \/ Abort
         \/ ArriveSave
         \/ \E choice \in Choice : Pick(choice) \/ ArriveLate(choice)
         \/ UNCHANGED <<page, late, givenUp, presses, loads, answer>>
<1> DEFINE Alone == UNCHANGED <<page, late, givenUp, presses, loads, answer>>
<1>1. ASSUME Elsewhere \/ Submit PROVE Alone
  BY <1>1 DEF Elsewhere, Submit, pageVars, Start, TimeUp, Visit, Revoke,
              FinishOpen, FinishSubmit
<1>2. ASSUME NEW id \in CopyId, Signal(id) PROVE Alone
  BY <1>2 DEF Signal, pageVars, Copy
<1>3. ASSUME NEW id \in Absence,
             Leave(id) \/ ComeBack(id) \/ ExitFails(id) \/ SendReturn(id)
      PROVE  Alone
  BY <1>3 DEF Leave, ComeBack, ExitFails, SendReturn, vars
<1>4. ASSUME NEW id \in Absence, ArriveExit(id) \/ ArriveReturn(id)
      PROVE  Alone
  BY <1>4 DEF ArriveExit, ArriveReturn, Hide, Return, RefuseEvent, Visit, vars
<1> QED
  BY <1>1, <1>2, <1>3, <1>4 DEF PageNext

\* Saving keeps a page a page, and is a request exactly if it says "saving".
LEMMA FlushedPage ==
  ASSUME NEW p \in Page, p.awaited = Nobody, p.label # "saving",
         p.desired = NoChoice => p.saved = NoChoice
  PROVE  LET q == Flushed(p) IN
           /\ q \in Page
           /\ q.desired = p.desired /\ q.saved = p.saved /\ q.reply = p.reply
           /\ q.awaited = (IF p.desired = p.saved THEN Nobody ELSE p.desired)
           /\ q.label = (IF p.desired = p.saved THEN p.label ELSE "saving")
           /\ q.shown => p.shown \/ q.awaited = Nobody
           /\ q.awaited # Nobody <=> q.label = "saving"
BY DEF Page, Flushed, Nobody

\* Choices, their requests and their answers, one step at a time.
LEMMA SavingStep ==
  ASSUME TypeOK, PageTypeOK, AwaitedIsSaving, LateIsGivenUp,
         OnlyGivenUpOverwrites, PageNext
  PROVE  AwaitedIsSaving' /\ OnlyGivenUpOverwrites' /\ page' \in Page
<1>0. /\ Sitting \in Entitlement
      /\ page \in Page
      /\ answer \in [Entitlement -> Choice \cup {NoChoice}]
      /\ late \in [Choice -> 0..MaxPresses]
      /\ NoChoice \notin Choice
  BY PageAssumption, AttemptAssumption DEF TypeOK, PageTypeOK
<1> USE DEF AwaitedIsSaving, OnlyGivenUpOverwrites, Flushing, Nobody
<1>1. CASE Load
  <2>1. /\ page' \in Page
        /\ page'.awaited = Nobody /\ page'.label = "" /\ page'.reply = "none"
        /\ page'.desired = page'.saved
    BY <1>0, <1>1 DEF Load, Blank, Page
  <2> QED
    BY <2>1
<1>2. ASSUME NEW q \in Page,
             q.awaited = page.awaited /\ q.saved = page.saved,
             q.reply = page.reply /\ q.label = page.label,
             q.desired = page.desired \/ q.desired \in Choice,
             UNCHANGED <<vars, late, givenUp>>,
             page' = IF Flushing THEN q ELSE Flushed(q),
             q.desired = page.desired \/ q.desired # page.desired
      PROVE  AwaitedIsSaving' /\ OnlyGivenUpOverwrites' /\ page' \in Page
  <2>1. UNCHANGED <<answer, givenUp>>
    BY <1>2 DEF vars
  <2>2. CASE Flushing
    BY <1>0, <1>2, <2>1, <2>2
  <2>3. CASE ~Flushing
    <3>1. q.desired = NoChoice => q.saved = NoChoice
      BY <1>0, <1>2
    <3>2. /\ q \in Page /\ q.awaited = Nobody /\ q.label # "saving"
          /\ page' = Flushed(q)
      BY <1>0, <1>2, <2>3 DEF Page
    <3>3. /\ page' \in Page
          /\ page'.desired = q.desired /\ page'.saved = q.saved
          /\ page'.reply = q.reply
          /\ page'.awaited = (IF q.desired = q.saved THEN Nobody ELSE q.desired)
          /\ page'.awaited # Nobody <=> page'.label = "saving"
      BY <3>1, <3>2, FlushedPage
    <3>4. AwaitedIsSaving'
      BY <1>0, <1>2, <2>1, <2>3, <3>1, <3>3
    <3>5. OnlyGivenUpOverwrites'
      <4>1. page'.label = (IF q.desired = q.saved THEN q.label ELSE "saving")
        BY <3>1, <3>2, FlushedPage
      <4>2. page'.label = "saved" => page'.desired = page'.saved /\ page'.label = q.label
        BY <3>3, <4>1
      <4> QED
        BY <1>0, <1>2, <2>1, <3>3, <4>2
    <3> QED
      BY <3>3, <3>4, <3>5
  <2> QED
    BY <2>2, <2>3
<1>3. ASSUME NEW choice \in Choice, Pick(choice)
      PROVE  AwaitedIsSaving' /\ OnlyGivenUpOverwrites' /\ page' \in Page
  <2> DEFINE q == [page EXCEPT !.desired = choice]
  <2>1. /\ q \in Page /\ q.desired = choice
        /\ q.awaited = page.awaited /\ q.saved = page.saved
        /\ q.reply = page.reply /\ q.label = page.label
    BY <1>0 DEF Page
  <2>2. page' = IF Flushing THEN q ELSE Flushed(q)
    BY <1>3 DEF Pick
  <2>3. UNCHANGED <<vars, late, givenUp>>
    BY <1>3 DEF Pick
  <2> HIDE DEF q
  <2> QED
    BY <1>2, <2>1, <2>2, <2>3
<1>4. CASE Continue
  <2> DEFINE q == [page EXCEPT !.leaving = TRUE]
  <2>1. /\ q \in Page /\ q.desired = page.desired
        /\ q.awaited = page.awaited /\ q.saved = page.saved
        /\ q.reply = page.reply /\ q.label = page.label
    BY <1>0 DEF Page
  <2>2. page' = IF Flushing THEN q ELSE Flushed(q)
    BY <1>4 DEF Continue
  <2>3. UNCHANGED <<vars, late, givenUp>>
    BY <1>4 DEF Continue
  <2> HIDE DEF q
  <2> QED
    BY <1>2, <2>1, <2>2, <2>3
<1>5. CASE ArriveSave
  <2>1. /\ page.awaited \in Choice /\ page.reply = "none"
        /\ page' = [page EXCEPT !.reply = Answer]
        /\ UNCHANGED givenUp
    BY <1>0, <1>5 DEF ArriveSave, Page
  <2>2. Answer \in {"ok", "closed", "refused"}
    BY DEF Answer
  <2>3. page' \in Page
    BY <1>0, <2>1, <2>2 DEF Page
  <2>4. Answer = "ok" => answer'[Sitting] = page.awaited
    BY <1>0, <1>5 DEF Answer, ArriveSave, ServeSave, Save, RefuseSave
  <2>5. /\ page'.reply = Answer /\ page'.awaited = page.awaited
        /\ page'.label = page.label /\ page'.desired = page.desired
        /\ page'.saved = page.saved
    BY <1>0, <2>1, <2>2 DEF Page
  <2> QED
    BY <1>0, <2>1, <2>2, <2>3, <2>4, <2>5
<1>6. ASSUME NEW choice \in Choice, ArriveLate(choice)
      PROVE  AwaitedIsSaving' /\ OnlyGivenUpOverwrites' /\ page' \in Page
  <2>1. choice \in givenUp /\ UNCHANGED <<page, givenUp>>
    BY <1>6 DEF ArriveLate, LateIsGivenUp
  <2>2. answer'[Sitting] \in {choice, answer[Sitting]}
    BY <1>0, <1>6 DEF ArriveLate, ServeSave, Save, RefuseSave
  <2> QED
    BY <1>0, <2>1, <2>2
<1>7. CASE HearSaved
  <2> DEFINE q == Confirmed(page)
  <2>1. page.reply = "ok" /\ page.awaited \in Choice /\ page.desired \in Choice
    BY <1>0, <1>7 DEF HearSaved, Page
  <2>2. /\ q \in Page /\ q.desired = page.desired /\ q.saved = page.awaited
        /\ q.awaited = Nobody /\ q.reply = "none" /\ q.label = "saved"
    BY <1>0, <2>1 DEF Page, Confirmed
  <2>3. page' = Flushed(q) /\ UNCHANGED <<answer, givenUp>>
    BY <1>7 DEF HearSaved, vars
  <2> HIDE DEF q
  <2> QED
    BY <1>0, <2>1, <2>2, <2>3, FlushedPage
<1>8. CASE HearClosed
  BY <1>0, <1>8 DEF HearClosed, Blank, Page
<1>9. CASE HearRefused \/ Abort
  <2>1. page' = [page EXCEPT !.awaited = Nobody, !.reply = "none",
                             !.leaving = FALSE, !.label = "failed"]
    BY <1>9 DEF HearRefused, Abort
  <2>2. /\ page' \in Page /\ page'.awaited = Nobody /\ page'.reply = "none"
        /\ page'.label = "failed" /\ page'.desired = page.desired
        /\ page'.saved = page.saved
    BY <1>0, <2>1 DEF Page
  <2>3. page.desired = NoChoice => page.saved = NoChoice
    OBVIOUS
  <2> QED
    BY <2>2, <2>3
<1>10. CASE UNCHANGED <<page, late, givenUp, presses, loads, answer>>
  BY <1>0, <1>10
<1> QED
  BY <1>1, <1>3, <1>4, <1>5, <1>6, <1>7, <1>8, <1>9, <1>10, PageAlone

\* Late requests, and the presses they are of.
LEMMA LateStep ==
  ASSUME PageTypeOK, AwaitedIsSaving, LateIsGivenUp, PressedFor, PageNext
  PROVE  /\ LateIsGivenUp' /\ PressedFor'
         /\ late' \in [Choice -> 0..MaxPresses]
         /\ givenUp' \subseteq Choice
         /\ presses' \in 0..MaxPresses
         /\ loads' \in 0..MaxLoads
<1>0. /\ page \in Page
      /\ late \in [Choice -> 0..MaxPresses]
      /\ givenUp \subseteq Choice
      /\ presses \in 0..MaxPresses
      /\ loads \in 0..MaxLoads
      /\ NoChoice \notin Choice
      /\ MaxPresses \in Nat /\ MaxLoads \in Nat
  BY PageAssumption, AttemptAssumption DEF PageTypeOK
<1> DEFINE Awaits(p, c) == p.awaited # Nobody /\ c \in {p.awaited, p.desired}
           Paid == \A c \in Choice : late'[c] + (IF Awaits(page', c) THEN 1 ELSE 0) <= presses'
<1>a. /\ \A c \in Choice : late[c] \in Nat
      /\ \A c \in Choice : late[c] + (IF Awaits(page, c) THEN 1 ELSE 0) <= presses
      /\ Paid => PressedFor'
  BY <1>0 DEF PressedFor, Flushing
<1> HIDE DEF Awaits
\* A press adds at most the choice now wanted to what is awaited.
<1>1. ASSUME presses < MaxPresses, presses' = presses + 1,
             UNCHANGED <<late, givenUp, loads>>
      PROVE  /\ LateIsGivenUp' /\ Paid
             /\ late' \in [Choice -> 0..MaxPresses]
             /\ givenUp' \subseteq Choice
             /\ presses' \in 0..MaxPresses
             /\ loads' \in 0..MaxLoads
  BY <1>0, <1>a, <1>1 DEF LateIsGivenUp
<1>2. ASSUME NEW choice \in Choice, Pick(choice)
      PROVE  presses < MaxPresses /\ presses' = presses + 1 /\ UNCHANGED <<late, givenUp, loads>>
  BY <1>2 DEF Pick
<1>3. ASSUME Continue
      PROVE  presses < MaxPresses /\ presses' = presses + 1 /\ UNCHANGED <<late, givenUp, loads>>
  BY <1>3 DEF Continue
\* The page gives up: what was awaited is late.
<1>4. ASSUME GiveUp, page'.awaited = Nobody, presses' = presses, loads' \in 0..MaxLoads
      PROVE  /\ LateIsGivenUp' /\ PressedFor'
             /\ late' \in [Choice -> 0..MaxPresses]
             /\ givenUp' \subseteq Choice
             /\ presses' \in 0..MaxPresses
             /\ loads' \in 0..MaxLoads
  <2>1. \A c \in Choice : ~Awaits(page', c)
    BY <1>4 DEF Awaits
  <2>2. CASE Flushing /\ page.reply = "none"
    <3>1. /\ page.awaited \in Choice
          /\ late' = [late EXCEPT ![page.awaited] = late[page.awaited] + 1]
          /\ givenUp' = givenUp \cup {page.awaited}
      BY <1>0, <1>4, <2>2 DEF GiveUp, Flushing, Nobody, Page
    <3>2. late[page.awaited] + 1 <= presses
      BY <1>a, <2>2, <3>1 DEF Awaits, Flushing
    <3>3. late' \in [Choice -> 0..MaxPresses]
      BY <1>0, <1>a, <3>1, <3>2
    <3>4. \A c \in Choice : late'[c] <= presses
      BY <1>0, <1>a, <3>1, <3>2
    <3>5. Paid
      BY <1>0, <1>4, <2>1, <3>3, <3>4
    <3>6. LateIsGivenUp'
      BY <1>0, <3>1 DEF LateIsGivenUp
    <3> QED
      BY <1>0, <1>a, <1>4, <3>1, <3>3, <3>5, <3>6
  <2>3. CASE ~(Flushing /\ page.reply = "none")
    <3>1. UNCHANGED <<late, givenUp>>
      BY <1>4, <2>3 DEF GiveUp
    <3>2. \A c \in Choice : late[c] <= presses
      BY <1>0, <1>a
    <3>3. Paid
      BY <1>0, <1>a, <1>4, <2>1, <3>1, <3>2
    <3> QED
      BY <1>0, <1>a, <1>4, <3>1, <3>3 DEF LateIsGivenUp
  <2> QED
    BY <2>2, <2>3
<1>5. ASSUME Load \/ Abort
      PROVE  GiveUp /\ page'.awaited = Nobody /\ presses' = presses /\ loads' \in 0..MaxLoads
  <2>1. CASE Load
    <3>1. loads' \in 0..MaxLoads
      BY <1>0, <2>1 DEF Load
    <3>2. page'.awaited = Nobody
      BY <2>1 DEF Load, Blank
    <3> QED
      BY <2>1, <3>1, <3>2 DEF Load
  <2>2. CASE Abort
    <3>1. page'.awaited = Nobody
      BY <1>0, <2>2 DEF Abort, Page
    <3> QED
      BY <1>0, <2>2, <3>1 DEF Abort
  <2> QED
    BY <1>5, <2>1, <2>2
\* The others await what was awaited or wanted before, or nothing.
<1>6. ASSUME \A c \in Choice : Awaits(page', c) => Awaits(page, c),
             UNCHANGED <<givenUp, presses, loads>>,
             \/ UNCHANGED late
             \/ \E c \in Choice : late[c] > 0 /\ late' = [late EXCEPT ![c] = @ - 1]
      PROVE  /\ LateIsGivenUp' /\ PressedFor'
             /\ late' \in [Choice -> 0..MaxPresses]
             /\ givenUp' \subseteq Choice
             /\ presses' \in 0..MaxPresses
             /\ loads' \in 0..MaxLoads
  <2>1. /\ late' \in [Choice -> 0..MaxPresses]
        /\ \A c \in Choice : late'[c] <= late[c]
    BY <1>0, <1>6
  <2>2. LateIsGivenUp'
    BY <1>0, <1>6, <2>1 DEF LateIsGivenUp
  <2>3. Paid
    BY <1>0, <1>a, <1>6, <2>1
  <2> QED
    BY <1>0, <1>a, <1>6, <2>1, <2>2, <2>3
<1>7. CASE ArriveSave
  <2>1. page'.awaited = page.awaited /\ page'.desired = page.desired
    BY <1>0, <1>7 DEF ArriveSave, Page
  <2> QED
    BY <1>6, <1>7, <2>1 DEF ArriveSave, Awaits
<1>8. ASSUME NEW choice \in Choice, ArriveLate(choice)
      PROVE  /\ \A c \in Choice : Awaits(page', c) => Awaits(page, c)
             /\ UNCHANGED <<givenUp, presses, loads>>
             /\ \E c \in Choice : late[c] > 0 /\ late' = [late EXCEPT ![c] = @ - 1]
  BY <1>8 DEF ArriveLate, Awaits
<1>9. CASE HearSaved
  <2>1. page.awaited # Nobody
    BY <1>9 DEF HearSaved, AwaitedIsSaving, Flushing
  <2>2. /\ page'.desired = page.desired
        /\ page'.awaited \in {Nobody, page.desired}
    BY <1>0, <1>9 DEF HearSaved, Confirmed, Flushed, Page
  <2>3. \A c \in Choice : Awaits(page', c) => Awaits(page, c)
    BY <2>1, <2>2 DEF Awaits
  <2>4. UNCHANGED <<late, givenUp, presses, loads>>
    BY <1>9 DEF HearSaved
  <2> QED
    BY <1>6, <2>3, <2>4
<1>10. CASE HearClosed \/ HearRefused
  <2>1. page'.awaited = Nobody
    <3>1. CASE HearClosed
      BY <3>1 DEF HearClosed, Blank
    <3>2. CASE HearRefused
      BY <1>0, <3>2 DEF HearRefused, Page
    <3> QED
      BY <1>10, <3>1, <3>2
  <2>2. \A c \in Choice : ~Awaits(page', c)
    BY <2>1 DEF Awaits
  <2>3. UNCHANGED <<late, givenUp, presses, loads>>
    BY <1>10 DEF HearClosed, HearRefused
  <2> QED
    BY <1>6, <2>2, <2>3
<1>11. CASE UNCHANGED <<page, late, givenUp, presses, loads, answer>>
  BY <1>6, <1>11
<1> QED
  BY <1>a, <1>1, <1>2, <1>3, <1>4, <1>5, <1>6, <1>7, <1>8, <1>9, <1>10, <1>11, PageAlone

\* Exits and returns.
LEMMA AbsenceStep ==
  ASSUME TypeOK, PageTypeOK, AwaitedIsSaving, ShownIsStarted,
         ExitBeforeReturn, PairedUnlessFailed, PageNext
  PROVE  /\ absence' \in [Absence -> AbsenceRow]
         /\ ShownIsStarted' /\ ExitBeforeReturn' /\ PairedUnlessFailed'
<1>0. /\ Sitting \in Entitlement
      /\ page \in Page
      /\ absence \in [Absence -> AbsenceRow]
      /\ events \in [Entitlement -> SUBSET EventRow]
  BY PageAssumption DEF TypeOK, PageTypeOK
<1>a. /\ attempt[Sitting].status # "none" => attempt'[Sitting].status # "none"
      /\ attempt[Sitting].status # "none" /\ ~InTime(Sitting) => ~InTime(Sitting)'
      /\ \A kind, id : Recorded(Sitting, kind, id) => Recorded(Sitting, kind, id)'
  BY AttemptGoesOn, PageStepIsStep DEF allVars
\* What a step owes: each exit and return by itself, with its own record.
<1> DEFINE Returned(id) == Recorded(Sitting, "returned", id)
           Hidden(id) == Recorded(Sitting, "hidden", id)
           Sound(row, id) ==
             /\ row.exit = "ended" => row.failed
             /\ row.back = "sent" => row.exit \in {"ended", "arrived"}
             /\ row.exit = "arrived" => Hidden(id)' \/ ~InTime(Sitting)'
             /\ Returned(id)' /\ ~row.failed => Hidden(id)'
           Before(id) ==
             /\ absence[id] \in AbsenceRow
             /\ absence[id].exit = "ended" => absence[id].failed
             /\ absence[id].back = "sent" => absence[id].exit \in {"ended", "arrived"}
             /\ absence[id].exit = "arrived" => Hidden(id) \/ ~InTime(Sitting)
             /\ Returned(id) /\ ~absence[id].failed => Hidden(id)
             /\ absence[id].exit # "none" => attempt[Sitting].status # "none"
<1>b. \A id \in Absence : Before(id)
  BY <1>0 DEF ExitBeforeReturn, PairedUnlessFailed, ShownIsStarted
<1>c. \A id : Hidden(id) => Hidden(id)'
  BY <1>a
<1> HIDE DEF Returned, Hidden
<1>d. ASSUME NEW id \in Absence, Returned(id)' => Returned(id), absence'[id] = absence[id]
      PROVE  Sound(absence'[id], id)
  BY <1>a, <1>b, <1>c, <1>d
<1>e. ASSUME \A id \in Absence : Sound(absence'[id], id),
             absence' \in [Absence -> AbsenceRow],
             page'.shown \/ Flushing' \/ (\E id \in Absence : absence'[id].exit # "none")
               => attempt'[Sitting].status # "none"
      PROVE  /\ absence' \in [Absence -> AbsenceRow]
             /\ ShownIsStarted' /\ ExitBeforeReturn' /\ PairedUnlessFailed'
  BY <1>e DEF ShownIsStarted, ExitBeforeReturn, PairedUnlessFailed, Returned, Hidden
<1> DEFINE Started == page.shown \/ Flushing \/ \E id \in Absence : absence[id].exit # "none"
<1>f. Started => attempt[Sitting].status # "none"
  BY DEF ShownIsStarted
<1>1. CASE Load
  <2>1. attempt[Sitting].status # "none"
    BY <1>1 DEF Load, InTime, Open
  <2>2. \A id : Returned(id)' => Returned(id)
    BY <1>1 DEF Load, vars, Returned, Recorded, EventsOf
  <2>3. ASSUME NEW id \in Absence PROVE absence'[id] \in AbsenceRow /\ Sound(absence'[id], id)
    <3>1. \/ absence'[id] = absence[id]
          \/ absence'[id] = [absence[id] EXCEPT !.back = "arrived"]
      BY <1>1 DEF Load
    <3>2. absence[id] \in AbsenceRow
      BY <1>0
    <3>3. CASE absence'[id] = [absence[id] EXCEPT !.back = "arrived"]
      <4>1. /\ absence'[id].exit = absence[id].exit /\ absence'[id].back = "arrived"
            /\ absence'[id].failed = absence[id].failed
            /\ absence'[id] \in AbsenceRow
        BY <3>2, <3>3 DEF AbsenceRow
      <4> QED
        BY <1>a, <1>b, <1>c, <2>1, <2>2, <4>1
    <3> QED
      BY <1>d, <2>2, <3>1, <3>2, <3>3
  <2>4. absence' \in [Absence -> AbsenceRow]
    BY <1>1, <2>3 DEF Load
  <2> QED
    BY <1>a, <1>e, <2>1, <2>3, <2>4
\* The steps of the page that leave the exits alone.
<1>2. ASSUME UNCHANGED absence, \A id \in Absence : Returned(id)' => Returned(id),
             page'.shown \/ Flushing' => Started
      PROVE  /\ absence' \in [Absence -> AbsenceRow]
             /\ ShownIsStarted' /\ ExitBeforeReturn' /\ PairedUnlessFailed'
  <2>1. \A id \in Absence : Sound(absence'[id], id)
    BY <1>d, <1>2
  <2> QED
    BY <1>0, <1>a, <1>e, <1>f, <1>2, <2>1
<1>3. ASSUME \/ Continue \/ HearSaved \/ HearClosed \/ HearRefused \/ Abort
             \/ \E choice \in Choice : Pick(choice)
      PROVE  /\ UNCHANGED absence /\ (\A id \in Absence : Returned(id)' => Returned(id))
             /\ page'.shown \/ Flushing' => Started
  <2>1. UNCHANGED <<vars, absence>>
    BY <1>3 DEF Continue, HearSaved, HearClosed, HearRefused, Abort, Pick
  <2>2. \A id \in Absence : Returned(id)' => Returned(id)
    BY <2>1 DEF vars, Returned, Recorded, EventsOf
  <2>3. HearSaved => Flushing
    BY DEF HearSaved, AwaitedIsSaving
  <2>4. CASE Continue \/ HearSaved \/ \E choice \in Choice : Pick(choice)
    BY <2>1, <2>2, <2>3, <2>4 DEF Continue, Pick
  <2>5. CASE HearClosed
    BY <2>1, <2>2, <2>5 DEF HearClosed, Blank, Flushing
  <2>6. CASE HearRefused \/ Abort
    <3>1. page'.shown = page.shown /\ page'.awaited = Nobody
      BY <1>0, <2>6 DEF HearRefused, Abort, Page
    <3> QED
      BY <2>1, <2>2, <3>1 DEF Flushing
  <2> QED
    BY <1>3, <2>4, <2>5, <2>6
<1>4. ASSUME \/ ArriveSave \/ Elsewhere \/ Submit
             \/ (\E choice \in Choice : ArriveLate(choice))
             \/ (\E id \in CopyId : Signal(id))
      PROVE  /\ UNCHANGED absence /\ (\A id \in Absence : Returned(id)' => Returned(id))
             /\ page'.shown \/ Flushing' => Started
  <2>1. UNCHANGED absence
    BY <1>4 DEF ArriveSave, Elsewhere, Submit, ArriveLate, Signal, pageVars
  <2>2. page'.shown = page.shown /\ page'.awaited = page.awaited
    BY <1>0, <1>4 DEF ArriveSave, Elsewhere, Submit, ArriveLate, Signal, pageVars, Page
  <2>3. UNCHANGED events \/ \E id \in CopyId : Copy(Sitting, id)
    BY <1>4 DEF ArriveSave, Elsewhere, Submit, ArriveLate, Signal, ServeSave, Save,
                RefuseSave, Start, TimeUp, Visit, Revoke, FinishOpen, FinishSubmit
  <2>4. \A id : Returned(id)' => Returned(id)
    BY <1>0, <2>3 DEF Copy, Record, Returned, Recorded, EventsOf
  <2> QED
    BY <2>1, <2>2, <2>4 DEF Flushing
\* One exit or return: its row alone changes, and nothing else is recorded.
<1>5. ASSUME NEW id \in Absence, NEW row,
             absence' = [absence EXCEPT ![id] = row], row \in AbsenceRow,
             Sound(row, id), UNCHANGED page,
             \A other \in Absence \ {id} : Returned(other)' => Returned(other),
             row.exit # "none" => Started
      PROVE  /\ absence' \in [Absence -> AbsenceRow]
             /\ ShownIsStarted' /\ ExitBeforeReturn' /\ PairedUnlessFailed'
  <2>1. \A other \in Absence : Sound(absence'[other], other)
    BY <1>0, <1>d, <1>5
  <2>2. absence' \in [Absence -> AbsenceRow]
    BY <1>0, <1>5
  <2>3. page'.shown \/ Flushing' \/ (\E i \in Absence : absence'[i].exit # "none")
          => Started
    BY <1>0, <1>5 DEF Flushing
  <2> QED
    BY <1>a, <1>e, <1>f, <2>1, <2>2, <2>3
<1>6. ASSUME NEW id \in Absence,
             Leave(id) \/ ComeBack(id) \/ ExitFails(id) \/ SendReturn(id)
      PROVE  /\ absence' \in [Absence -> AbsenceRow]
             /\ ShownIsStarted' /\ ExitBeforeReturn' /\ PairedUnlessFailed'
  <2>1. UNCHANGED <<vars, page>>
    BY <1>6 DEF Leave, ComeBack, ExitFails, SendReturn
  <2>2. \A other : Returned(other)' => Returned(other)
    BY <2>1 DEF vars, Returned, Recorded, EventsOf
  <2>3. PICK row : /\ absence' = [absence EXCEPT ![id] = row]
                   /\ \/ Leave(id) /\ row = [absence[id] EXCEPT !.exit = "sent"]
                      \/ ComeBack(id) /\ row = [absence[id] EXCEPT !.back = "due"]
                      \/ /\ ExitFails(id)
                         /\ row = [absence[id] EXCEPT !.exit = "ended", !.failed = TRUE]
                      \/ SendReturn(id) /\ row = [absence[id] EXCEPT !.back = "sent"]
    <3>1. CASE Leave(id)
      BY <1>0, <3>1 DEF Leave
    <3>2. CASE ComeBack(id)
      BY <1>0, <3>2 DEF ComeBack
    <3>3. CASE ExitFails(id)
      BY <1>0, <3>3 DEF ExitFails
    <3>4. CASE SendReturn(id)
      BY <1>0, <3>4 DEF SendReturn
    <3> QED
      BY <1>6, <3>1, <3>2, <3>3, <3>4
  <2>4. row \in AbsenceRow
    BY <1>0, <2>3 DEF AbsenceRow
  <2>5. Started
    BY <2>3 DEF Leave, ComeBack, ExitFails, SendReturn
  <2>6. Sound(row, id)
    <3>1. CASE Leave(id) /\ row = [absence[id] EXCEPT !.exit = "sent"]
      BY <1>0, <1>a, <1>b, <1>c, <2>2, <3>1 DEF Leave, AbsenceRow
    <3>2. CASE ComeBack(id) /\ row = [absence[id] EXCEPT !.back = "due"]
      BY <1>0, <1>a, <1>b, <1>c, <2>2, <3>2 DEF ComeBack, AbsenceRow
    <3>3. CASE ExitFails(id) /\ row = [absence[id] EXCEPT !.exit = "ended", !.failed = TRUE]
      BY <1>0, <1>a, <1>b, <1>c, <2>2, <3>3 DEF ExitFails, AbsenceRow
    <3>4. CASE SendReturn(id) /\ row = [absence[id] EXCEPT !.back = "sent"]
      BY <1>0, <1>a, <1>b, <1>c, <2>2, <3>4 DEF SendReturn, ExitEnded, AbsenceRow
    <3> QED
      BY <2>3, <3>1, <3>2, <3>3, <3>4
  <2> QED
    BY <1>5, <2>1, <2>2, <2>3, <2>4, <2>5, <2>6
\* The exit reaches the server: recorded, or refused for good.
<1>7. ASSUME NEW id \in Absence, ArriveExit(id)
      PROVE  /\ absence' \in [Absence -> AbsenceRow]
             /\ ShownIsStarted' /\ ExitBeforeReturn' /\ PairedUnlessFailed'
  <2> DEFINE row == [absence[id] EXCEPT !.exit = "arrived"]
  <2>1. /\ absence' = [absence EXCEPT ![id] = row]
        /\ UNCHANGED page
        /\ absence[id].exit \in {"sent", "ended"}
    BY <1>0, <1>7 DEF ArriveExit
  <2>2. /\ row \in AbsenceRow /\ row.exit = "arrived"
        /\ row.back = absence[id].back /\ row.failed = absence[id].failed
    BY <1>0 DEF AbsenceRow
  <2>3. Started
    BY <2>1
  <2>4. Hidden(id)' \/ ~InTime(Sitting)'
    <3>1. CASE Hide(Sitting, id)
      <4> DEFINE event == [kind |-> "hidden", id |-> id, points |-> 0]
      <4>1. event \in events'[Sitting]
        BY <1>0, <3>1 DEF Hide, Record
      <4>2. event.kind = "hidden" /\ event.id = id
        OBVIOUS
      <4> HIDE DEF event
      <4> QED
        BY <4>1, <4>2 DEF Hidden, Recorded, EventsOf
    <3>2. CASE RefuseEvent
      BY <1>a, <1>f, <2>3, <3>2 DEF RefuseEvent
    <3> QED
      BY <1>7, <3>1, <3>2 DEF ArriveExit
  <2>5. \A other : Returned(other)' => Returned(other)
    <3>1. CASE Hide(Sitting, id)
      BY <1>0, <3>1 DEF Hide, Record, Returned, Recorded, EventsOf
    <3>2. CASE RefuseEvent
      BY <3>2 DEF RefuseEvent, Visit, vars, Returned, Recorded, EventsOf
    <3> QED
      BY <1>7, <3>1, <3>2 DEF ArriveExit
  <2>6. Sound(row, id)
    BY <1>b, <1>c, <2>1, <2>2, <2>4, <2>5
  <2> HIDE DEF row
  <2> QED
    BY <1>5, <2>1, <2>2, <2>3, <2>5, <2>6
\* The return reaches the server, where the exit is known unless it failed.
<1>8. ASSUME NEW id \in Absence, ArriveReturn(id)
      PROVE  /\ absence' \in [Absence -> AbsenceRow]
             /\ ShownIsStarted' /\ ExitBeforeReturn' /\ PairedUnlessFailed'
  <2> DEFINE row == [absence[id] EXCEPT !.back = "arrived"]
  <2>1. /\ absence' = [absence EXCEPT ![id] = row]
        /\ UNCHANGED page
        /\ absence[id].back = "sent"
    BY <1>0, <1>8 DEF ArriveReturn
  <2>2. /\ row \in AbsenceRow /\ row.exit = absence[id].exit
        /\ row.back = "arrived" /\ row.failed = absence[id].failed
    BY <1>0 DEF AbsenceRow
  <2>3. absence[id].exit \in {"ended", "arrived"} /\ Started
    BY <1>b, <2>1
  <2>4. CASE \E points \in AwayPoints \cup {0} : Return(Sitting, id, points)
    <3>1. PICK points \in AwayPoints \cup {0} : Return(Sitting, id, points)
      BY <2>4
    <3>2. \A other \in Absence \ {id} : Returned(other)' => Returned(other)
      <4>1. events'[Sitting] = events[Sitting] \cup
              {[kind |-> "returned", id |-> id, points |-> points]}
        BY <1>0, <3>1 DEF Return, Record
      <4>2. [kind |-> "returned", id |-> id, points |-> points].id = id
        OBVIOUS
      <4> QED
        BY <4>1, <4>2 DEF Returned, Recorded, EventsOf
    <3>3. InTime(Sitting)
      BY <3>1 DEF Return
    <3>4. ~absence[id].failed => Hidden(id)
      BY <1>b, <2>3, <3>3
    <3>5. Sound(row, id)
      BY <1>a, <1>b, <1>c, <2>2, <2>3, <3>4
    <3> HIDE DEF row
    <3> QED
      BY <1>5, <2>1, <2>2, <2>3, <3>2, <3>5
  <2>5. CASE RefuseEvent
    <3>1. \A other : Returned(other)' => Returned(other)
      BY <2>5 DEF RefuseEvent, Visit, vars, Returned, Recorded, EventsOf
    <3>2. Sound(row, id)
      BY <1>a, <1>b, <1>c, <1>f, <2>2, <2>3, <3>1
    <3> HIDE DEF row
    <3> QED
      BY <1>5, <2>1, <2>2, <2>3, <3>1, <3>2
  <2> QED
    BY <1>8, <2>4, <2>5 DEF ArriveReturn
<1> QED
  BY <1>1, <1>2, <1>3, <1>4, <1>6, <1>7, <1>8 DEF PageNext

-----------------------------------------------------------------------------
(* The theorems about the page. *)

LEMMA PageInitInv == PageInit => PageInv
<1> SUFFICES ASSUME PageInit PROVE PageInv
  OBVIOUS
<1>0. /\ Sitting \in Entitlement /\ MaxPresses \in Nat /\ MaxLoads \in Nat
      /\ TypeOK
  BY PageAssumption, InitInv DEF PageInit, IndInv
<1>1. /\ page \in Page /\ page.awaited = Nobody /\ page.label = ""
      /\ page.reply = "none" /\ page.saved = NoChoice /\ ~page.shown
  BY DEF PageInit, Blank, Page, Nobody
<1>2. absence \in [Absence -> AbsenceRow]
  BY DEF PageInit, AbsenceRow
<1>3. PageTypeOK
  <2>1. late \in [Choice -> 0..MaxPresses] /\ presses \in 0..MaxPresses
    BY <1>0 DEF PageInit
  <2>2. loads \in 0..MaxLoads /\ givenUp \subseteq Choice
    BY <1>0 DEF PageInit
  <2> QED
    BY <1>0, <1>1, <1>2, <2>1, <2>2 DEF PageTypeOK
<1>4. AwaitedIsSaving /\ OnlyGivenUpOverwrites
  BY <1>1 DEF AwaitedIsSaving, Flushing, OnlyGivenUpOverwrites
<1>5. LateIsGivenUp /\ PressedFor
  <2>1. presses = 0 /\ \A c \in Choice : late[c] = 0
    BY DEF PageInit
  <2>2. ~Flushing
    BY <1>1 DEF Flushing
  <2>3. LateIsGivenUp
    BY <2>1 DEF LateIsGivenUp
  <2>4. PressedFor
    BY <2>1, <2>2 DEF PressedFor
  <2> QED
    BY <2>3, <2>4
<1>6. \A id \in Absence : absence[id].exit = "none" /\ absence[id].back = "none"
  BY DEF PageInit
<1>7. \A kind, id : ~Recorded(Sitting, kind, id)
  BY <1>0 DEF PageInit, Init, Recorded, EventsOf
<1> QED
  BY <1>1, <1>3, <1>4, <1>5, <1>6, <1>7
     DEF PageInv, ShownIsStarted, ExitBeforeReturn, PairedUnlessFailed, Flushing

LEMMA PageStepInv == PageInv /\ [PageNext]_allVars => PageInv'
<1> SUFFICES ASSUME PageInv, [PageNext]_allVars PROVE PageInv'
  OBVIOUS
<1>0. TypeOK /\ PageTypeOK
  BY DEF PageInv, PageTypeOK
<1>1. CASE PageNext
  <2>1. TypeOK'
    <3>1. [Next]_vars
      BY <1>0, PageStepIsStep
    <3>2. CASE UNCHANGED vars
      BY <1>0, <3>2 DEF vars, TypeOK
    <3> QED
      BY <1>0, <3>1, <3>2, TypeStep DEF Next
  <2>2. AwaitedIsSaving' /\ OnlyGivenUpOverwrites' /\ page' \in Page
    BY <1>0, <1>1, SavingStep DEF PageInv
  <2>3. /\ LateIsGivenUp' /\ PressedFor'
        /\ late' \in [Choice -> 0..MaxPresses]
        /\ givenUp' \subseteq Choice
        /\ presses' \in 0..MaxPresses
        /\ loads' \in 0..MaxLoads
    BY <1>0, <1>1, LateStep DEF PageInv
  <2>4. /\ absence' \in [Absence -> AbsenceRow]
        /\ ShownIsStarted' /\ ExitBeforeReturn' /\ PairedUnlessFailed'
    BY <1>0, <1>1, AbsenceStep DEF PageInv
  <2>5. PageTypeOK'
    BY <2>1, <2>2, <2>3, <2>4 DEF PageTypeOK
  <2> QED
    BY <2>2, <2>3, <2>4, <2>5 DEF PageInv
<1>2. CASE UNCHANGED allVars
  <2>1. UNCHANGED <<access, attempt, answer, events, result, finishing>>
    BY <1>2 DEF allVars, vars
  <2>2. UNCHANGED <<page, late, givenUp, absence, presses, loads>>
    BY <1>2 DEF allVars, pageVars
  <2>3. PageTypeOK'
    BY <1>0, <2>1, <2>2 DEF PageTypeOK, TypeOK
  <2>4. AwaitedIsSaving' /\ LateIsGivenUp' /\ PressedFor' /\ OnlyGivenUpOverwrites'
    BY <2>1, <2>2 DEF PageInv, AwaitedIsSaving, Flushing, LateIsGivenUp, PressedFor,
                      OnlyGivenUpOverwrites
  <2>5. ShownIsStarted' /\ ExitBeforeReturn' /\ PairedUnlessFailed'
    BY <2>1, <2>2 DEF PageInv, ShownIsStarted, Flushing, ExitBeforeReturn,
                      PairedUnlessFailed, Recorded, EventsOf, InTime, Open
  <2> QED
    BY <2>3, <2>4, <2>5 DEF PageInv
<1> QED
  BY <1>1, <1>2

\* The invariant of the page holds in every reachable state.
THEOREM PageInvariance == PageSpec => []PageInv
BY PageInitInv, PageStepInv, PTL DEF PageSpec

\* The page and the network do to the attempt what ExamAttempt lets any
\* customer do, and nothing else: all that is proved of attempts holds of the
\* one on the screen.
THEOREM PageImplementsAttempt == PageSpec => Spec
<1>1. PageInit => Init
  BY DEF PageInit
<1>2. PageInv /\ [PageNext]_allVars => [Next]_vars
  BY PageStepIsStep DEF PageInv
<1> QED
  BY <1>1, <1>2, PageInvariance, PTL DEF PageSpec, Spec

\* So the promise of the exam holds of the page, whatever its network.
THEOREM PageKeepsSittings == PageSpec => KeepsSittings
BY PageImplementsAttempt, AttemptsImplementSittings

\* "Answer saved" is the truth on the customer's screen, whatever is lost, late,
\* retried or picked in between, unless a request the page had given up arrives.
THEOREM SavedMeansSaved == PageSpec => []OnlyGivenUpOverwrites
BY PageInvariance, PTL DEF PageInv

\* Absences are paired in order, for any number of exits and whatever order
\* their requests arrive in, unless the exit's request failed in the browser.
THEOREM AbsencesArePaired == PageSpec => []PairedUnlessFailed
BY PageInvariance, PTL DEF PageInv
=============================================================================
