---------------------------- MODULE ExamSitting ----------------------------
(***************************************************************************)
(* What an exam promises both sides: each entitlement pays for one         *)
(* sitting; answers count while it lasts and its time is not up; it is     *)
(* judged once, by the answers as they stand then and by the evidence      *)
(* recorded of it, or it is void; and it is over when it was stopped for   *)
(* copying, judged or barred.                                              *)
(***************************************************************************)
EXTENDS Naturals, FiniteSets, FiniteSetsExt

CONSTANTS
  Entitlement,
  Gift,        \* entitlements whose sitting is stopped for copying
  Choice,
  NoChoice,    \* nothing is answered yet
  Evidence,    \* what may be recorded, each with its kind, identity and points
  CopyLimit,   \* copies a sitting is stopped at
  FullScore,   \* the integrity of a sitting without evidence
  PacePoints   \* what haste may cost when it is judged

VARIABLES
  stage,     \* of each sitting
  paper,     \* the answer as it stands
  evidence,  \* what was recorded of it
  verdict,   \* its judgement, if it has one
  barred     \* entitlements that were taken back

sittings == <<stage, paper, evidence, verdict, barred>>

Init ==
  /\ stage = [e \in Entitlement |-> "unused"]
  /\ paper = [e \in Entitlement |-> NoChoice]
  /\ evidence = [e \in Entitlement |-> {}]
  /\ verdict = [e \in Entitlement |-> {}]
  /\ barred = {}

\* The integrity of a sitting: what the evidence and haste leave of it.
Integrity(found, pace) ==
  LET lost == MapThenSumSet(LAMBDA event : event.points, found) + pace
  IN  IF lost > FullScore THEN 0 ELSE FullScore - lost

\* The evidence a sitting is stopped for.
Enough(e, found) ==
  e \in Gift /\ Cardinality({event \in found : event.kind = "copy"}) >= CopyLimit

Begin(e) ==
  /\ stage[e] = "unused" /\ e \notin barred
  /\ stage' = [stage EXCEPT ![e] = "sitting"]
  /\ UNCHANGED <<paper, evidence, verdict, barred>>

Answer(e, choice) ==
  /\ stage[e] = "sitting"
  /\ paper' = [paper EXCEPT ![e] = choice]
  /\ UNCHANGED <<stage, evidence, verdict, barred>>

\* Something is found, once; an absence costs only if its beginning was seen.
Witness(e, event) ==
  /\ stage[e] = "sitting"
  /\ \A old \in evidence[e] : old.kind # event.kind \/ old.id # event.id
  /\ event.kind = "returned" /\ event.points > 0 =>
       \E left \in evidence[e] : left.kind = "hidden" /\ left.id = event.id
  /\ evidence' = [evidence EXCEPT ![e] = @ \cup {event}]
  /\ stage' = [stage EXCEPT ![e] =
       IF Enough(e, evidence[e] \cup {event}) THEN "void" ELSE "sitting"]
  /\ UNCHANGED <<paper, verdict, barred>>

TimeUp(e) ==
  /\ stage[e] = "sitting"
  /\ stage' = [stage EXCEPT ![e] = "late"]
  /\ UNCHANGED <<paper, evidence, verdict, barred>>

Judge(e) ==
  /\ stage[e] \in {"sitting", "late"}
  /\ stage' = [stage EXCEPT ![e] = "judged"]
  /\ \E pace \in PacePoints :
       verdict' = [verdict EXCEPT ![e] =
         {[answer |-> paper[e], integrity |-> Integrity(evidence[e], pace)]}]
  /\ UNCHANGED <<paper, evidence, barred>>

Bar(e) ==
  /\ barred' = barred \cup {e}
  /\ stage' = [stage EXCEPT ![e] = IF @ \in {"sitting", "late"} THEN "void" ELSE @]
  /\ UNCHANGED <<paper, evidence, verdict>>

Next ==
  \E e \in Entitlement :
    \/ Begin(e) \/ TimeUp(e) \/ Judge(e) \/ Bar(e)
    \/ \E choice \in Choice : Answer(e, choice)
    \/ \E event \in Evidence : Witness(e, event)

Spec == Init /\ [][Next]_sittings
=============================================================================
