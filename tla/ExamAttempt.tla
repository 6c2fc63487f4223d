----------------------------- MODULE ExamAttempt -----------------------------
(***************************************************************************)
(* One customer's attempts at one exam (assessments/services.py and the    *)
(* attempt views): start, answers, integrity events, lazy expiry, final    *)
(* submission, scoring, the copy stop of gift attempts and revocation by a *)
(* manager.                                                                *)
(*                                                                         *)
(* Every service and view that writes an attempt holds its row lock for    *)
(* one transaction and is one action.  FinishAttemptView is the exception: *)
(* it expires, decides and submits in separate transactions (FinishOpen,   *)
(* FinishSubmit).  "submitted", "expired" and "scoring" are written and    *)
(* left inside one transaction, so no other request ever reads them.       *)
(* Expiry is lazy: no process closes an overdue attempt, the next request  *)
(* does.                                                                   *)
(***************************************************************************)
EXTENDS Integers, FiniteSets, FiniteSetsExt

CONSTANTS
  Entitlement,  \* the customer's entitlements to the exam
  Gift,         \* those bought with the welcome credit
  Choice,       \* the choices of the question on the screen
  NoChoice,     \* no answer saved
  NotScored,    \* no AttemptResult
  PerDay,       \* ASSESSMENT_ATTEMPTS_PER_DAY
  CopyLimit,    \* copies a gift attempt is stopped at (5 in the code)
  FullScore,    \* the integrity score an attempt starts with (100)
  CopyPoints,   \* what a copy costs (2)
  PastePoints,  \* what a paste costs (3)
  AwayPoints,   \* what a paired absence may cost, by its length ({0,1,3,6})
  PacePoints,   \* what suspicious pace may cost (0..25)
  CopyId,       \* identities browsers give copy events
  PasteBurst,   \* pastes on one question less than 3 seconds apart
  Absence       \* identities browsers give page exits

ASSUME AttemptAssumption ==
  /\ IsFiniteSet(Entitlement)
  /\ Gift \subseteq Entitlement
  /\ NoChoice \notin Choice
  /\ NotScored \notin Choice \cup {NoChoice}
  /\ PerDay \in Nat
  /\ CopyLimit \in Nat \ {0}
  /\ FullScore \in Nat
  /\ CopyPoints \in Nat
  /\ PastePoints \in Nat
  /\ AwayPoints \subseteq Nat
  /\ PacePoints \subseteq Nat

VARIABLES
  access,     \* ExamEntitlement rows: attempts_remaining and revoked_at
  attempt,    \* Attempt rows, one-to-one with their entitlement
  answer,     \* the stored choice of the question on the screen
  events,     \* IntegrityEvent rows with their risk points
  result,     \* AttemptResult rows: the answer that was scored
  finishing   \* attempts with a FinishAttemptView between its transactions

vars == <<access, attempt, answer, events, result, finishing>>

AttemptRow ==
  [status: {"none", "in_progress", "completed", "invalidated"},
   reason: {"", "manual", "timeout", "copy_limit"},
   overdue: BOOLEAN,       \* expires_at has passed
   recent: BOOLEAN,        \* started in the last 24 hours
   acknowledged: BOOLEAN,  \* a copy_policy_acceptance event exists
   score: Nat,             \* integrity_score
   pace: Nat]              \* the pace penalty applied at scoring

EventRow ==
  [kind: {"copy"}, id: CopyId, points: {CopyPoints}]
    \cup [kind: {"paste"}, id: PasteBurst, points: {PastePoints}]
    \cup [kind: {"hidden", "returned"}, id: Absence,
          points: AwayPoints \cup {0}]

TypeOK ==
  /\ access \in [Entitlement -> [left: 0..1, revoked: BOOLEAN]]
  /\ attempt \in [Entitlement -> AttemptRow]
  /\ answer \in [Entitlement -> Choice \cup {NoChoice}]
  /\ events \in [Entitlement -> SUBSET EventRow]
  /\ result \in [Entitlement -> Choice \cup {NoChoice, NotScored}]
  /\ finishing \subseteq Entitlement

Init ==
  /\ access = [e \in Entitlement |-> [left |-> 1, revoked |-> FALSE]]
  /\ attempt = [e \in Entitlement |->
       [status |-> "none", reason |-> "", overdue |-> FALSE, recent |-> FALSE,
        acknowledged |-> FALSE, score |-> FullScore, pace |-> 0]]
  /\ answer = [e \in Entitlement |-> NoChoice]
  /\ events = [e \in Entitlement |-> {}]
  /\ result = [e \in Entitlement |-> NotScored]
  /\ finishing = {}

Open(e) == attempt[e].status = "in_progress"

\* Variant for the mutation runs: a request that found the attempt open when
\* its page was rendered is served.
InTimeOnceStarted(e) == attempt[e].status # "none"

\* Open once finalize_expired_attempt has looked at it.
InTime(e) == Open(e) /\ ~attempt[e].overdue

-----------------------------------------------------------------------------
(* Starting. *)

StartedToday == {e \in Entitlement : attempt[e].recent}

\* Variant for the mutation runs: one more start than the limit allows.
MayStartOneMore == Cardinality(StartedToday) <= PerDay

\* recent_count < ASSESSMENT_ATTEMPTS_PER_DAY, counted under the user's lock.
MayStart == Cardinality(StartedToday) < PerDay

\* StartAttemptView.post and start_attempt, when no attempt exists yet (an
\* existing one is returned unchanged).  A gift is started only with its rules
\* acknowledged.
Start(e, acknowledged) ==
  /\ attempt[e].status = "none"
  /\ ~access[e].revoked
  /\ access[e].left >= 1
  /\ e \in Gift => acknowledged
  /\ MayStart
  /\ attempt' = [attempt EXCEPT ![e] =
       [@ EXCEPT !.status = "in_progress", !.recent = TRUE,
                 !.acknowledged = acknowledged]]
  /\ access' = [access EXCEPT ![e].left = @ - 1]
  /\ UNCHANGED <<answer, events, result, finishing>>

\* 24 hours have passed since the start.
DayPasses(e) ==
  /\ attempt[e].recent
  /\ attempt' = [attempt EXCEPT ![e].recent = FALSE]
  /\ UNCHANGED <<access, answer, events, result, finishing>>

\* duration_minutes have passed since the start; nothing reacts yet.
TimeUp(e) ==
  /\ Open(e)
  /\ ~attempt[e].overdue
  /\ attempt' = [attempt EXCEPT ![e].overdue = TRUE]
  /\ UNCHANGED <<access, answer, events, result, finishing>>

-----------------------------------------------------------------------------
(* Closing. *)

\* max(0, integrity_score - points)
Lowered(score, points) == IF points > score THEN 0 ELSE score - points

Scored(row, reason, pace) ==
  [row EXCEPT !.status = "completed", !.reason = reason,
              !.score = Lowered(row.score, pace), !.pace = pace]

\* score_attempt: the result and the certificate from the stored answers, and
\* the pace penalty.
Complete(e, reason) ==
  \E pace \in PacePoints :
    /\ attempt' = [attempt EXCEPT ![e] = Scored(attempt[e], reason, pace)]
    /\ result' = [result EXCEPT ![e] = answer[e]]

\* Variant for the mutation runs: closed whatever its status.
ExpiredAnyTime(e) == attempt[e].overdue /\ attempt[e].status # "none"

Expired(e) == Open(e) /\ attempt[e].overdue

\* finalize_expired_attempt: the first thing every attempt view does.
CloseExpired(e) ==
  /\ Expired(e)
  /\ Complete(e, "timeout")

\* Any view on an overdue attempt, before it does anything else.
Visit(e) ==
  /\ CloseExpired(e)
  /\ UNCHANGED <<access, answer, events, finishing>>

\* FinishAttemptView up to finalize_attempt_submission: the attempt is open, not
\* overdue, and the customer confirmed.  (Of a closed attempt the submission
\* changes nothing.)
FinishOpen(e) ==
  /\ InTime(e)
  /\ finishing' = finishing \cup {e}
  /\ UNCHANGED <<access, attempt, answer, events, result>>

\* Variant for the mutation runs: submitted only if still in time.
SubmittedInTime(e) ==
  \/ InTime(e) /\ Complete(e, "manual")
  \/ ~InTime(e) /\ UNCHANGED <<attempt, result>>

\* Expiry is looked at again; a closed attempt is left as it is.
Submitted(e) ==
  \/ CloseExpired(e)
  \/ InTime(e) /\ Complete(e, "manual")
  \/ ~Open(e) /\ UNCHANGED <<attempt, result>>

\* finalize_attempt_submission, under the row lock.
FinishSubmit(e) ==
  /\ e \in finishing
  /\ finishing' = finishing \ {e}
  /\ Submitted(e)
  /\ UNCHANGED <<access, answer, events>>

Invalidated(e) ==
  IF Open(e) THEN [attempt EXCEPT ![e].status = "invalidated"] ELSE attempt

\* revoke_assessment_access, under the locks of order, entitlement and attempt.
Revoke(e) ==
  /\ ~access[e].revoked
  /\ access' = [access EXCEPT ![e].revoked = TRUE]
  /\ attempt' = Invalidated(e)
  /\ UNCHANGED <<answer, events, result, finishing>>

-----------------------------------------------------------------------------
(* Answers. *)

\* SaveAnswerView.post on an open attempt.
Save(e, choice) ==
  /\ InTime(e)
  /\ answer' = [answer EXCEPT ![e] = choice]
  /\ UNCHANGED <<access, attempt, events, result, finishing>>

\* SaveAnswerView.post on an overdue or closed attempt: it is closed and the
\* answer refused.
RefuseSave(e) ==
  /\ ~InTime(e)
  /\ \/ CloseExpired(e)
     \/ ~Expired(e) /\ UNCHANGED <<attempt, result>>
  /\ UNCHANGED <<access, answer, events, finishing>>

-----------------------------------------------------------------------------
(* Integrity events. *)

EventsOf(e, kind) == {event \in events[e] : event.kind = kind}

\* Variant for the mutation runs: no identity is remembered.
RecordedNever(e, kind, id) == FALSE

Recorded(e, kind, id) == \E event \in EventsOf(e, kind) : event.id = id

Record(e, kind, id, points) ==
  events' = [events EXCEPT ![e] =
               @ \cup {[kind |-> kind, id |-> id, points |-> points]}]

Charged(row, points) == [row EXCEPT !.score = Lowered(row.score, points)]

Stopped(row) ==
  [row EXCEPT !.status = "invalidated", !.reason = "copy_limit"]

\* copy_limit_enabled: a gift whose rules were acknowledged.
CopyLimited(e) == e \in Gift /\ attempt[e].acknowledged

\* Variant for the mutation runs: one copy too late.
AtCopyLimitLate(e) == Cardinality(EventsOf(e, "copy")) >= CopyLimit

\* This copy is the one the attempt is stopped at.
AtCopyLimit(e) == Cardinality(EventsOf(e, "copy")) + 1 >= CopyLimit

\* IntegrityEventView, a copy of question text: recorded once per identity,
\* and the welcome attempt is stopped at the limit (stop_welcome_copy_attempt).
Copy(e, id) ==
  /\ InTime(e)
  /\ ~Recorded(e, "copy", id)
  /\ Record(e, "copy", id, CopyPoints)
  /\ attempt' = [attempt EXCEPT ![e] =
       IF CopyLimited(e) /\ AtCopyLimit(e)
       THEN Stopped(Charged(attempt[e], CopyPoints))
       ELSE Charged(attempt[e], CopyPoints)]
  /\ UNCHANGED <<access, answer, result, finishing>>

\* IntegrityEventView, a paste on the question: one per burst is recorded.
Paste(e, burst) ==
  /\ InTime(e)
  /\ ~Recorded(e, "paste", burst)
  /\ Record(e, "paste", burst, PastePoints)
  /\ attempt' = [attempt EXCEPT ![e] = Charged(attempt[e], PastePoints)]
  /\ UNCHANGED <<access, answer, result, finishing>>

\* IntegrityEventView, the page is left: no points yet.
Hide(e, id) ==
  /\ InTime(e)
  /\ ~Recorded(e, "hidden", id)
  /\ Record(e, "hidden", id, 0)
  /\ UNCHANGED <<access, attempt, answer, result, finishing>>

Paired(e, id) == Recorded(e, "hidden", id)

\* IntegrityEventView, the page is back: an absence costs points by its length
\* on the server's clock, one whose exit never arrived costs none.
Return(e, id, points) ==
  /\ InTime(e)
  /\ ~Recorded(e, "returned", id)
  /\ ~Paired(e, id) => points = 0
  /\ Record(e, "returned", id, points)
  /\ attempt' = [attempt EXCEPT ![e] = Charged(attempt[e], points)]
  /\ UNCHANGED <<access, answer, result, finishing>>

-----------------------------------------------------------------------------
\* Starts, time, submissions and revocation.
Lifecycle(e) ==
  \/ \E acknowledged \in BOOLEAN : Start(e, acknowledged)
  \/ DayPasses(e) \/ TimeUp(e) \/ Visit(e) \/ FinishOpen(e) \/ FinishSubmit(e)
  \/ Revoke(e)

\* What the exam page sends.
Browser(e) ==
  \/ RefuseSave(e)
  \/ \E choice \in Choice : Save(e, choice)
  \/ \E id \in CopyId : Copy(e, id)
  \/ \E burst \in PasteBurst : Paste(e, burst)
  \/ \E id \in Absence :
       Hide(e, id) \/ \E points \in AwayPoints \cup {0} : Return(e, id, points)

Next == \E e \in Entitlement : Lifecycle(e) \/ Browser(e)

Spec == Init /\ [][Next]_vars

\* A view that has begun ends: FinishAttemptView goes on to its last
\* transaction.  The customer owes nothing else.
FairSpec == Spec /\ \A e \in Entitlement : WF_vars(FinishSubmit(e))

-----------------------------------------------------------------------------
(* Properties. *)

Points(e) == MapThenSumSet(LAMBDA event : event.points, events[e])

\* A result exists exactly for completed attempts, and it stays the score of
\* the answers as they are stored: nothing saved, late or twice, after the
\* scoring gets past it (finalize_attempt_submission's docstring).
ResultIsOfStoredAnswers ==
  \A e \in Entitlement :
    /\ result[e] # NotScored <=> attempt[e].status = "completed"
    /\ result[e] # NotScored => result[e] = answer[e]

\* A closed attempt is closed for good: no answer, integrity score, status or
\* reason of it ever changes, whichever of expiry, submission, copy stop and
\* revocation came first and whatever the others still do.
ClosedForGood ==
  [][\A e \in Entitlement :
       attempt[e].status \in {"completed", "invalidated"} =>
         /\ answer'[e] = answer[e]
         /\ result'[e] = result[e]
         /\ events'[e] = events[e]
         /\ [attempt'[e] EXCEPT !.recent = attempt[e].recent] = attempt[e]]_vars

\* The customer never starts more than PerDay attempts in 24 hours, and an
\* entitlement pays for one attempt.
StartsAreLimited ==
  /\ Cardinality(StartedToday) <= PerDay
  /\ \A e \in Entitlement :
       access[e].left = 1 <=> attempt[e].status = "none"

\* A revoked entitlement has no open attempt, whatever starts, saves and
\* submissions the revocation met on its way.
RevokedIsClosed == \A e \in Entitlement : access[e].revoked => ~Open(e)

\* The copy stop falls on gift attempts alone, at the limit exactly, and an
\* attempt at the limit is never left open.
CopyStopIsExact ==
  \A e \in Entitlement :
    LET copies == Cardinality(EventsOf(e, "copy")) IN
      /\ attempt[e].reason = "copy_limit" => e \in Gift /\ copies = CopyLimit
      /\ e \in Gift /\ copies >= CopyLimit => attempt[e].reason = "copy_limit"

\* The integrity score is explained by the evidence, to the point: the recorded
\* events, each identity once and unpaired absences at no cost, and the pace
\* penalty, down to a floor of 0.
ScoreIsExplained ==
  \A e \in Entitlement :
    /\ attempt[e].score = Lowered(FullScore, Points(e) + attempt[e].pace)
    /\ \A event \in EventsOf(e, "returned") :
         event.points > 0 => Recorded(e, "hidden", event.id)

\* What the copy stop rests on: gifts are only started acknowledged, an open
\* attempt was not stopped yet, and evidence can be counted.
GiftsAcknowledged ==
  \A e \in Gift : attempt[e].status # "none" => attempt[e].acknowledged

OpenIsUnstopped ==
  \A e \in Entitlement :
    attempt[e].status \in {"none", "in_progress"} => attempt[e].reason = ""

EventsFinite == \A e \in Entitlement : IsFiniteSet(events[e])

\* What the score rests on: the pace penalty comes with the result.
PaceIsScored ==
  \A e \in Entitlement : attempt[e].status # "completed" => attempt[e].pace = 0

\* The clock of an attempt starts with it.
UnusedInTime ==
  \A e \in Entitlement : attempt[e].status = "none" => ~attempt[e].overdue

\* The inductive invariant.
IndInv ==
  /\ TypeOK
  /\ ResultIsOfStoredAnswers
  /\ StartsAreLimited
  /\ RevokedIsClosed
  /\ CopyStopIsExact
  /\ GiftsAcknowledged
  /\ OpenIsUnstopped
  /\ EventsFinite
  /\ ScoreIsExplained
  /\ PaceIsScored
  /\ UnusedInTime

\* A confirmed submission closes the attempt in the end.
FinishCloses == \A e \in Entitlement : e \in finishing ~> ~Open(e)

\* The attempts implement the sittings of an exam: see ExamSitting.  The daily
\* limit, who closed an attempt and how old its start is do not show.
StageOf(e) ==
  CASE attempt[e].status = "none" -> "unused"
    [] InTime(e) -> "sitting"
    [] Expired(e) -> "late"
    [] attempt[e].status = "completed" -> "judged"
    [] attempt[e].status = "invalidated" -> "void"

VerdictOf(e) ==
  IF attempt[e].status = "completed"
  THEN {[answer |-> result[e], integrity |-> attempt[e].score]} ELSE {}

Sittings ==
  INSTANCE ExamSitting
    WITH Evidence <- EventRow,
         stage <- [e \in Entitlement |-> StageOf(e)],
         paper <- answer,
         evidence <- events,
         verdict <- [e \in Entitlement |-> VerdictOf(e)],
         barred <- {e \in Entitlement : access[e].revoked}

KeepsSittings == Sittings!Spec
=============================================================================
