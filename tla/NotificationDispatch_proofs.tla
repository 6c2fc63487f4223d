--------------------- MODULE NotificationDispatch_proofs ---------------------
(***************************************************************************)
(* The safety properties of NotificationDispatch, for any managers, phones *)
(* and number of kills.                                                    *)
(***************************************************************************)
EXTENDS NotificationDispatch, TLAPS

\* The push under way, and those listed for one, are to receipts that are not
\* marked; the outcome of the one under way is what the history has of it.
PushUnderWay ==
  /\ run.sent # Nobody =>
       /\ Pushing
       /\ run.sent \notin run.list
       /\ receipt[run.sent].push # "sent"
       /\ run.result = "accepted" => rung[run.sent] # "no"
       /\ run.result = "failed" => rung[run.sent] # "yes"
  /\ Pushing => \A m \in run.list : receipt[m].push # "sent"

\* What was accepted is marked, or about to be.
RungIsMarked ==
  \A m \in Manager :
    rung[m] = "yes" => receipt[m].push = "sent" \/ run.sent = m

\* Once all phones were texted, every receipt says so.
SettledIsMarked == settled => \A m \in Manager : Has(m) => receipt[m].texted

NoSecondPush == \A m \in run.list : Pushing => rung[m] # "yes"
NoSecondText == settled /\ (\E m \in Manager : Has(m)) => run.phones = {}

PushInv == PushUnderWay /\ RungIsMarked /\ NoSecondPush /\ MarkedMeansRung
TextInv == SettledIsMarked /\ NoSecondText

IndInv == TypeOK /\ PushInv /\ TextInv

-----------------------------------------------------------------------------
(* Steps of others: the alert, the managers, time. *)

\* A receipt keeps its text mark, and its push mark too unless it is reset.
Unreset(m) ==
  /\ rung'[m] = rung[m]
  /\ \/ receipt'[m].push = receipt[m].push
     \/ receipt[m].push = "waiting" /\ receipt'[m].push = "due"

WasReset(m) ==
  /\ receipt'[m].push = "due"
  /\ rung'[m] = IF run.sent = m THEN "overtaken" ELSE "no"

Aside ==
  /\ alert' \in Alert /\ crashes' \in 0..MaxCrashes /\ run' = run
  /\ receipt' \in [Manager -> Receipt]
  /\ rung' \in [Manager -> {"no", "yes", "overtaken"}]
  /\ \A m \in Manager :
       /\ receipt'[m].texted = receipt[m].texted
       /\ Has(m) => Has(m)'
       /\ Unreset(m) \/ WasReset(m)
  /\ settled' \in BOOLEAN
  /\ settled' => settled /\ \A m \in Manager : Has(m)' => Has(m)

LEMMA AsideKeepsInv == IndInv /\ Aside => IndInv'
<1> SUFFICES ASSUME IndInv, Aside  PROVE  IndInv'
  OBVIOUS
<1>1. TypeOK'
  BY DEF IndInv, TypeOK, Aside
<1>2. run.sent \in Manager \cup {Nobody} /\ run.list \subseteq Manager
  BY DEF IndInv, TypeOK, Run
<1>3. PushUnderWay'
  BY <1>2, DispatchAssumption
  DEF IndInv, PushInv, PushUnderWay, Aside, Unreset, WasReset, Pushing
<1>4. RungIsMarked' /\ MarkedMeansRung'
  BY DEF IndInv, PushInv, RungIsMarked, MarkedMeansRung, Aside, Unreset, WasReset
<1>5. NoSecondPush'
  BY <1>2 DEF IndInv, PushInv, NoSecondPush, Aside, Unreset, WasReset, Pushing
<1>6. SettledIsMarked' /\ NoSecondText'
  BY DEF IndInv, TextInv, SettledIsMarked, NoSecondText, Aside
<1> QED
  BY <1>1, <1>3, <1>4, <1>5, <1>6 DEF IndInv, PushInv, TextInv

\* A view writes one receipt: its mark of texts stays, that of pushes stays or is
\* reset with the history.
LEMMA WriteIsAside ==
  ASSUME TypeOK, NEW m \in Manager, NEW view \in View \ {"none"},
         UNCHANGED <<run, crashes, alert>>,
         settled' = (settled /\ Has(m)),
         \/ /\ receipt' = [receipt EXCEPT ![m] = [receipt[m] EXCEPT !.view = view]]
            /\ rung' = rung
         \/ /\ receipt' = [receipt EXCEPT ![m] = Reset(m, view)]
            /\ ResetHistory(m)
  PROVE  Aside
<1> DEFINE Kept == [receipt[m] EXCEPT !.view = view]
<1>a. receipt[m] \in Receipt
  BY DEF TypeOK
<1>b. /\ Kept \in Receipt /\ Kept.view = view
      /\ Kept.push = receipt[m].push /\ Kept.texted = receipt[m].texted
  BY <1>a DEF Receipt
<1>c. /\ Reset(m, view) \in Receipt /\ Reset(m, view).view = view
      /\ Reset(m, view).push = "due"
      /\ Reset(m, view).texted = receipt[m].texted
  BY <1>a DEF Receipt, Reset
<1> HIDE DEF Kept
<1>1. /\ receipt' \in [Manager -> Receipt]
      /\ rung' \in [Manager -> {"no", "yes", "overtaken"}]
  BY <1>b, <1>c DEF TypeOK, ResetHistory, Kept
<1>2. \A n \in Manager \ {m} :
        receipt'[n] = receipt[n] /\ rung'[n] = rung[n]
  BY DEF TypeOK, ResetHistory
<1>3. /\ receipt'[m].texted = receipt[m].texted
      /\ receipt'[m].view # "none"
      /\ Unreset(m) \/ WasReset(m)
  <2>1. CASE receipt' = [receipt EXCEPT ![m] = Kept] /\ rung' = rung
    <3>1. receipt'[m] = Kept
      BY <2>1 DEF TypeOK
    <3> QED
      BY <2>1, <3>1, <1>b DEF Unreset
  <2>2. CASE receipt' = [receipt EXCEPT ![m] = Reset(m, view)] /\ ResetHistory(m)
    <3>1. receipt'[m] = Reset(m, view)
      BY <2>2 DEF TypeOK
    <3>2. rung'[m] = IF run.sent = m THEN "overtaken" ELSE "no"
      BY <2>2 DEF TypeOK, ResetHistory
    <3> QED
      BY <3>1, <3>2, <1>c DEF WasReset
  <2> QED
    BY <2>1, <2>2 DEF Kept
<1>4. settled' \in BOOLEAN
  BY DEF TypeOK
<1>5. \A n \in Manager : /\ receipt'[n].texted = receipt[n].texted
                         /\ Has(n) => Has(n)'
                         /\ Unreset(n) \/ WasReset(n)
  BY <1>2, <1>3 DEF Has, Unreset
<1>6. settled' => settled /\ \A n \in Manager : Has(n)' => Has(n)
  BY <1>2 DEF Has
<1> QED
  BY <1>1, <1>4, <1>5, <1>6 DEF Aside, TypeOK

Others ==
  \/ Raise \/ CreateReceipts \/ DieUnannounced \/ Resolve
  \/ \E m \in Manager :
       \/ OpenAlert(m) \/ Dismiss(m) \/ Snooze(m) \/ Assign(m)
       \/ SnoozeEnds(m) \/ PushRetryDue(m)

LEMMA OthersStepAside == TypeOK /\ (Others \/ UNCHANGED vars) => Aside
<1> SUFFICES ASSUME TypeOK, Others \/ UNCHANGED vars  PROVE  Aside
  OBVIOUS
<1> USE DispatchAssumption
<1>1. CASE Raise \/ DieUnannounced \/ Resolve \/ UNCHANGED vars
  <2>1. alert' \in Alert /\ UNCHANGED <<receipt, run, crashes, rung, settled>>
    BY <1>1 DEF Raise, DieUnannounced, Resolve, vars, history, TypeOK, Alert
  <2> QED
    BY <2>1 DEF Aside, TypeOK, Has, Unreset
<1>2. CASE CreateReceipts
  <2>1. \A m \in Manager :
          receipt'[m] = IF m \in Recipients /\ ~Has(m)
                        THEN [receipt[m] EXCEPT !.view = "unseen"] ELSE receipt[m]
    BY <1>2 DEF CreateReceipts
  <2>2. \A m \in Manager : /\ receipt'[m] \in Receipt
                           /\ receipt'[m].texted = receipt[m].texted
                           /\ receipt'[m].push = receipt[m].push
                           /\ Has(m) => Has(m)'
    BY <2>1 DEF TypeOK, Receipt, View, Has
  <2>3. receipt' \in [Manager -> Receipt]
    BY <1>2, <2>2 DEF CreateReceipts
  <2>4. settled' => settled /\ \A m \in Manager : Has(m)' => Has(m)
    BY <1>2, <2>1 DEF CreateReceipts, Has
  <2>5. settled' \in BOOLEAN
    BY <1>2 DEF CreateReceipts, TypeOK
  <2> QED
    BY <1>2, <2>2, <2>3, <2>4, <2>5
    DEF CreateReceipts, Aside, TypeOK, Alert, Unreset
<1>3. ASSUME NEW m \in Manager, OpenAlert(m) \/ Dismiss(m)
      PROVE  Aside
  <2>1. PICK view \in View \ {"none"} :
          /\ receipt' = [receipt EXCEPT ![m] = [receipt[m] EXCEPT !.view = view]]
          /\ settled' = (settled /\ Has(m))
    BY <1>3 DEF OpenAlert, Dismiss, Write, View, TypeOK, Receipt
  <2> QED
    BY <1>3, <2>1, WriteIsAside DEF OpenAlert, Dismiss
<1>4. ASSUME NEW m \in Manager, Snooze(m)
      PROVE  Aside
  <2>1. "asleep" \in View \ {"none"}
    BY DEF View
  <2>2. /\ receipt' = [receipt EXCEPT ![m] = Reset(m, "asleep")]
        /\ settled' = (settled /\ Has(m))
        /\ ResetHistory(m) /\ UNCHANGED <<run, crashes, alert>>
    BY <1>4 DEF Snooze, Write
  <2> QED
    BY <2>1, <2>2, WriteIsAside
<1>5. ASSUME NEW m \in Manager, Assign(m)
      PROVE  Aside
  <2> DEFINE Passed(n) ==
        IF n = m \/ ~Has(n) THEN receipt[n]
        ELSE [receipt[n] EXCEPT !.view = IF @ = "dismissed" THEN @ ELSE "seen"]
      others == [n \in Manager |-> Passed(n)]
  <2>1. \A n \in Manager : /\ Passed(n) \in Receipt
                           /\ Passed(n).texted = receipt[n].texted
                           /\ Passed(n).push = receipt[n].push
                           /\ Passed(n).view # "none" <=> Has(n)
    BY DEF TypeOK, Receipt, View, Has
  <2>2. alert' = alert /\ run' = run
    BY <1>5 DEF Assign
  <2> HIDE DEF Passed
  <2>3. CASE /\ receipt' = [others EXCEPT ![m] = Reset(m, "unseen")]
             /\ settled' = (settled /\ Has(m))
             /\ ResetHistory(m)
             /\ UNCHANGED crashes
    <3>1. Reset(m, "unseen") \in Receipt
      BY DEF Reset, TypeOK, Receipt, View
    <3>2. /\ Reset(m, "unseen").texted = receipt[m].texted
          /\ Reset(m, "unseen").push = "due"
          /\ Reset(m, "unseen").view = "unseen"
      BY DEF Reset, TypeOK, Receipt
    <3>3. /\ receipt'[m] = Reset(m, "unseen")
          /\ \A n \in Manager \ {m} : receipt'[n] = Passed(n)
          /\ receipt' \in [Manager -> Receipt]
      BY <2>1, <2>3, <3>1
    <3>4. /\ rung' \in [Manager -> {"no", "yes", "overtaken"}]
          /\ WasReset(m)
          /\ \A n \in Manager \ {m} : Unreset(n)
      BY <2>1, <2>3, <3>2, <3>3 DEF ResetHistory, TypeOK, WasReset, Unreset
    <3>5. settled' \in BOOLEAN
      BY <2>3 DEF TypeOK
    <3>6. \A n \in Manager : Has(n) => Has(n)'
      BY <2>1, <3>2, <3>3 DEF Has
    <3>7. settled' => settled /\ \A n \in Manager : Has(n)' => Has(n)
      BY <2>1, <2>3, <3>3 DEF Has
    <3>8. \A n \in Manager : receipt'[n].texted = receipt[n].texted
      BY <2>1, <3>2, <3>3
    <3> QED
      BY <2>2, <2>3, <3>3, <3>4, <3>5, <3>6, <3>7, <3>8 DEF Aside, TypeOK
  <2>4. CASE /\ crashes < MaxCrashes
             /\ crashes' = crashes + 1
             /\ receipt' = others
             /\ UNCHANGED history
    <3>1. receipt' \in [Manager -> Receipt]
      BY <2>1, <2>4
    <3>2. \A n \in Manager : /\ receipt'[n].texted = receipt[n].texted
                             /\ Has(n)' <=> Has(n)
                             /\ Unreset(n)
      BY <2>1, <2>4 DEF Has, Unreset, history
    <3> QED
      BY <2>2, <2>4, <3>1, <3>2 DEF Aside, TypeOK, history
  <2> QED
    BY <1>5, <2>3, <2>4 DEF Assign, Passed
<1>6. ASSUME NEW m \in Manager, SnoozeEnds(m) \/ PushRetryDue(m)
      PROVE  Aside
  <2>1. /\ UNCHANGED <<alert, run, crashes, rung, settled>>
        /\ receipt' \in [Manager -> Receipt]
        /\ \A n \in Manager \ {m} : receipt'[n] = receipt[n]
        /\ receipt'[m].texted = receipt[m].texted
        /\ Has(m)' <=> Has(m)
        /\ Unreset(m)
    BY <1>6 DEF SnoozeEnds, PushRetryDue, TypeOK, Receipt, View, Has, Unreset,
                history
  <2> QED
    BY <2>1 DEF Aside, TypeOK, Has, Unreset
<1> QED
  BY <1>1, <1>2, <1>3, <1>4, <1>5, <1>6 DEF Others

-----------------------------------------------------------------------------
(* Steps of the dispatcher. *)

LEMMA RunTypes ==
  /\ Off \in Run /\ Off.phase = "off" /\ Off.list = {} /\ Off.sent = Nobody
  /\ Off.phones = {} /\ Off.result = "failed"
  /\ \A phase \in Phase, list \in SUBSET Manager, phones \in SUBSET Phone,
        texting \in {"no", "well", "badly"} :
       /\ [Off EXCEPT !.phase = phase, !.list = list] \in Run
       /\ [Off EXCEPT !.phase = phase, !.phones = phones, !.texting = texting]
            \in Run
BY DEF Off, Run, Phase

LEMMA RunUpdates ==
  ASSUME NEW r \in Run
  PROVE  /\ \A list, tried \in SUBSET Manager, m \in Manager,
              result \in {"accepted", "failed"} :
              [r EXCEPT !.list = list, !.tried = tried, !.sent = m,
                        !.result = result] \in Run
         /\ \A phones \in SUBSET Phone, texting \in {"no", "well", "badly"} :
              /\ [r EXCEPT !.phones = phones] \in Run
              /\ [r EXCEPT !.phones = phones, !.texting = texting] \in Run
         /\ \A list \in SUBSET Manager : [r EXCEPT !.list = list] \in Run
<1> USE DEF Run
<1>1. \A list, tried \in SUBSET Manager, m \in Manager,
        result \in {"accepted", "failed"} :
        [r EXCEPT !.list = list, !.tried = tried, !.sent = m, !.result = result]
          \in Run
  OBVIOUS
<1>2. \A phones \in SUBSET Phone, texting \in {"no", "well", "badly"} :
        /\ [r EXCEPT !.phones = phones] \in Run
        /\ [r EXCEPT !.phones = phones, !.texting = texting] \in Run
  OBVIOUS
<1>3. \A list \in SUBSET Manager : [r EXCEPT !.list = list] \in Run
  OBVIOUS
<1> QED
  BY <1>1, <1>2, <1>3

\* A dispatcher that goes on to something else than pushing, or ends.
Turns ==
  /\ run' \in Run /\ run'.sent = Nobody /\ ~Pushing'
  /\ run.sent = Nobody
  /\ UNCHANGED <<alert, receipt, crashes, rung, settled>>
  /\ run'.phones # {} => run.phones # {} \/ Urgent

LEMMA TurnsKeepInv == IndInv /\ Turns => IndInv'
<1> SUFFICES ASSUME IndInv, Turns  PROVE  IndInv'
  OBVIOUS
<1>1. TypeOK' /\ PushUnderWay' /\ MarkedMeansRung' /\ SettledIsMarked' /\ NoSecondPush'
  BY DEF IndInv, TypeOK, PushInv, PushUnderWay, MarkedMeansRung, TextInv,
         SettledIsMarked, NoSecondPush, Turns, Has
<1>2. RungIsMarked'
  <2>1. \A m \in Manager : run.sent # m
    BY DispatchAssumption DEF Turns
  <2> QED
    BY <2>1 DEF IndInv, PushInv, RungIsMarked, Turns
<1>3. NoSecondText'
  BY DEF IndInv, TextInv, SettledIsMarked, NoSecondText, Turns, Urgent, Has
<1> QED
  BY <1>1, <1>2, <1>3 DEF IndInv, PushInv, TextInv

\* A list is read while no push is under way.
LEMMA ListingKeepsInv ==
  ASSUME IndInv, NEW due \in SUBSET Deliverable,
         run.sent = Nobody, run' \in Run, run'.list = due, run'.sent = Nobody,
         run'.phones \in {run.phones, {}},
         UNCHANGED <<alert, receipt, crashes, rung, settled>>
  PROVE  IndInv'
<1> USE DispatchAssumption
<1>1. \A m \in due : /\ m \in Manager
                     /\ receipt[m].push = "due" /\ rung[m] # "yes"
  BY DEF Deliverable, IndInv, PushInv, RungIsMarked
<1>2. TypeOK' /\ RungIsMarked' /\ MarkedMeansRung'
  BY DEF IndInv, TypeOK, PushInv, RungIsMarked, MarkedMeansRung
<1>3. PushUnderWay' /\ NoSecondPush'
  BY <1>1 DEF PushUnderWay, NoSecondPush
<1>4. SettledIsMarked' /\ NoSecondText'
  BY DEF IndInv, TextInv, SettledIsMarked, NoSecondText, Has
<1> QED
  BY <1>2, <1>3, <1>4 DEF IndInv, PushInv, TextInv

LEMMA PushKeepsInv ==
  ASSUME IndInv, NEW m \in Manager, Accepted(m) \/ Refused(m)
  PROVE  IndInv'
<1> USE DispatchAssumption
<1>1. /\ run.sent = Nobody /\ Pushing /\ m \in run.list
      /\ run'.phase = run.phase /\ run'.list = run.list \ {m}
      /\ run'.sent = m /\ run'.result \in {"accepted", "failed"}
      /\ run'.phones = run.phones /\ run' \in Run
      /\ UNCHANGED <<alert, receipt, crashes, settled>>
  <2>1. PICK result \in {"accepted", "failed"} : Push(m, result)
    BY DEF Accepted, Refused
  <2>2. run \in Run
    BY DEF IndInv, TypeOK
  <2>3. run.list \ {m} \in SUBSET Manager /\ run.tried \cup {m} \in SUBSET Manager
    BY <2>2 DEF Run
  <2>4. run' \in Run
    BY <2>1, <2>2, <2>3, RunUpdates DEF Push
  <2>5. /\ run'.phase = run.phase /\ run'.list = run.list \ {m}
        /\ run'.sent = m /\ run'.result = result /\ run'.phones = run.phones
    BY <2>1, <2>2 DEF Push, Run
  <2> QED
    BY <2>1, <2>4, <2>5 DEF Push, Accepted, Refused, history
<1>2. \/ run'.result = "accepted" /\ rung' = [rung EXCEPT ![m] = "yes"]
      \/ run'.result = "failed" /\ rung' = rung
  BY DEF Accepted, Refused, Push, IndInv, TypeOK, Run, history
<1>3. TypeOK'
  BY <1>1, <1>2 DEF IndInv, TypeOK
<1>4. rung[m] # "yes" /\ receipt[m].push # "sent"
  BY <1>1 DEF IndInv, PushInv, PushUnderWay, NoSecondPush
<1>5. run.list \subseteq Manager
  BY DEF IndInv, TypeOK, Run
<1>6. \A n \in Manager \ {m} : rung'[n] = rung[n]
  BY <1>2 DEF IndInv, TypeOK
<1>7. rung'[m] = IF run'.result = "accepted" THEN "yes" ELSE rung[m]
  BY <1>2 DEF IndInv, TypeOK
<1>8. PushUnderWay'
  BY <1>1, <1>4, <1>5, <1>7 DEF IndInv, PushInv, PushUnderWay, Pushing
<1>9. RungIsMarked' /\ NoSecondPush' /\ MarkedMeansRung'
  BY <1>1, <1>4, <1>5, <1>6, <1>7
  DEF IndInv, PushInv, RungIsMarked, NoSecondPush, MarkedMeansRung, Pushing
<1>10. SettledIsMarked' /\ NoSecondText'
  BY <1>1 DEF IndInv, TextInv, SettledIsMarked, NoSecondText, Has
<1> QED
  BY <1>3, <1>8, <1>9, <1>10 DEF IndInv, PushInv, TextInv

LEMMA RecordKeepsInv == IndInv /\ Record => IndInv'
<1> SUFFICES ASSUME IndInv, Record  PROVE  IndInv'
  OBVIOUS
<1> USE DispatchAssumption
<1> DEFINE m == run.sent
           row == [receipt[m] EXCEPT !.push = Recorded]
<1>1. m \in Manager /\ run.list \subseteq Manager /\ receipt[m] \in Receipt
  BY DEF IndInv, TypeOK, Run, Record
<1>2. /\ row \in Receipt /\ row.view = receipt[m].view
      /\ row.texted = receipt[m].texted
      /\ row.push = IF run.result = "accepted" THEN "sent" ELSE "waiting"
  BY <1>1 DEF Receipt, Recorded
<1>3. /\ receipt' = [receipt EXCEPT ![m] = row]
      /\ run' \in Run /\ run'.sent = Nobody /\ run'.list = run.list
      /\ run'.phase = run.phase /\ run'.phones = run.phones
      /\ UNCHANGED <<alert, crashes, rung, settled>>
  BY DEF Record, IndInv, TypeOK, Run, history
<1>4. /\ m \notin run.list
      /\ run.result = "accepted" => rung[m] # "no"
      /\ run.result = "failed" => rung[m] # "yes"
      /\ run.result \in {"accepted", "failed"}
  BY DEF Record, IndInv, PushInv, PushUnderWay, TypeOK, Run
<1> HIDE DEF row
<1>5. /\ receipt'[m] = row /\ receipt' \in [Manager -> Receipt]
      /\ \A n \in Manager \ {m} : receipt'[n] = receipt[n]
  BY <1>1, <1>2, <1>3 DEF IndInv, TypeOK
<1>6. TypeOK'
  BY <1>3, <1>5 DEF IndInv, TypeOK
<1>7. PushUnderWay' /\ NoSecondPush'
  BY <1>1, <1>3, <1>4, <1>5
  DEF IndInv, PushInv, PushUnderWay, NoSecondPush, Pushing
<1>8. RungIsMarked' /\ MarkedMeansRung'
  BY <1>1, <1>2, <1>3, <1>4, <1>5
  DEF IndInv, PushInv, RungIsMarked, MarkedMeansRung
<1>9. SettledIsMarked' /\ NoSecondText'
  BY <1>1, <1>2, <1>3, <1>5
  DEF IndInv, TextInv, SettledIsMarked, NoSecondText, Has
<1> QED
  BY <1>6, <1>7, <1>8, <1>9 DEF IndInv, PushInv, TextInv

\* Between two pushes and after them nothing is under way.
LEMMA NotPushing == IndInv /\ ~Pushing => run.sent = Nobody
BY DEF IndInv, PushInv, PushUnderWay

LEMMA RecordTextsKeepsInv == IndInv /\ RecordTexts => IndInv'
<1> SUFFICES ASSUME IndInv, RecordTexts  PROVE  IndInv'
  OBVIOUS
<1> DEFINE marked(m) == receipt[m].texted \/ (run.texting = "well" /\ Texted(m))
<1>1. \A m \in Manager : receipt[m] \in Receipt /\ marked(m) \in BOOLEAN
  BY DEF IndInv, TypeOK, Receipt, Texted, Has
<1>2. \A m \in Manager :
        /\ receipt'[m] = [receipt[m] EXCEPT !.texted = marked(m)]
  BY DEF RecordTexts
<1>3. \A m \in Manager : /\ receipt'[m] \in Receipt
                         /\ receipt'[m].view = receipt[m].view
                         /\ receipt'[m].push = receipt[m].push
                         /\ receipt'[m].texted <=> marked(m)
  BY <1>1, <1>2 DEF Receipt
<1>4. /\ run' \in Run /\ run'.sent = run.sent /\ run'.phase = run.phase
      /\ run'.phones = {} /\ ~Pushing /\ ~Pushing'
      /\ UNCHANGED <<alert, crashes, rung>>
      /\ settled' = (settled \/ run.texting = "well")
  BY DEF RecordTexts, IndInv, TypeOK, Run, Pushing
<1>5. receipt' \in [Manager -> Receipt]
  BY <1>3 DEF RecordTexts
<1>6. TypeOK'
  BY <1>4, <1>5 DEF IndInv, TypeOK
<1>7. PushUnderWay' /\ NoSecondPush'
  BY <1>4, NotPushing DEF PushUnderWay, NoSecondPush
<1>8. RungIsMarked' /\ MarkedMeansRung'
  BY <1>3, <1>4 DEF IndInv, PushInv, RungIsMarked, MarkedMeansRung
<1>9. SettledIsMarked'
  BY <1>3, <1>4 DEF IndInv, TextInv, SettledIsMarked, Has, Texted
<1>10. NoSecondText'
  BY <1>4 DEF NoSecondText
<1> QED
  BY <1>6, <1>7, <1>8, <1>9, <1>10 DEF IndInv, PushInv, TextInv

LEMMA KillKeepsInv == IndInv /\ Kill => IndInv'
<1> SUFFICES ASSUME IndInv, Kill  PROVE  IndInv'
  OBVIOUS
<1> USE DispatchAssumption
<1>1. /\ run' \in Run /\ run'.sent = Nobody /\ ~Pushing' /\ run'.phones = {}
      /\ UNCHANGED <<alert, receipt, settled>>
  BY RunTypes DEF Kill, Pushing
<1>2. \A m \in Manager : rung'[m] = IF run.sent = m THEN "no" ELSE rung[m]
  BY DEF Kill
<1>3. TypeOK'
  BY <1>1 DEF IndInv, TypeOK, Kill
<1>4. PushUnderWay' /\ NoSecondPush'
  BY <1>1 DEF PushUnderWay, NoSecondPush
<1>5. RungIsMarked' /\ MarkedMeansRung'
  BY <1>1, <1>2
  DEF IndInv, PushInv, RungIsMarked, MarkedMeansRung, PushUnderWay
<1>6. SettledIsMarked' /\ NoSecondText'
  BY <1>1 DEF IndInv, TextInv, SettledIsMarked, NoSecondText, Has
<1> QED
  BY <1>3, <1>4, <1>5, <1>6 DEF IndInv, PushInv, TextInv

LEMMA DispatchKeepsInv == IndInv /\ Dispatch => IndInv'
<1> SUFFICES ASSUME IndInv, Dispatch  PROVE  IndInv'
  OBVIOUS
<1> USE DispatchAssumption
<1>1. CASE Start
  <2>1. run.sent = Nobody
    BY <1>1, NotPushing DEF Start, Pushing
  <2>2. Deliverable \subseteq Manager
    BY DEF Deliverable
  <2>3. /\ run' \in Run /\ run'.list = Deliverable /\ run'.sent = Nobody
        /\ run'.phones = {}
    BY <1>1, <2>2 DEF Start, Off, Run, Phase
  <2> QED
    BY <1>1, <2>1, <2>3, ListingKeepsInv DEF Start, history
<1>2. CASE PushAgain
  <2>1. run.sent = Nobody /\ SecondList \subseteq Deliverable
    BY <1>2 DEF PushAgain, Listless, SecondList
  <2>2. SecondList \subseteq Manager
    BY DEF SecondList, Deliverable
  <2>3. /\ run' \in Run /\ run'.list = SecondList /\ run'.sent = Nobody
        /\ run'.phones = run.phones
    BY <1>2, <2>1, <2>2 DEF PushAgain, IndInv, TypeOK, Run, Phase
  <2> QED
    BY <1>2, <2>1, <2>3, ListingKeepsInv DEF PushAgain, history
<1>3. CASE GoTexting
  <2>1. /\ run' \in Run /\ run'.sent = Nobody /\ ~Pushing'
        /\ run'.phones # {} => Urgent
    BY <1>3 DEF GoTexting, Off, Run, Phase, Pushing
  <2> QED
    BY <1>3, <2>1, TurnsKeepInv DEF GoTexting, Listless, Turns, history
<1>4. ASSUME NEW p \in Phone, Text(p)
      PROVE  IndInv'
  <2>1. /\ run' \in Run /\ run'.phones \subseteq run.phones
        /\ run'.phase = run.phase /\ run'.list = run.list
        /\ run'.sent = run.sent /\ run'.result = run.result
        /\ UNCHANGED <<alert, receipt, crashes, rung, settled>>
    <3>1. run \in Run /\ run.phones \ {p} \in SUBSET Phone
      BY DEF IndInv, TypeOK, Run
    <3>2. run' \in Run
      BY <1>4, <3>1, RunUpdates DEF Text
    <3>3. /\ run'.phones = run.phones \ {p}
          /\ run'.phase = run.phase /\ run'.list = run.list
          /\ run'.sent = run.sent /\ run'.result = run.result
      BY <1>4, <3>1 DEF Text, Run
    <3> QED
      BY <1>4, <3>2, <3>3 DEF Text, history
  <2>2. TypeOK'
    BY <2>1 DEF IndInv, TypeOK
  <2>3. PushInv'
    BY <2>1 DEF IndInv, PushInv, PushUnderWay, RungIsMarked, NoSecondPush,
                MarkedMeansRung, Pushing
  <2>4. TextInv'
    BY <2>1 DEF IndInv, TextInv, SettledIsMarked, NoSecondText, Has
  <2> QED
    BY <2>2, <2>3, <2>4 DEF IndInv
<1>5. CASE RecordTexts
  BY <1>5, RecordTextsKeepsInv
<1>6. CASE GoReminding
  <2>1. run.sent = Nobody
    BY <1>6, NotPushing DEF GoReminding, Pushing
  <2>2. run' \in Run /\ run'.sent = Nobody /\ ~Pushing' /\ run'.phones = {}
    BY <1>6 DEF GoReminding, Remindable, Off, Run, Phase, Pushing
  <2> QED
    BY <1>6, <2>1, <2>2, TurnsKeepInv DEF GoReminding, Turns, history
<1>7. CASE EndRun \/ \E m \in Manager : Remind(m)
  <2>1. run.sent = Nobody
    BY <1>7, NotPushing DEF EndRun, Remind, Pushing
  <2>2. /\ run' \in Run /\ run'.sent = Nobody /\ ~Pushing'
        /\ run'.phones # {} => run.phones # {}
    <3>1. CASE run' = Off
      BY <3>1, RunTypes DEF Pushing
    <3>2. ASSUME NEW m \in Manager, run' = [run EXCEPT !.list = @ \ {m}],
                 run.phase = "remind"
          PROVE  /\ run' \in Run /\ run'.sent = run.sent /\ ~Pushing'
                 /\ run'.phones = run.phones
      <4>1. run \in Run /\ run.list \ {m} \in SUBSET Manager
        BY DEF IndInv, TypeOK, Run
      <4>2. run' \in Run
        BY <3>2, <4>1, RunUpdates
      <4> QED
        BY <3>2, <4>1, <4>2 DEF Run, Pushing
    <3> QED
      BY <1>7, <2>1, <3>1, <3>2 DEF EndRun, Remind
  <2> QED
    BY <1>7, <2>1, <2>2, TurnsKeepInv DEF EndRun, Remind, Turns, history
<1>8. CASE Record
  BY <1>8, RecordKeepsInv
<1> QED
  BY <1>1, <1>2, <1>3, <1>4, <1>5, <1>6, <1>7, <1>8, PushKeepsInv DEF Dispatch

-----------------------------------------------------------------------------
(* The theorems. *)

\* However managers, pushes, texts, kills and time interleave, what is marked,
\* what was accepted and what is under way agree (process_notifications).
THEOREM DispatchInvariance == Spec => []IndInv
<1>1. Init => IndInv
  <2> SUFFICES ASSUME Init  PROVE  IndInv
    OBVIOUS
  <2>1. \A m \in Manager : /\ receipt[m] \in Receipt
                           /\ receipt[m].push = "due" /\ receipt[m].view = "none"
                           /\ rung[m] = "no"
    BY DEF Init, Receipt, View
  <2>2. TypeOK
    <3> DEFINE new == [view |-> "none", push |-> "due", texted |-> FALSE]
    <3>1. new \in Receipt
      BY DEF Receipt, View
    <3>2. /\ alert \in Alert /\ crashes \in 0..MaxCrashes
          /\ rung \in [Manager -> {"no", "yes", "overtaken"}]
          /\ settled \in BOOLEAN
      <4>1. alert \in Alert
        BY DEF Init, Alert
      <4>2. crashes \in 0..MaxCrashes
        BY DispatchAssumption DEF Init
      <4>3. rung = [m \in Manager |-> "no"] /\ settled = FALSE
        BY DEF Init
      <4> QED
        BY <4>1, <4>2, <4>3
    <3>3. receipt \in [Manager -> Receipt]
      <4>1. receipt = [m \in Manager |-> new]
        BY DEF Init
      <4> HIDE DEF new
      <4> QED
        BY <3>1, <4>1
    <3> QED
      BY <3>2, <3>3, RunTypes DEF Init, TypeOK
  <2>3. PushInv
    BY <2>1, RunTypes DEF Init, PushInv, PushUnderWay, RungIsMarked,
                          NoSecondPush, MarkedMeansRung, Pushing
  <2>4. TextInv
    BY RunTypes DEF Init, TextInv, SettledIsMarked, NoSecondText
  <2> QED
    BY <2>2, <2>3, <2>4 DEF IndInv
<1>2. IndInv /\ [Next]_vars => IndInv'
  <2> SUFFICES ASSUME IndInv, [Next]_vars  PROVE  IndInv'
    OBVIOUS
  <2>1. CASE Others \/ UNCHANGED vars
    BY <2>1, OthersStepAside, AsideKeepsInv DEF IndInv
  <2>2. CASE Kill
    BY <2>2, KillKeepsInv
  <2>3. CASE Dispatch
    BY <2>3, DispatchKeepsInv
  <2> QED
    BY <2>1, <2>2, <2>3 DEF Next, Others
<1> QED
  BY <1>1, <1>2, PTL DEF Spec

\* Alerts, receipts and runs keep their types.
THEOREM DispatchTypeCorrect == Spec => []TypeOK
<1>1. IndInv => TypeOK
  BY DEF IndInv
<1> QED
  BY <1>1, DispatchInvariance, PTL

\* No push is sent again that was accepted, unless its record was lost with the
\* dispatcher, and no text once all phones were reached.
THEOREM AlertsAreSentOnce == Spec => []AlertedOnce
<1>1. IndInv => AlertedOnce
  BY DEF IndInv, PushInv, TextInv, NoSecondPush, NoSecondText, AlertedOnce
<1> QED
  BY <1>1, DispatchInvariance, PTL

\* What is marked as pushed was accepted by a provider.
THEOREM MarksAreOfPushes == Spec => []MarkedMeansRung
<1>1. IndInv => MarkedMeansRung
  BY DEF IndInv, PushInv
<1> QED
  BY <1>1, DispatchInvariance, PTL

-----------------------------------------------------------------------------
(* The dispatcher and the views implement the delivery of an alert. *)

Notices == [m \in Manager |-> receipt[m].view]
Called == IF Pushing THEN run.list ELSE {}
Bells == [m \in Manager |-> BellOf(m)]

Given == <<Standing, Notices, Called, Bells>>

\* A push was accepted and is not recorded.
InFlight(m) == receipt[m].push # "sent" /\ run.sent = m /\ run.result = "accepted"

LEMMA BellIs ==
  ASSUME NEW m
  PROVE  /\ receipt[m].push = "sent" => BellOf(m) = "noted"
         /\ InFlight(m) => BellOf(m) = IF rung[m] = "yes" THEN "rung" ELSE "stale"
         /\ receipt[m].push # "sent" /\ ~InFlight(m) => BellOf(m) = "silent"
BY DEF BellOf, InFlight

LEMMA BellBecomes ==
  ASSUME NEW m
  PROVE  /\ receipt'[m].push = "sent" => BellOf(m)' = "noted"
         /\ InFlight(m)' => BellOf(m)' = IF rung'[m] = "yes" THEN "rung" ELSE "stale"
         /\ receipt'[m].push # "sent" /\ ~InFlight(m)' => BellOf(m)' = "silent"
BY DEF BellOf, InFlight

\* Rung and not noted is what is in flight.
LEMMA RingingIs == Delivery!Ringing = {m \in Manager : InFlight(m)}
<1>1. \A m \in Manager : BellOf(m) \in {"rung", "stale"} <=> InFlight(m)
  <2> SUFFICES ASSUME NEW m \in Manager
               PROVE  BellOf(m) \in {"rung", "stale"} <=> InFlight(m)
    OBVIOUS
  <2>1. CASE InFlight(m)
    BY <2>1, BellIs
  <2>2. CASE ~InFlight(m)
    BY <2>2, BellIs
  <2> QED
    BY <2>1, <2>2
<1> QED
  BY <1>1 DEF Delivery!Ringing

\* What a bell is told by: the push mark and what is in flight.
LEMMA BellStays ==
  ASSUME NEW m, run'.sent = run.sent, run'.result = run.result,
         rung'[m] = rung[m],
         \/ receipt'[m].push = receipt[m].push
         \/ receipt[m].push # "sent" /\ receipt'[m].push # "sent"
  PROVE  BellOf(m)' = BellOf(m)
BY DEF BellOf

LEMMA BellsStay ==
  ASSUME run'.sent = run.sent, run'.result = run.result, rung' = rung,
         \A m \in Manager : receipt'[m].push = receipt[m].push
  PROVE  UNCHANGED Bells
<1>1. \A m \in Manager : BellOf(m)' = BellOf(m)
  BY BellStays
<1> QED
  BY <1>1 DEF Bells

\* A manager who asks to be alerted anew.
LEMMA BellAnew ==
  ASSUME IndInv, NEW m \in Manager, run' = run,
         receipt'[m].push = "due", ResetHistory(m),
         \A n \in Manager \ {m} : receipt'[n].push = receipt[n].push
  PROVE  Bells' = [Bells EXCEPT ![m] = Delivery!Anew(m)]
<1>1. \A n \in Manager \ {m} : rung'[n] = rung[n]
  BY DEF ResetHistory, IndInv, TypeOK
<1>2. \A n \in Manager \ {m} : BellOf(n)' = BellOf(n)
  BY <1>1, BellStays
<1>3. BellOf(m)' = Delivery!Anew(m)
  <2>1. rung'[m] = IF run.sent = m THEN "overtaken" ELSE "no"
    BY DEF ResetHistory, IndInv, TypeOK
  <2>2. InFlight(m)' <=> InFlight(m)
    BY DispatchAssumption
    DEF InFlight, IndInv, PushInv, PushUnderWay
  <2>3. Delivery!Anew(m) = IF InFlight(m) THEN "stale" ELSE "silent"
    BY RingingIs DEF Delivery!Anew
  <2>4. InFlight(m) => run.sent = m
    BY DEF InFlight
  <2>5. receipt'[m].push # "sent" /\ "overtaken" # "yes"
    OBVIOUS
  <2> QED
    BY <2>1, <2>2, <2>3, <2>4, <2>5, BellBecomes
<1> QED
  BY <1>2, <1>3 DEF Bells

LEMMA NoneInFlight ==
  ASSUME run.sent = Nobody
  PROVE  Delivery!Ringing = {}
BY RingingIs, DispatchAssumption DEF InFlight

\* A list is read: those on it are called.
LEMMA ListingCalls ==
  ASSUME IndInv, NEW due \in SUBSET Deliverable, Called = {},
         run.sent = Nobody, run'.list = due, run'.sent = Nobody, Pushing',
         UNCHANGED <<alert, receipt, rung>>
  PROVE  Delivery!Next \/ UNCHANGED Given
<1>1. UNCHANGED <<Standing, Notices>>
  BY DEF Standing, Notices, Open
<1>2. UNCHANGED Bells
  <2>1. \A m \in Manager : BellOf(m)' = BellOf(m)
    BY DispatchAssumption DEF BellOf
  <2> QED
    BY <2>1 DEF Bells
<1>3. Called' = due
  BY DEF Called
<1>4. CASE due = {}
  BY <1>1, <1>2, <1>3, <1>4 DEF Given
<1>5. CASE due # {}
  <2>1. Standing = "stands"
    BY <1>5 DEF Deliverable, Standing, Open
  <2>2. \A m \in due : m \in Manager /\ receipt[m].view = "unseen"
                       /\ BellOf(m) = "silent"
    BY DispatchAssumption DEF Deliverable, BellOf
  <2>3. due \in SUBSET Manager
    BY <2>2
  <2>4. Delivery!Call(due)
    BY <1>1, <1>2, <1>3, <2>1, <2>2, NoneInFlight
    DEF Delivery!Call, Called, Notices, Bells
  <2> QED
    BY <2>3, <2>4 DEF Delivery!Next
<1> QED
  BY <1>4, <1>5

\* The dispatcher does something else, with nothing in flight.
LEMMA TurningHides ==
  ASSUME Called = {}, run.sent = Nobody, run'.sent = Nobody, ~Pushing',
         UNCHANGED <<alert, receipt, rung>>
  PROVE  UNCHANGED Given
<1>1. UNCHANGED <<Standing, Notices>>
  BY DEF Standing, Notices, Open
<1>2. \A m \in Manager : BellOf(m)' = BellOf(m)
  BY DispatchAssumption DEF BellOf
<1> QED
  BY <1>1, <1>2 DEF Given, Called, Bells

LEMMA AlertDelivers ==
  ASSUME IndInv, Raise \/ CreateReceipts \/ DieUnannounced \/ Resolve
  PROVE  Delivery!Next \/ UNCHANGED Given
<1>1. UNCHANGED <<run, rung>>
  BY DEF Raise, CreateReceipts, DieUnannounced, Resolve, history
<1>2. Called' = Called
  BY <1>1 DEF Called, Pushing
<1>3. \A m \in Manager : receipt'[m].push = receipt[m].push
  BY DEF Raise, CreateReceipts, DieUnannounced, Resolve, IndInv, TypeOK, Receipt
<1>4. Bells' = Bells
  BY <1>1, <1>3, BellsStay
<1>5. CASE Raise \/ Resolve
  <2>1. Notices' = Notices
    BY <1>5 DEF Raise, Resolve, Notices
  <2>2. Delivery!Raise \/ Delivery!Settle
    BY <1>2, <1>4, <1>5, <2>1
    DEF Raise, Resolve, Open, Standing, Delivery!Raise, Delivery!Settle,
        Notices, Called, Bells
  <2> QED
    BY <2>2 DEF Delivery!Next
<1>6. CASE DieUnannounced
  BY <1>2, <1>4, <1>6
  DEF DieUnannounced, Standing, Open, Given, Notices
<1>7. CASE CreateReceipts
  <2>1. Standing = "stands" /\ Standing' = "stands"
    BY <1>7 DEF CreateReceipts, Standing, Open
  <2>2. Notices' = [m \in Manager |->
          IF m \in Recipients /\ Notices[m] = "none" THEN "unseen" ELSE Notices[m]]
    BY <1>7 DEF CreateReceipts, Notices, Has, IndInv, TypeOK, Receipt
  <2>3. Delivery!Invite(Recipients)
    BY <1>2, <1>4, <2>1, <2>2 DEF Delivery!Invite, Notices, Called, Bells
  <2> QED
    BY <2>3, DispatchAssumption DEF Delivery!Next
<1> QED
  BY <1>5, <1>6, <1>7

LEMMA ManagersDeliver ==
  ASSUME IndInv, NEW m \in Manager,
         \/ OpenAlert(m) \/ Dismiss(m) \/ Snooze(m) \/ Assign(m)
         \/ SnoozeEnds(m) \/ PushRetryDue(m)
  PROVE  Delivery!Next \/ UNCHANGED Given
<1>1. run' = run /\ alert' = alert
  BY DEF OpenAlert, Dismiss, Snooze, Assign, SnoozeEnds, PushRetryDue
<1>2. Called' = Called /\ Standing' = Standing /\ (Open => Standing = "stands")
  BY <1>1 DEF Called, Pushing, Standing, Open
<1>3. receipt \in [Manager -> Receipt]
  BY DEF IndInv, TypeOK
<1>4. CASE OpenAlert(m)
  <2>1. receipt' = [receipt EXCEPT ![m] = [receipt[m] EXCEPT !.view =
          IF receipt[m].view = "dismissed" THEN "dismissed" ELSE "seen"]]
    BY <1>4 DEF OpenAlert, Write
  <2>2. Bells' = Bells
    BY <1>1, <1>3, <1>4, <2>1, BellsStay DEF OpenAlert, Receipt
  <2>3. Notices' = [Notices EXCEPT ![m] = Delivery!SeenBy(m)]
    BY <1>3, <2>1 DEF Notices, Delivery!SeenBy, Receipt
  <2>4. Delivery!Look(m)
    BY <1>2, <1>4, <2>2, <2>3
    DEF Delivery!Look, OpenAlert, Called, Notices, Bells
  <2> QED
    BY <2>4 DEF Delivery!Next
<1>5. CASE Dismiss(m)
  <2>1. receipt' = [receipt EXCEPT ![m] = [receipt[m] EXCEPT !.view = "dismissed"]]
    BY <1>5 DEF Dismiss, Write
  <2>2. Bells' = Bells
    BY <1>1, <1>3, <1>5, <2>1, BellsStay DEF Dismiss, Receipt
  <2>3. Notices' = [Notices EXCEPT ![m] = "dismissed"]
    BY <1>3, <2>1 DEF Notices, Receipt
  <2>4. Delivery!Dismiss(m)
    BY <1>2, <1>5, <2>2, <2>3
    DEF Delivery!Dismiss, Dismiss, Called, Notices, Bells
  <2> QED
    BY <2>4 DEF Delivery!Next
<1>6. CASE Snooze(m)
  <2>1. receipt' = [receipt EXCEPT ![m] = Reset(m, "asleep")] /\ ResetHistory(m)
    BY <1>6 DEF Snooze, Write
  <2>2. /\ receipt'[m].push = "due" /\ receipt'[m].view = "asleep"
        /\ \A n \in Manager \ {m} : receipt'[n] = receipt[n]
    BY <1>3, <2>1 DEF Reset, Receipt
  <2>3. Bells' = [Bells EXCEPT ![m] = Delivery!Anew(m)]
    BY <1>1, <2>1, <2>2, BellAnew
  <2>4. Notices' = [Notices EXCEPT ![m] = "asleep"]
    BY <2>2 DEF Notices
  <2>5. Delivery!Sleep(m)
    BY <1>2, <1>6, <2>3, <2>4
    DEF Delivery!Sleep, Snooze, Called, Notices, Bells
  <2> QED
    BY <2>5 DEF Delivery!Next
<1>7. CASE Assign(m)
  <2> DEFINE others == [n \in Manager |->
               IF n = m \/ ~Has(n) THEN receipt[n]
               ELSE [receipt[n] EXCEPT !.view =
                       IF @ = "dismissed" THEN @ ELSE "seen"]]
             passed == [n \in Manager |->
               IF n = m \/ Notices[n] = "none" THEN Notices[n]
               ELSE Delivery!SeenBy(n)]
  <2>1. \A n \in Manager : /\ others[n].push = receipt[n].push
                           /\ others[n].view = passed[n]
    BY <1>3 DEF Has, Notices, Delivery!SeenBy, Receipt
  <2>2. others \in [Manager -> Receipt]
    BY <1>3 DEF Has, Receipt, View
  <2>3. DOMAIN others = Manager
    OBVIOUS
  <2>4. \/ /\ receipt' = [others EXCEPT ![m] = Reset(m, "unseen")]
           /\ ResetHistory(m)
        \/ receipt' = others /\ rung' = rung
    BY <1>7 DEF Assign, history
  <2> HIDE DEF others
  <2>5. CASE receipt' = [others EXCEPT ![m] = Reset(m, "unseen")] /\ ResetHistory(m)
    <3>1. /\ receipt'[m].push = "due" /\ receipt'[m].view = "unseen"
          /\ \A n \in Manager \ {m} : receipt'[n] = others[n]
      BY <1>3, <2>3, <2>5 DEF Reset, Receipt
    <3>2. Bells' = [Bells EXCEPT ![m] = Delivery!Anew(m)]
      BY <1>1, <2>1, <2>5, <3>1, BellAnew
    <3>3. Notices' = [passed EXCEPT ![m] = "unseen"]
      BY <2>1, <3>1 DEF Notices
    <3>4. Delivery!Assign(m)
      BY <1>2, <1>7, <3>2, <3>3
      DEF Delivery!Assign, Assign, Called, Notices, Bells
    <3> QED
      BY <3>4 DEF Delivery!Next
  <2>6. CASE receipt' = others /\ rung' = rung
    <3>1. Bells' = Bells
      BY <1>1, <2>1, <2>6, BellsStay
    <3>2. Notices' = passed
      BY <2>1, <2>6 DEF Notices
    <3>3. Delivery!Assign(m)
      BY <1>2, <1>7, <3>1, <3>2
      DEF Delivery!Assign, Assign, Called, Notices, Bells
    <3> QED
      BY <3>3 DEF Delivery!Next
  <2> QED
    BY <2>4, <2>5, <2>6
<1>8. CASE SnoozeEnds(m)
  <2>1. /\ receipt[m].view = "asleep" /\ rung' = rung
        /\ receipt' = [receipt EXCEPT ![m].view = "unseen"]
    BY <1>8 DEF SnoozeEnds, history
  <2>2. Bells' = Bells
    BY <1>1, <1>3, <2>1, BellsStay DEF Receipt
  <2>3. Notices' = [Notices EXCEPT ![m] = "unseen"] /\ Notices[m] = "asleep"
    BY <1>3, <2>1 DEF Notices, Receipt
  <2>4. Delivery!Wake(m)
    BY <1>2, <2>2, <2>3 DEF Delivery!Wake, Called, Notices, Bells
  <2> QED
    BY <2>4 DEF Delivery!Next
<1>9. CASE PushRetryDue(m)
  <2>1. /\ receipt[m].push = "waiting" /\ rung' = rung
        /\ receipt' = [receipt EXCEPT ![m].push = "due"]
    BY <1>9 DEF PushRetryDue, history
  <2>2. \A n \in Manager :
          /\ receipt'[n].view = receipt[n].view
          /\ \/ receipt'[n].push = receipt[n].push
             \/ receipt[n].push # "sent" /\ receipt'[n].push # "sent"
    BY <1>3, <2>1 DEF Receipt
  <2>3. \A n \in Manager : BellOf(n)' = BellOf(n)
    BY <1>1, <2>1, <2>2, BellStays
  <2> QED
    BY <1>2, <2>2, <2>3 DEF Given, Notices, Bells
<1> QED
  BY <1>4, <1>5, <1>6, <1>7, <1>8, <1>9

LEMMA PushDelivers ==
  ASSUME IndInv, NEW m \in Manager, Accepted(m) \/ Refused(m)
  PROVE  Delivery!Next
<1>1. PICK result \in {"accepted", "failed"} :
        /\ Push(m, result)
        /\ rung' = IF result = "accepted" THEN [rung EXCEPT ![m] = "yes"] ELSE rung
  BY DEF Accepted, Refused, history
<1>2. /\ Pushing /\ Pushing' /\ run.sent = Nobody /\ m \in run.list
      /\ run'.list = run.list \ {m} /\ run'.sent = m /\ run'.result = result
      /\ UNCHANGED <<alert, receipt>>
  BY <1>1 DEF Push, Pushing, IndInv, TypeOK, Run
<1>3. Called' = Called \ {m} /\ m \in Called /\ UNCHANGED <<Standing, Notices>>
  BY <1>2 DEF Called, Standing, Open, Notices
<1>4. receipt[m].push # "sent"
  BY <1>2 DEF IndInv, PushInv, PushUnderWay
<1>5. \A n \in Manager \ {m} : BellOf(n)' = BellOf(n)
  BY <1>2, DispatchAssumption DEF BellOf
<1>6. BellOf(m) = "silent"
  BY <1>2, <1>4, DispatchAssumption DEF BellOf
<1>7. CASE result = "accepted"
  <2>1. BellOf(m)' = "rung"
    BY <1>1, <1>2, <1>4, <1>7 DEF BellOf, IndInv, TypeOK
  <2>2. Bells' = [Bells EXCEPT ![m] = "rung"]
    BY <1>5, <2>1 DEF Bells
  <2>3. Delivery!Ring(m)
    BY <1>2, <1>3, <1>6, <2>2, NoneInFlight
    DEF Delivery!Ring, Called, Notices, Bells
  <2> QED
    BY <2>3 DEF Delivery!Next
<1>8. CASE result = "failed"
  <2>1. BellOf(m)' = "silent"
    BY <1>2, <1>4, <1>8 DEF BellOf
  <2>2. Bells' = Bells
    BY <1>5, <1>6, <2>1 DEF Bells
  <2>3. Delivery!Miss(m)
    BY <1>3, <2>2 DEF Delivery!Miss, Called, Notices, Bells
  <2> QED
    BY <2>3 DEF Delivery!Next
<1> QED
  BY <1>7, <1>8

LEMMA RecordDelivers ==
  ASSUME IndInv, Record
  PROVE  Delivery!Next \/ UNCHANGED Given
<1>1. PICK m \in Manager : m = run.sent
  BY DEF Record, IndInv, TypeOK, Run
<1>2. /\ receipt' = [receipt EXCEPT ![m].push = Recorded]
      /\ run'.sent = Nobody /\ run'.list = run.list /\ run'.phase = run.phase
      /\ UNCHANGED <<alert, rung>>
  BY <1>1 DEF Record, IndInv, TypeOK, Run, history
<1>3. receipt \in [Manager -> Receipt]
  BY DEF IndInv, TypeOK
<1>4. UNCHANGED <<Standing, Notices, Called>>
  BY <1>2, <1>3 DEF Standing, Open, Notices, Called, Pushing, Receipt
<1>5. /\ \A n \in Manager \ {m} : receipt'[n] = receipt[n]
      /\ receipt'[m].push = Recorded
  BY <1>2, <1>3 DEF Receipt
<1>6. \A n \in Manager \ {m} : BellOf(n)' = BellOf(n)
  BY <1>1, <1>2, <1>5, DispatchAssumption DEF BellOf
<1>7. receipt[m].push # "sent"
  BY <1>1 DEF IndInv, PushInv, PushUnderWay, Record
<1>8. CASE run.result = "accepted"
  <2>1. BellOf(m)' = "noted"
    BY <1>5, <1>8, BellBecomes DEF Recorded
  <2>2. Bells' = [Bells EXCEPT ![m] = "noted"]
    BY <1>6, <2>1 DEF Bells
  <2>3. m \in Delivery!Ringing
    BY <1>1, <1>7, <1>8, RingingIs DEF InFlight
  <2>4. Delivery!Note(m)
    BY <1>4, <2>2, <2>3 DEF Delivery!Note, Notices, Called, Bells
  <2> QED
    BY <2>4 DEF Delivery!Next
<1>9. CASE run.result # "accepted"
  <2>1. BellOf(m) = "silent"
    BY <1>7, <1>9 DEF BellOf
  <2>2. BellOf(m)' = "silent"
    BY <1>1, <1>2, <1>5, <1>9, DispatchAssumption DEF BellOf, Recorded
  <2> QED
    BY <1>4, <1>6, <2>1, <2>2 DEF Given, Bells
<1> QED
  BY <1>8, <1>9

LEMMA KillDelivers ==
  ASSUME IndInv, Kill
  PROVE  Delivery!Next
<1>1. /\ run' = Off /\ UNCHANGED <<alert, receipt>>
      /\ \A m \in Manager : rung'[m] = IF run.sent = m THEN "no" ELSE rung[m]
  BY DEF Kill
<1>2. run'.sent = Nobody /\ ~Pushing'
  BY <1>1, RunTypes DEF Pushing
<1>3. UNCHANGED <<Standing, Notices>> /\ Called' = {}
  BY <1>1, <1>2 DEF Standing, Open, Notices, Called
<1>4. \A m \in Manager : BellOf(m)' = IF m \in Delivery!Ringing THEN "silent"
                                      ELSE BellOf(m)
  <2> SUFFICES ASSUME NEW m \in Manager
               PROVE  BellOf(m)' = IF InFlight(m) THEN "silent" ELSE BellOf(m)
    BY RingingIs
  <2>1. ~InFlight(m)' /\ receipt'[m].push = receipt[m].push
    BY <1>1, <1>2, DispatchAssumption DEF InFlight
  <2>2. InFlight(m) => receipt[m].push # "sent"
    BY DEF InFlight
  <2> QED
    BY <2>1, <2>2, BellIs, BellBecomes
<1>5. Bells' = [m \in Manager |->
                  IF m \in Delivery!Ringing THEN "silent" ELSE Bells[m]]
  BY <1>4 DEF Bells
<1>6. Delivery!Forget
  BY <1>3, <1>5 DEF Delivery!Forget, Notices, Called, Bells
<1> QED
  BY <1>6 DEF Delivery!Next

LEMMA DispatchDelivers ==
  ASSUME IndInv, Dispatch
  PROVE  Delivery!Next \/ UNCHANGED Given
<1>1. CASE Start
  <2>1. run.sent = Nobody /\ Called = {}
    BY <1>1, NotPushing DEF Start, Pushing, Called
  <2>2. /\ run'.list = Deliverable /\ run'.sent = Nobody /\ Pushing'
        /\ UNCHANGED <<alert, receipt, rung>>
    BY <1>1 DEF Start, Off, Pushing, history
  <2> QED
    BY <2>1, <2>2, ListingCalls
<1>2. CASE PushAgain
  <2>1. run.sent = Nobody /\ Called = {} /\ SecondList \in SUBSET Deliverable
    BY <1>2 DEF PushAgain, Listless, SecondList, Called
  <2>2. /\ run'.list = SecondList /\ run'.sent = Nobody /\ Pushing'
        /\ UNCHANGED <<alert, receipt, rung>>
    BY <1>2, <2>1 DEF PushAgain, Pushing, history, IndInv, TypeOK, Run
  <2> QED
    BY <2>1, <2>2, ListingCalls
<1>3. CASE GoTexting
  <2>1. run.sent = Nobody /\ Called = {}
    BY <1>3 DEF GoTexting, Listless, Called
  <2>2. run'.sent = Nobody /\ ~Pushing' /\ UNCHANGED <<alert, receipt, rung>>
    BY <1>3 DEF GoTexting, Off, Pushing, history
  <2> QED
    BY <2>1, <2>2, TurningHides
<1>4. CASE GoReminding \/ EndRun \/ \E m \in Manager : Remind(m)
  <2>1. run.sent = Nobody /\ Called = {}
    BY <1>4, NotPushing DEF GoReminding, EndRun, Remind, Pushing, Called
  <2>2. run'.sent = Nobody /\ ~Pushing' /\ UNCHANGED <<alert, receipt, rung>>
    <3>1. UNCHANGED <<alert, receipt, rung>>
      BY <1>4 DEF GoReminding, EndRun, Remind, history
    <3>2. CASE run' = Off
      BY <3>1, <3>2, RunTypes DEF Pushing
    <3>3. CASE \E due \in SUBSET Remindable :
                 run' = [Off EXCEPT !.phase = "remind", !.list = due]
      BY <3>1, <3>3 DEF Off, Pushing
    <3>4. CASE \E m \in Manager : /\ run.phase = "remind"
                                 /\ run' = [run EXCEPT !.list = @ \ {m}]
      <4>1. run \in Run
        BY DEF IndInv, TypeOK
      <4>2. run'.phase = run.phase /\ run'.sent = run.sent
        BY <3>4, <4>1 DEF Run
      <4> QED
        BY <2>1, <3>1, <3>4, <4>2 DEF Pushing
    <3> QED
      BY <1>4, <3>2, <3>3, <3>4 DEF GoReminding, EndRun, Remind
  <2> QED
    BY <2>1, <2>2, TurningHides
<1>5. CASE RecordTexts \/ \E p \in Phone : Text(p)
  <2>1. /\ run'.sent = run.sent /\ run'.result = run.result
        /\ run'.list = run.list /\ run'.phase = run.phase
        /\ UNCHANGED <<alert, rung>>
    BY <1>5 DEF RecordTexts, Text, history, IndInv, TypeOK, Run
  <2>2. \A m \in Manager : /\ receipt'[m].push = receipt[m].push
                           /\ receipt'[m].view = receipt[m].view
    <3>1. receipt \in [Manager -> Receipt]
      BY DEF IndInv, TypeOK
    <3>2. CASE RecordTexts
      <4>1. \A m \in Manager :
              receipt'[m] =
                [receipt[m] EXCEPT !.texted =
                   @ \/ (run.texting = "well" /\ Texted(m))]
        BY <3>2 DEF RecordTexts
      <4> QED
        BY <3>1, <4>1 DEF Receipt
    <3>3. CASE \E p \in Phone : Text(p)
      BY <3>3 DEF Text
    <3> QED
      BY <1>5, <3>2, <3>3
  <2>3. UNCHANGED Bells
    BY <2>1, <2>2, BellsStay
  <2> QED
    BY <2>1, <2>2, <2>3 DEF Given, Standing, Open, Notices, Called, Pushing
<1> QED
  BY <1>1, <1>2, <1>3, <1>4, <1>5, PushDelivers, RecordDelivers DEF Dispatch

\* The dispatcher and the managers' views keep what AlertDelivery promises,
\* whatever comes between a push and its record.
THEOREM DispatchImplementsDelivery == Spec => KeepsDelivery
<1>1. Init => Delivery!Init
  <2> SUFFICES ASSUME Init  PROVE  Delivery!Init
    OBVIOUS
  <2>1. \A m \in Manager : /\ receipt[m].view = "none"
                           /\ BellOf(m) = "silent"
    BY RunTypes, DispatchAssumption DEF Init, BellOf
  <2>2. ~Pushing /\ Standing = "not yet"
    BY RunTypes DEF Init, Pushing, Standing, Open
  <2> QED
    BY <2>1, <2>2 DEF Delivery!Init
<1>2. IndInv /\ [Next]_vars =>
        [Delivery!Next]_<<Standing, [m \in Manager |-> receipt[m].view],
                          IF Pushing THEN run.list ELSE {},
                          [m \in Manager |-> BellOf(m)]>>
  <2> SUFFICES ASSUME IndInv, [Next]_vars
               PROVE  Delivery!Next \/ UNCHANGED Given
    BY DEF Given, Notices, Called, Bells
  <2>1. CASE UNCHANGED vars
    BY <2>1 DEF vars, Given, Standing, Open, Notices, Called, Pushing, Bells, BellOf
  <2> QED
    BY <2>1, AlertDelivers, ManagersDeliver, KillDelivers, DispatchDelivers DEF Next
<1> QED
  BY <1>1, <1>2, DispatchInvariance, PTL
     DEF Spec, KeepsDelivery, Delivery!Spec, Delivery!delivery
=============================================================================
