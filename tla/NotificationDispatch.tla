------------------------ MODULE NotificationDispatch ------------------------
(***************************************************************************)
(* How one alert of the management inbox reaches the managers: push, text  *)
(* message and reminder (process_notifications of                          *)
(* management_portal/notifications.py), beside what the managers do with   *)
(* the alert meanwhile (notification_* of management_portal/views.py).     *)
(*                                                                         *)
(* The dispatcher works through lists it read earlier, and saves after it  *)
(* has sent: between any two of its steps a manager may act, and it may be *)
(* killed at each.  A timer starts it again.  Time is nondeterministic: a  *)
(* snooze or a retry delay is over at some point.                          *)
(***************************************************************************)
EXTENDS Naturals

CONSTANTS
  Manager,    \* staff who may get the alert
  Nobody,     \* no manager
  Recipients, \* those of the alert's role, who get a receipt when it is raised
  Phone,      \* MANAGEMENT_ALERT_SMS_RECIPIENTS
  MaxCrashes  \* bound: how often the dispatcher is killed

ASSUME DispatchAssumption ==
  /\ Nobody \notin Manager
  /\ Recipients \subseteq Manager
  /\ MaxCrashes \in Nat

VARIABLES
  alert,      \* the ManagementNotification
  receipt,    \* each manager's NotificationReceipt
  run,        \* the dispatcher
  crashes,    \* kills so far
  rung,       \* history: whether a push was accepted since the last reset
  settled     \* history: all phones were texted, and no receipt is newer

vars == <<alert, receipt, run, crashes, rung, settled>>

history == <<rung, settled>>

\* "read" is a status nothing saves.  A raised alert has no receipts yet.
Alert == {"none", "raised", "open", "resolved"}

\* seen_at, snoozed_until and dismissed_at of a receipt.  One that is seen may
\* be snoozed as well: that matters to the texts alone, which may wait anyway.
View == {"none", "unseen", "asleep", "seen", "dismissed"}

\* push_sent_at and push_retry_at; whether sms_sent_at is set.
Receipt == [view: View, push: {"due", "waiting", "sent"}, texted: BOOLEAN]

Phase == {"off", "first push", "second push", "text", "remind"}

Run ==
  [phase: Phase,
   list: SUBSET Manager,             \* still to be pushed, or reminded
   tried: SUBSET Manager,            \* attempted_ids
   sent: Manager \cup {Nobody},      \* pushed, the outcome not saved
   result: {"accepted", "failed"},
   phones: SUBSET Phone,             \* still to be texted
   texting: {"no", "well", "badly"}] \* whether a phone has failed

Off == [phase |-> "off", list |-> {}, tried |-> {}, sent |-> Nobody,
        result |-> "failed", phones |-> {}, texting |-> "no"]

TypeOK ==
  /\ alert \in Alert
  /\ receipt \in [Manager -> Receipt]
  /\ run \in Run
  /\ crashes \in 0..MaxCrashes
  /\ rung \in [Manager -> {"no", "yes", "overtaken"}]
  /\ settled \in BOOLEAN

Init ==
  /\ alert = "none"
  /\ receipt = [m \in Manager |->
       [view |-> "none", push |-> "due", texted |-> FALSE]]
  /\ run = Off
  /\ crashes = 0
  /\ rung = [m \in Manager |-> "no"]
  /\ settled = FALSE

Has(m) == receipt[m].view # "none"
Awake(m) == receipt[m].view \in {"unseen", "seen"}
Seen(m) == receipt[m].view \in {"seen", "dismissed"}
Open == alert \in {"raised", "open"}

-----------------------------------------------------------------------------
(* The alert is raised and resolved. *)

\* notify(): the receipts are created after the commit.
Raise ==
  /\ alert = "none"
  /\ alert' = "raised"
  /\ UNCHANGED <<receipt, run, crashes, history>>

\* create_receipts: a receipt that is there is left alone.
CreateReceipts ==
  /\ alert = "raised"
  /\ alert' = "open"
  /\ receipt' = [m \in Manager |->
       IF m \in Recipients /\ ~Has(m)
       THEN [receipt[m] EXCEPT !.view = "unseen"] ELSE receipt[m]]
  /\ settled' = (settled /\ \A m \in Recipients : Has(m))
  /\ UNCHANGED <<run, crashes, rung>>

\* The process dies after the commit: nobody will create them.
DieUnannounced ==
  /\ alert = "raised"
  /\ alert' = "open"
  /\ UNCHANGED <<receipt, run, crashes, history>>

\* notification_status, a decision about the receipt, or the timed approval.
Resolve ==
  /\ Open
  /\ alert' = "resolved"
  /\ UNCHANGED <<receipt, run, crashes, history>>

-----------------------------------------------------------------------------
(* The managers.  They may go on to open or snooze an alert that is resolved: *)
(* nothing is sent for it any more, and its receipts are left alone here.     *)

\* A view writes the manager's own receipt, and creates it if need be.
Write(m, row) ==
  /\ receipt' = [receipt EXCEPT ![m] = row]
  /\ settled' = (settled /\ Has(m))

\* What notification_snooze and notification_assign make of a receipt: it will
\* be pushed anew.
Reset(m, view) == [receipt[m] EXCEPT !.view = view, !.push = "due"]

ResetHistory(m) ==
  rung' = [rung EXCEPT ![m] = IF run.sent = m THEN "overtaken" ELSE "no"]

\* notification_open
OpenAlert(m) ==
  /\ Open
  /\ Write(m, [receipt[m] EXCEPT !.view =
       IF @ = "dismissed" THEN @ ELSE "seen"])
  /\ UNCHANGED <<alert, run, crashes, rung>>

\* notification_status with "read"
Dismiss(m) ==
  /\ Open
  /\ Write(m, [receipt[m] EXCEPT !.view = "dismissed"])
  /\ UNCHANGED <<alert, run, crashes, rung>>

\* notification_snooze
Snooze(m) ==
  /\ Open
  /\ Write(m, Reset(m, "asleep"))
  /\ ResetHistory(m)
  /\ UNCHANGED <<alert, run, crashes>>

\* notification_assign: the others have seen it, the assignee has it as new.
\* The process may die between the two writes.
Assign(m) ==
  /\ Open /\ m \in Recipients
  /\ LET others == [n \in Manager |->
           IF n = m \/ ~Has(n) THEN receipt[n]
           ELSE [receipt[n] EXCEPT !.view =
                   IF @ = "dismissed" THEN @ ELSE "seen"]]
     IN \/ /\ receipt' = [others EXCEPT ![m] = Reset(m, "unseen")]
           /\ settled' = (settled /\ Has(m))
           /\ ResetHistory(m)
           /\ UNCHANGED crashes
        \/ /\ crashes < MaxCrashes
           /\ crashes' = crashes + 1
           /\ receipt' = others
           /\ UNCHANGED history
  /\ UNCHANGED <<alert, run>>

-----------------------------------------------------------------------------
(* Time. *)

SnoozeEnds(m) ==
  /\ receipt[m].view = "asleep"
  /\ receipt' = [receipt EXCEPT ![m].view = "unseen"]
  /\ UNCHANGED <<alert, run, crashes, history>>

\* Variant for the mutation runs: a receipt that has a push_retry_at is passed
\* over for good.
RetryNeverDue(m) == receipt[m].push = "waiting" /\ UNCHANGED vars

PushRetryDue(m) ==
  /\ receipt[m].push = "waiting"
  /\ receipt' = [receipt EXCEPT ![m].push = "due"]
  /\ UNCHANGED <<alert, run, crashes, history>>

-----------------------------------------------------------------------------
(* The dispatcher: process_notifications.  Its timed approvals and the       *)
(* notifications it raises itself are no part of this alert.                 *)

Deliverable ==
  {m \in Manager : Open /\ receipt[m].view = "unseen" /\ receipt[m].push = "due"}

Start ==
  /\ run.phase = "off"
  /\ run' = [Off EXCEPT !.phase = "first push", !.list = Deliverable]
  /\ UNCHANGED <<alert, receipt, crashes, history>>

Pushing == run.phase \in {"first push", "second push"}

\* _send_user_push for the next receipt of the list.
Push(m, result) ==
  /\ Pushing /\ run.sent = Nobody /\ m \in run.list
  /\ run' = [run EXCEPT !.list = @ \ {m}, !.tried = @ \cup {m},
                        !.sent = m, !.result = result]
  /\ UNCHANGED <<alert, receipt, crashes>>

\* One device's provider takes it.
Accepted(m) ==
  /\ Push(m, "accepted")
  /\ rung' = [rung EXCEPT ![m] = "yes"]
  /\ UNCHANGED settled

\* None does, or the manager has no active PushSubscription (any more).
Refused(m) ==
  /\ Push(m, "failed")
  /\ UNCHANGED history

\* Variant for the mutation runs: sent is sent, whatever came of it.
RecordedAnyway == "sent"

\* What the save after a push says of it.
Recorded == IF run.result = "accepted" THEN "sent" ELSE "waiting"

Record ==
  /\ run.sent # Nobody
  /\ receipt' = [receipt EXCEPT ![run.sent].push = Recorded]
  /\ run' = [run EXCEPT !.sent = Nobody, !.result = "failed"]
  /\ UNCHANGED <<alert, crashes, history>>

Listless == run.list = {} /\ run.sent = Nobody

SecondList == Deliverable \ run.tried

PushAgain ==
  /\ run.phase = "first push" /\ Listless
  /\ run' = [run EXCEPT !.phase = "second push", !.list = SecondList, !.tried = {}]
  /\ UNCHANGED <<alert, receipt, crashes, history>>

\* The two filters are joined to the receipts each for itself, and outer: the
\* receipt that is unseen and the one that is awake may be different ones, and
\* an alert without a receipt meets both.  A retry delay may be over or not.
Urgent ==
  /\ Open
  /\ \/ \A m \in Manager : ~Has(m)
     \/ /\ \E m \in Manager : Has(m) /\ ~receipt[m].texted /\ ~Seen(m)
        /\ \E m \in Manager : Awake(m)

GoTexting ==
  /\ run.phase = "second push" /\ Listless
  /\ \/ run' = [Off EXCEPT !.phase = "text"]
     \/ /\ Urgent
        /\ run' = [Off EXCEPT !.phase = "text", !.phones = Phone,
                              !.texting = "well"]
  /\ UNCHANGED <<alert, receipt, crashes, history>>

\* send_sms to the next phone
Text(p) ==
  /\ p \in run.phones
  /\ \/ run' = [run EXCEPT !.phones = @ \ {p}]
     \/ run' = [run EXCEPT !.phones = @ \ {p}, !.texting = "badly"]
  /\ UNCHANGED <<alert, receipt, crashes, history>>

\* Variant for the mutation runs: only unseen receipts are marked.
TextedUnseen(m) == Has(m) /\ ~Seen(m)

\* item.receipts
Texted(m) == Has(m)

\* All were reached: every receipt is marked.  One was not: none is.
RecordTexts ==
  /\ run.phase = "text" /\ run.texting # "no" /\ run.phones = {}
  /\ receipt' = [m \in Manager |->
       [receipt[m] EXCEPT !.texted = @ \/ (run.texting = "well" /\ Texted(m))]]
  /\ settled' = (settled \/ run.texting = "well")
  /\ run' = [run EXCEPT !.texting = "no"]
  /\ UNCHANGED <<alert, crashes, rung>>

\* Pushed long ago, and still unseen.
Remindable ==
  {m \in Manager : Open /\ receipt[m].view = "unseen" /\ receipt[m].push = "sent"}

GoReminding ==
  /\ run.phase = "text" /\ run.texting = "no"
  /\ \E due \in SUBSET Remindable :
       run' = [Off EXCEPT !.phase = "remind", !.list = due]
  /\ UNCHANGED <<alert, receipt, crashes, history>>

\* The query is made again: first() of a user who has seen everything by now is
\* None, and the run ends in an AttributeError.
Remind(m) ==
  /\ run.phase = "remind" /\ m \in run.list
  /\ \/ /\ m \in Remindable
        /\ run' = [run EXCEPT !.list = @ \ {m}]
     \/ /\ m \notin Remindable
        /\ run' = Off
  /\ UNCHANGED <<alert, receipt, crashes, history>>

EndRun ==
  /\ run.phase = "remind" /\ run.list = {}
  /\ run' = Off
  /\ UNCHANGED <<alert, receipt, crashes, history>>

\* The dispatcher is killed, maybe between a push and its record.
Kill ==
  /\ run.phase # "off" /\ crashes < MaxCrashes
  /\ crashes' = crashes + 1
  /\ run' = Off
  /\ rung' = [m \in Manager |-> IF run.sent = m THEN "no" ELSE rung[m]]
  /\ UNCHANGED <<alert, receipt, settled>>

-----------------------------------------------------------------------------
Dispatch ==
  \/ Start \/ Record \/ PushAgain \/ GoTexting \/ RecordTexts
  \/ GoReminding \/ EndRun
  \/ \E m \in Manager : Accepted(m) \/ Refused(m) \/ Remind(m)
  \/ \E p \in Phone : Text(p)

Next ==
  \/ Raise \/ CreateReceipts \/ DieUnannounced \/ Resolve
  \/ Kill \/ Dispatch
  \/ \E m \in Manager :
       \/ OpenAlert(m) \/ Dismiss(m) \/ Snooze(m) \/ Assign(m)
       \/ SnoozeEnds(m) \/ PushRetryDue(m)

Spec == Init /\ [][Next]_vars

\* The timer starts the dispatcher again and again, time passes, and a provider
\* that is tried again and again takes a push at some point.
Fairness ==
  /\ WF_vars(Dispatch)
  /\ \A m \in Manager : WF_vars(PushRetryDue(m)) /\ SF_vars(Accepted(m))

FairSpec == Spec /\ Fairness

-----------------------------------------------------------------------------
(* Properties. *)

\* Nobody is alerted twice for nothing: the dispatcher never sets out to push
\* what was accepted since the manager's last snooze or assignment, unless it
\* was killed before it could record that; and it never texts the phones again
\* once all were reached, unless a receipt has been created since.  An alert
\* without any receipt has nowhere to record a text: it is texted in every run.
AlertedOnce ==
  /\ \A m \in run.list : Pushing => rung[m] # "yes"
  /\ settled /\ (\E m \in Manager : Has(m)) => run.phones = {}

\* "A receipt is only marked delivered when the transport accepted it": marked
\* and not rung since the last snooze or assignment is only what was reset
\* between the push and its record.
MarkedMeansRung ==
  \A m \in Manager :
    receipt[m].push = "sent" => rung[m] # "no"

\* "A provider outage no longer permanently swallows the alert": an open alert
\* a manager has not seen is pushed in the end, whatever the
\* dispatcher, the texts or the reminders of others come to.
EventuallyPushed ==
  \A m \in Manager :
    (Open /\ receipt[m].view = "unseen")
      ~> \/ receipt[m].push = "sent" \/ receipt[m].view # "unseen"
         \/ ~Open

\* The dispatcher and the views implement AlertDelivery: see there.  Its lists
\* and retries, kills, texts and reminders do not show.
Standing ==
  CASE alert = "none" -> "not yet"
    [] Open -> "stands"
    [] alert = "resolved" -> "over"

BellOf(m) ==
  CASE receipt[m].push = "sent" -> "noted"
    [] receipt[m].push # "sent" /\ run.sent = m /\ run.result = "accepted" ->
         IF rung[m] = "yes" THEN "rung" ELSE "stale"
    [] OTHER -> "silent"

Delivery ==
  INSTANCE AlertDelivery
    WITH alert <- Standing,
         notice <- [m \in Manager |-> receipt[m].view],
         called <- IF Pushing THEN run.list ELSE {},
         bell <- [m \in Manager |-> BellOf(m)]

KeepsDelivery == Delivery!Spec
=============================================================================
