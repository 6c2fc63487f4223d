------------------------------ MODULE ExamPage ------------------------------
(***************************************************************************)
(* The exam page in the customer's browser (assessments/attempt.html) and  *)
(* the network between it and the attempt's server side (ExamAttempt).     *)
(*                                                                         *)
(* The page saves one choice at a time and goes on while the customer's    *)
(* choice differs from the last one confirmed; it gives a request up after *)
(* 15 seconds, which does not recall it: a request given up may still      *)
(* arrive, at any later time or never.  A page exit and the return from it *)
(* travel in two requests; the second is sent when the first has ended,    *)
(* however it ended.                                                       *)
(***************************************************************************)
EXTENDS ExamAttempt

CONSTANTS
  Sitting,    \* the entitlement whose attempt is on the screen
  MaxPresses, \* bound: choices and Continue presses
  MaxLoads    \* bound: page loads

ASSUME PageAssumption ==
  /\ Sitting \in Entitlement
  /\ MaxPresses \in Nat
  /\ MaxLoads \in Nat

VARIABLES
  page,      \* the script's variables and what the page tells the customer
  late,      \* save requests given up and still under way, by their choice
  givenUp,   \* choices of the save requests ever given up
  absence,   \* exits from the page: the two requests of each
  presses,   \* choices and Continue presses so far
  loads      \* page loads so far

pageVars == <<page, late, givenUp, absence, presses, loads>>
allVars == <<vars, pageVars>>

Nobody == NoChoice   \* no request is awaited

Page ==
  [shown: BOOLEAN,
   desired: Choice \cup {NoChoice},      \* desiredChoice
   saved: Choice \cup {NoChoice},        \* savedChoice
   awaited: Choice \cup {Nobody},        \* the request savePromise waits for
   reply: {"none", "ok", "closed", "refused"},
   leaving: BOOLEAN,                     \* navigating
   label: {"", "saving", "saved", "failed"}]

AbsenceRow ==
  [exit: {"none", "sent", "ended", "arrived"}, failed: BOOLEAN,
   back: {"none", "due", "sent", "arrived"}]

PageTypeOK ==
  /\ TypeOK
  /\ page \in Page
  /\ late \in [Choice -> 0..MaxPresses]
  /\ givenUp \subseteq Choice
  /\ absence \in [Absence -> AbsenceRow]
  /\ presses \in 0..MaxPresses
  /\ loads \in 0..MaxLoads

Blank == [shown |-> FALSE, desired |-> NoChoice, saved |-> NoChoice,
          awaited |-> Nobody, reply |-> "none", leaving |-> FALSE,
          label |-> ""]

PageInit ==
  /\ Init
  /\ page = Blank
  /\ late = [c \in Choice |-> 0]
  /\ givenUp = {}
  /\ absence = [id \in Absence |-> [exit |-> "none", failed |-> FALSE,
                                    back |-> "none"]]
  /\ presses = 0
  /\ loads = 0

-----------------------------------------------------------------------------
(* Saving. *)

Flushing == page.awaited # Nobody

Away == \E id \in Absence : absence[id].exit # "none" /\ absence[id].back = "none"

\* flushSave with nothing under way: save the choice unless it is the saved one.
Flushed(p) ==
  IF p.desired = p.saved
  THEN [p EXCEPT !.shown = ~p.leaving]
  ELSE [p EXCEPT !.awaited = p.desired, !.label = "saving"]

\* The awaited request is given up; if it has not arrived it still may.
GiveUp ==
  IF Flushing /\ page.reply = "none"
  THEN /\ late' = [late EXCEPT ![page.awaited] = @ + 1]
       /\ givenUp' = givenUp \cup {page.awaited}
  ELSE UNCHANGED <<late, givenUp>>

\* AttemptView on an open attempt renders the stored choice; a page that was
\* open, its requests and the returns it had not sent are gone.
Load ==
  /\ loads < MaxLoads
  /\ InTime(Sitting)
  /\ loads' = loads + 1
  /\ page' = [Blank EXCEPT !.shown = TRUE, !.desired = answer[Sitting],
                           !.saved = answer[Sitting]]
  /\ GiveUp
  /\ absence' = [id \in Absence |->
       IF absence[id].exit # "none" /\ absence[id].back \in {"none", "due"}
       THEN [absence[id] EXCEPT !.back = "arrived"]
       ELSE absence[id]]
  /\ UNCHANGED <<vars, presses>>

\* The customer picks a choice: it is saved now, or by the loop under way.
Pick(choice) ==
  /\ page.shown
  /\ ~Away
  /\ choice # page.desired
  /\ presses < MaxPresses
  /\ presses' = presses + 1
  /\ LET picked == [page EXCEPT !.desired = choice] IN
       page' = IF Flushing THEN picked ELSE Flushed(picked)
  /\ UNCHANGED <<vars, late, givenUp, absence, loads>>

\* The customer presses Continue: what is not saved is saved first.
Continue ==
  /\ page.shown
  /\ ~Away
  /\ ~page.leaving
  /\ presses < MaxPresses
  /\ presses' = presses + 1
  /\ LET pressed == [page EXCEPT !.leaving = TRUE] IN
       page' = IF Flushing THEN pressed ELSE Flushed(pressed)
  /\ UNCHANGED <<vars, late, givenUp, absence, loads>>

\* SaveAnswerView.post for a request with this choice, and its answer.
ServeSave(choice) ==
  Save(Sitting, choice) \/ RefuseSave(Sitting)

Answer ==
  IF InTime(Sitting) THEN "ok"
  ELSE IF attempt'[Sitting].status = "completed"
            \/ attempt'[Sitting].reason = "copy_limit"
       THEN "closed" ELSE "refused"

ArriveSave ==
  /\ Flushing
  /\ page.reply = "none"
  /\ ServeSave(page.awaited)
  /\ page' = [page EXCEPT !.reply = Answer]
  /\ UNCHANGED <<late, givenUp, absence, presses, loads>>

ArriveLate(choice) ==
  /\ late[choice] > 0
  /\ ServeSave(choice)
  /\ late' = [late EXCEPT ![choice] = @ - 1]
  /\ UNCHANGED <<page, givenUp, absence, presses, loads>>

\* Variant for the mutation runs: what the customer wants by now is taken for
\* what was saved.
ConfirmedDesired(p) ==
  [p EXCEPT !.saved = p.desired, !.awaited = Nobody, !.reply = "none",
            !.label = "saved"]

\* requestSave succeeded: the choice it carried is the saved one.
Confirmed(p) ==
  [p EXCEPT !.saved = p.awaited, !.awaited = Nobody, !.reply = "none",
            !.label = "saved"]

\* A 200: the loop goes on with a newer choice, or the page says "saved" and
\* leaves if Continue was pressed.
HearSaved ==
  /\ page.reply = "ok"
  /\ page' = Flushed(Confirmed(page))
  /\ UNCHANGED <<vars, late, givenUp, absence, presses, loads>>

\* A 409 with an address to go to: the page leaves.
HearClosed ==
  /\ page.reply = "closed"
  /\ page' = Blank
  /\ UNCHANGED <<vars, late, givenUp, absence, presses, loads>>

\* Any other answer.
HearRefused ==
  /\ page.reply = "refused"
  /\ page' = [page EXCEPT !.awaited = Nobody, !.reply = "none",
                          !.leaving = FALSE, !.label = "failed"]
  /\ UNCHANGED <<vars, late, givenUp, absence, presses, loads>>

\* Variant for the mutation runs: no 15-second limit, only an answer that was
\* on its way can be lost.
GaveUpAnswered == Flushing /\ page.reply # "none"

GaveUp == Flushing

\* The connection breaks or 15 seconds pass without an answer.
Abort ==
  /\ GaveUp
  /\ GiveUp
  /\ page' = [page EXCEPT !.awaited = Nobody, !.reply = "none",
                          !.leaving = FALSE, !.label = "failed"]
  /\ UNCHANGED <<vars, absence, presses, loads>>

-----------------------------------------------------------------------------
(* Leaving the page and coming back. *)

Leave(id) ==
  /\ page.shown
  /\ ~Away
  /\ absence[id].exit = "none"
  /\ absence' = [absence EXCEPT ![id].exit = "sent"]
  /\ UNCHANGED <<vars, page, late, givenUp, presses, loads>>

ComeBack(id) ==
  /\ page.shown
  /\ absence[id].exit # "none"
  /\ absence[id].back = "none"
  /\ absence' = [absence EXCEPT ![id].back = "due"]
  /\ UNCHANGED <<vars, page, late, givenUp, presses, loads>>

\* The exit's request fails in the browser; it may have left all the same.
ExitFails(id) ==
  /\ absence[id].exit = "sent"
  /\ absence' = [absence EXCEPT ![id].exit = "ended", ![id].failed = TRUE]
  /\ UNCHANGED <<vars, page, late, givenUp, presses, loads>>

\* Variant for the mutation runs: the return does not wait for the exit.
ExitSent(id) == absence[id].exit # "none"

\* hiddenRequest has ended.
ExitEnded(id) == absence[id].exit \in {"ended", "arrived"}

SendReturn(id) ==
  /\ page.shown
  /\ absence[id].back = "due"
  /\ ExitEnded(id)
  /\ absence' = [absence EXCEPT ![id].back = "sent"]
  /\ UNCHANGED <<vars, page, late, givenUp, presses, loads>>

\* IntegrityEventView refuses an event on an attempt that is closed, or that
\* it closes as overdue.
RefuseEvent ==
  /\ ~InTime(Sitting)
  /\ \/ Visit(Sitting)
     \/ ~Expired(Sitting) /\ UNCHANGED vars

ArriveExit(id) ==
  /\ absence[id].exit \in {"sent", "ended"}
  /\ Hide(Sitting, id) \/ RefuseEvent
  /\ absence' = [absence EXCEPT ![id].exit = "arrived"]
  /\ UNCHANGED <<page, late, givenUp, presses, loads>>

ArriveReturn(id) ==
  /\ absence[id].back = "sent"
  /\ \/ \E points \in AwayPoints \cup {0} : Return(Sitting, id, points)
     \/ RefuseEvent
  /\ absence' = [absence EXCEPT ![id].back = "arrived"]
  /\ UNCHANGED <<page, late, givenUp, presses, loads>>

-----------------------------------------------------------------------------
\* What happens to the attempt without the page (the age of its start only
\* matters to other attempts, so DayPasses is left out).
Elsewhere ==
  /\ \/ \E acknowledged \in BOOLEAN : Start(Sitting, acknowledged)
     \/ TimeUp(Sitting) \/ Visit(Sitting) \/ Revoke(Sitting)
     \/ FinishOpen(Sitting)
  /\ UNCHANGED pageVars

Submit == FinishSubmit(Sitting) /\ UNCHANGED pageVars

\* A copy: its request and the one retry carry one identity (copy-warning.js).
Signal(id) ==
  /\ page.shown
  /\ Copy(Sitting, id)
  /\ UNCHANGED pageVars

PageNext ==
  \/ Load \/ Continue \/ ArriveSave \/ HearSaved \/ HearClosed \/ HearRefused
  \/ Abort \/ Elsewhere \/ Submit
  \/ \E choice \in Choice : Pick(choice) \/ ArriveLate(choice)
  \/ \E id \in CopyId : Signal(id)
  \/ \E id \in Absence :
       \/ Leave(id) \/ ComeBack(id) \/ ExitFails(id) \/ SendReturn(id)
       \/ ArriveExit(id) \/ ArriveReturn(id)

\* The browser runs its handlers and its timers, the server the view that has
\* begun; neither the network nor the customer owes anything.
PageSpec ==
  /\ PageInit /\ [][PageNext]_allVars
  /\ WF_allVars(HearSaved \/ HearClosed \/ HearRefused \/ Abort)
  /\ WF_allVars(Submit)

-----------------------------------------------------------------------------
(* Properties. *)

\* When the page says "Answer saved", the stored answer is the choice on the
\* screen, or a choice of the customer's whose request the page had given up:
\* no order of picks, answers and retries loses a choice otherwise.
OnlyGivenUpOverwrites ==
  page.label = "saved" =>
    page.saved = page.desired
      /\ (answer[Sitting] = page.saved \/ answer[Sitting] \in givenUp)

\* An exit whose request did not fail in the browser is known to the server
\* before the return from it, so that absences are paired in order.
PairedUnlessFailed ==
  \A id \in Absence :
    Recorded(Sitting, "returned", id) /\ ~absence[id].failed
      => Recorded(Sitting, "hidden", id)

\* What OnlyGivenUpOverwrites rests on: a request is awaited exactly while the
\* page says "saving", an answer is to the request awaited, a save that was
\* answered "ok" is stored unless one given up came after it, no choice is ever
\* taken back, and only requests given up are late.
AwaitedIsSaving ==
  /\ Flushing <=> page.label = "saving"
  /\ page.reply # "none" => Flushing
  /\ page.reply = "ok" => answer[Sitting] \in givenUp \cup {page.awaited}
  /\ page.desired = NoChoice => page.saved = NoChoice /\ ~Flushing

LateIsGivenUp == \A c \in Choice : late[c] > 0 => c \in givenUp

\* Every request is of a press of its own (this bounds late).
PressedFor ==
  \A c \in Choice :
    late[c] + (IF Flushing /\ c \in {page.awaited, page.desired} THEN 1 ELSE 0)
      <= presses

\* What PairedUnlessFailed rests on: a page on the screen is of an attempt that
\* was started, the return is sent after the end of the exit's request, and an
\* exit that has arrived is recorded unless the attempt is closed for events.
ShownIsStarted ==
  page.shown \/ Flushing \/ (\E id \in Absence : absence[id].exit # "none")
    => attempt[Sitting].status # "none"

ExitBeforeReturn ==
  \A id \in Absence :
    /\ absence[id].exit = "ended" => absence[id].failed
    /\ absence[id].back = "sent" => absence[id].exit \in {"ended", "arrived"}
    /\ absence[id].exit = "arrived" =>
         Recorded(Sitting, "hidden", id) \/ ~InTime(Sitting)

\* The inductive invariant of the page, beside IndInv of the attempt.
PageInv ==
  /\ PageTypeOK
  /\ AwaitedIsSaving
  /\ LateIsGivenUp
  /\ PressedFor
  /\ OnlyGivenUpOverwrites
  /\ ShownIsStarted
  /\ ExitBeforeReturn
  /\ PairedUnlessFailed

\* The page never stays at "Saving", whatever the network loses.
SavingEnds == page.label = "saving" ~> page.label # "saving"
=============================================================================
