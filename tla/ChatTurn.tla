------------------------------ MODULE ChatTurn -------------------------------
(***************************************************************************)
(* The turns of one conversation and what the operator says to them while   *)
(* they run: chat.py (POST /chat, start_turn, _run_chat_turn, _stop),       *)
(* voice.py (_begin_turn), agentmsg.py (the operator's inbox) and           *)
(* operator_ask.py (a question the turn puts to the operator).              *)
(*                                                                          *)
(* A turn is a task; a stop is delivered at one of its awaits, so every     *)
(* await at which it makes a difference is a phase of its own here.  A      *)
(* message of the operator's is a request that runs beside the turn.  What  *)
(* the model says and does inside the loop is not modelled: the loop reads  *)
(* its inbox, may ask once, and ends or raises.  The inbox is never longer  *)
(* than one drain takes (five rows).                                        *)
(***************************************************************************)
EXTENDS Naturals, FiniteSets

CONSTANTS
  Task,       \* the turns that may be started, numbered as they come
  Msg,        \* what the operator sends into a running turn
  AskMsg,     \* the message a detached question's answer becomes
  None,
  MaxWrong    \* bound: stops and failures of the loop or the database, together

ASSUME ChatAssumption ==
  /\ Task \subseteq Nat /\ None \notin Task
  /\ AskMsg \notin Msg /\ MaxWrong \in Nat

Mail == Msg \cup {AskMsg}

VARIABLES
  phase,      \* where each turn's task is
  active,     \* the task registered as the running turn (_active_turns)
  accepting,  \* the inbox takes messages (_accepting)
  posting,    \* a POST has claimed the conversation (_posting)
  voicing,    \* the voice session has looked, and is about to start a turn
  st,         \* where each message's request is
  queued,     \* rows in the inbox, not delivered
  read,       \* messages delivered to a turn
  taken,      \* rows a turn's close has deleted and not yet returned
  late,       \* what a turn's closes returned (late)
  handed,     \* messages handed back in a closing event (undelivered)
  rows,       \* the assistant rows a turn wrote
  saved,      \* the turns whose answer is committed (answer_saved)
  told,       \* closing events (final, error) published for a turn
  ask,        \* the question: where asking it is
  asker,      \* the turn that asked
  reply,      \* the operator has answered it ("ok")
  stops,      \* stops delivered
  faults      \* failures

turnVars == <<phase, active, accepting, posting, voicing>>
mailVars == <<st, queued, read>>
lateVars == <<taken, late, handed>>
saidVars == <<rows, saved, told>>
askVars == <<ask, asker, reply>>
vars == <<turnVars, mailVars, lateVars, saidVars, askVars, stops, faults>>

Phase == {"new", "born", "loop", "closing", "taken", "saving", "saved",
          "stopping", "restop", "retaken", "failing", "failtaken", "finishing", "over", "stillborn"}
Live == Phase \ {"new", "over", "stillborn"}

TypeOK ==
  /\ phase \in [Task -> Phase]
  /\ active \in Task \cup {None} /\ asker \in Task \cup {None}
  /\ accepting \in BOOLEAN /\ posting \in BOOLEAN /\ voicing \in BOOLEAN
  /\ st \in [Mail -> {"no", "writing", "written", "retracting", "accepted", "refused"}]
  /\ queued \cup read \cup handed \subseteq
       {m \in Mail : st[m] \in {"written", "retracting", "accepted"}}
  /\ taken \in [Task -> SUBSET Mail] /\ late \in [Task -> SUBSET Mail]
  /\ rows \in [Task -> SUBSET {"answer", "marker", "failure"}]
  /\ saved \subseteq Task /\ told \in [Task -> 0..1]
  /\ ask \in {"none", "waiting", "timed out", "detached", "over"}
  /\ reply \in BOOLEAN
  /\ stops \in 0..MaxWrong /\ faults \in 0..MaxWrong

Init ==
  /\ phase = [t \in Task |-> "new"] /\ active = None
  /\ accepting = FALSE /\ posting = FALSE /\ voicing = FALSE
  /\ st = [m \in Mail |-> "no"] /\ queued = {} /\ read = {}
  /\ taken = [t \in Task |-> {}] /\ late = [t \in Task |-> {}] /\ handed = {}
  /\ rows = [t \in Task |-> {}] /\ saved = {} /\ told = [t \in Task |-> 0]
  /\ ask = "none" /\ asker = None /\ reply = FALSE
  /\ stops = 0 /\ faults = 0

Go(t, p) == phase' = [phase EXCEPT ![t] = p]
Fault == stops + faults < MaxWrong /\ faults' = faults + 1

-----------------------------------------------------------------------------
\* Starting a turn.

\* POST /chat claims an idle conversation in one step; a busy one is refused.
Post ==
  /\ ~posting /\ active = None /\ \E t \in Task : phase[t] = "new"
  /\ posting' = TRUE
  /\ UNCHANGED <<phase, active, accepting, voicing, mailVars, lateVars, saidVars, askVars,
                 stops, faults>>

\* The claim is given up again: the conversation is gone, the insert failed.
PostFails ==
  /\ posting /\ posting' = FALSE
  /\ UNCHANGED <<phase, active, accepting, voicing, mailVars, lateVars, saidVars, askVars,
                 stops, faults>>

\* The voice session looks for a running turn, then awaits; it takes no claim.
VoiceLooks ==
  /\ ~voicing /\ active = None /\ \E t \in Task : phase[t] = "new"
  /\ voicing' = TRUE
  /\ UNCHANGED <<phase, active, accepting, posting, mailVars, lateVars, saidVars, askVars,
                 stops, faults>>

\* start_turn: the task, the running flag and the open inbox in one tick.
Start(t) ==
  /\ phase[t] = "new" /\ \A u \in Task : u < t => phase[u] # "new"
  /\ \/ posting /\ posting' = FALSE /\ UNCHANGED voicing
     \/ voicing /\ voicing' = FALSE /\ UNCHANGED posting
  /\ Go(t, "born") /\ active' = t /\ accepting' = TRUE
  /\ UNCHANGED <<mailVars, lateVars, saidVars, askVars, stops, faults>>

Run(t) ==
  /\ phase[t] = "born"
  /\ Go(t, "loop")
  /\ UNCHANGED <<active, accepting, posting, voicing, mailVars, lateVars, saidVars, askVars,
                 stops, faults>>

-----------------------------------------------------------------------------
\* The operator's messages.

\* queue_operator_message, up to its insert.
Send(m) ==
  /\ m \in Msg /\ st[m] = "no"
  /\ st' = [st EXCEPT ![m] = IF accepting THEN "writing" ELSE "refused"]
  /\ UNCHANGED <<turnVars, queued, read, lateVars, saidVars, askVars, stops, faults>>

Insert(m) ==
  /\ st[m] = "writing"
  /\ st' = [st EXCEPT ![m] = "written"] /\ queued' = queued \cup {m}
  /\ UNCHANGED <<turnVars, read, lateVars, saidVars, askVars, stops, faults>>

\* Mutant: the inbox is not looked at again after the insert.
RecheckNot(m) ==
  /\ st[m] = "written"
  /\ st' = [st EXCEPT ![m] = "accepted"]
  /\ UNCHANGED <<turnVars, queued, read, lateVars, saidVars, askVars, stops, faults>>

\* The look after the insert.
Recheck(m) ==
  /\ st[m] = "written"
  /\ st' = [st EXCEPT ![m] = IF accepting THEN "accepted" ELSE "retracting"]
  /\ UNCHANGED <<turnVars, queued, read, lateVars, saidVars, askVars, stops, faults>>

\* Mutant: the row is taken back without a look at whether it was still there.
RetractAlways(m) ==
  /\ st[m] = "retracting"
  /\ queued' = queued \ {m} /\ st' = [st EXCEPT ![m] = "refused"]
  /\ UNCHANGED <<turnVars, read, lateVars, saidVars, askVars, stops, faults>>

\* The turn closed meanwhile: the row is taken back, unless somebody has it already.
Retract(m) ==
  /\ st[m] = "retracting"
  /\ queued' = queued \ {m}
  /\ st' = [st EXCEPT ![m] = IF m \in queued THEN "refused" ELSE "accepted"]
  /\ UNCHANGED <<turnVars, read, lateVars, saidVars, askVars, stops, faults>>

\* The loop's drain between two rounds (agentmsg.claim).
Drain(t) ==
  /\ phase[t] = "loop" /\ queued # {}
  /\ read' = read \cup queued /\ queued' = {}
  /\ UNCHANGED <<turnVars, st, lateVars, saidVars, askVars, stops, faults>>

-----------------------------------------------------------------------------
\* The question.

Asking(t) == asker = t /\ ask \in {"waiting", "timed out"}
Pending == ask \in {"waiting", "timed out", "detached"}

\* The question is over, its future with it.
Settle == ask' = "over" /\ asker' = None /\ reply' = FALSE

Ask(t) ==
  /\ phase[t] = "loop" /\ ask = "none"
  /\ ask' = "waiting" /\ asker' = t
  /\ UNCHANGED <<turnVars, mailVars, lateVars, saidVars, reply, stops, faults>>

\* The operator answers: the future is set; a detached question's answer is sent on.
Answer ==
  /\ Pending /\ ~reply
  /\ \/ /\ ask = "detached" /\ Settle
        /\ st' = [st EXCEPT ![AskMsg] = IF accepting THEN "writing" ELSE "refused"]
     \/ ask # "detached" /\ reply' = TRUE /\ UNCHANGED <<ask, asker, st>>
  /\ UNCHANGED <<turnVars, queued, read, lateVars, saidVars, stops, faults>>

\* ask() returns: the answer, or the time was up and it cannot be detached.
AskReturns ==
  /\ ask \in {"waiting", "timed out"}
  /\ Settle
  /\ UNCHANGED <<turnVars, mailVars, lateVars, saidVars, stops, faults>>

\* The time is up: is a plan run live under this turn?  The look awaits.
AskTimesOut ==
  /\ ask = "waiting" /\ ~reply
  /\ ask' = "timed out"
  /\ UNCHANGED <<turnVars, mailVars, lateVars, saidVars, asker, reply, stops, faults>>

\* It is: the turn goes on without the answer, whatever came during the look.
AskDetaches ==
  /\ ask = "timed out"
  /\ ask' = "detached" /\ asker' = None
  /\ UNCHANGED <<turnVars, mailVars, lateVars, saidVars, reply, stops, faults>>

\* A loop that ends otherwise takes its question with it.
DropAsk(t) ==
  IF Asking(t) THEN Settle ELSE UNCHANGED askVars

-----------------------------------------------------------------------------
\* The end of a turn.

\* Mutant: the turn waits for a question it has detached.
FinishWaits(t) ==
  /\ phase[t] = "loop" /\ ~Asking(t) /\ ask # "detached"
  /\ Go(t, "closing") /\ accepting' = FALSE
  /\ UNCHANGED <<active, posting, voicing, mailVars, lateVars, saidVars, askVars, stops, faults>>

\* The loop is over; the close begins: nothing more is admitted.
Finish(t) ==
  /\ phase[t] = "loop" /\ ~Asking(t)
  /\ Go(t, "closing") /\ accepting' = FALSE
  /\ UNCHANGED <<active, posting, voicing, mailVars, lateVars, saidVars, askVars, stops, faults>>

\* Mutant: the rows that were not read are handed back and left queued.
TakeCopies(t) ==
  /\ phase[t] \in {"closing", "restop", "failing"}
  /\ \/ taken' = [taken EXCEPT ![t] = queued] /\ UNCHANGED <<queued, faults>>
     \/ Fault /\ UNCHANGED <<queued, taken>>
  /\ Go(t, CASE phase[t] = "closing" -> "taken" [] phase[t] = "restop" -> "retaken"
             [] phase[t] = "failing" -> "failtaken")
  /\ UNCHANGED <<active, accepting, posting, voicing, st, read, late, handed, saidVars,
                 askVars, stops>>

\* The close's delete is committed; or it fails, and the rows stay queued.
Take(t) ==
  /\ phase[t] \in {"closing", "restop", "failing"}
  /\ \/ taken' = [taken EXCEPT ![t] = queued] /\ queued' = {} /\ UNCHANGED faults
     \/ Fault /\ UNCHANGED <<queued, taken>>
  /\ Go(t, CASE phase[t] = "closing" -> "taken" [] phase[t] = "restop" -> "retaken"
             [] phase[t] = "failing" -> "failtaken")
  /\ UNCHANGED <<active, accepting, posting, voicing, st, read, late, handed, saidVars,
                 askVars, stops>>

\* ... and returns.
TakenBack(t) ==
  /\ late' = [late EXCEPT ![t] = @ \cup taken[t]] /\ taken' = [taken EXCEPT ![t] = {}]

Closed(t) ==
  /\ phase[t] = "taken"
  /\ TakenBack(t) /\ Go(t, "saving")
  /\ UNCHANGED <<active, accepting, posting, voicing, mailVars, handed, saidVars, askVars,
                 stops, faults>>

\* The answer's row, its tool calls and the commit.
Save(t) ==
  /\ phase[t] = "saving"
  /\ rows' = [rows EXCEPT ![t] = @ \cup {"answer"}] /\ saved' = saved \cup {t}
  /\ Go(t, "saved")
  /\ UNCHANGED <<active, accepting, posting, voicing, mailVars, lateVars, told, askVars,
                 stops, faults>>

\* The closing event, with what comes back to the operator; the rest of the way to the
\* finally's first await is the same tick, and the finally closes the inbox again.
Tell(t, back) ==
  /\ told' = [told EXCEPT ![t] = @ + 1]
  /\ handed' = handed \cup back
  /\ accepting' = FALSE /\ Go(t, "finishing")

Publish(t) ==
  /\ phase[t] = "saved"
  /\ Tell(t, late[t])
  /\ UNCHANGED <<active, posting, voicing, mailVars, taken, late, rows, saved, askVars,
                 stops, faults>>

\* Mutant: the marker is written whether or not the answer is committed.
MarkAlways(t) ==
  /\ phase[t] = "stopping"
  /\ rows' = [rows EXCEPT ![t] = @ \cup {"marker"}]
  /\ Go(t, "restop") /\ accepting' = FALSE
  /\ UNCHANGED <<active, posting, voicing, mailVars, lateVars, saved, told, askVars,
                 stops, faults>>

\* The handler of a stop: the marker, unless the answer is committed.
Mark(t) ==
  /\ phase[t] = "stopping"
  /\ rows' = IF t \in saved THEN rows ELSE [rows EXCEPT ![t] = @ \cup {"marker"}]
  /\ Go(t, "restop") /\ accepting' = FALSE
  /\ UNCHANGED <<active, posting, voicing, mailVars, lateVars, saved, told, askVars,
                 stops, faults>>

\* ... and the closing event, with what both closes took.
TellStopped(t) ==
  /\ phase[t] = "retaken"
  /\ Tell(t, late[t] \cup taken[t])
  /\ TakenBack(t)
  /\ UNCHANGED <<active, posting, voicing, mailVars, rows, saved, askVars, stops, faults>>

\* Cut short while it saves, the answer's row may be there without being known to be: the
\* next commit on the connection takes it along.
Broken(t) ==
  rows' \in {rows} \cup IF phase[t] = "saving" THEN {[rows EXCEPT ![t] = @ \cup {"answer"}]} ELSE {}

\* The loop or the database raises: the handler closes the inbox first.
Fail(t) ==
  /\ phase[t] \in {"born", "loop", "saving", "saved"} /\ Fault
  /\ Broken(t) /\ DropAsk(t)
  /\ Go(t, "failing") /\ accepting' = FALSE
  /\ UNCHANGED <<active, posting, voicing, mailVars, lateVars, saved, told, stops>>

\* Mutant: a failure that could not be recorded is not told either.
TellFailedIfRecorded(t) ==
  /\ phase[t] = "failtaken"
  /\ \/ /\ rows' = IF t \in saved THEN rows ELSE [rows EXCEPT ![t] = @ \cup {"failure"}]
        /\ Tell(t, late[t] \cup taken[t])
     \/ accepting' = FALSE /\ Go(t, "finishing") /\ UNCHANGED <<rows, told, handed>>
  /\ TakenBack(t)
  /\ UNCHANGED <<active, posting, voicing, mailVars, saved, askVars, stops, faults>>

\* ... the failure is recorded, best effort, unless the answer is, and told.
TellFailed(t) ==
  /\ phase[t] = "failtaken"
  /\ \/ rows' = IF t \in saved THEN rows ELSE [rows EXCEPT ![t] = @ \cup {"failure"}]
     \/ UNCHANGED rows
  /\ Tell(t, late[t] \cup taken[t])
  /\ TakenBack(t)
  /\ UNCHANGED <<active, posting, voicing, mailVars, saved, askVars, stops, faults>>

\* The task's own variables go with it.
Forget(t) ==
  /\ late' = [late EXCEPT ![t] = {}] /\ taken' = [taken EXCEPT ![t] = {}]
  /\ rows' = [rows EXCEPT ![t] = {}] /\ saved' = saved \ {t} /\ told' = [told EXCEPT ![t] = 0]

\* Mutant: a stop in the handler of a stop skips the bookkeeping.
EndUnlessStopped(t) ==
  /\ phase[t] = "finishing"
  /\ Go(t, "over") /\ active' = IF stops + faults > 1 THEN active ELSE None
  /\ Forget(t)
  /\ IF Pending /\ ~reply THEN Settle ELSE UNCHANGED askVars
  /\ UNCHANGED <<accepting, posting, voicing, mailVars, handed, stops, faults>>

\* Mutant: the turn's open questions are left as they are.
EndKeepsAsk(t) ==
  /\ phase[t] = "finishing"
  /\ Go(t, "over") /\ active' = None
  /\ Forget(t)
  /\ UNCHANGED <<accepting, posting, voicing, mailVars, handed, askVars, stops, faults>>

\* The bookkeeping that happens whatever came before: the flag of the conversation goes,
\* its open questions are cancelled, the stream is closed.  An answered one is passed over.
End(t) ==
  /\ phase[t] = "finishing"
  /\ Go(t, "over") /\ active' = None
  /\ Forget(t)
  /\ IF Pending /\ ~reply THEN Settle ELSE UNCHANGED askVars
  /\ UNCHANGED <<accepting, posting, voicing, mailVars, handed, stops, faults>>

\* A stop of the registered task, at the await it is in.  One that was never run ends at
\* once, with no handler; one in a handler goes on with the finally; in the finally it only
\* cuts the awaits short.  The rows of a close it lands in are deleted already.
Stop(t) ==
  /\ active = t /\ stops + faults < MaxWrong /\ stops' = stops + 1
  /\ phase[t] \in Live \ {"finishing"}
  /\ CASE phase[t] = "born" -> Go(t, "stillborn") /\ UNCHANGED accepting
       [] phase[t] \in {"stopping", "restop", "retaken", "failing", "failtaken"} ->
            Go(t, "finishing") /\ accepting' = FALSE
       [] OTHER -> Go(t, "stopping") /\ UNCHANGED accepting
  /\ Broken(t)
  /\ taken' = [taken EXCEPT ![t] = {}]
  /\ IF phase[t] = "loop" THEN DropAsk(t) ELSE UNCHANGED askVars
  /\ UNCHANGED <<active, posting, voicing, mailVars, late, handed, saved, told, faults>>

-----------------------------------------------------------------------------
EndStep(t) ==
  \/ Finish(t) \/ Take(t) \/ Closed(t) \/ Save(t) \/ Publish(t) \/ Mark(t)
  \/ TellStopped(t) \/ TellFailed(t) \/ End(t)

Request(m) == Send(m) \/ Insert(m) \/ Recheck(m) \/ Retract(m)
Question == AskReturns \/ AskTimesOut \/ AskDetaches

Done == (\A t \in Task : phase[t] \in {"over", "stillborn"}) /\ UNCHANGED vars

Next ==
  \/ Post \/ PostFails \/ VoiceLooks \/ Answer \/ Question
  \/ \E t \in Task : Start(t) \/ Run(t) \/ Drain(t) \/ Ask(t) \/ EndStep(t) \/ Fail(t) \/ Stop(t)
  \/ \E m \in Mail : Request(m)
  \/ Done

Spec == Init /\ [][Next]_vars

\* The loop's rounds are bounded by its budget, a question by its time.
FairSpec ==
  /\ Spec
  /\ \A t \in Task : WF_vars(Run(t) \/ EndStep(t))
  /\ WF_vars(Question)

-----------------------------------------------------------------------------
Over(t) == phase[t] \notin Live

\* A message reaches the agent or comes back to the operator, never both, and never after
\* the operator was told that it was not taken (the client sends it again).
ReadOrReturned ==
  /\ read \cap handed = {}
  /\ \A t \in Task : queued \cap (late[t] \cup taken[t]) = {} /\ queued \cap (read \cup handed) = {}

\* Short of a stop or a failure, a message the operator was told is queued is in the inbox
\* or on its way back while a turn lives, and read or handed back when none does.
AcceptedArrives ==
  stops = 0 /\ faults = 0 =>
    \A m \in Msg : st[m] = "accepted" =>
      \/ m \in read \cup handed
      \/ \E t \in Task : ~Over(t) /\ m \in queued \cup taken[t] \cup late[t]

\* A turn that nothing stopped ends with one closing event, an answer or an error; no turn
\* has two.
EndIsTold ==
  \A t \in Task : phase[t] = "finishing" /\ stops = 0 => told[t] = 1

\* An answer that is committed stands: no marker and no failure follows it.
AnswerStands == \A t \in saved : rows[t] = {"answer"}

\* Once no turn lives the conversation takes a new one, however the last turn ended
\* (ROBUST-11); a task stopped before its first step is the exception.
NeverBricked == (\A t \in Task : Over(t)) =>
                  active = None \/ phase[active] = "stillborn"

\* No question stays open for an operator to answer when the turns are over.
NoQuestionLeft == (\A t \in Task : Over(t)) => ~(Pending /\ ~reply)

\* Every turn comes to its end.
TurnOver == <>[](\A t \in Task : Over(t))

\* Claimed of every way to start a turn (chat.py, ROBUST-07: the claim is taken and checked
\* in one step, so that a conversation never has two turns at once).
OneTurn == Cardinality({t \in Task : ~Over(t)}) <= 1
=============================================================================
