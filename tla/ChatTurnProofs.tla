---------------------------- MODULE ChatTurnProofs ---------------------------
(***************************************************************************)
(* The turns of a conversation, for any number of turns and messages and    *)
(* any number of stops and failures.  The inductive invariant has a part    *)
(* for each thing that can go wrong: where a message's row is, what a turn  *)
(* has said, which task is registered, who waits for the operator's answer, *)
(* and, short of a stop or a failure, who will take a row that is queued.   *)
(***************************************************************************)
EXTENDS ChatTurn, TLAPS

-----------------------------------------------------------------------------
(***************************************************************************)
(* Where rows are.  A row that was inserted is known by its request, and is *)
(* in one place: it is queued, or read, or in the hands of a turn's close,  *)
(* or handed back.  The question's answer is not sent before it is given.   *)
(***************************************************************************)
Sent == {m \in Mail : st[m] \in {"written", "retracting", "accepted"}}

OnePlace ==
  /\ queued \cap read = {} /\ queued \cap handed = {} /\ read \cap handed = {}
  /\ \A t \in Task : /\ late[t] \subseteq Sent /\ taken[t] \subseteq Sent
                     /\ queued \cap late[t] = {} /\ queued \cap taken[t] = {}
                     /\ read \cap late[t] = {} /\ read \cap taken[t] = {}
  /\ ask # "over" => st[AskMsg] = "no"

(***************************************************************************)
(* What a turn has said.  Before its last await it has told nothing, and    *)
(* written nothing before it saves; a committed answer is alone.            *)
(***************************************************************************)
Unsaved == {"new", "born", "loop", "closing", "taken", "saving"}

SaidOnce ==
  /\ \A t \in Task : phase[t] # "finishing" => told[t] = 0
  /\ \A t \in Task : phase[t] = "finishing" /\ stops = 0 => told[t] = 1
  /\ \A t \in Task : phase[t] \in Unsaved => rows[t] = {} /\ t \notin saved
  /\ \A t \in Task : t \in saved => rows[t] = {"answer"}

\* The registered task lives, or was stopped before its first step.
Registered == active # None => phase[active] \in Live \cup {"stillborn"}

(***************************************************************************)
(* A question that is waited for belongs to a turn in its loop, and one     *)
(* that is open at all to a turn that will come by its finally.             *)
(***************************************************************************)
Attended ==
  /\ ask \in {"waiting", "timed out"} => asker \in Task /\ phase[asker] = "loop"
  /\ Pending /\ ~reply => \E t \in Task : phase[t] \in Live \ {"born"}

(***************************************************************************)
(* Short of a stop or a failure: the inbox is open only while a turn can    *)
(* still read it; no row is lost; and a row in the inbox that the operator  *)
(* was told of has a turn that has yet to close.                            *)
(***************************************************************************)
Calm == {"new", "born", "loop", "closing", "taken", "saving", "saved", "finishing", "over"}

Carried(t, m) == m \in taken[t] \/ m \in late[t]

InOrder ==
  /\ \A t \in Task : phase[t] \in Calm
  /\ accepting => \E t \in Task : phase[t] \in {"born", "loop"}
  /\ \A t \in Task : phase[t] # "taken" => taken[t] = {}
  /\ \A t \in Task : phase[t] \notin {"saving", "saved", "finishing"} => late[t] = {}
  /\ \A t \in Task : phase[t] = "finishing" => late[t] \subseteq handed
  /\ \A m \in Sent : m \in queued \cup read \cup handed \/ \E t \in Task : Carried(t, m)
  /\ \A m \in queued : st[m] = "accepted" =>
       \E t \in Task : phase[t] \in {"born", "loop", "closing"}

Orderly == stops = 0 /\ faults = 0 => InOrder

IInv == TypeOK /\ OnePlace /\ SaidOnce /\ Registered /\ Attended /\ Orderly
-----------------------------------------------------------------------------
\* The types.

\* What a turn may write, and the small facts the types rest on.
Row == {"answer", "marker", "failure"}

LEMMA WithinBound ==
  ASSUME NEW a \in 0..MaxWrong, NEW b \in 0..MaxWrong, a + b < MaxWrong
  PROVE  a + 1 \in 0..MaxWrong /\ b + 1 \in 0..MaxWrong
BY ChatAssumption

LEMMA Wrote ==
  ASSUME rows \in [Task -> SUBSET Row], NEW t \in Task, NEW r \in Row,
         rows' = rows \/ rows' = [rows EXCEPT ![t] = @ \cup {r}]
  PROVE  rows' \in [Task -> SUBSET Row]
OBVIOUS

LEMMA Emptied ==
  ASSUME rows \in [Task -> SUBSET Row], told \in [Task -> 0..1], NEW t \in Task
  PROVE  /\ [rows EXCEPT ![t] = {}] \in [Task -> SUBSET Row]
         /\ [told EXCEPT ![t] = 0] \in [Task -> 0..1]
OBVIOUS

LEMMA SentGrows ==
  ASSUME NEW m \in Mail, st' = [st EXCEPT ![m] = "written"],
         st \in [Mail -> {"no", "writing", "written", "retracting", "accepted", "refused"}]
  PROVE  Sent' = Sent \cup {m}
<1>1. \A n \in Mail : st'[n] = IF n = m THEN "written" ELSE st[n]
  OBVIOUS
<1> QED
  BY <1>1 DEF Sent

LEMMA SentLeft ==
  ASSUME NEW m \in Mail, queued \subseteq Sent,
         st' = [st EXCEPT ![m] = IF m \in queued THEN "refused" ELSE "accepted"],
         st \in [Mail -> {"no", "writing", "written", "retracting", "accepted", "refused"}]
  PROVE  Sent \ queued \subseteq Sent' /\ queued \ {m} \subseteq Sent'
<1>1. \A n \in Mail \ {m} : st'[n] = st[n]
  OBVIOUS
<1>2. m \notin queued => st'[m] = "accepted"
  OBVIOUS
<1> QED
  BY <1>1, <1>2 DEF Sent

LEMMA ToldOnce ==
  ASSUME TypeOK, SaidOnce, NEW t \in Task, phase[t] # "finishing"
  PROVE  [told EXCEPT ![t] = @ + 1] \in [Task -> 0..1]
<1>1. told[t] + 1 = 1 /\ 1 \in 0..1
  BY DEF SaidOnce
<1>2. told \in [Task -> 0..1]
  BY DEF TypeOK
<1> QED
  BY <1>1, <1>2

LEMMA StopGoes ==
  ASSUME phase \in [Task -> Phase], NEW t \in Task, Stop(t)
  PROVE  /\ phase' \in [Task -> Phase] /\ accepting' \in {accepting, FALSE}
         /\ \A u \in Task \ {t} : phase'[u] = phase[u]
         /\ phase'[t] \in {"stillborn", "finishing", "stopping"}
         /\ phase'[t] = "stillborn" => phase[t] = "born"
<1>1. CASE phase[t] = "born"
  BY <1>1 DEF Stop, Go, Phase
<1>2. CASE phase[t] \in {"stopping", "restop", "retaken", "failing", "failtaken"}
  BY <1>2 DEF Stop, Go, Phase
<1>3. CASE phase[t] \notin {"born", "stopping", "restop", "retaken", "failing", "failtaken"}
  BY <1>3 DEF Stop, Go, Phase
<1> QED
  BY <1>1, <1>2, <1>3

LEMMA TypeStep ==
  ASSUME IInv, [Next]_vars
  PROVE  TypeOK'
<1>0. "answer" \in Row /\ "failure" \in Row /\ rows \in [Task -> SUBSET Row]
  BY DEF IInv, TypeOK, Row
<1> USE DEF IInv, TypeOK, OnePlace, SaidOnce
<1>1. CASE Post
  BY <1>1 DEF Post, mailVars, lateVars, saidVars, askVars, Phase, Mail, Sent, Row
<1>2. CASE PostFails
  BY <1>2 DEF PostFails, mailVars, lateVars, saidVars, askVars, Phase, Mail, Sent, Row
<1>3. CASE VoiceLooks
  BY <1>3 DEF VoiceLooks, mailVars, lateVars, saidVars, askVars, Phase, Mail, Sent, Row
<1>4. CASE Answer
  <2>1. st' \in [Mail -> {"no", "writing", "written", "retracting", "accepted", "refused"}]
    BY <1>4 DEF Answer, mailVars
  <2>2. Sent' = Sent
    BY <1>4, <2>1 DEF Answer, Mail, Sent, Settle
  <2> QED
    BY <1>4, <2>1, <2>2 DEF Answer, turnVars, lateVars, saidVars, Pending, Settle, Sent
<1>5. CASE AskReturns
  BY <1>5 DEF AskReturns, turnVars, mailVars, lateVars, saidVars, Settle, Phase, Mail, Sent,
     Row
<1>6. CASE AskTimesOut
  BY <1>6 DEF AskTimesOut, turnVars, mailVars, lateVars, saidVars, Phase, Mail, Sent, Row
<1>7. CASE AskDetaches
  BY <1>7 DEF AskDetaches, turnVars, mailVars, lateVars, saidVars, Phase, Mail, Sent, Row
<1>8. ASSUME NEW t \in Task, Start(t) PROVE TypeOK'
  BY <1>8 DEF Start, mailVars, lateVars, saidVars, askVars, Go, Phase, Mail, Sent, Row
<1>9. ASSUME NEW t \in Task, Run(t) PROVE TypeOK'
  BY <1>9 DEF Run, mailVars, lateVars, saidVars, askVars, Go, Phase, Mail, Sent, Row
<1>10. ASSUME NEW t \in Task, Drain(t) PROVE TypeOK'
  BY <1>10 DEF Drain, turnVars, lateVars, saidVars, askVars, Phase, Mail, Sent, Row
<1>11. ASSUME NEW t \in Task, Ask(t) PROVE TypeOK'
  BY <1>11 DEF Ask, turnVars, mailVars, lateVars, saidVars, Phase, Mail, Sent, Row
<1>12. ASSUME NEW t \in Task, Finish(t) PROVE TypeOK'
  BY <1>12 DEF Finish, mailVars, lateVars, saidVars, askVars, Go, Asking, Phase, Mail, Sent,
     Row
<1>13. ASSUME NEW t \in Task, Take(t) PROVE TypeOK'
  <2>1. phase' \in [Task -> Phase]
    BY <1>13 DEF Take, Go, Phase
  <2>2. faults' \in 0..MaxWrong
    <3>1. CASE UNCHANGED faults
      BY <3>1
    <3>2. CASE Fault
      BY <3>2, WithinBound DEF Fault
    <3> QED
      BY <1>13, <3>1, <3>2 DEF Take
  <2>3. taken' \in [Task -> SUBSET Mail] /\ queued' \subseteq queued
    BY <1>13 DEF Take
  <2> QED
    BY <1>13, <2>1, <2>2, <2>3 DEF Take, Sent, saidVars, askVars
<1>14. ASSUME NEW t \in Task, Closed(t) PROVE TypeOK'
  BY <1>14 DEF Closed, mailVars, saidVars, askVars, Go, TakenBack, Phase, Mail, Sent, Row
<1>15. ASSUME NEW t \in Task, Save(t) PROVE TypeOK'
  BY <1>15 DEF Save, mailVars, lateVars, askVars, Go, Phase, Mail, Sent, Row
<1>16. ASSUME NEW t \in Task, Publish(t) PROVE TypeOK'
  <2>1. told' \in [Task -> 0..1]
    BY <1>16, ToldOnce DEF Publish, Tell
  <2>2. handed' \subseteq Sent
    BY <1>16 DEF Publish, Tell, Sent
  <2> QED
    BY <1>16, <2>1, <2>2 DEF Publish, Tell, Go, Phase, Sent, mailVars, askVars
<1>17. ASSUME NEW t \in Task, Mark(t) PROVE TypeOK'
  BY <1>17 DEF Mark, mailVars, lateVars, askVars, Go, Phase, Mail, Sent, Row
<1>18. ASSUME NEW t \in Task, TellStopped(t) PROVE TypeOK'
  <2>1. told' \in [Task -> 0..1]
    BY <1>18, ToldOnce DEF TellStopped, Tell
  <2>2. handed' \subseteq Sent
    BY <1>18 DEF TellStopped, Tell, Sent
  <2>3. late' \in [Task -> SUBSET Mail] /\ taken' \in [Task -> SUBSET Mail]
    BY <1>18 DEF TellStopped, TakenBack
  <2> QED
    BY <1>18, <2>1, <2>2, <2>3 DEF TellStopped, Tell, Go, Phase, Sent, mailVars, askVars
<1>19. ASSUME NEW t \in Task, TellFailed(t) PROVE TypeOK'
  <2>1. told' \in [Task -> 0..1]
    BY <1>19, ToldOnce DEF TellFailed, Tell
  <2>2. handed' \subseteq Sent
    BY <1>19 DEF TellFailed, Tell, Sent
  <2>3. late' \in [Task -> SUBSET Mail] /\ taken' \in [Task -> SUBSET Mail]
    BY <1>19 DEF TellFailed, TakenBack
  <2>4. rows' \in [Task -> SUBSET Row]
    <3>1. rows' = rows \/ rows' = [rows EXCEPT ![t] = @ \cup {"failure"}]
      BY <1>19 DEF TellFailed
    <3> QED
      BY <3>1, <1>0, Wrote
  <2> QED
    BY <1>19, <2>1, <2>2, <2>3, <2>4 DEF TellFailed, Tell, Go, Phase, Sent, Row, mailVars, askVars
<1>20. ASSUME NEW t \in Task, End(t) PROVE TypeOK'
  <2>1. late' \in [Task -> SUBSET Mail] /\ taken' \in [Task -> SUBSET Mail]
    BY <1>20 DEF End, Forget
  <2>2. rows' \in [Task -> SUBSET Row] /\ told' \in [Task -> 0..1]
    <3>1. rows' = [rows EXCEPT ![t] = {}] /\ told' = [told EXCEPT ![t] = 0]
      BY <1>20 DEF End, Forget
    <3> QED
      BY <3>1, <1>0, Emptied
  <2>3. phase' \in [Task -> Phase] /\ saved' \subseteq Task
    BY <1>20 DEF End, Go, Forget, Phase
  <2>4. ask' \in {"none", "waiting", "timed out", "detached", "over"} /\ reply' \in BOOLEAN
        /\ asker' \in Task \cup {None}
    BY <1>20 DEF End, Settle, askVars
  <2> QED
    BY <1>20, <2>1, <2>2, <2>3, <2>4 DEF End, Sent, Row, mailVars
<1>21. ASSUME NEW t \in Task, Fail(t) PROVE TypeOK'
  <2>1. phase' \in [Task -> Phase]
    BY <1>21 DEF Fail, Go, Phase
  <2>2. faults' \in 0..MaxWrong
    BY <1>21, WithinBound DEF Fail, Fault
  <2>3. rows' \in [Task -> SUBSET Row]
    <3>1. rows' = rows \/ rows' = [rows EXCEPT ![t] = @ \cup {"answer"}]
      BY <1>21 DEF Fail, Broken
    <3> QED
      BY <3>1, <1>0, Wrote
  <2>4. ask' \in {"none", "waiting", "timed out", "detached", "over"} /\ reply' \in BOOLEAN
        /\ asker' \in Task \cup {None}
    BY <1>21 DEF Fail, DropAsk, Settle, askVars
  <2> QED
    BY <1>21, <2>1, <2>2, <2>3, <2>4 DEF Fail, Sent, Row, mailVars, lateVars
<1>22. ASSUME NEW t \in Task, Stop(t) PROVE TypeOK'
  <2>1. phase' \in [Task -> Phase] /\ accepting' \in BOOLEAN
    BY <1>22, StopGoes
  <2>2. stops' \in 0..MaxWrong
    BY <1>22, WithinBound DEF Stop
  <2>3. rows' \in [Task -> SUBSET Row]
    <3>1. rows' = rows \/ rows' = [rows EXCEPT ![t] = @ \cup {"answer"}]
      BY <1>22 DEF Stop, Broken
    <3> QED
      BY <3>1, <1>0, Wrote
  <2>4. ask' \in {"none", "waiting", "timed out", "detached", "over"} /\ reply' \in BOOLEAN
        /\ asker' \in Task \cup {None}
    BY <1>22 DEF Stop, DropAsk, Settle, askVars
  <2>5. taken' \in [Task -> SUBSET Mail]
    BY <1>22 DEF Stop
  <2> QED
    BY <1>22, <2>1, <2>2, <2>3, <2>4, <2>5 DEF Stop, Sent, Row, mailVars
<1>23. ASSUME NEW m \in Mail, Send(m) PROVE TypeOK'
  BY <1>23 DEF Send, turnVars, lateVars, saidVars, askVars, Phase, Mail, Sent, Row
<1>24. ASSUME NEW m \in Mail, Insert(m) PROVE TypeOK'
  <2>1. st' = [st EXCEPT ![m] = "written"] /\ queued' = queued \cup {m}
        /\ read' = read /\ handed' = handed
    BY <1>24 DEF Insert, lateVars
  <2>2. Sent' = Sent \cup {m}
    BY <2>1, SentGrows
  <2>3. st' \in [Mail -> {"no", "writing", "written", "retracting", "accepted", "refused"}]
    BY <2>1
  <2> QED
    BY <1>24, <2>1, <2>2, <2>3 DEF Insert, turnVars, lateVars, saidVars, askVars, Sent
<1>25. ASSUME NEW m \in Mail, Recheck(m) PROVE TypeOK'
  BY <1>25 DEF Recheck, turnVars, lateVars, saidVars, askVars, Phase, Mail, Sent, Row
<1>26. ASSUME NEW m \in Mail, Retract(m) PROVE TypeOK'
  <2>1. queued' = queued \ {m} /\ read' = read /\ handed' = handed
        /\ st' = [st EXCEPT ![m] = IF m \in queued THEN "refused" ELSE "accepted"]
    BY <1>26 DEF Retract, lateVars
  <2>2. Sent \ queued \subseteq Sent' /\ queued \ {m} \subseteq Sent'
    <3>1. queued \subseteq Sent
      BY DEF Sent
    <3> QED
      BY <2>1, <3>1, SentLeft
  <2>3. st' \in [Mail -> {"no", "writing", "written", "retracting", "accepted", "refused"}]
    BY <2>1
  <2>4. (queued \cup read \cup handed)' \subseteq Sent'
    BY <2>1, <2>2 DEF Sent
  <2> QED
    BY <1>26, <2>3, <2>4 DEF Retract, turnVars, lateVars, saidVars, askVars, Sent
<1>27. CASE UNCHANGED vars
  BY <1>27 DEF vars, turnVars, mailVars, lateVars, saidVars, askVars, Phase, Mail, Sent, Row
<1> QED
  BY <1>1, <1>2, <1>3, <1>4, <1>5, <1>6, <1>7, <1>8, <1>9, <1>10, <1>11, <1>12, <1>13, <1>14,
     <1>15, <1>16, <1>17, <1>18, <1>19, <1>20, <1>21, <1>22, <1>23, <1>24, <1>25, <1>26, <1>27
     DEF Next, Question, EndStep, Request, Done

-----------------------------------------------------------------------------
\* Where rows are.

LEMMA OnePlaceStep ==
  ASSUME IInv, [Next]_vars
  PROVE  OnePlace'
<1>a. OnePlace /\ queued \cup read \cup handed \subseteq Sent
  BY DEF IInv, TypeOK, Sent
<1>b. /\ taken \in [Task -> SUBSET Mail] /\ late \in [Task -> SUBSET Mail]
      /\ st \in [Mail -> {"no", "writing", "written", "retracting", "accepted", "refused"}]
  BY DEF IInv, TypeOK
<1>1. CASE Post
  BY <1>1, <1>a, <1>b DEF Post, mailVars, lateVars, saidVars, askVars, OnePlace, Sent
<1>2. CASE PostFails
  BY <1>2, <1>a, <1>b DEF PostFails, mailVars, lateVars, saidVars, askVars, OnePlace, Sent
<1>3. CASE VoiceLooks
  BY <1>3, <1>a, <1>b DEF VoiceLooks, mailVars, lateVars, saidVars, askVars, OnePlace, Sent
<1>4. CASE Answer
  BY <1>4, <1>a, <1>b DEF Answer, turnVars, lateVars, saidVars, Pending, Settle, OnePlace,
     Sent
<1>5. CASE AskReturns
  BY <1>5, <1>a, <1>b DEF AskReturns, turnVars, mailVars, lateVars, saidVars, Settle,
     OnePlace, Sent
<1>6. CASE AskTimesOut
  BY <1>6, <1>a, <1>b DEF AskTimesOut, turnVars, mailVars, lateVars, saidVars, OnePlace, Sent
<1>7. CASE AskDetaches
  BY <1>7, <1>a, <1>b DEF AskDetaches, turnVars, mailVars, lateVars, saidVars, OnePlace, Sent
<1>8. ASSUME NEW t \in Task, Start(t) PROVE OnePlace'
  BY <1>8, <1>a, <1>b DEF Start, mailVars, lateVars, saidVars, askVars, Go, OnePlace, Sent
<1>9. ASSUME NEW t \in Task, Run(t) PROVE OnePlace'
  BY <1>9, <1>a, <1>b DEF Run, mailVars, lateVars, saidVars, askVars, Go, OnePlace, Sent
<1>10. ASSUME NEW t \in Task, Drain(t) PROVE OnePlace'
  BY <1>10, <1>a, <1>b DEF Drain, turnVars, lateVars, saidVars, askVars, OnePlace, Sent
<1>11. ASSUME NEW t \in Task, Ask(t) PROVE OnePlace'
  BY <1>11, <1>a, <1>b DEF Ask, turnVars, mailVars, lateVars, saidVars, OnePlace, Sent
<1>12. ASSUME NEW t \in Task, Finish(t) PROVE OnePlace'
  BY <1>12, <1>a, <1>b DEF Finish, mailVars, lateVars, saidVars, askVars, Go, Asking,
     OnePlace, Sent
<1>13. ASSUME NEW t \in Task, Take(t) PROVE OnePlace'
  BY <1>13, <1>a, <1>b DEF Take, saidVars, askVars, Go, Fault, OnePlace, Sent
<1>14. ASSUME NEW t \in Task, Closed(t) PROVE OnePlace'
  BY <1>14, <1>a, <1>b DEF Closed, mailVars, saidVars, askVars, Go, TakenBack, OnePlace, Sent
<1>15. ASSUME NEW t \in Task, Save(t) PROVE OnePlace'
  BY <1>15, <1>a, <1>b DEF Save, mailVars, lateVars, askVars, Go, OnePlace, Sent
<1>16. ASSUME NEW t \in Task, Publish(t) PROVE OnePlace'
  BY <1>16, <1>a, <1>b DEF Publish, mailVars, askVars, Go, Tell, OnePlace, Sent
<1>17. ASSUME NEW t \in Task, Mark(t) PROVE OnePlace'
  BY <1>17, <1>a, <1>b DEF Mark, mailVars, lateVars, askVars, Go, OnePlace, Sent
<1>18. ASSUME NEW t \in Task, TellStopped(t) PROVE OnePlace'
  BY <1>18, <1>a, <1>b DEF TellStopped, mailVars, askVars, Go, Tell, TakenBack, OnePlace, Sent
<1>19. ASSUME NEW t \in Task, TellFailed(t) PROVE OnePlace'
  BY <1>19, <1>a, <1>b DEF TellFailed, mailVars, askVars, Go, Tell, TakenBack, OnePlace, Sent
<1>20. ASSUME NEW t \in Task, End(t) PROVE OnePlace'
  BY <1>20, <1>a, <1>b DEF End, mailVars, askVars, Go, Forget, Pending, Settle, OnePlace, Sent
<1>21. ASSUME NEW t \in Task, Fail(t) PROVE OnePlace'
  BY <1>21, <1>a, <1>b DEF Fail, mailVars, lateVars, askVars, Go, Fault, Broken, DropAsk,
     Asking, Settle, OnePlace, Sent
<1>22. ASSUME NEW t \in Task, Stop(t) PROVE OnePlace'
  BY <1>22, <1>a, <1>b DEF Stop, mailVars, askVars, Go, Broken, DropAsk, Asking, Settle,
     OnePlace, Sent
<1>23. ASSUME NEW m \in Mail, Send(m) PROVE OnePlace'
  BY <1>23, <1>a, <1>b, ChatAssumption DEF Send, turnVars, lateVars, saidVars, askVars,
     OnePlace, Sent
<1>24. ASSUME NEW m \in Mail, Insert(m) PROVE OnePlace'
  BY <1>24, <1>a, <1>b DEF Insert, turnVars, lateVars, saidVars, askVars, OnePlace, Sent
<1>25. ASSUME NEW m \in Mail, Recheck(m) PROVE OnePlace'
  BY <1>25, <1>a, <1>b DEF Recheck, turnVars, lateVars, saidVars, askVars, OnePlace, Sent
<1>26. ASSUME NEW m \in Mail, Retract(m) PROVE OnePlace'
  BY <1>26, <1>a, <1>b DEF Retract, turnVars, lateVars, saidVars, askVars, OnePlace, Sent
<1>27. CASE UNCHANGED vars
  BY <1>27, <1>a, <1>b DEF vars, turnVars, mailVars, lateVars, saidVars, askVars, OnePlace,
     Sent
<1> QED
  BY <1>1, <1>2, <1>3, <1>4, <1>5, <1>6, <1>7, <1>8, <1>9, <1>10, <1>11, <1>12, <1>13, <1>14,
     <1>15, <1>16, <1>17, <1>18, <1>19, <1>20, <1>21, <1>22, <1>23, <1>24, <1>25, <1>26, <1>27
     DEF Next, Question, EndStep, Request, Done

-----------------------------------------------------------------------------
\* What a turn says, the registered task, the question.

LEMMA SaidOnceStep ==
  ASSUME IInv, [Next]_vars
  PROVE  SaidOnce'
<1>a. SaidOnce /\ phase \in [Task -> Phase]
  BY DEF IInv, TypeOK
<1>b. /\ rows \in [Task -> SUBSET Row] /\ saved \subseteq Task /\ told \in [Task -> 0..1]
      /\ stops \in 0..MaxWrong
  BY DEF IInv, TypeOK, Row
<1>1. CASE Post
  BY <1>1, <1>a, <1>b DEF Post, mailVars, lateVars, saidVars, askVars, SaidOnce, Unsaved
<1>2. CASE PostFails
  BY <1>2, <1>a, <1>b DEF PostFails, mailVars, lateVars, saidVars, askVars, SaidOnce, Unsaved
<1>3. CASE VoiceLooks
  BY <1>3, <1>a, <1>b DEF VoiceLooks, mailVars, lateVars, saidVars, askVars, SaidOnce, Unsaved
<1>4. CASE Answer
  BY <1>4, <1>a, <1>b DEF Answer, turnVars, lateVars, saidVars, Pending, Settle, SaidOnce,
     Unsaved
<1>5. CASE AskReturns
  BY <1>5, <1>a, <1>b DEF AskReturns, turnVars, mailVars, lateVars, saidVars, Settle,
     SaidOnce, Unsaved
<1>6. CASE AskTimesOut
  BY <1>6, <1>a, <1>b DEF AskTimesOut, turnVars, mailVars, lateVars, saidVars, SaidOnce,
     Unsaved
<1>7. CASE AskDetaches
  BY <1>7, <1>a, <1>b DEF AskDetaches, turnVars, mailVars, lateVars, saidVars, SaidOnce,
     Unsaved
<1>8. ASSUME NEW t \in Task, Start(t) PROVE SaidOnce'
  BY <1>8, <1>a, <1>b DEF Start, mailVars, lateVars, saidVars, askVars, Go, SaidOnce, Unsaved
<1>9. ASSUME NEW t \in Task, Run(t) PROVE SaidOnce'
  BY <1>9, <1>a, <1>b DEF Run, mailVars, lateVars, saidVars, askVars, Go, SaidOnce, Unsaved
<1>10. ASSUME NEW t \in Task, Drain(t) PROVE SaidOnce'
  BY <1>10, <1>a, <1>b DEF Drain, turnVars, lateVars, saidVars, askVars, SaidOnce, Unsaved
<1>11. ASSUME NEW t \in Task, Ask(t) PROVE SaidOnce'
  BY <1>11, <1>a, <1>b DEF Ask, turnVars, mailVars, lateVars, saidVars, SaidOnce, Unsaved
<1>12. ASSUME NEW t \in Task, Finish(t) PROVE SaidOnce'
  BY <1>12, <1>a, <1>b DEF Finish, mailVars, lateVars, saidVars, askVars, Go, Asking,
     SaidOnce, Unsaved
<1>13. ASSUME NEW t \in Task, Take(t) PROVE SaidOnce'
  BY <1>13, <1>a, <1>b DEF Take, saidVars, askVars, Go, Fault, SaidOnce, Unsaved
<1>14. ASSUME NEW t \in Task, Closed(t) PROVE SaidOnce'
  BY <1>14, <1>a, <1>b DEF Closed, mailVars, saidVars, askVars, Go, TakenBack, SaidOnce,
     Unsaved
<1>15. ASSUME NEW t \in Task, Save(t) PROVE SaidOnce'
  BY <1>15, <1>a, <1>b DEF Save, mailVars, lateVars, askVars, Go, SaidOnce, Unsaved
<1>16. ASSUME NEW t \in Task, Publish(t) PROVE SaidOnce'
  BY <1>16, <1>a, <1>b DEF Publish, mailVars, askVars, Go, Tell, SaidOnce, Unsaved
<1>17. ASSUME NEW t \in Task, Mark(t) PROVE SaidOnce'
  BY <1>17, <1>a, <1>b DEF Mark, mailVars, lateVars, askVars, Go, SaidOnce, Unsaved
<1>18. ASSUME NEW t \in Task, TellStopped(t) PROVE SaidOnce'
  BY <1>18, <1>a, <1>b DEF TellStopped, mailVars, askVars, Go, Tell, TakenBack, SaidOnce,
     Unsaved
<1>19. ASSUME NEW t \in Task, TellFailed(t) PROVE SaidOnce'
  BY <1>19, <1>a, <1>b DEF TellFailed, mailVars, askVars, Go, Tell, TakenBack, SaidOnce,
     Unsaved
<1>20. ASSUME NEW t \in Task, End(t) PROVE SaidOnce'
  BY <1>20, <1>a, <1>b DEF End, mailVars, askVars, Go, Forget, Pending, Settle, SaidOnce,
     Unsaved
<1>21. ASSUME NEW t \in Task, Fail(t) PROVE SaidOnce'
  BY <1>21, <1>a, <1>b DEF Fail, mailVars, lateVars, askVars, Go, Fault, Broken, DropAsk,
     Asking, Settle, SaidOnce, Unsaved
<1>22. ASSUME NEW t \in Task, Stop(t) PROVE SaidOnce'
  <2>1. stops' # 0
    BY <1>22, <1>b, ChatAssumption DEF Stop
  <2>2. /\ \A u \in Task \ {t} : phase'[u] = phase[u]
        /\ phase'[t] \in {"stillborn", "finishing", "stopping"}
    BY <1>22, <1>a, StopGoes
  <2>3. told' = told /\ saved' = saved /\ phase[t] # "finishing"
    BY <1>22 DEF Stop
  <2>4. \A u \in Task \ {t} : rows'[u] = rows[u]
    BY <1>22, <1>b DEF Stop, Broken
  <2>5. t \in saved => rows'[t] = rows[t]
    BY <1>22, <1>a DEF Stop, Broken, SaidOnce, Unsaved
  <2> QED
    BY <1>a, <2>1, <2>2, <2>3, <2>4, <2>5 DEF SaidOnce, Unsaved
<1>23. ASSUME NEW m \in Mail, Send(m) PROVE SaidOnce'
  BY <1>23, <1>a, <1>b DEF Send, turnVars, lateVars, saidVars, askVars, SaidOnce, Unsaved
<1>24. ASSUME NEW m \in Mail, Insert(m) PROVE SaidOnce'
  BY <1>24, <1>a, <1>b DEF Insert, turnVars, lateVars, saidVars, askVars, SaidOnce, Unsaved
<1>25. ASSUME NEW m \in Mail, Recheck(m) PROVE SaidOnce'
  BY <1>25, <1>a, <1>b DEF Recheck, turnVars, lateVars, saidVars, askVars, SaidOnce, Unsaved
<1>26. ASSUME NEW m \in Mail, Retract(m) PROVE SaidOnce'
  BY <1>26, <1>a, <1>b DEF Retract, turnVars, lateVars, saidVars, askVars, SaidOnce, Unsaved
<1>27. CASE UNCHANGED vars
  BY <1>27, <1>a, <1>b DEF vars, turnVars, mailVars, lateVars, saidVars, askVars, SaidOnce,
     Unsaved
<1> QED
  BY <1>1, <1>2, <1>3, <1>4, <1>5, <1>6, <1>7, <1>8, <1>9, <1>10, <1>11, <1>12, <1>13, <1>14,
     <1>15, <1>16, <1>17, <1>18, <1>19, <1>20, <1>21, <1>22, <1>23, <1>24, <1>25, <1>26, <1>27
     DEF Next, Question, EndStep, Request, Done

LEMMA RegisteredStep ==
  ASSUME IInv, [Next]_vars
  PROVE  Registered'
<1>a. Registered /\ phase \in [Task -> Phase] /\ active \in Task \cup {None}
  BY DEF IInv, TypeOK
<1>1. CASE Post
  BY <1>1, <1>a, ChatAssumption DEF Post, mailVars, lateVars, saidVars, askVars, Registered,
     Live, Phase
<1>2. CASE PostFails
  BY <1>2, <1>a, ChatAssumption DEF PostFails, mailVars, lateVars, saidVars, askVars,
     Registered, Live, Phase
<1>3. CASE VoiceLooks
  BY <1>3, <1>a, ChatAssumption DEF VoiceLooks, mailVars, lateVars, saidVars, askVars,
     Registered, Live, Phase
<1>4. CASE Answer
  BY <1>4, <1>a, ChatAssumption DEF Answer, turnVars, lateVars, saidVars, Pending, Settle,
     Registered, Live, Phase
<1>5. CASE AskReturns
  BY <1>5, <1>a, ChatAssumption DEF AskReturns, turnVars, mailVars, lateVars, saidVars,
     Settle, Registered, Live, Phase
<1>6. CASE AskTimesOut
  BY <1>6, <1>a, ChatAssumption DEF AskTimesOut, turnVars, mailVars, lateVars, saidVars,
     Registered, Live, Phase
<1>7. CASE AskDetaches
  BY <1>7, <1>a, ChatAssumption DEF AskDetaches, turnVars, mailVars, lateVars, saidVars,
     Registered, Live, Phase
<1>8. ASSUME NEW t \in Task, Start(t) PROVE Registered'
  BY <1>8, <1>a, ChatAssumption DEF Start, mailVars, lateVars, saidVars, askVars, Go,
     Registered, Live, Phase
<1>9. ASSUME NEW t \in Task, Run(t) PROVE Registered'
  BY <1>9, <1>a, ChatAssumption DEF Run, mailVars, lateVars, saidVars, askVars, Go,
     Registered, Live, Phase
<1>10. ASSUME NEW t \in Task, Drain(t) PROVE Registered'
  BY <1>10, <1>a, ChatAssumption DEF Drain, turnVars, lateVars, saidVars, askVars, Registered,
     Live, Phase
<1>11. ASSUME NEW t \in Task, Ask(t) PROVE Registered'
  BY <1>11, <1>a, ChatAssumption DEF Ask, turnVars, mailVars, lateVars, saidVars, Registered,
     Live, Phase
<1>12. ASSUME NEW t \in Task, Finish(t) PROVE Registered'
  BY <1>12, <1>a, ChatAssumption DEF Finish, mailVars, lateVars, saidVars, askVars, Go,
     Asking, Registered, Live, Phase
<1>13. ASSUME NEW t \in Task, Take(t) PROVE Registered'
  BY <1>13, <1>a, ChatAssumption DEF Take, saidVars, askVars, Go, Fault, Registered, Live,
     Phase
<1>14. ASSUME NEW t \in Task, Closed(t) PROVE Registered'
  BY <1>14, <1>a, ChatAssumption DEF Closed, mailVars, saidVars, askVars, Go, TakenBack,
     Registered, Live, Phase
<1>15. ASSUME NEW t \in Task, Save(t) PROVE Registered'
  BY <1>15, <1>a, ChatAssumption DEF Save, mailVars, lateVars, askVars, Go, Registered, Live,
     Phase
<1>16. ASSUME NEW t \in Task, Publish(t) PROVE Registered'
  BY <1>16, <1>a, ChatAssumption DEF Publish, mailVars, askVars, Go, Tell, Registered, Live,
     Phase
<1>17. ASSUME NEW t \in Task, Mark(t) PROVE Registered'
  BY <1>17, <1>a, ChatAssumption DEF Mark, mailVars, lateVars, askVars, Go, Registered, Live,
     Phase
<1>18. ASSUME NEW t \in Task, TellStopped(t) PROVE Registered'
  BY <1>18, <1>a, ChatAssumption DEF TellStopped, mailVars, askVars, Go, Tell, TakenBack,
     Registered, Live, Phase
<1>19. ASSUME NEW t \in Task, TellFailed(t) PROVE Registered'
  BY <1>19, <1>a, ChatAssumption DEF TellFailed, mailVars, askVars, Go, Tell, TakenBack,
     Registered, Live, Phase
<1>20. ASSUME NEW t \in Task, End(t) PROVE Registered'
  BY <1>20, <1>a, ChatAssumption DEF End, mailVars, askVars, Go, Forget, Pending, Settle,
     Registered, Live, Phase
<1>21. ASSUME NEW t \in Task, Fail(t) PROVE Registered'
  BY <1>21, <1>a, ChatAssumption DEF Fail, mailVars, lateVars, askVars, Go, Fault, Broken,
     DropAsk, Asking, Settle, Registered, Live, Phase
<1>22. ASSUME NEW t \in Task, Stop(t) PROVE Registered'
  BY <1>22, <1>a, ChatAssumption DEF Stop, mailVars, askVars, Go, Broken, DropAsk, Asking,
     Settle, Registered, Live, Phase
<1>23. ASSUME NEW m \in Mail, Send(m) PROVE Registered'
  BY <1>23, <1>a, ChatAssumption DEF Send, turnVars, lateVars, saidVars, askVars, Registered,
     Live, Phase
<1>24. ASSUME NEW m \in Mail, Insert(m) PROVE Registered'
  BY <1>24, <1>a, ChatAssumption DEF Insert, turnVars, lateVars, saidVars, askVars,
     Registered, Live, Phase
<1>25. ASSUME NEW m \in Mail, Recheck(m) PROVE Registered'
  BY <1>25, <1>a, ChatAssumption DEF Recheck, turnVars, lateVars, saidVars, askVars,
     Registered, Live, Phase
<1>26. ASSUME NEW m \in Mail, Retract(m) PROVE Registered'
  BY <1>26, <1>a, ChatAssumption DEF Retract, turnVars, lateVars, saidVars, askVars,
     Registered, Live, Phase
<1>27. CASE UNCHANGED vars
  BY <1>27, <1>a, ChatAssumption DEF vars, turnVars, mailVars, lateVars, saidVars, askVars,
     Registered, Live, Phase
<1> QED
  BY <1>1, <1>2, <1>3, <1>4, <1>5, <1>6, <1>7, <1>8, <1>9, <1>10, <1>11, <1>12, <1>13, <1>14,
     <1>15, <1>16, <1>17, <1>18, <1>19, <1>20, <1>21, <1>22, <1>23, <1>24, <1>25, <1>26, <1>27
     DEF Next, Question, EndStep, Request, Done

LEMMA AttendedStep ==
  ASSUME IInv, [Next]_vars
  PROVE  Attended'
<1>a. Attended /\ phase \in [Task -> Phase] /\ asker \in Task \cup {None}
  BY DEF IInv, TypeOK
<1>1. CASE Post
  BY <1>1, <1>a, ChatAssumption DEF Post, mailVars, lateVars, saidVars, askVars, Attended,
     Pending, Live, Phase
<1>2. CASE PostFails
  BY <1>2, <1>a, ChatAssumption DEF PostFails, mailVars, lateVars, saidVars, askVars,
     Attended, Pending, Live, Phase
<1>3. CASE VoiceLooks
  BY <1>3, <1>a, ChatAssumption DEF VoiceLooks, mailVars, lateVars, saidVars, askVars,
     Attended, Pending, Live, Phase
<1>4. CASE Answer
  BY <1>4, <1>a, ChatAssumption DEF Answer, turnVars, lateVars, saidVars, Pending, Settle,
     Attended, Live, Phase
<1>5. CASE AskReturns
  BY <1>5, <1>a, ChatAssumption DEF AskReturns, turnVars, mailVars, lateVars, saidVars,
     Settle, Attended, Pending, Live, Phase
<1>6. CASE AskTimesOut
  BY <1>6, <1>a, ChatAssumption DEF AskTimesOut, turnVars, mailVars, lateVars, saidVars,
     Attended, Pending, Live, Phase
<1>7. CASE AskDetaches
  BY <1>7, <1>a, ChatAssumption DEF AskDetaches, turnVars, mailVars, lateVars, saidVars,
     Attended, Pending, Live, Phase
<1>8. ASSUME NEW t \in Task, Start(t) PROVE Attended'
  BY <1>8, <1>a, ChatAssumption DEF Start, mailVars, lateVars, saidVars, askVars, Go,
     Attended, Pending, Live, Phase
<1>9. ASSUME NEW t \in Task, Run(t) PROVE Attended'
  BY <1>9, <1>a, ChatAssumption DEF Run, mailVars, lateVars, saidVars, askVars, Go, Attended,
     Pending, Live, Phase
<1>10. ASSUME NEW t \in Task, Drain(t) PROVE Attended'
  BY <1>10, <1>a, ChatAssumption DEF Drain, turnVars, lateVars, saidVars, askVars, Attended,
     Pending, Live, Phase
<1>11. ASSUME NEW t \in Task, Ask(t) PROVE Attended'
  BY <1>11, <1>a, ChatAssumption DEF Ask, turnVars, mailVars, lateVars, saidVars, Attended,
     Pending, Live, Phase
<1>12. ASSUME NEW t \in Task, Finish(t) PROVE Attended'
  BY <1>12, <1>a, ChatAssumption DEF Finish, mailVars, lateVars, saidVars, askVars, Go,
     Asking, Attended, Pending, Live, Phase
<1>13. ASSUME NEW t \in Task, Take(t) PROVE Attended'
  BY <1>13, <1>a, ChatAssumption DEF Take, saidVars, askVars, Go, Fault, Attended, Pending,
     Live, Phase
<1>14. ASSUME NEW t \in Task, Closed(t) PROVE Attended'
  BY <1>14, <1>a, ChatAssumption DEF Closed, mailVars, saidVars, askVars, Go, TakenBack,
     Attended, Pending, Live, Phase
<1>15. ASSUME NEW t \in Task, Save(t) PROVE Attended'
  BY <1>15, <1>a, ChatAssumption DEF Save, mailVars, lateVars, askVars, Go, Attended, Pending,
     Live, Phase
<1>16. ASSUME NEW t \in Task, Publish(t) PROVE Attended'
  BY <1>16, <1>a, ChatAssumption DEF Publish, mailVars, askVars, Go, Tell, Attended, Pending,
     Live, Phase
<1>17. ASSUME NEW t \in Task, Mark(t) PROVE Attended'
  BY <1>17, <1>a, ChatAssumption DEF Mark, mailVars, lateVars, askVars, Go, Attended, Pending,
     Live, Phase
<1>18. ASSUME NEW t \in Task, TellStopped(t) PROVE Attended'
  BY <1>18, <1>a, ChatAssumption DEF TellStopped, mailVars, askVars, Go, Tell, TakenBack,
     Attended, Pending, Live, Phase
<1>19. ASSUME NEW t \in Task, TellFailed(t) PROVE Attended'
  BY <1>19, <1>a, ChatAssumption DEF TellFailed, mailVars, askVars, Go, Tell, TakenBack,
     Attended, Pending, Live, Phase
<1>20. ASSUME NEW t \in Task, End(t) PROVE Attended'
  BY <1>20, <1>a, ChatAssumption DEF End, mailVars, askVars, Go, Forget, Pending, Settle,
     Attended, Live, Phase
<1>21. ASSUME NEW t \in Task, Fail(t) PROVE Attended'
  BY <1>21, <1>a, ChatAssumption DEF Fail, mailVars, lateVars, askVars, Go, Fault, Broken,
     DropAsk, Asking, Settle, Attended, Pending, Live, Phase
<1>22. ASSUME NEW t \in Task, Stop(t) PROVE Attended'
  <2>1. /\ \A u \in Task \ {t} : phase'[u] = phase[u]
        /\ phase'[t] \in {"stillborn", "finishing", "stopping"}
        /\ phase'[t] = "stillborn" => phase[t] = "born"
    BY <1>22, <1>a, StopGoes
  <2>2. ask' \in {"waiting", "timed out"} => UNCHANGED askVars /\ ~(phase[t] = "loop" /\ Asking(t))
    BY <1>22 DEF Stop, DropAsk, Settle, askVars
  <2>3. (Pending /\ ~reply)' => Pending /\ ~reply
    BY <1>22 DEF Stop, DropAsk, Settle, askVars, Pending
  <2> QED
    BY <2>1, <2>2, <2>3, <1>a DEF Attended, Asking, Live, Phase, askVars
<1>23. ASSUME NEW m \in Mail, Send(m) PROVE Attended'
  BY <1>23, <1>a, ChatAssumption DEF Send, turnVars, lateVars, saidVars, askVars, Attended,
     Pending, Live, Phase
<1>24. ASSUME NEW m \in Mail, Insert(m) PROVE Attended'
  BY <1>24, <1>a, ChatAssumption DEF Insert, turnVars, lateVars, saidVars, askVars, Attended,
     Pending, Live, Phase
<1>25. ASSUME NEW m \in Mail, Recheck(m) PROVE Attended'
  BY <1>25, <1>a, ChatAssumption DEF Recheck, turnVars, lateVars, saidVars, askVars, Attended,
     Pending, Live, Phase
<1>26. ASSUME NEW m \in Mail, Retract(m) PROVE Attended'
  BY <1>26, <1>a, ChatAssumption DEF Retract, turnVars, lateVars, saidVars, askVars, Attended,
     Pending, Live, Phase
<1>27. CASE UNCHANGED vars
  BY <1>27, <1>a, ChatAssumption DEF vars, turnVars, mailVars, lateVars, saidVars, askVars,
     Attended, Pending, Live, Phase
<1> QED
  BY <1>1, <1>2, <1>3, <1>4, <1>5, <1>6, <1>7, <1>8, <1>9, <1>10, <1>11, <1>12, <1>13, <1>14,
     <1>15, <1>16, <1>17, <1>18, <1>19, <1>20, <1>21, <1>22, <1>23, <1>24, <1>25, <1>26, <1>27
     DEF Next, Question, EndStep, Request, Done

-----------------------------------------------------------------------------
\* Short of a stop or a failure.

LEMMA OrderlyStep ==
  ASSUME IInv, [Next]_vars
  PROVE  Orderly'
<1> SUFFICES ASSUME stops' = 0, faults' = 0 PROVE InOrder'
  BY DEF Orderly
<1>a. /\ phase \in [Task -> Phase] /\ taken \in [Task -> SUBSET Mail]
      /\ late \in [Task -> SUBSET Mail] /\ queued \cup read \cup handed \subseteq Sent
      /\ st \in [Mail -> {"no", "writing", "written", "retracting", "accepted", "refused"}]
      /\ stops \in 0..MaxWrong /\ faults \in 0..MaxWrong
  BY DEF IInv, TypeOK, Sent
<1>b. stops = 0 /\ faults = 0 => InOrder
  BY DEF IInv, Orderly
<1>1. CASE Post
  BY <1>1, <1>a, <1>b DEF Post, mailVars, lateVars, saidVars, askVars, InOrder, Carried, Calm,
     Sent
<1>2. CASE PostFails
  BY <1>2, <1>a, <1>b DEF PostFails, mailVars, lateVars, saidVars, askVars, InOrder, Carried,
     Calm, Sent
<1>3. CASE VoiceLooks
  BY <1>3, <1>a, <1>b DEF VoiceLooks, mailVars, lateVars, saidVars, askVars, InOrder, Carried,
     Calm, Sent
<1>4. CASE Answer
  <2>1. ask = "detached" => st[AskMsg] = "no"
    BY DEF IInv, OnePlace
  <2>2. queued' = queued /\ read' = read /\ handed' = handed /\ taken' = taken /\ late' = late
        /\ phase' = phase /\ accepting' = accepting /\ InOrder
    BY <1>4, <1>a, <1>b DEF Answer, turnVars, lateVars
  <2>3. \A m \in Mail : st'[m] = st[m] \/ (st[m] = "no" /\ st'[m] \in {"writing", "refused"})
    BY <1>4, <1>a, <2>1 DEF Answer, Mail
  <2>4. Sent' = Sent /\ \A m \in Sent : st'[m] = st[m]
    BY <2>3 DEF Sent
  <2> QED
    BY <1>a, <2>2, <2>4 DEF InOrder, Carried
<1>5. CASE AskReturns
  BY <1>5, <1>a, <1>b DEF AskReturns, turnVars, mailVars, lateVars, saidVars, Settle, InOrder,
     Carried, Calm, Sent
<1>6. CASE AskTimesOut
  BY <1>6, <1>a, <1>b DEF AskTimesOut, turnVars, mailVars, lateVars, saidVars, InOrder,
     Carried, Calm, Sent
<1>7. CASE AskDetaches
  BY <1>7, <1>a, <1>b DEF AskDetaches, turnVars, mailVars, lateVars, saidVars, InOrder,
     Carried, Calm, Sent
<1>8. ASSUME NEW t \in Task, Start(t) PROVE InOrder'
  BY <1>8, <1>a, <1>b DEF Start, mailVars, lateVars, saidVars, askVars, Go, InOrder, Carried,
     Calm, Sent
<1>9. ASSUME NEW t \in Task, Run(t) PROVE InOrder'
  BY <1>9, <1>a, <1>b DEF Run, mailVars, lateVars, saidVars, askVars, Go, InOrder, Carried,
     Calm, Sent
<1>10. ASSUME NEW t \in Task, Drain(t) PROVE InOrder'
  BY <1>10, <1>a, <1>b DEF Drain, turnVars, lateVars, saidVars, askVars, InOrder, Carried,
     Calm, Sent
<1>11. ASSUME NEW t \in Task, Ask(t) PROVE InOrder'
  BY <1>11, <1>a, <1>b DEF Ask, turnVars, mailVars, lateVars, saidVars, InOrder, Carried,
     Calm, Sent
<1>12. ASSUME NEW t \in Task, Finish(t) PROVE InOrder'
  <2>1. /\ \A u \in Task \ {t} : phase'[u] = phase[u]
        /\ phase[t] = "loop" /\ phase'[t] = "closing" /\ accepting' = FALSE
    BY <1>12, <1>a DEF Finish, Go
  <2>2. queued' = queued /\ read' = read /\ handed' = handed /\ taken' = taken /\ late' = late
        /\ st' = st /\ InOrder
    BY <1>12, <1>a, <1>b DEF Finish, mailVars, lateVars
  <2> QED
    BY <2>1, <2>2 DEF InOrder, Carried, Calm, Sent
<1>13. ASSUME NEW t \in Task, Take(t) PROVE InOrder'
  BY <1>13, <1>a, <1>b DEF Take, saidVars, askVars, Go, Fault, InOrder, Carried, Calm, Sent
<1>14. ASSUME NEW t \in Task, Closed(t) PROVE InOrder'
  BY <1>14, <1>a, <1>b DEF Closed, mailVars, saidVars, askVars, Go, TakenBack, InOrder,
     Carried, Calm, Sent
<1>15. ASSUME NEW t \in Task, Save(t) PROVE InOrder'
  BY <1>15, <1>a, <1>b DEF Save, mailVars, lateVars, askVars, Go, InOrder, Carried, Calm, Sent
<1>16. ASSUME NEW t \in Task, Publish(t) PROVE InOrder'
  BY <1>16, <1>a, <1>b DEF Publish, mailVars, askVars, Go, Tell, InOrder, Carried, Calm, Sent
<1>17. ASSUME NEW t \in Task, Mark(t) PROVE InOrder'
  BY <1>17, <1>a, <1>b DEF Mark, mailVars, lateVars, askVars, Go, InOrder, Carried, Calm, Sent
<1>18. ASSUME NEW t \in Task, TellStopped(t) PROVE InOrder'
  BY <1>18, <1>a, <1>b DEF TellStopped, mailVars, askVars, Go, Tell, TakenBack, InOrder,
     Carried, Calm, Sent
<1>19. ASSUME NEW t \in Task, TellFailed(t) PROVE InOrder'
  BY <1>19, <1>a, <1>b DEF TellFailed, mailVars, askVars, Go, Tell, TakenBack, InOrder,
     Carried, Calm, Sent
<1>20. ASSUME NEW t \in Task, End(t) PROVE InOrder'
  <2>1. /\ \A u \in Task \ {t} : phase'[u] = phase[u]
        /\ phase[t] = "finishing" /\ phase'[t] = "over" /\ accepting' = accepting
    BY <1>20, <1>a DEF End, Go
  <2>2. queued' = queued /\ read' = read /\ handed' = handed /\ st' = st /\ InOrder
    BY <1>20, <1>a, <1>b DEF End, mailVars
  <2>3. /\ \A u \in Task \ {t} : taken'[u] = taken[u] /\ late'[u] = late[u]
        /\ taken'[t] = {} /\ late'[t] = {}
    BY <1>20, <1>a DEF End, Forget
  <2>4. taken[t] = {} /\ late[t] \subseteq handed
    BY <2>1, <2>2 DEF InOrder
  <2>5. Sent' = Sent
    BY <2>2 DEF Sent
  <2>6. \A m \in Sent : m \in queued \cup read \cup handed \/ \E u \in Task : Carried(u, m)'
    BY <2>2, <2>3, <2>4 DEF InOrder, Carried
  <2> QED
    BY <2>1, <2>2, <2>3, <2>5, <2>6 DEF InOrder, Carried, Calm
<1>21. ASSUME NEW t \in Task, Fail(t) PROVE InOrder'
  BY <1>21, <1>a, ChatAssumption DEF Fail, Fault
<1>22. ASSUME NEW t \in Task, Stop(t) PROVE InOrder'
  BY <1>22, <1>a, ChatAssumption DEF Stop
<1>23. ASSUME NEW m \in Mail, Send(m) PROVE InOrder'
  BY <1>23, <1>a, <1>b DEF Send, turnVars, lateVars, saidVars, askVars, InOrder, Carried,
     Calm, Sent
<1>24. ASSUME NEW m \in Mail, Insert(m) PROVE InOrder'
  BY <1>24, <1>a, <1>b DEF Insert, turnVars, lateVars, saidVars, askVars, InOrder, Carried,
     Calm, Sent
<1>25. ASSUME NEW m \in Mail, Recheck(m) PROVE InOrder'
  BY <1>25, <1>a, <1>b DEF Recheck, turnVars, lateVars, saidVars, askVars, InOrder, Carried,
     Calm, Sent
<1>26. ASSUME NEW m \in Mail, Retract(m) PROVE InOrder'
  BY <1>26, <1>a, <1>b DEF Retract, turnVars, lateVars, saidVars, askVars, InOrder, Carried,
     Calm, Sent
<1>27. CASE UNCHANGED vars
  BY <1>27, <1>a, <1>b DEF vars, turnVars, mailVars, lateVars, saidVars, askVars, InOrder,
     Carried, Calm, Sent
<1> QED
  BY <1>1, <1>2, <1>3, <1>4, <1>5, <1>6, <1>7, <1>8, <1>9, <1>10, <1>11, <1>12, <1>13, <1>14,
     <1>15, <1>16, <1>17, <1>18, <1>19, <1>20, <1>21, <1>22, <1>23, <1>24, <1>25, <1>26, <1>27
     DEF Next, Question, EndStep, Request, Done

-----------------------------------------------------------------------------
\* The inductive invariant, and what it gives.

LEMMA InitInv == Init => IInv
<1> SUFFICES ASSUME Init PROVE IInv
  OBVIOUS
<1>1. TypeOK
  <2>1. stops \in 0..MaxWrong /\ faults \in 0..MaxWrong
    BY ChatAssumption DEF Init
  <2>2. phase \in [Task -> Phase] /\ told \in [Task -> 0..1]
    BY DEF Init, Phase
  <2> QED
    BY <2>1, <2>2 DEF Init, TypeOK
<1>2. OnePlace /\ Attended
  BY DEF Init, OnePlace, Attended, Pending, Mail
<1>3. SaidOnce /\ Registered
  BY DEF Init, SaidOnce, Registered
<1>4. Orderly
  BY DEF Init, Orderly, InOrder, Calm, Sent
<1> QED
  BY <1>1, <1>2, <1>3, <1>4 DEF IInv

LEMMA StepInv == IInv /\ [Next]_vars => IInv'
BY TypeStep, OnePlaceStep, SaidOnceStep, RegisteredStep, AttendedStep, OrderlyStep DEF IInv

THEOREM Inductive == Spec => []IInv
<1>1. Init => IInv
  BY InitInv
<1>2. IInv /\ [Next]_vars => IInv'
  BY StepInv
<1> QED
  BY <1>1, <1>2, PTL DEF Spec

-----------------------------------------------------------------------------
\* The variables keep their types (phase, the inbox's rows, the question, the budget of stops
\* and failures), which for the closing events says that no turn publishes two.
THEOREM TypeCorrect == Spec => []TypeOK
<1>1. IInv => TypeOK
  BY DEF IInv
<1> QED
  BY <1>1, Inductive, PTL

\* A message is read by the agent or handed back, not both, and one that was refused is
\* neither (queue_operator_message's second look, agentmsg.retract and the closes).
THEOREM ReadOrHandedBack == Spec => []ReadOrReturned
<1>1. IInv => ReadOrReturned
  BY DEF IInv, OnePlace, ReadOrReturned
<1> QED
  BY <1>1, Inductive, PTL

\* With no stop and no failure, a message the operator was told is queued is read, handed
\* back, or with a turn that lives: the inbox closes before its last rows are taken.
THEOREM WhatIsTakenArrives == Spec => []AcceptedArrives
<1>1. IInv => AcceptedArrives
  <2> SUFFICES ASSUME IInv, stops = 0, faults = 0,
                      NEW m \in Msg, st[m] = "accepted", m \notin read \cup handed
               PROVE  \E t \in Task : ~Over(t) /\ m \in queued \cup taken[t] \cup late[t]
    BY DEF AcceptedArrives
  <2>1. InOrder /\ m \in Sent
    BY DEF IInv, Orderly, Sent, Mail
  <2>2. CASE m \in queued
    BY <2>1, <2>2 DEF InOrder, Over, Live, Phase
  <2>3. CASE m \notin queued
    <3>1. PICK t \in Task : Carried(t, m)
      BY <2>1, <2>3 DEF InOrder
    <3>2. phase[t] \in {"taken", "saving", "saved", "finishing"}
      BY <2>1, <3>1 DEF InOrder, Carried
    <3> QED
      BY <3>1, <3>2 DEF Carried, Over, Live, Phase
  <2> QED
    BY <2>2, <2>3
<1> QED
  BY <1>1, Inductive, PTL

\* A turn that nothing stopped comes to its bookkeeping with its closing event published
\* (the answer or the error that ends the client's stream), whatever failed on the way.
THEOREM EveryEndIsTold == Spec => []EndIsTold
<1>1. IInv => EndIsTold
  BY DEF IInv, SaidOnce, EndIsTold
<1> QED
  BY <1>1, Inductive, PTL

\* Nothing is written after a committed answer: the handlers of a stop and of a failure look
\* at answer_saved before they write their row.
THEOREM AnswersStand == Spec => []AnswerStands
<1>1. IInv => AnswerStands
  BY DEF IInv, TypeOK, SaidOnce, AnswerStands
<1> QED
  BY <1>1, Inductive, PTL

\* When no turn lives the conversation is free for the next one, but for a task that was
\* stopped before its first step.
THEOREM ConversationsGoOn == Spec => []NeverBricked
<1>1. IInv => NeverBricked
  BY DEF IInv, TypeOK, Registered, NeverBricked, Over
<1> QED
  BY <1>1, Inductive, PTL

\* When no turn lives there is no question left open for the operator to answer.
THEOREM QuestionsAreClosed == Spec => []NoQuestionLeft
<1>1. IInv => NoQuestionLeft
  BY DEF IInv, Attended, NoQuestionLeft, Over
<1> QED
  BY <1>1, Inductive, PTL
=============================================================================
