-------------------------- MODULE PlanLaunchProofs --------------------------
(***************************************************************************)
(* Theorems of PlanLaunch, for any number of callers and of runs, and       *)
(* whatever is stopped, fails or times out.                                *)
(***************************************************************************)
EXTENDS PlanLaunch, TLAPS

Phase == {"none", "created", "preparing", "driving", "closing", "handling", "saving", "gone"}

LEMMA InitLaunchType == Init => LaunchTypeOK
BY LaunchAssumption DEF Init, LaunchTypeOK, Client

-----------------------------------------------------------------------------
\* The callers' steps keep the types.

LEMMA SaysType ==
  ASSUME LaunchTypeOK, NEW c \in Client, NEW what, Says(c, what),
         what \in {"idle", "planning", "waiting", "opening", "told", "refused", "cut"}
  PROVE  pc' \in [Client -> {"idle", "planning", "waiting", "opening", "told", "refused", "cut"}]
BY DEF LaunchTypeOK, Says

LEMMA RelaunchType ==
  ASSUME LaunchTypeOK, NEW c \in Client, NEW w, Relaunch(c, w)
  PROVE  pc' \in [Client -> {"idle", "planning", "waiting", "opening", "told", "refused", "cut"}]
BY SaysType DEF Relaunch

LEMMA AfterWaitType ==
  ASSUME LaunchTypeOK, NEW c \in Client, AfterWait(c), upset' \in BOOLEAN
  PROVE  LaunchTypeOK'
<1>1. pc' \in [Client -> {"idle", "planning", "waiting", "opening", "told", "refused", "cut"}]
  BY SaysType, RelaunchType DEF AfterWait
<1> QED
  BY <1>1 DEF AfterWait, LaunchTypeOK, file, tasks, flags

LEMMA FixingType ==
  ASSUME LaunchTypeOK, NEW c \in Orchestrators, Fixing(c)
  PROVE  LaunchTypeOK'
<1> c \in Client
  BY DEF Client
<1>1. CASE FixEdit(c)
  <2>1. pc' \in [Client -> {"idle", "planning", "waiting", "opening", "told", "refused", "cut"}]
    BY <1>1, SaysType, RelaunchType DEF FixEdit
  <2>2. target' \in [Client -> Run \cup {NoRun}]
    BY <1>1 DEF FixEdit, LaunchTypeOK
  <2> QED
    BY <1>1, <2>1, <2>2 DEF FixEdit, LaunchTypeOK, tasks, flags
<1>2. CASE FixWaited(c)
  <2>1. upset' \in BOOLEAN
    BY <1>2 DEF FixWaited, LaunchTypeOK
  <2>2. CASE Says(c, "cut") /\ UNCHANGED <<file, tasks, flags, target, unread>>
    BY <2>1, <2>2, SaysType DEF LaunchTypeOK, file, tasks, flags
  <2> QED
    BY <1>2, <2>1, <2>2, AfterWaitType DEF FixWaited
<1>3. CASE FixTimedOut(c)
  BY <1>3, AfterWaitType DEF FixTimedOut
<1> QED
  BY <1>1, <1>2, <1>3 DEF Fixing

LEMMA CallerType ==
  ASSUME LaunchTypeOK, NEW c \in Client, OperatorStart(c) \/ Opening(c) \/ Planning(c)
  PROVE  LaunchTypeOK'
<1>1. CASE OperatorStart(c)
  BY <1>1 DEF OperatorStart, Says, LaunchTypeOK, tasks, flags
<1>2. CASE OpenHead(c)
  BY <1>2 DEF OpenHead, Says, LaunchTypeOK, file, flags
<1>3. CASE OpenFails(c)
  BY <1>3 DEF OpenFails, Says, LaunchTypeOK, file, tasks, flags
<1>4. CASE PlanStart(c)
  BY <1>4 DEF PlanStart, Says, LaunchTypeOK, file, tasks, flags
<1>5. CASE PlanSave(c)
  BY <1>5 DEF PlanSave, Says, LaunchTypeOK, tasks, flags
<1> QED
  BY <1>1, <1>2, <1>3, <1>4, <1>5 DEF Opening, Planning

-----------------------------------------------------------------------------
\* So do the runner's.

LEMMA StepType ==
  ASSUME LaunchTypeOK, NEW r \in Run, Step(r)
  PROVE  LaunchTypeOK'
<1>1. CASE Prepare(r)
  BY <1>1 DEF Prepare, Moves, LaunchTypeOK, file, flags, callers
<1>2. CASE Begin(r)
  BY <1>2 DEF Begin, Moves, LaunchTypeOK, file, callers
<1>3. CASE BeginFails(r)
  BY <1>3 DEF BeginFails, Moves, LaunchTypeOK, file, flags, callers
<1>4. CASE Tick(r)
  BY <1>4 DEF Tick, LaunchTypeOK, callers
<1>5. CASE DriveFails(r)
  BY <1>5 DEF DriveFails, Moves, LaunchTypeOK, file, callers
<1>6. CASE Save(r)
  BY <1>6 DEF Save, Moves, LaunchTypeOK, file, flags, callers
<1>7. CASE Finish(r)
  BY <1>7 DEF Finish, Moves, LaunchTypeOK, file, callers
<1>8. CASE Callback(r)
  BY <1>8 DEF Callback, LaunchTypeOK, file, flags, callers
<1> QED
  BY <1>1, <1>2, <1>3, <1>4, <1>5, <1>6, <1>7, <1>8 DEF Step

LEMMA StopType ==
  ASSUME LaunchTypeOK, Stop
  PROVE  LaunchTypeOK'
<1>1. handle \in Run
  BY DEF Stop, Live
<1>2. CASE phase[handle] \in {"created", "saving"}
  BY <1>1, <1>2 DEF Stop, LaunchTypeOK, file, callers
<1>3. CASE phase[handle] \notin {"created", "saving"}
  BY <1>1, <1>3 DEF Stop, LaunchTypeOK, file, callers
<1> QED
  BY <1>2, <1>3

LEMMA NextLaunchType == LaunchTypeOK /\ [Next]_vars => LaunchTypeOK'
<1> SUFFICES ASSUME LaunchTypeOK, [Next]_vars PROVE LaunchTypeOK'
  OBVIOUS
<1>1. CASE UNCHANGED vars
  BY <1>1 DEF vars, file, tasks, flags, callers, LaunchTypeOK
<1>2. ASSUME NEW c \in Operators, OperatorStart(c) PROVE LaunchTypeOK'
  BY <1>2, CallerType DEF Client
<1>3. ASSUME NEW c \in Orchestrators, Fixing(c) PROVE LaunchTypeOK'
  BY <1>3, FixingType
<1>4. ASSUME NEW c \in Client, Opening(c) \/ Planning(c) PROVE LaunchTypeOK'
  BY <1>4, CallerType
<1>5. ASSUME NEW r \in Run, Step(r) PROVE LaunchTypeOK'
  BY <1>5, StepType
<1>6. CASE Stop
  BY <1>6, StopType
<1> QED
  BY <1>1, <1>2, <1>3, <1>4, <1>5, <1>6 DEF Next

(***************************************************************************)
(* The launch state keeps its types through every call and every fault.     *)
(***************************************************************************)
THEOREM LaunchTypeCorrect == Spec => []LaunchTypeOK
BY InitLaunchType, NextLaunchType, PTL DEF Spec

-----------------------------------------------------------------------------
(***************************************************************************)
(* One run in hand.  HandleNamesRun is not inductive: a second start would  *)
(* break it were the first not seen in `_starting`, and a done callback     *)
(* were it not for a task that is over.  The invariant says both.           *)
(***************************************************************************)
OneOpening == \A c, d \in Client : pc[c] = "opening" /\ pc[d] = "opening" => c = d
OpensAlone == Starting => \A r \in Run : ~Live(r)
CallbacksGone == \A r \in callbacks : phase[r] = "gone"
InHand == HandleNamesRun /\ OneOpening /\ OpensAlone /\ CallbacksGone

LEMMA InitInHand == Init => InHand
BY DEF Init, InHand, HandleNamesRun, OneOpening, OpensAlone, CallbacksGone, Live, Starting

\* With the slot reserved or taken, a caller may only leave it as it is or reserve it when free.
LEMMA CallerInHand ==
  ASSUME LaunchTypeOK, InHand, NEW c \in Client, UNCHANGED tasks,
         \A d \in Client \ {c} : pc'[d] = pc[d],
         pc'[c] = "opening" => ~Busy
  PROVE  InHand'
<1>1. \A r \in Run : Live(r)' = Live(r)
  BY DEF Live, tasks
<1>2. HandleNamesRun' /\ CallbacksGone'
  BY <1>1 DEF InHand, HandleNamesRun, CallbacksGone, tasks
<1>3. CASE pc'[c] = "opening"
  <2>1. ~Starting /\ \A r \in Run : ~Live(r)
    BY <1>3 DEF Busy, InHand, HandleNamesRun
  <2> QED
    BY <1>1, <1>2, <2>1 DEF InHand, OneOpening, OpensAlone, Starting
<1>4. CASE pc'[c] # "opening"
  BY <1>1, <1>2, <1>4 DEF InHand, OneOpening, OpensAlone, Starting
<1> QED
  BY <1>3, <1>4

\* What Says means for the other callers.
LEMMA SaysOne ==
  ASSUME LaunchTypeOK, NEW c \in Client, NEW what, Says(c, what)
  PROVE  pc'[c] = what /\ \A d \in Client \ {c} : pc'[d] = pc[d]
BY DEF Says, LaunchTypeOK

LEMMA RelaunchSays ==
  ASSUME LaunchTypeOK, NEW c \in Client, NEW w, Relaunch(c, w)
  PROVE  /\ \A d \in Client \ {c} : pc'[d] = pc[d]
         /\ pc'[c] \in {"told", "refused", "opening"}
         /\ pc'[c] = "opening" => ~Busy
         /\ pc'[c] = "told" => Busy
BY SaysOne DEF Relaunch

LEMMA FixingSays ==
  ASSUME LaunchTypeOK, NEW c \in Client, Fixing(c)
  PROVE  /\ UNCHANGED tasks
         /\ \A d \in Client \ {c} : pc'[d] = pc[d]
         /\ pc'[c] = "opening" => ~Busy
<1>1. CASE FixEdit(c)
  <2>1. UNCHANGED tasks
    BY <1>1 DEF FixEdit
  <2>2. CASE Says(c, "told") \/ Says(c, "waiting")
    BY <2>1, <2>2, SaysOne
  <2>3. CASE Relaunch(c, TRUE)
    BY <2>1, <2>3, RelaunchSays
  <2> QED
    BY <1>1, <2>2, <2>3 DEF FixEdit
<1>2. CASE AfterWait(c)
  <2>1. UNCHANGED tasks
    BY <1>2 DEF AfterWait
  <2>2. CASE Says(c, "told")
    BY <2>1, <2>2, SaysOne
  <2>3. CASE Relaunch(c, work)
    BY <2>1, <2>3, RelaunchSays
  <2> QED
    BY <1>2, <2>2, <2>3 DEF AfterWait
<1>3. CASE Says(c, "cut") /\ UNCHANGED <<file, tasks, flags, target, unread>>
  BY <1>3, SaysOne
<1> QED
  BY <1>1, <1>2, <1>3 DEF Fixing, FixWaited, FixTimedOut

LEMMA CallersInHand ==
  ASSUME LaunchTypeOK, InHand, NEW c \in Client,
         OperatorStart(c) \/ Fixing(c) \/ OpenFails(c) \/ Planning(c)
  PROVE  InHand'
<1>1. CASE OperatorStart(c)
  BY <1>1, SaysOne, CallerInHand DEF OperatorStart
<1>2. CASE Fixing(c)
  BY <1>2, FixingSays, CallerInHand
<1>3. CASE OpenFails(c)
  BY <1>3, SaysOne, CallerInHand DEF OpenFails
<1>4. CASE PlanStart(c) \/ PlanSave(c)
  BY <1>4, SaysOne, CallerInHand DEF PlanStart, PlanSave
<1> QED
  BY <1>1, <1>2, <1>3, <1>4 DEF Planning

LEMMA OpenHeadInHand ==
  ASSUME LaunchTypeOK, InHand, NEW c \in Client, OpenHead(c)
  PROVE  InHand'
<1>1. \A d \in Client : pc'[d] # "opening"
  BY SaysOne DEF OpenHead, InHand, OneOpening
<1>2. \A r \in Run : ~Live(r)
  BY DEF OpenHead, InHand, OpensAlone, Starting
<1>3. PICK q \in Run : phase[q] = "none" /\ handle' = q
                       /\ phase' = [phase EXCEPT ![q] = "created"]
  BY DEF OpenHead
<1>4. \A r \in Run : Live(r)' => r = q
  BY <1>2, <1>3 DEF Live, LaunchTypeOK
<1>5. HandleNamesRun'
  BY <1>3, <1>4 DEF HandleNamesRun
<1>6. CallbacksGone'
  BY <1>3 DEF OpenHead, InHand, CallbacksGone, LaunchTypeOK
<1> QED
  BY <1>1, <1>5, <1>6 DEF InHand, OneOpening, OpensAlone, Starting

\* The runner's own steps: a task that lives goes on or ends, and no other moves.
LEMMA TaskInHand ==
  ASSUME LaunchTypeOK, InHand, NEW r \in Run, Live(r), UNCHANGED <<handle, pc>>,
         \A q \in Run \ {r} : phase'[q] = phase[q],
         callbacks' = callbacks \/ (callbacks' = callbacks \cup {r} /\ phase'[r] = "gone")
  PROVE  InHand'
<1>1. handle = r /\ ~Starting /\ r \notin callbacks
  BY DEF InHand, HandleNamesRun, OpensAlone, CallbacksGone, Live
<1>2. \A q \in Run : Live(q)' => q = r
  BY <1>1 DEF InHand, HandleNamesRun, Live
<1>3. CallbacksGone'
  BY <1>1 DEF InHand, CallbacksGone, LaunchTypeOK
<1> QED
  BY <1>1, <1>2, <1>3 DEF InHand, HandleNamesRun, OneOpening, OpensAlone, Starting

LEMMA StepInHand ==
  ASSUME LaunchTypeOK, InHand, NEW r \in Run, Step(r)
  PROVE  InHand'
<1>1. CASE Prepare(r) \/ Begin(r) \/ BeginFails(r) \/ DriveFails(r) \/ Save(r) \/ Finish(r)
  BY <1>1, TaskInHand
     DEF Prepare, Begin, BeginFails, DriveFails, Save, Finish, Moves, Live, callers, LaunchTypeOK
<1>2. CASE Tick(r)
  BY <1>2, TaskInHand DEF Tick, Live, callers, LaunchTypeOK
<1>3. CASE Callback(r)
  <2>1. ~Live(r) /\ phase' = phase /\ pc' = pc
    BY <1>3 DEF Callback, InHand, CallbacksGone, Live, callers
  <2>2. \A q \in Run : Live(q)' = Live(q)
    BY <2>1 DEF Live
  <2>3. HandleNamesRun'
    BY <1>3, <2>1, <2>2 DEF Callback, InHand, HandleNamesRun
  <2>4. CallbacksGone'
    BY <1>3, <2>1 DEF Callback, InHand, CallbacksGone
  <2> QED
    BY <2>1, <2>2, <2>3, <2>4 DEF InHand, OneOpening, OpensAlone, Starting
<1> QED
  BY <1>1, <1>2, <1>3 DEF Step

LEMMA StopInHand ==
  ASSUME LaunchTypeOK, InHand, Stop
  PROVE  InHand'
<1>1. handle \in Run /\ Live(handle)
  BY DEF Stop, Live
<1>2. UNCHANGED <<handle, pc>>
  BY DEF Stop, callers
<1>3. CASE phase[handle] \in {"created", "saving"}
  BY <1>1, <1>2, <1>3, TaskInHand DEF Stop, LaunchTypeOK
<1>4. CASE phase[handle] \notin {"created", "saving"}
  BY <1>1, <1>2, <1>4, TaskInHand DEF Stop, LaunchTypeOK
<1> QED
  BY <1>3, <1>4

LEMMA NextInHand == LaunchTypeOK /\ InHand /\ [Next]_vars => InHand'
<1> SUFFICES ASSUME LaunchTypeOK, InHand, [Next]_vars PROVE InHand'
  OBVIOUS
<1>1. CASE UNCHANGED vars
  BY <1>1 DEF vars, tasks, callers, InHand, HandleNamesRun, OneOpening, OpensAlone,
              CallbacksGone, Live, Starting
<1>2. ASSUME NEW c \in Operators, OperatorStart(c) PROVE InHand'
  BY <1>2, CallersInHand DEF Client
<1>3. ASSUME NEW c \in Orchestrators, Fixing(c) PROVE InHand'
  BY <1>3, CallersInHand DEF Client
<1>4. ASSUME NEW c \in Client, Opening(c) \/ Planning(c) PROVE InHand'
  BY <1>4, CallersInHand, OpenHeadInHand DEF Opening
<1>5. ASSUME NEW r \in Run, Step(r) PROVE InHand'
  BY <1>5, StepInHand
<1>6. CASE Stop
  BY <1>6, StopInHand
<1> QED
  BY <1>1, <1>2, <1>3, <1>4, <1>5, <1>6 DEF Next

(***************************************************************************)
(* However many callers start, repair and replace a plan at once, at most   *)
(* one runner of it is alive, and it is the one a stop would cancel.        *)
(***************************************************************************)
THEOREM OneRunInHand == Spec => []HandleNamesRun
<1>1. Init => LaunchTypeOK /\ InHand
  BY InitLaunchType, InitInHand
<1>2. LaunchTypeOK /\ InHand /\ [Next]_vars => (LaunchTypeOK /\ InHand)'
  BY NextLaunchType, NextInHand
<1>3. InHand => HandleNamesRun
  BY DEF InHand
<1> QED
  BY <1>1, <1>2, <1>3, PTL DEF Spec

-----------------------------------------------------------------------------
(***************************************************************************)
(* What a plan_fix is told is right.  Short of a stop, a failure or a       *)
(* timeout, the two sets it decides by mean what it takes them to mean: in  *)
(* _driving, a run still reads the file; out of _drive_began, the run has   *)
(* not read it yet; and an edit somebody waits to hand over, if no run has  *)
(* read it, has not been missed by the run that followed either.            *)
(***************************************************************************)
DrivingReads == driving => \E r \in Run : phase[r] = "driving"
UnbegunReads ==
  ~began => \A r \in Run : phase[r] \notin {"driving", "closing", "handling", "saving"}
WaitedFor ==
  \A c \in unread : pc[c] = "waiting" /\ Live(handle) /\ handle # target[c]
                      => phase[handle] \in {"created", "preparing"}
Told == \A c \in unread : pc[c] = "told" => CanRead \/ Starting
Promised == ~upset => DrivingReads /\ UnbegunReads /\ WaitedFor /\ Told

LEMMA InitPromised == Init => Promised
BY DEF Init, Promised, DrivingReads, UnbegunReads, WaitedFor, Told

\* A caller's step disturbs only what is said to that caller.
LEMMA CallerPromised ==
  ASSUME LaunchTypeOK, Promised, NEW c \in Client, UNCHANGED <<tasks, flags, upset>>,
         unread' \subseteq unread \cup {c}, pc[c] # "opening",
         \A d \in Client \ {c} : pc'[d] = pc[d] /\ target'[d] = target[d],
         pc'[c] = "waiting" => target'[c] = handle,
         ~upset /\ pc'[c] = "told" => CanRead \/ Starting
  PROVE  Promised'
<1> SUFFICES ASSUME ~upset PROVE (DrivingReads /\ UnbegunReads /\ WaitedFor /\ Told)'
  BY DEF Promised
<1>1. DrivingReads /\ UnbegunReads /\ WaitedFor /\ Told
  BY DEF Promised
<1>2. (DrivingReads /\ UnbegunReads)'
  BY <1>1 DEF DrivingReads, UnbegunReads, tasks, flags
<1>3. CanRead' = CanRead /\ (Starting => Starting')
  BY DEF CanRead, Starting, tasks
<1>4. \A d \in unread' : d \in Client /\ (d # c => d \in unread /\ d \in Client \ {c})
  BY DEF LaunchTypeOK
<1>5. handle' = handle /\ phase' = phase
  BY DEF tasks
<1>6. WaitedFor'
  BY <1>1, <1>4, <1>5 DEF WaitedFor, Live
<1>7. Told'
  BY <1>1, <1>3, <1>4 DEF Told
<1> QED
  BY <1>2, <1>6, <1>7

LEMMA FixEditPromised ==
  ASSUME LaunchTypeOK, InHand, Promised, NEW c \in Orchestrators, FixEdit(c)
  PROVE  Promised'
<1>1. c \in Client /\ pc[c] = "idle" /\ unread' = unread \cup {c} /\ UNCHANGED <<tasks, flags, upset>>
  BY DEF FixEdit, Client
<1>2. ~upset => DrivingReads /\ UnbegunReads
  BY DEF Promised
<1>3. CASE driving /\ Says(c, "told") /\ UNCHANGED target
  <2>1. ~upset => CanRead
    BY <1>2, <1>3 DEF DrivingReads, CanRead
  <2> QED
    BY <1>1, <1>3, <2>1, SaysOne, CallerPromised
<1>4. CASE Live(handle) /\ ~began /\ Says(c, "told") /\ UNCHANGED target
  <2>1. ~upset => CanRead
    BY <1>2, <1>4 DEF UnbegunReads, CanRead, Live, LaunchTypeOK
  <2> QED
    BY <1>1, <1>4, <2>1, SaysOne, CallerPromised
<1>5. CASE Says(c, "waiting") /\ target' = [target EXCEPT ![c] = handle]
  <2>1. target'[c] = handle /\ \A d \in Client \ {c} : target'[d] = target[d]
    BY <1>1, <1>5 DEF LaunchTypeOK
  <2> QED
    BY <1>1, <1>5, <2>1, SaysOne, CallerPromised
<1>6. CASE ~Live(handle) /\ Relaunch(c, TRUE) /\ UNCHANGED target
  <2>1. pc'[c] = "told" => Starting
    BY <1>1, <1>6, RelaunchSays DEF Busy
  <2> QED
    BY <1>1, <1>6, <2>1, RelaunchSays, CallerPromised
<1> QED
  BY <1>3, <1>4, <1>5, <1>6 DEF FixEdit

LEMMA FixWaitedPromised ==
  ASSUME LaunchTypeOK, InHand, Promised, NEW c \in Orchestrators, FixWaited(c)
  PROVE  Promised'
<1>1. /\ c \in Client /\ pc[c] = "waiting" /\ ~Live(target[c])
      /\ UNCHANGED <<target, unread, upset, tasks, flags>>
  BY DEF FixWaited, AfterWait, Client
<1> SUFFICES ASSUME ~upset PROVE Promised'
  BY <1>1 DEF Promised
<1>2. DrivingReads /\ UnbegunReads /\ WaitedFor /\ Told
  BY DEF Promised
<1>3. CASE c \notin unread
  \* Its edit has been read: whatever it is told, nothing is owed to it.
  <2>1. \A d \in Client \ {c} : pc'[d] = pc[d]
    BY <1>1, FixingSays DEF Fixing
  <2>2. \A d \in unread' : d \in unread /\ d \in Client /\ pc'[d] = pc[d]
    BY <1>1, <1>3, <2>1 DEF LaunchTypeOK
  <2>3. CanRead' = CanRead /\ (Starting => Starting')
    BY <1>1, <2>1 DEF CanRead, Starting, tasks
  <2>4. (DrivingReads /\ UnbegunReads)'
    BY <1>1, <1>2 DEF DrivingReads, UnbegunReads, tasks, flags
  <2>5. WaitedFor'
    BY <1>1, <1>2, <2>2 DEF WaitedFor, Live, tasks
  <2>6. Told'
    BY <1>2, <2>2, <2>3 DEF Told
  <2> QED
    BY <2>4, <2>5, <2>6 DEF Promised
<1>4. CASE c \in unread /\ AfterWait(c)
  <2>1. CASE (driving \/ (handle # target[c] /\ Live(handle))) /\ Says(c, "told")
    <3>1. ASSUME driving PROVE CanRead
      BY <1>2, <3>1 DEF DrivingReads, CanRead
    <3>2. ASSUME handle # target[c], Live(handle) PROVE CanRead
      BY <1>1, <1>2, <1>4, <3>2 DEF WaitedFor, CanRead, Live
    <3>3. CanRead
      BY <2>1, <3>1, <3>2
    <3> QED
      BY <1>1, <2>1, <3>3, SaysOne, CallerPromised
  <2>2. CASE ~(driving \/ (handle # target[c] /\ Live(handle))) /\ Relaunch(c, work)
    <3>1. pc'[c] = "told" => Starting
      BY <1>1, <2>2, RelaunchSays DEF Busy
    <3> QED
      BY <1>1, <2>2, <3>1, RelaunchSays, CallerPromised
  <2> QED
    BY <1>4, <2>1, <2>2 DEF AfterWait
<1>5. CASE Says(c, "cut")
  BY <1>1, <1>5, SaysOne, CallerPromised
<1> QED
  BY <1>3, <1>4, <1>5 DEF FixWaited

LEMMA CallersPromised ==
  ASSUME LaunchTypeOK, InHand, Promised, NEW c \in Client,
         OperatorStart(c) \/ OpenFails(c) \/ Planning(c)
  PROVE  Promised'
<1>1. CASE OperatorStart(c)
  BY <1>1, SaysOne, CallerPromised DEF OperatorStart
<1>2. CASE OpenFails(c)
  BY <1>2 DEF OpenFails, Promised
<1>3. CASE PlanStart(c)
  BY <1>3, SaysOne, CallerPromised DEF PlanStart
<1>4. CASE PlanSave(c)
  BY <1>4, SaysOne, CallerPromised DEF PlanSave
<1> QED
  BY <1>1, <1>2, <1>3, <1>4 DEF Planning

LEMMA OpenHeadPromised ==
  ASSUME LaunchTypeOK, InHand, Promised, NEW c \in Client, OpenHead(c)
  PROVE  Promised'
<1>1. PICK q \in Run : phase[q] = "none" /\ handle' = q
                       /\ phase' = [phase EXCEPT ![q] = "created"]
  BY DEF OpenHead
<1>2. phase'[q] = "created" /\ \A r \in Run \ {q} : phase'[r] = phase[r]
  BY <1>1 DEF LaunchTypeOK
<1>3. UNCHANGED <<driving, began, unread, target, upset>>
  BY DEF OpenHead, flags
<1> SUFFICES ASSUME ~upset PROVE (DrivingReads /\ UnbegunReads /\ WaitedFor /\ Told)'
  BY <1>3 DEF Promised
<1>4. DrivingReads /\ UnbegunReads
  BY DEF Promised
<1>5. (DrivingReads /\ UnbegunReads)'
  BY <1>1, <1>2, <1>3, <1>4 DEF DrivingReads, UnbegunReads
<1>6. WaitedFor'
  BY <1>1, <1>2 DEF WaitedFor
<1>7. CanRead'
  BY <1>2 DEF CanRead
<1> QED
  BY <1>5, <1>6, <1>7 DEF Told

\* The steps after which every edit made so far has been read, or nothing is promised.
LEMMA ReadPromised ==
  ASSUME LaunchTypeOK, InHand, NEW r \in Run, Live(r),
         \A q \in Run \ {r} : phase'[q] = phase[q],
         unread' = {},
         driving' => phase'[r] = "driving", began'
  PROVE  Promised'
BY DEF Promised, DrivingReads, UnbegunReads, WaitedFor, Told

LEMMA TickPromised ==
  ASSUME LaunchTypeOK, InHand, Promised, NEW r \in Run, Tick(r)
  PROVE  Promised'
<1> SUFFICES ASSUME ~upset PROVE Promised'
  BY DEF Tick, Promised
<1>1. UnbegunReads
  BY DEF Promised
<1>2. began'
  BY <1>1 DEF Tick, UnbegunReads
<1>3. /\ Live(r) /\ unread' = {}
      /\ \A q \in Run \ {r} : phase'[q] = phase[q]
      /\ driving' => phase'[r] = "driving"
  BY DEF Tick, Live, LaunchTypeOK
<1> QED
  BY <1>2, <1>3, ReadPromised

LEMMA StepPromised ==
  ASSUME LaunchTypeOK, InHand, Promised, NEW r \in Run, Step(r)
  PROVE  Promised'
<1>1. CASE BeginFails(r) \/ DriveFails(r)
  BY <1>1 DEF BeginFails, DriveFails, Promised
<1>2. CASE Tick(r)
  BY <1>2, TickPromised
<1>3. CASE Begin(r)
  BY <1>3, ReadPromised DEF Begin, Moves, Live, LaunchTypeOK
<1> SUFFICES ASSUME ~upset, Prepare(r) \/ Save(r) \/ Finish(r) \/ Callback(r)
             PROVE  (DrivingReads /\ UnbegunReads /\ WaitedFor /\ Told)'
  <2>1. CASE Prepare(r) \/ Save(r) \/ Finish(r) \/ Callback(r)
    <3>1. upset' = upset
      BY <2>1 DEF Prepare, Save, Finish, Callback
    <3> QED
      BY <2>1, <3>1 DEF Promised
  <2> QED
    BY <1>1, <1>2, <1>3, <2>1 DEF Step
<1>4. DrivingReads /\ UnbegunReads /\ WaitedFor /\ Told
  BY DEF Promised
<1>5. Starting' = Starting /\ UNCHANGED <<pc, target, driving, unread>>
  BY DEF Prepare, Save, Finish, Callback, callers, flags, Starting
<1>6. CASE Prepare(r)
  <2>1. /\ phase[r] = "created" /\ phase'[r] = "preparing" /\ UNCHANGED <<handle, began>>
        /\ \A q \in Run \ {r} : phase'[q] = phase[q]
    BY <1>6 DEF Prepare, Moves, LaunchTypeOK, flags
  <2>2. (DrivingReads /\ UnbegunReads)'
    BY <1>4, <1>5, <2>1 DEF DrivingReads, UnbegunReads
  <2>3. WaitedFor'
    BY <1>4, <1>5, <2>1 DEF WaitedFor, Live
  <2>4. CanRead'
    BY <2>1 DEF CanRead
  <2> QED
    BY <2>2, <2>3, <2>4 DEF Told
<1>7. CASE Save(r)
  <2>1. /\ phase[r] \in {"closing", "handling"} /\ phase'[r] = "saving" /\ UNCHANGED <<handle, began>>
        /\ \A q \in Run \ {r} : phase'[q] = phase[q]
    BY <1>7 DEF Save, Moves, LaunchTypeOK, flags
  <2>2. (DrivingReads /\ UnbegunReads)'
    BY <1>4, <1>5, <2>1 DEF DrivingReads, UnbegunReads
  <2>3. WaitedFor'
    BY <1>4, <1>5, <2>1 DEF WaitedFor, Live
  <2>4. CanRead => CanRead'
    BY <2>1 DEF CanRead
  <2> QED
    BY <1>4, <1>5, <2>2, <2>3, <2>4 DEF Told
<1>8. CASE Finish(r)
  <2>1. /\ phase[r] = "saving" /\ phase'[r] = "gone" /\ UNCHANGED handle
        /\ \A q \in Run \ {r} : phase'[q] = phase[q]
    BY <1>8 DEF Finish, Moves, LaunchTypeOK
  <2>2. \A q \in Run \ {r} : ~Live(q)
    BY <2>1 DEF InHand, HandleNamesRun, Live
  <2>3. DrivingReads'
    BY <1>4, <1>5, <2>1 DEF DrivingReads
  <2>4. UnbegunReads'
    BY <2>1, <2>2 DEF UnbegunReads, Live
  <2>5. ~Live(handle)'
    BY <2>1, <2>2 DEF Live
  <2>6. WaitedFor'
    BY <2>5 DEF WaitedFor
  <2>7. CanRead => CanRead'
    BY <2>1 DEF CanRead
  <2> QED
    BY <1>4, <1>5, <2>3, <2>4, <2>6, <2>7 DEF Told
<1>9. CASE Callback(r)
  <2>1. phase' = phase /\ began' = began /\ handle' \in {handle, NoRun}
    BY <1>9 DEF Callback, flags
  <2>2. (DrivingReads /\ UnbegunReads)' /\ CanRead' = CanRead
    BY <1>4, <1>5, <2>1 DEF DrivingReads, UnbegunReads, CanRead
  <2>3. ASSUME Live(handle)' PROVE handle' = handle
    BY <2>1, <2>3, LaunchAssumption DEF Live
  <2>4. WaitedFor'
    BY <1>4, <1>5, <2>1, <2>3 DEF WaitedFor, Live
  <2> QED
    BY <1>4, <1>5, <2>2, <2>4 DEF Told
<1> QED
  BY <1>6, <1>7, <1>8, <1>9

LEMMA NextPromised == LaunchTypeOK /\ InHand /\ Promised /\ [Next]_vars => Promised'
<1> SUFFICES ASSUME LaunchTypeOK, InHand, Promised, [Next]_vars PROVE Promised'
  OBVIOUS
<1>1. CASE UNCHANGED vars
  BY <1>1 DEF vars, file, tasks, flags, callers, Promised, DrivingReads, UnbegunReads, WaitedFor,
              Told, CanRead, Starting, Live
<1>2. ASSUME NEW c \in Operators, OperatorStart(c) PROVE Promised'
  BY <1>2, CallersPromised DEF Client
<1>3. ASSUME NEW c \in Orchestrators, Fixing(c) PROVE Promised'
  <2>1. CASE FixTimedOut(c)
    BY <2>1 DEF FixTimedOut, Promised
  <2> QED
    BY <1>3, <2>1, FixEditPromised, FixWaitedPromised DEF Fixing
<1>4. ASSUME NEW c \in Client, Opening(c) \/ Planning(c) PROVE Promised'
  BY <1>4, CallersPromised, OpenHeadPromised DEF Opening
<1>5. ASSUME NEW r \in Run, Step(r) PROVE Promised'
  BY <1>5, StepPromised
<1>6. CASE Stop
  BY <1>6 DEF Stop, Promised
<1> QED
  BY <1>1, <1>2, <1>3, <1>4, <1>5, <1>6 DEF Next

(***************************************************************************)
(* A plan_fix that was told that a run picks its edit up is right, for any  *)
(* number of callers, as long as nothing was stopped, failed or timed out.  *)
(***************************************************************************)
THEOREM FixIsPickedUp == Spec => []FixPickedUp
<1>1. Init => LaunchTypeOK /\ InHand /\ Promised
  BY InitLaunchType, InitInHand, InitPromised
<1>2. LaunchTypeOK /\ InHand /\ Promised /\ [Next]_vars => (LaunchTypeOK /\ InHand /\ Promised)'
  BY NextLaunchType, NextInHand, NextPromised
<1>3. Promised => FixPickedUp
  BY DEF Promised, Told, FixPickedUp
<1> QED
  BY <1>1, <1>2, <1>3, PTL DEF Spec
=============================================================================
