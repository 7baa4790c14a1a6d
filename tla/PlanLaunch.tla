----------------------------- MODULE PlanLaunch -----------------------------
(***************************************************************************)
(* Who may start a plan's runner, and what those who edit the plan are told *)
(* about it (src/backend/plan.py: start_run, stop_run, run_plan's frame,    *)
(* plan_fix's relaunch, plan_from_dump).                                    *)
(*                                                                         *)
(* PlanRun models one runner and the checklist it walks.  This module is    *)
(* about several callers of one project who start, stop, repair and replace *)
(* the plan at once: the runner's task, its entry in _runs, and the two     *)
(* sets (_driving, _drive_began) from which plan_fix tells whether a run    *)
(* will still read the edit it has just made.  Steps are what the code does *)
(* between two awaits.                                                      *)
(***************************************************************************)
CONSTANTS Operators,      \* callers of the plan API: start, replace
          Orchestrators,  \* callers of plan_fix and orchestrate
          Run,            \* the runner tasks there may be
          NoRun,          \* no entry in _runs
          Faults          \* what may go wrong: "stop", "fail", "timeout"

Client == Operators \cup Orchestrators

ASSUME LaunchAssumption == NoRun \notin Run

VARIABLES
  work,       \* the file holds an item that is todo or running
  paused,     \* the file's status is "paused"
  handle,     \* _runs[slug]
  phase,      \* each runner task's: none, created, preparing, driving, closing (its report after
              \* an ordinary end), handling (its report after a stop or failure), saving, gone
  outcome,    \* how the current run's drive ended: paused, or over
  callbacks,  \* finished tasks whose done callback has not run yet
  cancelled,  \* the tasks that end cancelled, or have, and not by returning
  driving,    \* slug in _driving
  began,      \* slug in _drive_began
  pc,         \* each caller's: idle, planning, waiting, opening; and when it has returned,
              \* told (of a run it has started or that is there), refused (no run) or
              \* cut (no answer: the call itself ended cancelled)
  target,     \* the closing run that a waiting plan_fix waits for
  unread,     \* plan_fix callers whose edit no run has read
  upset       \* a stop, a failure or a timeout since the last drive began

file == <<work, paused>>
flags == <<driving, began>>
tasks == <<handle, phase, outcome, callbacks, cancelled>>
callers == <<pc, target>>
vars == <<file, tasks, flags, callers, unread, upset>>

Live(r) == r \in Run /\ phase[r] \notin {"none", "gone"}

\* A run that will read the file again.
CanRead == \E r \in Run : phase[r] \in {"created", "preparing", "driving"}

\* _starting: a caller is inside start_run, before _runs has the task.
Starting == \E c \in Client : pc[c] = "opening"

\* Mutant: start_run looks only at the task, as it once did.
BusyTask == Live(handle)

\* start_run: check and reserve with no await in between.
Busy == Live(handle) \/ Starting

Says(c, what) == pc' = [pc EXCEPT ![c] = what]

Spare == \E r \in Run : phase[r] = "none"

-----------------------------------------------------------------------------
\* Starting.

\* The operator's start resumes a paused plan, even one with nothing left to run.
OperatorStart(c) ==
  /\ pc[c] = "idle" /\ ~Busy /\ Spare
  /\ paused' = FALSE
  /\ Says(c, IF work THEN "opening" ELSE "refused")
  /\ UNCHANGED <<work, tasks, flags, target, unread, upset>>

\* _start_run: the head conversation is open and the task exists.
OpenHead(c) ==
  /\ pc[c] = "opening"
  /\ \E r \in Run :
       /\ phase[r] = "none"
       /\ phase' = [phase EXCEPT ![r] = "created"]
       /\ handle' = r
  /\ outcome' = "over"
  /\ Says(c, "told")
  /\ UNCHANGED <<file, callbacks, cancelled, flags, target, unread, upset>>

OpenFails(c) ==
  /\ "fail" \in Faults /\ pc[c] = "opening"
  /\ Says(c, "refused")
  /\ upset' = TRUE
  /\ UNCHANGED <<file, tasks, flags, target, unread>>

-----------------------------------------------------------------------------
\* plan_fix.

\* The relaunch: a sibling's run counts as one that picks the edit up.
Relaunch(c, w) ==
  \/ Busy /\ Says(c, "told")
  \/ ~Busy /\ (paused \/ ~w) /\ Says(c, "refused")
  \/ ~Busy /\ ~paused /\ w /\ Spare /\ Says(c, "opening")

\* Mutant: a live task is taken for a live run, as on 2026-09-27.
FixEditTrusting(c) ==
  /\ pc[c] = "idle"
  /\ work' = TRUE
  /\ unread' = unread \cup {c}
  /\ IF driving \/ Live(handle) THEN Says(c, "told") ELSE Relaunch(c, TRUE)
  /\ UNCHANGED <<paused, tasks, flags, target, upset>>

\* The edit, and in the same breath what the caller is told of it.
FixEdit(c) ==
  /\ pc[c] = "idle"
  /\ work' = TRUE
  /\ unread' = unread \cup {c}
  /\ \/ driving /\ Says(c, "told") /\ UNCHANGED target
     \/ ~driving /\ Live(handle) /\ ~began /\ Says(c, "told") /\ UNCHANGED target
     \/ ~driving /\ Live(handle) /\ began
          /\ Says(c, "waiting") /\ target' = [target EXCEPT ![c] = handle]
     \/ ~driving /\ ~Live(handle) /\ Relaunch(c, TRUE) /\ UNCHANGED target
  /\ UNCHANGED <<paused, tasks, flags, upset>>

\* What plan_fix does when its wait for the closing run is over.
AfterWait(c) ==
  /\ IF driving \/ (handle # target[c] /\ Live(handle)) THEN Says(c, "told")
                                                         ELSE Relaunch(c, work)
  /\ UNCHANGED <<file, tasks, flags, target, unread>>

\* The run it waits for is over; if that ended cancelled, the shielded wait
\* raises the cancellation in plan_fix, which catches none.
FixWaited(c) ==
  /\ pc[c] = "waiting" /\ ~Live(target[c])
  /\ IF target[c] \in cancelled
     THEN Says(c, "cut") /\ UNCHANGED <<file, tasks, flags, target, unread>>
     ELSE AfterWait(c)
  /\ UNCHANGED upset

\* Mutant: the wait for a closing run has no end of its own.
NeverTimesOut(c) == FALSE /\ UNCHANGED vars

\* FIX_TEARDOWN_WAIT has passed.
FixTimedOut(c) ==
  /\ "timeout" \in Faults /\ pc[c] = "waiting" /\ Live(target[c])
  /\ AfterWait(c)
  /\ upset' = TRUE

-----------------------------------------------------------------------------
\* plan_from_dump: the check, a model call, then the new plan replaces the file.

PlanStart(c) ==
  /\ pc[c] = "idle" /\ ~Live(handle)
  /\ paused => c \in Operators
  /\ Says(c, "planning")
  /\ UNCHANGED <<file, tasks, flags, target, unread, upset>>

\* The edits made meanwhile are gone with the plan they were made to.
PlanSave(c) ==
  /\ pc[c] = "planning"
  /\ Says(c, "refused")
  /\ work' = TRUE /\ paused' = FALSE
  /\ unread' = {}
  /\ UNCHANGED <<tasks, flags, target, upset>>

-----------------------------------------------------------------------------
\* The runner's task (run_plan).

Moves(r, from, to) == phase[r] = from /\ phase' = [phase EXCEPT ![r] = to]

\* run_plan's first step, up to the workspace it primes.
Prepare(r) ==
  /\ Moves(r, "created", "preparing")
  /\ UNCHANGED <<file, handle, outcome, callbacks, cancelled, flags, callers, unread, upset>>

\* The drive's first edit reads the file.
Begin(r) ==
  /\ Moves(r, "preparing", "driving")
  /\ driving' = TRUE /\ began' = TRUE
  /\ unread' = {} /\ upset' = FALSE
  /\ UNCHANGED <<file, handle, outcome, callbacks, cancelled, callers>>

\* No file to edit; or the first edit could not be saved, past the two marks.
BeginFails(r) ==
  /\ "fail" \in Faults
  /\ Moves(r, "preparing", "handling")
  /\ \/ driving' = TRUE /\ began' = TRUE
     \/ UNCHANGED flags
  /\ upset' = TRUE
  /\ UNCHANGED <<file, handle, outcome, callbacks, cancelled, callers, unread>>

\* A tick reads every edit made so far; the last one ends the drive under the lock.
Tick(r) ==
  /\ phase[r] = "driving"
  /\ unread' = {}
  /\ \/ /\ phase' = [phase EXCEPT ![r] = "closing"]
        /\ driving' = FALSE
        /\ \/ outcome' = "over" /\ UNCHANGED paused
           \/ outcome' = "paused" /\ paused' = TRUE
     \/ UNCHANGED <<phase, driving, outcome, paused>>
  /\ work' \in BOOLEAN
  /\ UNCHANGED <<handle, callbacks, cancelled, began, callers, upset>>

\* Mutant: a drive that failed leaves an outcome of its own.
DriveErrs(r) ==
  /\ "fail" \in Faults
  /\ Moves(r, "driving", "handling")
  /\ driving' = FALSE /\ upset' = TRUE /\ outcome' = "error"
  /\ UNCHANGED <<file, handle, callbacks, cancelled, began, callers, unread>>

DriveFails(r) ==
  /\ "fail" \in Faults
  /\ Moves(r, "driving", "handling")
  /\ driving' = FALSE /\ upset' = TRUE
  /\ UNCHANGED <<file, handle, outcome, callbacks, cancelled, began, callers, unread>>

\* The closing report is written; then the status and the items handed back.
Save(r) ==
  /\ phase[r] \in {"closing", "handling"}
  /\ phase' = [phase EXCEPT ![r] = "saving"]
  /\ \/ paused' = (outcome = "paused") /\ work' \in {work, TRUE}
     \/ "fail" \in Faults /\ UNCHANGED file
  /\ UNCHANGED <<handle, outcome, callbacks, cancelled, flags, callers, unread, upset>>

Finish(r) ==
  /\ Moves(r, "saving", "gone")
  /\ began' = FALSE
  /\ callbacks' = callbacks \cup {r}
  /\ UNCHANGED <<file, handle, outcome, cancelled, driving, callers, unread, upset>>

\* The task's done callback: it takes only its own entry out of _runs.
Callback(r) ==
  /\ r \in callbacks
  /\ callbacks' = callbacks \ {r}
  /\ handle' = IF handle = r THEN NoRun ELSE handle
  /\ UNCHANGED <<file, phase, outcome, cancelled, flags, callers, unread, upset>>

(***************************************************************************)
(* stop_run cancels the task that _runs names.  Before its first step the   *)
(* task just ends, cancelled.  A first stop is handled: the run closes as   *)
(* stopped and returns.  A second one ends it cancelled if it lands in the  *)
(* handler's report, and is handled as the first if the workspace is still  *)
(* being left.  In the teardown's awaits it skips the rest of them, the     *)
(* reset of _drive_began included.                                          *)
(***************************************************************************)
Stop ==
  /\ "stop" \in Faults /\ Live(handle)
  /\ upset' = TRUE
  /\ LET r == handle
     IN IF phase[r] \in {"created", "saving"}
        THEN /\ phase' = [phase EXCEPT ![r] = "gone"]
             /\ callbacks' = callbacks \cup {r}
             /\ cancelled' = cancelled \cup {r}
             /\ UNCHANGED <<outcome, driving>>
        ELSE /\ phase' = [phase EXCEPT ![r] = "handling"]
             /\ driving' = IF phase[r] = "driving" THEN FALSE ELSE driving
             /\ outcome' = "over"
             /\ \/ UNCHANGED cancelled
                \/ phase[r] = "handling" /\ cancelled' = cancelled \cup {r}
             /\ UNCHANGED callbacks
  /\ UNCHANGED <<file, handle, began, callers, unread>>

-----------------------------------------------------------------------------
Init ==
  /\ work \in BOOLEAN /\ paused \in BOOLEAN
  /\ handle = NoRun
  /\ phase = [r \in Run |-> "none"]
  /\ outcome = "over" /\ callbacks = {} /\ cancelled = {}
  /\ driving = FALSE /\ began = FALSE
  /\ pc = [c \in Client |-> "idle"]
  /\ target = [c \in Client |-> NoRun]
  /\ unread = {} /\ upset = FALSE

Fixing(c) == FixEdit(c) \/ FixWaited(c) \/ FixTimedOut(c)
Opening(c) == OpenHead(c) \/ OpenFails(c)
Planning(c) == PlanStart(c) \/ PlanSave(c)
Step(r) ==
  \/ Prepare(r) \/ Begin(r) \/ BeginFails(r) \/ Tick(r) \/ DriveFails(r)
  \/ Save(r) \/ Finish(r) \/ Callback(r)

Next ==
  \/ \E c \in Operators : OperatorStart(c)
  \/ \E c \in Orchestrators : Fixing(c)
  \/ \E c \in Client : Opening(c) \/ Planning(c)
  \/ \E r \in Run : Step(r)
  \/ Stop

Spec == Init /\ [][Next]_vars

(***************************************************************************)
(* A call in progress goes on: the head conversation opens or fails to, the *)
(* wait ends with the run it waits for or by its timeout.  The run itself   *)
(* may drive for ever.                                                      *)
(***************************************************************************)
Fairness ==
  /\ \A c \in Client : WF_vars(Opening(c))
  /\ \A c \in Orchestrators : WF_vars(FixWaited(c) \/ FixTimedOut(c))

FairSpec == Spec /\ Fairness

-----------------------------------------------------------------------------
\* Properties.

LaunchTypeOK ==
  /\ work \in BOOLEAN /\ paused \in BOOLEAN
  /\ handle \in Run \cup {NoRun}
  /\ phase \in [Run -> {"none", "created", "preparing", "driving", "closing", "handling",
                     "saving", "gone"}]
  /\ outcome \in {"over", "paused"}
  /\ callbacks \subseteq Run /\ cancelled \subseteq Run
  /\ driving \in BOOLEAN /\ began \in BOOLEAN
  /\ pc \in [Client -> {"idle", "planning", "waiting", "opening", "told", "refused", "cut"}]
  /\ target \in [Client -> Run \cup {NoRun}]
  /\ unread \subseteq Client
  /\ upset \in BOOLEAN

(***************************************************************************)
(* _runs names every runner that is alive, so that there is at most one of  *)
(* them and a stop reaches it: two starts in flight, a relaunch during a    *)
(* teardown and a late done callback included.                              *)
(***************************************************************************)
HandleNamesRun == \A r \in Run : Live(r) => handle = r

(***************************************************************************)
(* A plan_fix that was told that a run picks its edit up is right: the edit *)
(* has been read, or a run that has yet to read the file is there or on its *)
(* way - unless a stop, a failure or the timeout came in between.           *)
(***************************************************************************)
FixPickedUp ==
  ~upset => \A c \in unread : pc[c] = "told" => CanRead \/ Starting

\* Every plan_fix comes to its end, a wait on a run that never ends included: with an answer, or
\* cut by the cancellation of the run it waits for.
FixReturns ==
  \A c \in Client : pc[c] \in {"waiting", "opening"} ~> pc[c] \in {"told", "refused", "cut"}

\* What plan_from_dump's docstring says: it refuses to replace a plan that is running.
RunKeepsItsPlan ==
  [][\A c \in Client : pc[c] = "planning" /\ pc'[c] # "planning" => \A r \in Run : ~Live(r)]_vars
=============================================================================
