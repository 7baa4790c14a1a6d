------------------------------ MODULE PlanRun -------------------------------
(***************************************************************************)
(* One project's plan and the runner that walks it (src/backend/plan.py):   *)
(* the checklist in .plan.json, the drive loop with its tick, the attempts  *)
(* it spawns, and everyone else who edits the same file between two ticks - *)
(* the operator, the orchestrator's plan_fix, the attempts' own reports.    *)
(*                                                                         *)
(* Every access to the file is one step here because the code makes it      *)
(* under the project's lock (edit()).  What is NOT under the lock is what   *)
(* this module is about: attempts end, report and fall silent between two   *)
(* ticks, a cancelled attempt may still be heard of, and the run may be     *)
(* stopped, fail or die with the process at any moment.                     *)
(***************************************************************************)
EXTENDS Integers, FiniteSets

CONSTANTS N,              \* the plan's items are 1..N, in checklist order
          Dep,            \* Dep[i]: the items that i depends on
          First,          \* the items the plan starts with; the others may be added later
          Softenable,     \* items whose dependencies the orchestrator may make soft
          AttMax,         \* plan["attempts_max"]
          MaxConcurrent,  \* plan["max_concurrent"]
          MaxSpawns,      \* attempts one run may spawn
          MaxFixes,       \* plan_fix retries per item
          Endings,        \* the ways an attempt may end
          Texts,          \* what a failed or blocked report may say
          MaxRuns,        \* bound: runs started
          MaxEdits        \* bound: edits by the operator and the orchestrator

Item == 1..N

INSTANCE PlanDeps

ReportStatus == {"done", "failed", "blocked"}
OperatorStatus == {"todo", "done", "skipped", "failed", "blocked"}

(***************************************************************************)
(* last_error, as far as the runner reads it back: "dependency" is the      *)
(* prefix the runner writes on a block of its own, "lookalike" the same     *)
(* prefix in the agent's words, "other" any other text.                     *)
(***************************************************************************)
Error == {"none", "other", "dependency", "lookalike"}

NoReport == [s |-> "none", text |-> "other", late |-> FALSE]
\* late: the report came from an attempt the runner had already cancelled.
Report == [s : ReportStatus \cup {"none"}, text : {"other", "lookalike"}, late : BOOLEAN]

(***************************************************************************)
(* How an attempt ends: "final" with a fenced status block in its reply,    *)
(* "prose" without one, "cap" out of rounds, "error" an exception, "budget" *)
(* the token budget spent.  s and text are the block's.                     *)
(***************************************************************************)
Ending == [how : {"final", "prose", "cap", "error", "budget"},
           s : ReportStatus, text : {"other", "lookalike"}]
NoEnding == [how |-> "prose", s |-> "failed", text |-> "other"]

Record == [st : Status, err : Error, att : Nat, stalls : Nat, cont : Nat,
           fixes : Nat, rep : Report]

(***************************************************************************)
(* An attempt's task.  opening: its conversation is not recorded in the     *)
(* file yet; turn: the agent works; ended: finished, not settled yet.       *)
(* quiet: no event for longer than the stall window, counted again from     *)
(* the nudge once the tick has sent one.                                    *)
(***************************************************************************)
Task == [pc : {"none", "opening", "turn", "ended"}, quiet : BOOLEAN,
         nudged : BOOLEAN, out : Ending]
NoTask == [pc |-> "none", quiet |-> FALSE, nudged |-> FALSE, out |-> NoEnding]
NewTask == [NoTask EXCEPT !.pc = "opening"]

Fresh == [st |-> "todo", err |-> "none", att |-> 0, stalls |-> 0, cont |-> 0,
          fixes |-> 0, rep |-> NoReport]
Absent == [Fresh EXCEPT !.st = "absent"]

ASSUME ConstantsAssumption ==
  /\ N \in Nat
  /\ Dep \in [Item -> SUBSET Item] /\ Acyclic(Dep)
  /\ First \subseteq Item /\ \A i \in Item : Dep[i] \subseteq First
  /\ Softenable \subseteq Item
  /\ AttMax \in Nat \ {0} /\ MaxConcurrent \in Nat \ {0} /\ MaxSpawns \in Nat \ {0}
  /\ MaxFixes \in Nat /\ MaxRuns \in Nat /\ MaxEdits \in Nat
  /\ Endings \subseteq Ending /\ Texts \subseteq {"other", "lookalike"}

VARIABLES
  pstat,     \* plan["status"] in the file
  items,     \* plan["items"] in the file
  soft,      \* the items whose dependencies are marked soft in the file
  run,       \* the runner: idle, starting, driving, closing
  outcome,   \* how the drive ended, which the teardown writes as the plan's status
  pausing,   \* _drive: start nothing new, pause once the tasks are gone
  spawned,   \* _drive: attempts spawned in this run
  task,      \* _drive: tasks and meta, by item
  zombies,   \* items whose recorded conversation is a cancelled attempt's that may still report
  spent,     \* _drive: the tokens it has counted reach pause_at, and the file does not say so yet
  past,      \* tokens_used has reached pause_at in the file
  runs,      \* runs started so far (bounded by MaxRuns)
  edits      \* edits made so far (bounded by MaxEdits)

file == <<pstat, items, soft>>
memory == <<outcome, pausing, spent, spawned, task, zombies>>
counters == <<runs, edits>>
vars == <<file, run, memory, past, counters>>

-----------------------------------------------------------------------------
\* The file as every reader finds it.

StOf(f) == [i \in Item |-> f[i].st]

\* normalise: a dependency on an item that is not in the file is dropped.
DepOf(f, i) == {d \in Dep[i] : f[d].st # "absent"}
Hard(f, sf) == [i \in Item |-> IF i \in sf THEN {} ELSE DepOf(f, i)]
Soft(f, sf) == [i \in Item |-> IF i \in sf THEN DepOf(f, i) ELSE {}]

Marked(f) == {i \in Item : f[i].st = "blocked" /\ f[i].err \in {"dependency", "lookalike"}}

\* Mutant: the release takes a soft dependency for a hard one.
ReleaseStrict(f, sf) ==
  LET R == {i \in Marked(f) : \A d \in DepOf(f, i) : f[d].st \notin Bad}
  IN [i \in Item |-> IF i \in R THEN [f[i] EXCEPT !.st = "todo", !.err = "none"] ELSE f[i]]

\* release_blocked, which every load and every edit runs.
ReleaseWith(f, sf) ==
  LET R == Released(StOf(f), Marked(f), Hard(f, sf))
  IN [i \in Item |-> IF i \in R THEN [f[i] EXCEPT !.st = "todo", !.err = "none"] ELSE f[i]]

Release(f) == ReleaseWith(f, soft)

\* propagate_blocked.
Propagate(f) ==
  LET B == NewlyBlocked(StOf(f), Hard(f, soft))
  IN [i \in Item |->
        IF i \in B THEN [f[i] EXCEPT !.st = "blocked", !.err = "dependency"] ELSE f[i]]

\* Mutant: a soft dependency is not waited for at all.
ReadyEarly(f) ==
  {i \in Item : f[i].st = "todo" /\ \A d \in Hard(f, soft)[i] : f[d].st \in Settled}

ReadyIn(f) == Ready(StOf(f), Hard(f, soft), Soft(f, soft))
FinishedIn(f) == Finished(StOf(f), Hard(f, soft), Soft(f, soft))

\* Mutant: a restart forgets the leftovers.
UnrunNothing(f) == f

\* The items a previous run or this one left running go back to todo.
Unrun(f) == [i \in Item |-> IF f[i].st = "running" THEN [f[i] EXCEPT !.st = "todo"] ELSE f[i]]

\* The first k items of S in checklist order.
FirstOf(k, S) == {i \in S : Cardinality({j \in S : j < i}) < k}

-----------------------------------------------------------------------------
\* Settling a finished attempt (_settle).

(***************************************************************************)
(* An attempt stopped by the token budget, or ended while the provider's    *)
(* balance is empty without a done report, is handed back.                  *)
(***************************************************************************)
BudgetStopped(r, out, broke) == out.how = "budget" \/ (broke /\ r.rep.s # "done")

HandedBack(r) ==
  [r EXCEPT !.st = "todo", !.err = "other", !.rep = NoReport,
            !.att = IF @ = 0 THEN 0 ELSE @ - 1]

\* What the attempt says of itself: an exception, else its report, else its block.
Verdict(r, out) ==
  IF out.how = "error" THEN "failed" ELSE IF r.rep.s # "none" THEN r.rep.s ELSE out.s
Said(r, out) ==
  IF out.how = "error" THEN "other" ELSE IF r.rep.s # "none" THEN r.rep.text ELSE out.text

\* An item's first stop for want of rounds spends no attempt.
CapContinues == 1
Free(r, out) == out.how = "cap" /\ r.rep.s = "none" /\ r.cont < CapContinues

Spent(r, out) == IF Free(r, out) /\ r.att > 0 THEN r.att - 1 ELSE r.att

Judged(r, out) ==
  LET v == Verdict(r, out)
  IN [r EXCEPT !.att = Spent(r, out),
               !.cont = IF Free(r, out) THEN @ + 1 ELSE @,
               !.err = IF v = "done" THEN "none" ELSE Said(r, out),
               !.st = IF v = "failed" /\ (Free(r, out) \/ Spent(r, out) < AttMax)
                      THEN "todo" ELSE v]

Settle(r, out, broke) == IF BudgetStopped(r, out, broke) THEN HandedBack(r) ELSE Judged(r, out)

\* Mutant: a stall respawn does not count against attempts_max.
StallAgain(r) ==
  [r EXCEPT !.stalls = @ + 1, !.err = "other", !.st = IF r.stalls + 1 <= 1 THEN "todo" ELSE "failed"]

\* A stalled attempt: re-spawned once, and only within the item's attempts.
Stall(r) ==
  [r EXCEPT !.stalls = @ + 1, !.err = "other",
            !.st = IF r.stalls + 1 <= 1 /\ r.att < AttMax THEN "todo" ELSE "failed"]

Dispatch(r) == [r EXCEPT !.st = "running", !.att = @ + 1, !.rep = NoReport]

-----------------------------------------------------------------------------
(***************************************************************************)
(* One tick of _drive, under the lock: load (release), drop the tasks of    *)
(* items an edit took away, settle what ended, block what cannot run, nudge *)
(* or give up what is silent, pause at the checkpoint, spawn what is ready. *)
(* broke: the provider's balance is empty.                                  *)
(***************************************************************************)
Tasks == {i \in Item : task[i].pc # "none"}
\* Mutant: an attempt outlives the edit that took its item away.
KeptAll == Tasks
Kept == {i \in Tasks : items[i].st = "running"}
Ended == {i \in Kept : task[i].pc = "ended"}
Quiet == {i \in Kept \ Ended : task[i].quiet}
Nudgeable == {i \in Quiet : ~task[i].nudged}
Stalled == {i \in Quiet : task[i].nudged}
Open == Kept \ (Ended \cup Stalled)

Settled1(broke) ==
  LET f == Release(items)
  IN [i \in Item |-> IF i \in Ended THEN Settle(f[i], task[i].out, broke) ELSE f[i]]

GiveUp(f) == [i \in Item |-> IF i \in Stalled THEN Stall(f[i]) ELSE f[i]]

\* Mutant: blocks are propagated before the finished attempts are settled.
SweptEarly(broke) ==
  LET f == Propagate(Release(items))
  IN GiveUp([i \in Item |-> IF i \in Ended THEN Settle(f[i], task[i].out, broke) ELSE f[i]])

\* The file once everything that is over has been dealt with.
Swept(broke) == GiveUp(Propagate(Settled1(broke)))

\* Mutant: the run forgets that the budget stopped an attempt of an earlier tick.
PauseForgotten(broke) ==
  past \/ spent \/ \E i \in Ended : BudgetStopped(items[i], task[i].out, broke)

Pause(broke) ==
  \/ pausing
  \/ past \/ spent
  \/ \E i \in Ended : BudgetStopped(items[i], task[i].out, broke)

Smaller(a, b) == IF a < b THEN a ELSE b
\* Mutants: only the spawn cap counts; an attempt that is over still takes a slot in this tick.
RoomForAll == MaxSpawns - spawned
RoomKept == Smaller(MaxConcurrent - Cardinality(Kept), MaxSpawns - spawned)
Room == Smaller(MaxConcurrent - Cardinality(Open), MaxSpawns - spawned)

Spawning(f, broke) == IF Pause(broke) THEN {} ELSE FirstOf(Room, ReadyIn(f))

\* The file with the items of S dispatched.
Launched(f, S) == [i \in Item |-> IF i \in S THEN Dispatch(f[i]) ELSE f[i]]

AtCap(S) == spawned + Cardinality(S) >= MaxSpawns

\* What the spawn cap leaves unstarted fails when the run ends on it.
FailReady(f) ==
  LET R == ReadyIn(f)
  IN [i \in Item |-> IF i \in R THEN [f[i] EXCEPT !.st = "failed", !.err = "other"] ELSE f[i]]

Final(f, S) == IF AtCap(S) THEN FailReady(f) ELSE f

Idling(S) == Open \cup S = {}
\* Mutant: the spawn cap does not end the run.
OverDrained(f, S) == Idling(S) /\ FinishedIn(f)
Over(f, S) == Idling(S) /\ (FinishedIn(f) \/ AtCap(S))

AllSettled(f) == \A i \in Item : f[i].st \in Settled \cup {"absent"}

\* The turns the tick cancels: edited away, or silent after the nudge.
Cancelled == (Tasks \ Kept) \cup Stalled
Turning(S) == {i \in S : task[i].pc = "turn"}

TaskAfter(S) ==
  [i \in Item |->
     IF i \in S THEN NewTask
     ELSE IF i \in Nudgeable THEN [task[i] EXCEPT !.nudged = TRUE, !.quiet = FALSE]
     ELSE IF i \in Open THEN task[i] ELSE NoTask]

\* The three ways a tick leaves the run: going on, paused, over.  f is the file so far.
TickOn(f, S, broke) ==
  /\ IF Pause(broke) THEN ~Idling(S) ELSE ~Over(f, S)
  /\ items' = f
  /\ UNCHANGED <<pstat, run, outcome>>

TickPause(f, S, broke) ==
  /\ Pause(broke) /\ Idling(S)
  /\ items' = f
  /\ pstat' = "paused" /\ run' = "closing" /\ outcome' = "paused"

TickEnd(f, S, broke) ==
  /\ ~Pause(broke) /\ Over(f, S)
  /\ items' = Final(f, S)
  /\ run' = "closing"
  /\ outcome' = IF AllSettled(Final(f, S)) THEN "done" ELSE "failed"
  /\ UNCHANGED pstat

Tick(broke) ==
  LET f == Swept(broke)
      S == Spawning(f, broke)
      g == Launched(f, S)
  IN /\ run = "driving"
     /\ pausing' = Pause(broke)
     /\ past' = (past \/ spent) /\ spent' = FALSE
     /\ spawned' = spawned + Cardinality(S)
     /\ task' = TaskAfter(S)
     /\ zombies' = zombies \cup Turning(Cancelled)
     /\ TickOn(g, S, broke) \/ TickPause(g, S, broke) \/ TickEnd(g, S, broke)
     /\ UNCHANGED <<soft, counters>>

-----------------------------------------------------------------------------
\* The run's beginning and end.

\* start_run: only the operator's resume starts a paused plan, and it moves the checkpoint.
Start ==
  /\ run = "idle" /\ runs < MaxRuns
  /\ \E i \in Item : Release(items)[i].st \in {"todo", "running"}
  /\ IF pstat = "paused" THEN pstat' = "stopped" /\ past' = FALSE
                         ELSE UNCHANGED <<pstat, past>>
  /\ run' = "starting"
  /\ runs' = runs + 1
  /\ UNCHANGED <<items, soft, memory, edits>>

\* A resume that finds nothing to run has moved the checkpoint all the same.
ResumeNothing ==
  /\ run = "idle" /\ pstat = "paused"
  /\ \A i \in Item : Release(items)[i].st \notin {"todo", "running"}
  /\ pstat' = "stopped" /\ past' = FALSE
  /\ UNCHANGED <<items, soft, run, memory, counters>>

\* The head conversation could not be opened, or the task was cancelled before its first step.
AbandonStart ==
  /\ run = "starting" /\ run' = "idle"
  /\ UNCHANGED <<file, memory, past, counters>>

\* Stopped, or failed, between run_plan's first step and the drive's first edit.
EndEarly ==
  /\ run = "starting" /\ run' = "closing"
  /\ outcome' \in {"stopped", "error"}
  /\ UNCHANGED <<file, pausing, spent, spawned, task, zombies, past, counters>>

BeginDrive ==
  /\ run = "starting" /\ run' = "driving"
  /\ pstat' = "running"
  /\ items' = Unrun(Release(items))
  /\ pausing' = FALSE /\ spent' = FALSE /\ spawned' = 0
  /\ task' = [i \in Item |-> NoTask]
  /\ UNCHANGED <<soft, outcome, zombies, past, counters>>

\* stop_run or an exception unwinds the drive: its tasks are cancelled and gathered.  A second
\* stop cuts the gathering short, so that a cancelled turn may be heard of afterwards.  What it
\* has not written down is lost: the tokens since its last tick, and that it was pausing.
Unwind ==
  /\ run = "driving" /\ run' = "closing"
  /\ outcome' \in {"stopped", "error"}
  /\ task' = [i \in Item |-> NoTask]
  /\ zombies' = zombies \cup Turning(Tasks)
  /\ pausing' = FALSE /\ spent' = FALSE
  /\ UNCHANGED <<file, spawned, past, counters>>

\* A stop while the closing report is written.
StopClosing ==
  /\ run = "closing" /\ outcome \in {"done", "failed", "paused"}
  /\ outcome' = "stopped"
  /\ UNCHANGED <<file, run, pausing, spent, spawned, task, zombies, past, counters>>

\* Mutant: the way a drive failed is written as the plan's status.
StatusAsIs(o) == o
StatusOf(o) == IF o = "error" THEN "failed" ELSE o

\* The runner's own variables go with it.
Forget ==
  /\ run' = "idle" /\ outcome' = "failed" /\ pausing' = FALSE /\ spent' = FALSE /\ spawned' = 0
  /\ UNCHANGED counters

Close ==
  /\ run = "closing" /\ Forget
  /\ pstat' = StatusOf(outcome)
  /\ items' = Unrun(Release(items))
  /\ UNCHANGED <<soft, task, zombies, past>>

\* The teardown's save is best effort: a failed write or a second stop skips it.
CloseUnsaved ==
  /\ run = "closing" /\ Forget
  /\ UNCHANGED <<file, task, zombies, past>>

\* The process dies: what was only in memory is gone.
Crash ==
  /\ run # "idle" /\ Forget
  /\ task' = [i \in Item |-> NoTask] /\ zombies' = {}
  /\ UNCHANGED <<file, past>>

-----------------------------------------------------------------------------
\* The attempts.

\* on_open: the conversation exists and the item's record names it.
OpenConversation(i) ==
  /\ task[i].pc = "opening"
  /\ task' = [task EXCEPT ![i].pc = "turn"]
  /\ zombies' = zombies \ {i}
  /\ items' = Release(items)
  /\ UNCHANGED <<pstat, soft, run, outcome, pausing, spent, spawned, past, counters>>

\* plan_report: the item is the one whose recorded conversation is the caller's.
PlanReport(i, s, text) ==
  /\ task[i].pc = "turn" \/ i \in zombies
  /\ items[i].st # "absent"
  /\ s = "done" => text = "other"
  /\ items' = [Release(items) EXCEPT
                 ![i].rep = [s |-> s, text |-> text, late |-> task[i].pc # "turn"]]
  /\ UNCHANGED <<pstat, soft, run, memory, past, counters>>

\* A cancelled turn's brokered calls are cancelled too: it is not heard of again.
ZombieGone(i) ==
  /\ i \in zombies /\ zombies' = zombies \ {i}
  /\ UNCHANGED <<file, run, outcome, pausing, spent, spawned, task, past, counters>>

EndAttempt(i, e) ==
  /\ \/ task[i].pc = "turn"
     \/ task[i].pc = "opening" /\ e.how = "error"
  /\ task' = [task EXCEPT ![i].pc = "ended", ![i].out = e, ![i].quiet = FALSE]
  /\ UNCHANGED <<file, run, outcome, pausing, spent, spawned, zombies, past, counters>>

\* No event for the whole stall window: it stays silent until the tick sees it.
FallQuiet(i) ==
  /\ task[i].pc \in {"opening", "turn"} /\ ~task[i].quiet
  /\ task' = [task EXCEPT ![i].quiet = TRUE]
  /\ UNCHANGED <<file, run, outcome, pausing, spent, spawned, zombies, past, counters>>

\* The run's tokens reach the review checkpoint; the next tick notices, and writes it.
SpendTokens ==
  /\ Turning(Tasks) # {} /\ ~past /\ ~spent /\ spent' = TRUE
  /\ UNCHANGED <<file, run, outcome, pausing, spawned, task, zombies, past, counters>>

-----------------------------------------------------------------------------
\* Edits of the file by the operator (plan_api) and the orchestrator (plan_fix).

Edit(f) ==
  /\ edits < MaxEdits /\ edits' = edits + 1
  /\ items' = f
  /\ UNCHANGED <<run, outcome, pausing, spent, spawned, task, past, runs>>

\* patch_item, put_plan: a reset to todo also forgets the old report.
SetStatus(i, s) ==
  LET f == Release(items)
  IN /\ f[i].st \notin {"absent", s}
     /\ Edit(Release([f EXCEPT ![i] =
                        IF s = "todo" THEN [@ EXCEPT !.st = s, !.rep = NoReport, !.err = "none"]
                                      ELSE [@ EXCEPT !.st = s]]))
     /\ UNCHANGED <<pstat, soft, zombies>>

DeleteItem(i) ==
  /\ items[i].st # "absent"
  /\ Edit(Release([Release(items) EXCEPT ![i] = Absent]))
  /\ zombies' = zombies \ {i}
  /\ UNCHANGED <<pstat, soft>>

AddItem(i) ==
  /\ items[i].st = "absent" /\ i \notin First
  /\ \A d \in Dep[i] : items[d].st # "absent"
  /\ Edit(Release([Release(items) EXCEPT ![i] = Fresh]))
  /\ UNCHANGED <<pstat, soft, zombies>>

\* plan_fix retry: a new lease of attempts, at most MaxFixes times.
Retried(r) ==
  [r EXCEPT !.st = "todo", !.rep = NoReport, !.att = 0, !.stalls = 0, !.cont = 0, !.fixes = @ + 1]

FixRetry(i) ==
  LET f == Release(items)
  IN /\ f[i].st \notin {"absent", "running", "done"} /\ f[i].fixes < MaxFixes
     /\ Edit(Release([f EXCEPT ![i] = Retried(@)]))
     /\ UNCHANGED <<pstat, soft, zombies>>

FixSkip(i) ==
  LET f == Release(items)
  IN /\ f[i].st \notin {"absent", "running"}
     /\ Edit(Release([f EXCEPT ![i] = [@ EXCEPT !.st = "skipped", !.err = "other"]]))
     /\ UNCHANGED <<pstat, soft, zombies>>

\* plan_fix accept: done on the orchestrator's word; the last one settles a failed plan.
FixAccept(i) ==
  LET f == Release(items)
      g == Release([f EXCEPT ![i] = [@ EXCEPT !.st = "done", !.err = "none",
             !.rep = [s |-> "done", text |-> "other", late |-> FALSE]]])
  IN /\ f[i].st \notin {"absent", "running", "done"}
     /\ Edit(g)
     /\ pstat' = IF run # "driving" /\ pstat = "failed" /\ AllSettled(g) THEN "done" ELSE pstat
     /\ UNCHANGED <<soft, zombies>>

\* plan_fix edit: the item's dependencies become soft, or hard again.
FixSoften(i) ==
  /\ i \in Softenable /\ items[i].st # "absent"
  /\ edits < MaxEdits /\ edits' = edits + 1
  /\ soft' = IF i \in soft THEN soft \ {i} ELSE soft \cup {i}
  /\ items' = ReleaseWith(Release(items), soft')
  /\ UNCHANGED <<pstat, run, memory, past, runs>>

-----------------------------------------------------------------------------
Init ==
  /\ pstat = "draft"
  /\ items = [i \in Item |-> IF i \in First THEN Fresh ELSE Absent]
  /\ soft \in SUBSET Softenable
  /\ run = "idle" /\ outcome = "failed"
  /\ pausing = FALSE /\ spent = FALSE /\ spawned = 0
  /\ task = [i \in Item |-> NoTask] /\ zombies = {}
  /\ past = FALSE
  /\ runs = 0 /\ edits = 0

Runner == Start \/ ResumeNothing \/ AbandonStart \/ EndEarly \/ BeginDrive
            \/ Unwind \/ StopClosing \/ Close \/ CloseUnsaved \/ Crash

Attempt(i) ==
  \/ OpenConversation(i) \/ ZombieGone(i) \/ FallQuiet(i)
  \/ \E e \in Endings : EndAttempt(i, e)
  \/ \E s \in ReportStatus, x \in Texts : PlanReport(i, s, x)

Editor(i) ==
  \/ DeleteItem(i) \/ AddItem(i) \/ FixRetry(i) \/ FixSkip(i) \/ FixAccept(i) \/ FixSoften(i)
  \/ \E s \in OperatorStatus : SetStatus(i, s)

Next ==
  \/ \E broke \in BOOLEAN : Tick(broke)
  \/ Runner
  \/ SpendTokens
  \/ \E i \in Item : Attempt(i) \/ Editor(i)

Spec == Init /\ [][Next]_vars

(***************************************************************************)
(* The tick loop keeps ticking, a created runner task runs and its teardown *)
(* ends; an attempt either gets somewhere (its conversation opens, it ends) *)
(* or is quiet for the whole stall window.  Nobody has to stop, edit or     *)
(* report anything.                                                        *)
(***************************************************************************)
Progress(i) ==
  OpenConversation(i) \/ FallQuiet(i) \/ \E e \in Endings : EndAttempt(i, e)

Fairness ==
  /\ WF_vars(BeginDrive)
  /\ WF_vars(\E broke \in BOOLEAN : Tick(broke))
  /\ WF_vars(Close)
  /\ \A i \in Item : WF_vars(Progress(i))

FairSpec == Spec /\ Fairness

-----------------------------------------------------------------------------
\* Properties.

TypeOK ==
  /\ pstat \in {"draft", "running", "done", "failed", "stopped", "paused"}
  /\ items \in [Item -> Record]
  /\ soft \subseteq Softenable
  /\ run \in {"idle", "starting", "driving", "closing"}
  /\ outcome \in {"done", "failed", "paused", "stopped", "error"}
  /\ pausing \in BOOLEAN /\ spent \in BOOLEAN /\ past \in BOOLEAN
  /\ spawned \in Nat
  /\ task \in [Item -> Task]
  /\ zombies \subseteq Item
  /\ runs \in Nat /\ edits \in Nat

(***************************************************************************)
(* An item that the file calls running has an attempt behind it: the live   *)
(* drive holds its task.  With no drive it is what an interrupted run left, *)
(* and then the plan still says "running" too, which is how the teardown or *)
(* the next run tells the leftovers.  A drive with a running item and no    *)
(* task would never end (`finished` is false).                              *)
(***************************************************************************)
NoOrphan ==
  /\ run = "driving" => pstat = "running"
  /\ \A i \in Item : items[i].st = "running" =>
       /\ pstat = "running"
       /\ run = "driving" => i \in Tasks
       /\ run = "closing" => outcome \in {"stopped", "error"}

\* No more attempts at once than the plan's concurrency and none without a live drive; no more in
\* one run than its spawn cap.
WithinCaps ==
  /\ Cardinality(Tasks) <= MaxConcurrent
  /\ run # "driving" => Tasks = {}
  /\ spawned <= MaxSpawns

(***************************************************************************)
(* An item is attempted at most attempts_max times, plus once for each run  *)
(* that was cut short under it and each time somebody edited the plan       *)
(* ("attempt 3 of 2 was seen", the comment on the stall branch says).       *)
(***************************************************************************)
AttemptsBounded ==
  \A i \in Item : items[i].att <= AttMax + (IF runs = 0 THEN 0 ELSE runs - 1) + edits

(***************************************************************************)
(* A block the runner made is lifted with its cause: as long as it stands,  *)
(* some hard dependency is failed or blocked.                               *)
(***************************************************************************)
NoStaleBlock ==
  \A i \in Item : items[i].st = "blocked" /\ items[i].err = "dependency" =>
    \E d \in Hard(items, soft)[i] : items[d].st \in Bad

\* The step in which a drive ends by itself, with spawns to spare.
EndsByItself ==
  run = "driving" /\ run' = "closing" /\ outcome' \in {"done", "failed"} /\ spawned' < MaxSpawns

(***************************************************************************)
(* A run that ends by itself leaves nothing to do: every item is done,      *)
(* skipped, failed, or blocked behind a failure - provided no attempt is    *)
(* given up as stalled in the very tick the run ends on.                    *)
(***************************************************************************)
EndsDrained ==
  [][EndsByItself /\ Stalled = {} => \A i \in Item : items'[i].st # "todo"]_vars

(***************************************************************************)
(* The plan is held: its tokens have reached the checkpoint, its file says  *)
(* paused, or the drive has found, or will at its next tick, that it is to  *)
(* pause.                                                                  *)
(***************************************************************************)
Held == past \/ pstat = "paused" \/ (run = "driving" /\ (pausing \/ spent))

\* The operator's resume.
Resumed == run = "idle" /\ pstat = "paused" /\ pstat' = "stopped"

(***************************************************************************)
(* What the file's token count does not say is forgotten when the run that  *)
(* knows it is stopped, fails or dies while it drives, and the status       *)
(* "paused" when the run is stopped while it reports.                       *)
(***************************************************************************)
PauseLost ==
  /\ ~past
  /\ \/ run = "driving" /\ (run' = "idle" \/ outcome' \in {"stopped", "error"})
     \/ run = "closing" /\ outcome = "stopped" /\ pstat' = "stopped"

(***************************************************************************)
(* Once the plan is held no attempt starts, through stops, crashes, edits   *)
(* and relaunches, until the operator resumes it - unless the pause is lost *)
(* with a run that is cut short before the file's token count tells of it.  *)
(***************************************************************************)
PausingStartsNothing ==
  [][Held => spawned' <= spawned /\ (Held' \/ Resumed \/ PauseLost)]_vars

(***************************************************************************)
(* An attempt starts only when its hard dependencies are done or skipped    *)
(* and its soft ones have settled, a retry and a re-spawn included.         *)
(***************************************************************************)
ReadyOnly ==
  [][\A i \in Item :
       spawned' > spawned /\ task'[i].pc = "opening" /\ (task[i].pc # "opening" \/ i \in Stalled)
         => /\ \A d \in Hard(items, soft)[i] : items'[d].st \in Settled
            /\ \A d \in Soft(items, soft)[i] : items'[d].st \in SoftSettled]_vars

(***************************************************************************)
(* A tick that goes on leaves no slot idle, one that a finished or stalled  *)
(* attempt has just given back included: the concurrency is used up,        *)
(* nothing more could start, or the run is pausing or at its spawn cap.     *)
(***************************************************************************)
WorkConserving ==
  [][(\E broke \in BOOLEAN : Tick(broke)) /\ run' = "driving" =>
       \/ pausing' \/ spawned' = MaxSpawns
       \/ Cardinality({i \in Item : task'[i].pc # "none"}) = MaxConcurrent
       \/ ReadyIn(items') = {}]_vars

\* A run that was begun, or is being torn down, comes to an end.
RunTerminates == run # "idle" ~> run = "idle"

(***************************************************************************)
(* The runner implements the checklist's promise: a finished attempt never  *)
(* overrides an edit, nothing settled is touched by the runner, nothing     *)
(* starts outside a live drive or ahead of its dependencies.                *)
(***************************************************************************)
Promise == INSTANCE Checklist WITH st <- StOf(items), live <- run = "driving"
ImplementsChecklist == Promise!Spec
=============================================================================
