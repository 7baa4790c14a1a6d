# Jav3 in TLA+

Jav3 is a self-hosted agent system: a FastAPI process (`src/backend`) keeps
conversations, plans, schedules and workspaces, and runs its agents' turns in
guest machines or containers ("boxes") that it boots, shares and scrubs. The
process is one asyncio event loop. Nothing in it runs in parallel, but every
`await` hands the loop to somebody else, and nearly all its state is shared:
between the operator's HTTP requests, the orchestrator agents that call tools,
the runners in the background, and the guests that report whenever they like.

This directory models the parts of it where that matters most: a project's
**plan** and its runner, the **guest** its turns and jobs share, the **turn** of
a conversation and what the operator says to it meanwhile, the **schedules**,
and the **git gate** between the agent's files and the two main branches.

| file | what it is |
|---|---|
| `PlanDeps.tla` | the pure dependency rules of a plan: ready, blocked, released, finished |
| `PlanRun.tla` | one plan, its runner, its attempts and its editors |
| `Checklist.tla` | the abstract specification of a plan, which `PlanRun` implements |
| `PlanLaunch.tla` | several callers starting, stopping, repairing, replacing one plan |
| `GuestBox.tla` | the box: registry, controller, boot, pins, scrub, reaper, destroy |
| `GuestTurn.tla` | turns and a job of one project in that box: hold, ship, fetch, sweep |
| `ChatTurn.tla` | turns of one conversation, the operator's inbox, a question to the operator |
| `Schedules.tla` | one schedule, the heartbeat, run-now, edits and restarts |
| `GitGate.tla` | commit and push requests, the operator, Gitea, and main on both sides |
| `MC*.tla`, `MC*.cfg` | the instances TLC checks, twelve in all |
| `PlanRunProofs.tla`, `PlanTickProofs.tla`, `PlanPromiseProofs.tla`, `PlanLaunchProofs.tla`, `GuestTurnProofs.tla`, `ChatTurnProofs.tla`, `SchedulesProofs.tla`, `GitGateProofs.tla` | theorems |
| `PROJECT.json` | components, runs, mutants, source map, findings, hazards, theorems |

`tlc -config MCPlanRunEdits.cfg MCPlanRun` runs one instance; `tlapm
PlanRunProofs.tla` checks a proof module.

## 1. Inventory

* **Checklist and its file** - `backend/plan.py`, `backend/plan_api.py`
  (`PlanDeps`, `PlanRun`, `Checklist`).
  *State*: `.plan.json` in the project's directory: the plan's status, attempt,
  concurrency and fix limits, the review checkpoint, and per item its status,
  dependencies (hard or soft), counters of attempts, stalls, free continuations
  and fixes, the recorded conversation, the last report and the last error.
  *Operations*: every `load` normalises and lifts blocks; every change is an
  `edit()` under the project's lock. Edited by the runner, by the operator (put,
  add, patch, delete), by the orchestrator's `plan_fix` (retry, skip, accept,
  edit) and by an attempt's `plan_report`.
  *Hard*: edits land between any two ticks of the runner, on items with live
  attempts. *Correct when*: an edit is never overridden by an attempt that ends
  later; a block lasts as long as its cause; nothing starts ahead of its
  dependencies.
* **Plan runner** - `plan._drive`, `_settle`, `_run_item`, `run_plan` (`PlanRun`).
  *State*: local to the task: tasks by item, what it knows of each (nudged, last
  event), `pausing`, `spawned`; lost with the process. *Operations*: a tick every
  second, under the lock: settle, propagate, nudge, give up, pause, spawn, end;
  a teardown that writes the status and hands back running items, best effort.
  *Hard*: order inside the tick; reports of attempts already cancelled; a stop
  anywhere, a second one in the teardown; crash and restart. *Correct when*: it
  respects and uses its caps, spends no more attempts than allowed, ends, and
  leaves nothing undone and no item running that nobody runs.
* **Plan launch and repair** - `start_run`, `stop_run`, `_fix`, `plan_from_dump`
  (`PlanLaunch`).
  *State*: in memory: `_runs` (the task by project), `_starting`, `_driving`,
  `_drive_began`. *Operations*: check and reserve, open the head conversation,
  create the task; a done callback removes it; `plan_fix` decides from the sets
  whether a run will still read its edit, waits for a closing one, relaunches.
  *Hard*: check-then-await everywhere. *Correct when*: there is one runner, a
  stop finds it, and a caller is told the truth about it.
* **Turn runner, host side, and the funnel's job** - `vm/guest_turn.py`,
  `orchestrator.py`, with the guest's own `guest/backend/server.py` (`GuestTurn`).
  *State*: `_ws_holds` (who uses a project's workspace), per turn: pinned, holds,
  owns, fetched, the answer it keeps back; in the guest: the copy of the workspace
  and beside it the buffer of what turns wrote. *Operations*: place, acquire, hold,
  ship, run, answer, fetch (`staged`, rescue, the finally's pull, the last one's
  sweep); a job primes, runs leaves, flushes, sweeps. *Hard*: a turn's finally
  awaits in the middle of giving things back; a stop at any await. *Correct when*:
  what the owner wrote comes home or the operator is told; every hold and pin is
  given back once.
* **Guest life cycle and boxes** - `vm/lifecycle.py`, `vm/boxes.py`,
  `vm/placement.py` (`GuestBox`).
  *State*: the registry, each controller's lock, `_inflight`, `starting`, `retired`,
  the process. *Operations*: acquire and release, boot, restart of a wedged guest,
  idle scrub, nuke, stop, destroy, reap. *Hard*: what was checked before a lock is
  waited for; a boot that a teardown does not wait for. *Correct when*: nothing takes
  the guest from a turn that is in it, and no process runs that no record names.
* **Chat turns** - `chat.py`, and where the voice session starts one, `voice.py`
  (`ChatTurn`).
  *State*: `_active_turns`, `_posting`; a turn's locals (`answer_saved`, `late`); the
  rows of the conversation. *Operations*: claim, start, run, close the inbox, save,
  publish, the handlers of a stop and of a failure, the finally. *Hard*: a stop is
  delivered at any await, a second one in the handler of the first. *Correct when*:
  a committed answer stands, the operator is told once, the conversation can go on.
* **The operator's inbox and questions** - `agentmsg.py`, `operator_ask.py`
  (`ChatTurn`).
  *State*: `_accepting`, the queued rows; the pending questions and their futures.
  *Operations*: queue (look, insert, look again, retract), claim, close, hand back;
  ask, time out, detach, answer, cancel. *Hard*: a message queued while the turn
  closes; an answer during the time-out's look at the plan. *Correct when*: a message
  is read or handed back, once; no question outlives its turn.
* **Schedules** - `schedules.py` (`Schedules`).
  *State*: the row (cadence, next run, enabled, last result, the bin) in SQLite;
  `_running` in memory. *Operations*: the heartbeat reads, reserves, claims, runs,
  moves on; run-now; update, toggle, delete, restore, purge; the mark at boot. *Hard*:
  the row changes between every two of these; a restart keeps the row and loses the
  rest. *Correct when*: one run at a time, of the row as it stands, each time spent
  once, and a due one taken.
* **Git approvals and Gitea** - `gitgate.py`, `gitea.py` (`GitGate`).
  *State*: the request rows, the host's repository (files, index, main), Gitea's main,
  its pull requests. *Operations*: file, reconcile, approve, reject, sync, push.
  *Hard*: every git command, HTTP call and statement is an await, and people merge
  and close in Gitea by hand. *Correct when*: a request's status is what became of its
  pull request, what is open is listed, and main holds only what was approved.
* **Not modelled.** *Agent loop and tools*: sequential around a model, whose behaviour
  it is; an attempt in `PlanRun` and the phase `loop` in `ChatTurn` stand for it by how
  it may end. *Gateway and broker*: request and response; the one effect on plans, a
  report that outlives its attempt, is in `PlanRun`. *Event bus, budget*: bounded
  in-memory queues that shed their oldest event, and counters. *Egress rules and
  proxy, permissions and secrets, storage, memory and profiles, model providers,
  persistent disks, desktop and browser, the rest of voice, services, images and
  packages, frontend and clients*: I/O, subprocesses, look-ups or views; what they
  decide they decide in one step, on data.

### How the parts meet

A schedule, the operator or the voice session starts a turn or a plan run. The plan
runner spawns attempts as orchestrator jobs; each opens a conversation and runs a turn
in a box; the turn's tools come back through the broker as calls such as `plan_report`
and `plan_fix`, and edit the same file the runner ticks over. The box hands the files
back to the host, where the git gate sees them as changes the agent asks to have
committed. The lock of `edit()` is the only mutual exclusion on the plan's file; the
controller's lock the only one on a guest; between two acquisitions anyone may come
first. The other parts exclude each other by a set looked at and changed between two
awaits (`_active_turns`, `_accepting`, `_running`, `_runs`), and the models' steps are
cut there: **what the code does between two awaits is one step, and nothing more**,
where a section says no exception.

## 2. `PlanRun`: the runner and everyone else

| module | code |
|---|---|
| `pstat`, `items`, `soft` | `.plan.json`: status, items, which dependencies are marked soft |
| `run` | the runner's task: idle, starting (before `_drive`'s first edit), driving, closing (the frame of `run_plan`) |
| `task` | `tasks` and `meta` of `_drive`, per item; how the attempt ended waits there for the tick |
| `pausing`, `spawned`, `outcome` | locals of `_drive` and `run_plan`; gone at a crash |
| `spent` | the tokens the drive has counted reach `pause_at`, and no tick has written them yet; gone at a stop, too |
| `zombies` | items whose recorded `conversation_id` is that of a cancelled attempt that may still be heard of |
| `past` | `tokens_used >= pause_at`, which is in the file |
| `runs`, `edits` | bounds |

Every access to the file is one step, because the code makes it under the project's
lock. `Tick` is the whole critical section of one turn of `_drive`'s loop, in the
code's order: `Release` (every load), drop the tasks of items that are no longer
running (`Kept`), `Settle` what ended, `Propagate` blocks, nudge, give up what stayed
silent (`Stalled`), pause at the checkpoint, spawn (`Spawning`), and at the end go on,
pause or end (`TickOn`, `TickPause`, `TickEnd`). Between ticks: attempts open their
conversation, fall quiet, end (five ways), and report; the operator sets statuses,
deletes, adds; `plan_fix` retries, skips, accepts, makes dependencies soft or hard;
the run is stopped (`Unwind`, `StopClosing`, `AbandonStart`, `EndEarly`), torn down
with or without its save (`Close`, `CloseUnsaved`), or dies (`Crash`).

`PlanDeps` states the two cascades of the code, `while moved` loops over the list, as
the least set closed under their rule. That is what the loops compute in any order of
the list, it needs no recursion, and the proofs use exactly that.

Abstractions: an item's text, agent, model, ports and order of display, the flush of
a workspace after an attempt, notifications, the rollup and the arithmetic of token
budgets are left out; `past` and an attempt's ending "budget" stand for the last. A
report's or last error's text is one of those the code tells apart: the runner's own
mark, the agent's words that begin the same, anything else. That dependencies are
acyclic is assumed (`normalise` breaks cycles). `zombies` over-approximates after a
stop: the code gathers the cancelled turns, and a second stop cuts the gathering short.

### Its runs

| run | instance | shows |
|---|---|---|
| `plan_edits` | 1 <- 2, item 2 may be added, deleted, made soft; 2 attempts, spawn cap 2, 2 edits, 1 run, four endings (out of rounds, exception, budget, done) | `TypeOK`, `NoStaleBlock`, `ReadyOnly`, and that the runner implements `Checklist` |
| `plan_restarts` | 3 behind 1 and 2, two at a time, one attempt each, 2 runs, spawn cap 3 | `NoOrphan`, `AttemptsBounded`, `EndsDrained`, `PausingStartsNothing` |
| `plan_caps` | three free items, two at a time, two attempts each, spawn cap 3 | `WithinCaps`, `WorkConserving` |
| `plan_live` | 1 <- 2, one attempt each, one edit, fair | `RunTerminates` |

Why these bounds are enough to be of use: the runner treats items alike and knows of
others only through dependencies, so a dependant behind one item, and behind two that
end in different ticks, show what the rules can do; two attempts make "first", "last"
and "again" distinct; one edit can hit an item in every state of its attempt, and two
can undo each other; the second run is what a restart is. The spawn cap is below what
the items with retries, free continuations and respawns can use, so it is reached, and
`plan_restarts` can start all three items all the same. `plan_restarts` has 298,000
distinct states, `plan_edits` 262,000, `plan_caps` 215,000, `plan_live` 32,000. With
`plan_caps`'s three free items a third attempt could start where two may, which no
plan of three items with a dependency allows.

`PausingStartsNothing` is about a plan that is held: its file says so (`past`, or the status
"paused"), or its drive is pausing or has counted its tokens past the checkpoint (`Held`).
A held plan starts nothing and stays held, through stops, crashes, edits and relaunches,
until the operator resumes it, with one exception that is so in the code (`PauseLost`): the
run is cut short before the file's token count tells of the pause. The tokens are written
by the tick alone (`plan.py:1248-1250`), the next run reads its base from the file (line
1165), and a pause for an attempt's spent budget, or an empty balance, is in no file until
the plan's status is. A `plan_fix` after that relaunches with nobody having resumed.

`AttemptsBounded` counts an edit and an interrupted run as one attempt more each: the
counter is not taken back for a run that was cut short, by design, and a reset or a
soft dependency may let an exhausted item go once more. It bounds the counter: a free
continuation and a hand-back take one off it, so that the attempts made are more, and what
bounds them is the spawn cap (`WithinCaps`). It presumes, as the runs do
(`Texts = {"other"}`), that no agent words a block of its own like the runner's: section 8.

**Fairness** (`plan_live` only): weak fairness of the tick (the loop sleeps and goes
on), of the drive's first edit (a created task is run by the event loop), of the
teardown (a best-effort save and returns from awaits with their own limits), and, per
attempt, of progress: its conversation opens, it ends, *or* it falls silent for the
stall window, which is a timer. Nobody is required to stop, edit, report or spend.

`CHECK_DEADLOCK FALSE`: a plan at rest whose runs and edits are used up (the bounds)
has nothing left to do; that a *run* does not get stuck is `RunTerminates`.

### `Checklist`, the abstract specification

Statuses only. A live runner takes an item where `Moves` allows it; starts it only
when its dependencies allow; never touches what is done, skipped or failed; blocks
only behind a failure or on the item's own word. Whoever reads the file may lift
blocks; an interrupted run's items are handed back; all else is an edit, and an edit
never starts an item. `Promise` in `PlanRun` maps `st` to the items' statuses and
`live` to `run = "driving"`; that every step of `PlanRun` is a step of `Checklist` or
a stutter says among other things that an attempt which ends after its item was edited
changes nothing.

## 3. `PlanLaunch`: who runs the plan

| module | code |
|---|---|
| `handle` | `_runs[slug]` |
| `phase` | each runner task: created, preparing (head of `run_plan`), driving, closing (its report after an ordinary end), handling (after a stop or a failure), saving, gone |
| `cancelled` | the tasks that end, or ended, cancelled and not by returning |
| `callbacks` | finished tasks whose done callback the event loop has not run |
| `driving`, `began` | the slug is in `_driving`, `_drive_began` |
| `pc`, `target` | where each caller is, which closing run it waits for; `opening` is also the reserve `_starting`; `cut` is a call that ended with no answer |
| `work`, `paused` | of the file: is anything todo or running, is the plan paused |
| `unread` | the callers whose edit no run has read |
| `upset` | history: a stop, a failure or a timeout since the last drive began |

A step is what the code does between two awaits. `OperatorStart` merges the reserve
with the resume edit that follows, which nobody can come between in a way a property
sees (the reserve refuses all other starts). Callers make one call each, so there are
as many runs as callers; a `plan_from_dump` that then starts is another caller's start.
The edits taken here are those that leave work to do; `leave_note` and reads are left
out. `Stop` is `stop_run` at whatever await the task is in: before its first step it
simply ends, cancelled; a first stop is handled and the run returns; in the handler's report
a second one goes through, and the task ends cancelled; in the teardown's last awaits it
skips the rest of them, the reset of `_drive_began` included. A `plan_fix` that waits for a
run that ends cancelled is cut with it (section 9).

| run | shows |
|---|---|
| `launch` | one operator, two orchestrators, three runs, with stops, failures and a timeout at any moment: `LaunchTypeOK`, `HandleNamesRun`, `FixPickedUp`, and under fairness `FixReturns` |
| `launch_replace` | the finding, section 9 |

Two orchestrators and an operator are the least with which a relaunch meets another
relaunch and a start at once; three runs let each of them succeed, so that a done
callback of the first meets the third. 131,000 states.

**Fairness**: a call in progress goes on - opening the head conversation succeeds or
fails, a wait ends with its run, cut or not, or by `FIX_TEARDOWN_WAIT` (300 s). The run itself has
none: it may drive for ever, and `FixReturns` holds all the same.
`CHECK_DEADLOCK FALSE`: the callers are finitely many and make one call each.

## 4. `GuestBox` and `GuestTurn`: who uses the guest

| module | code |
|---|---|
| `kind` | the shared guest (scrubbed, never removed), or the project's own box |
| `registered`, `made`, `retired`, `going` | `boxes._boxes` of the project, the records made, the retired ones, the one `destroy` is in |
| `guest`, `buffer` | each record's process, and what its disk holds of `.staging` |
| `lock`, `pins`, `at`, `bound` | a controller's `_lock`, `_inflight`; which controller a user has; `_op_box` |
| `conn` | turns whose stream to the guest is open |
| `holders`, `owners`, `staged`, `pinned` | `_ws_holds`; the turn's `owns_ws`, `staged_done`, `acquired` |
| `parcel` | whose writes are in the buffer that the owner has fetched and is applying |
| `pc` | a user's place between two awaits of `guest_turn` or `job_workspace` |
| `wrote`, `home`, `told` | history: whose writes the guest took, whose are all in the host's files, what was said |

A **turn** is placed (`Place`: the caps may refuse a new box), waits for the
controller's lock (`Begin`) and for a guest that serves (`Pinned`, `BootFails`,
`Restart` of a wedged one), takes the pin and the hold in one tick - whoever finds the
workspace free ships the copy, and the guest unpacks it over its buffer (`Deliver`).
It writes, answers, loses its stream, or is stopped anywhere (`Stop`). An owner's
answer is kept back until its buffer has come (`Staged`) and been applied (`Applied`, file
by file, with awaits), or has been tried for (`Unstaged`, `Rescue`); its `finally` is `Unwind`, and `Sweep` for the last one out.
The **job** pins only the shared guest (`JobPlace`), primes if it is first, runs
leaves, flushes, and sweeps. Around them: `Scrub`, `Nuke`, `Crash`, `StopBox`,
`DestroyBox`, `ReapIdle`, `DestroyEnd`, and a boot that nobody waits for.

One pull - boot and pin the box if it is the project's own, fetch, apply - is one step,
and so is a job's leaf, which is a turn of its own. One write stands for all of a turn's.
`Noticed` says a broken stream is noticed before the guest has booted again.

`cuts` counts what goes wrong (a crash, a nuke, a stop or a destroy by the operator, a
guest that goes quiet, a pull that fails for no reason the model has); three properties
are stated for `cuts = 0`, which leaves in every stop of a turn, every boot failure and
restart, the scrub, the reaper, joiners and the job. What they leave out is so in the
code:

* `OwnerKeepsEdits` excepts a stop that lands while the owner's edits are being applied
  (`Torn`). `staged_done` is set before `_apply_staged` is awaited (`guest_turn.py:273-274`),
  so that neither the rescue nor the sweep looks again: what had not been applied is lost.
* It is about owners. A joiner's writes may be lost: the last joiner
  drops the hold before it sweeps, a newcomer ships and its copy is unpacked over the
  buffer; a job that primes late, or an owner whose copy arrives late, wipes what a
  turn that came in between has written. TLC shows each when the property is stated
  of all turns.
* `Told` is about the shared guest. With the project's own box the rescue boots a box
  that is gone, finds the fresh one's empty buffer, and says that all is well.
* `NothingLeaks` is about turns: a job stopped inside `job_workspace`'s first `try`
  keeps its pin and hold (`JobStop`).
* `NoGhost`: the operator's destroy during a boot leaves a guest running that no record
  owns.

| run | instance | shows |
|---|---|---|
| `turns` | two turns and a job, shared guest or own box, two records, one cut, fair | `TypeOK`, `NothingLeaks`, `Undisturbed`, `OwnerKeepsEdits`, `Told`, `NoGhost`, `TurnEnds` |

723,000 states. Owner, joiner and job are the three roles the code tells apart, and two
turns can take either first; the second record is the box made again after a destroy or
a reap, under a user that still has the first. One cut is one fault at any moment of any
of the others' steps.

**Fairness**: each turn's own steps, the job's, and the end of a destroy. Every wait in
them has a limit in the code: the lock is held for a boot at most, a boot by its timeout, a
fetch by `RPC_TIMEOUT`, a rescue by `RESCUE_TIMEOUT`, the `staged` event by the time-out that
is set once the answer is held. The answer has none: until it is held the stream is read
with no time-out (`guest_turn.py:249-250`), so `Answer` is not fair, and `TurnEnds` says that
every turn ends or is in a connected guest that has yet to answer. Such a turn ends by a
stop, or with its stream. Writes, restarts and everything around have no fairness either. `CHECK_DEADLOCK FALSE`: all is over when
the turns are and the bounds are used up.

## 5. `ChatTurn`: a turn and what is said to it

| module | code |
|---|---|
| `phase` | the await each turn's task is in: `born` (created, not run), `loop`, `closing` and `taken` (in `agentmsg`'s close, before and after its commit), `saving`, `saved`; `stopping`, `restop`, `retaken` in the handler of a stop; `failing`, `failtaken` in that of a failure; `finishing`; `stillborn` (stopped before its first step) |
| `active`, `posting`, `accepting` | `_active_turns[conversation]`, `_posting`, `agentmsg._accepting` |
| `voicing` | the voice session has looked for a running turn and not started its own yet |
| `st`, `queued`, `read` | a message's request, the rows not delivered, what a turn has drained |
| `taken`, `late`, `handed` | rows a close has deleted and not returned, what it returned, `undelivered` of the closing event |
| `rows`, `saved`, `told` | the turn's rows, `answer_saved`, its closing events |
| `ask`, `asker`, `reply` | the question in `operator_ask`, whose it is, whether its future is set |

`Post` and `VoiceLooks` lead to `Start`. A message is `Send`, `Insert`, `Recheck`,
`Retract`; a turn drains between rounds. The end is `Finish`, `Take`, `Closed`, `Save`,
`Publish`, `End`; a stop at any of them, or a second in the handlers, goes the way the
`except` clauses send it (`Stop`, `Mark`, `TellStopped`), a failure likewise (`Fail`,
`TellFailed`). Cut short while saving, the answer's row may be in the database without
`answer_saved` (`Broken`). A question waits, times out with a look that awaits, detaches,
is answered or cancelled. What the model thinks, tool rows, incognito and agent threads are
left out; `Drain` takes all there is, which for one message is what the code does.

| run | instance | shows |
|---|---|---|
| `chat` | two turns, a message, a question, two stops or failures, fair | `TypeOK`, `ReadOrReturned`, `AcceptedArrives`, `EndIsTold`, `AnswerStands`, `NeverBricked`, `NoQuestionLeft`, `TurnOver` |
| `chat_two_turns` | nothing goes wrong | the finding, section 9 |

633,000 states. The second turn is the one a message of the first may fall into; two
wrongs are a stop in the handler of a stop, or of a failure, and a third would meet the
`finally`, where a stop only cuts awaits short.

What the properties except, because the code does it: rows are lost if a stop lands
between the close's commit and its return, so `AcceptedArrives` is short of faults; a
turn stopped before its first step never enters its `finally` and stays in
`_active_turns`, so that the conversation refuses messages until a restart
(`NeverBricked` names it); an answer given during the time-out's look is accepted and
reaches nobody; a detached question's answer after the inbox closed is dropped.

**Fairness**: a created task is run, and its own steps go on (the loop's rounds are bounded
by its budget); a question is answered or runs out of time. None for the operator.
`CHECK_DEADLOCK FALSE`: a conversation at rest, its turns used up.

## 6. `Schedules`

| module | code |
|---|---|
| `now` | the clock, in ticks; `Day` of them make a day |
| `row` | the row: listed, in the bin or purged; enabled; cadence; `next_run`; `last_result`; `ver` counts edits |
| `at`, `seen` | where the heartbeat and each run-now are, and the row as they read it |
| `running`, `run` | `_running`, and with what each run was launched |
| `asked` | in each of the operator's windows, the request whose new time is computed and not yet written: an edit, an enable, a restore |
| `ended` | when each starter's run looked at the clock on its end, its result not yet written |
| `late` | history: the time the operator last gave the row, since the heartbeat read it, had come when it was written |

`ComputeNext` is `compute_next` on the model's clock: strictly later, and for a daily
cadence at its time of day. The heartbeat reads, reserves (one tick), claims in one
`UPDATE` that looks again, runs; run-now reads, reserves, marks, runs. The end looks at
the clock, then writes the result and moves on a time that went by. Whoever sets the row's
time computes it, awaits, and writes it (`EditAsks`, `EditWrites`; the claim and the end of a
run likewise), with the clock and everybody else in between. Schedules do not touch each other, so there is
one. Left out: the flag of a proposed schedule that awaits approval (beside `enabled`, with
the same effect on the heartbeat), what a run does, failures of the operator's own writes.

| run | instance | shows |
|---|---|---|
| `schedules` | daily at 1 of a two-tick day, or every tick; one run-now, window, edit, restart and failure, fair | `TypeOK`, `OneRun`, `RunningIsTrue`, `RunsAsItStands`, `TimeIsSpent`, `DueIsTaken` |

993,000 states. Three ticks hold a due time, one that a run overruns, and the moment between
them in which a request computes a time that has come when it is written; the edit, the
restart and the failure fall anywhere among them.

`RunsAsItStands` has one exception, which is so in the code. An edit made a moment before the
row is due computes the time that is about to come (`schedules.py:187`); the clock passes
it, the heartbeat reads the old row and finds it due, the edit is written with that very
time, and the claim's `next_run = ?` takes the row for the one that was read: the old task
runs after the edit (`late`). An edit's new timetable may also be overwritten by the old one,
by the end of a run or by a request to enable that read before it, and a late write may put
the row back to a time that has been run; no property says otherwise, see section 9.

**Fairness**: the heartbeat's loop never stops, a request's handler goes on, a run is bounded
by its budget. The clock has none: `DueIsTaken` starts from a time that has come.
`CHECK_DEADLOCK FALSE`: at the last tick, bounds used up.

## 7. `GitGate`: what becomes of the agent's files

| module | code |
|---|---|
| `tree`, `index`, `main` | the live files, what is staged, the host's HEAD |
| `gmain`, `pr`, `branch` | Gitea's main, a push request's pull request and its branch |
| `row` | the requests: commit or push, status; with status `none` a pull request is there and its row is not |
| `on` | Gitea is set up (`enabled`: a switch, an owner, two token files) |
| `call` | each handler: where it is, what it is for, the row in hand, what it has read |
| `asked`, `landed` | history: what the operator approved, or merged by hand; which pull requests were merged |
| `strayed` | history: pull requests that left their request's way, below |

A branch is the set of commits it reaches, so that A is an ancestor of B iff it is a
subset, and the empty set stands for a base commit that both mains have; a tree is the set
of edits in it. One call to Gitea or one database statement is a step; so are the git
commands of one purpose: `Snap` joins those that build and push a branch and the POST of its
pull request (nothing reads a branch before that is there), `CommitIndex` the look at the
index and the commit, `SyncLooks` those up to the ancestor test. `create_request` replaces the
pending requests it has read; `create_push_request` brings the two mains together,
reconciles, snapshots, and inserts its row, or withdraws the pull request as best it can;
`approve_request` and `reject_request` go through Gitea, with its answer lost, a call failing
or Gitea switched off; `sync_main` looks and moves in two steps; somebody merges, closes,
reopens or deletes by hand; the agent's turn is stopped in its tool call (`Cancelled`).

Assumed of Gitea, which is not in `src/`: it merges only what is open and has its branch,
closes only what is not merged, reopens only what is closed and has its branch, and answers
"unknown" for what was deleted. Its merge commit is left out, and so are the GitHub remote,
users and keys, and failures of the database other than at the insert of a push request's
row. The agent's tools only add edits.

What the properties except, because the code does it. A pull request has *strayed* when

* its filing was cut short between the POST and the row, by a restart or a stop of the turn
  (a cancellation is no `Exception`, `gitea.py:485`), or its row could not be inserted and
  closing it failed too, which is logged and passed over (lines 521-526): it stays open, and
  nobody is shown it;
* its request was rejected while Gitea was off: `reject_push` then asks nothing and closes
  nothing (lines 610-620), and the pull request may be open, or merged already;
* somebody reopened it by hand: an approve that finds it closed records "rejected" and keeps
  the branch (lines 555-558), so that it can be reopened and merged after that;
* somebody deleted it by hand once it was merged: the request then says "Nothing was merged".

`PushAgrees` says of all others that rejected means not merged, and of every push request
that approved means merged; `OpenIsListed` that what is open is pending, or being filed or
withdrawn by a handler that lives.

| run | instance | shows |
|---|---|---|
| `git_gate` | two handlers at once, three calls, two requests, two edits, two failures, restarts or switches | `TypeOK`, `PushAgrees`, `OpenIsListed`, `NothingUnasked` |
| `git_sync` | four calls, no failure | the finding, section 9 |

1,271,000 states, with symmetry in handlers and edits: nothing names one of them, and the
run checks invariants only. Two handlers meet in every race of two; three calls are two
requests filed and a decision, or one filed and decided twice, beside what is done by hand;
two faults are what a failed insert with a failed close takes, or Gitea off and a restart.
`NothingUnasked` is weaker than one
would like: what an approval that failed has staged rides along with the next commit, so
that an approved request's edits may be in a commit of another's; what holds is that
each was approved by somebody, if only by a request that was approved, failed, and was
rejected afterwards.

`CHECK_DEADLOCK FALSE`: calls are finitely many.

## 8. What is proved

For every value of the constants - any number of items, any acyclic dependencies, any
caps; any number of callers, runs and edits; any number of turns, boxes, messages, stops
and failures; any cadences and any length of a day; any number of handlers, requests and
failures:

* `TypeCorrect` (in `PlanRunProofs`, `GuestTurnProofs`, `ChatTurnProofs`,
  `SchedulesProofs`, `GitGateProofs`) and `LaunchTypeCorrect`: the type invariants. One
  lemma per helper (the file stays a file under release, propagation, settling...), one
  per group of actions.
* `RunsEndDrained` (`Spec => EndsDrained`): a run that ends by itself, with spawns to
  spare and no attempt given up in its last tick, leaves no item todo. The argument: the
  run ends on a file where nothing is ready and nothing runs, after propagation, so
  that every todo item has an unmet hard dependency that is not failed or blocked, or
  an unmet soft one: a dependency that is itself todo. Then the set of todo items is a
  cycle, if it is not empty (`Acyclic`). The proof shows where the order inside the
  tick matters and why a stall in the last tick escapes it (section 9).
* `RunningIsAttended` (`Spec => []NoOrphan`): inductive with `TypeOK`, which it needs
  because most of the work is to show which operators can make an item running (only
  `Dispatch`) and which tasks a tick drops.
* `CapsAreKept`, `PausedMeansPaused`, `NothingEarly`, `NoSlotIdle` (`PlanTickProofs`): what
  a tick starts. The caps of `WithinCaps`, on attempts at
  once and on those spawned, are inductive: a tick's attempts are those that go on and
  the first of the ready items that fit into the slots and spawns left over, and no others
  (`TickStarts`, and `FirstOfFacts` for "the first k of a set", by well-founded minima).
  `SameDeps` and `NoneReadyLeft` say why one look is enough: starting an item settles
  nothing, so that what was ready stays so and nothing else becomes ready in the same
  tick. `PausedMeansPaused` follows a hold through every step of the runner and of the editors
  (`TickHeld`, `RunnerHeld`, `AttemptHeld`); it needs that a drive which ended on a pause says
  so until its frame has written the status (`PausedIsOver`).
* `TriesAreBounded` (`PlanTickProofs`): `AttemptsBounded`, from the assumption `PlainWords`
  that no agent's block is worded like the runner's own. Without it the statement is
  false, and so is it of the code: a block that reads like the runner's is lifted at the
  next read, its item is todo again with its tries used up, and is dispatched once more,
  until the spawn cap (section 9, "lookalike"). The strengthening, `TriesInv`: in a live
  drive every item that is todo, or blocked in a way that is lifted, has a try to spare.
* `BlocksHaveCauses` (`PlanPromiseProofs`): `Spec => []NoStaleBlock`. A release lifts every
  marked block without a cause because its least set is closed, whatever the edit before
  it did; a propagation blocks nothing without a cause because its set is the least one
  (`BlockedForCause`: the part of it that has a cause is closed already).
* `RunnerKeepsPromise` (`PlanPromiseProofs`): `Spec => ImplementsChecklist`. A tick is followed
  through its stages, each of which moves a status in one way (`SweptMoves`,
  `LaunchedMayStart`, `SweptBlocks`, `FinalMoves`); it needs `NoOrphan`, without which a
  run could end on an item that stays running.
* `OneRunInHand` (`Spec => []HandleNamesRun`): at most one runner is alive, the one in
  `_runs`. Not inductive alone: a start in flight could meet a live run, a callback
  could take a live run's entry. `InHand` adds that at most one caller is opening,
  that none is while a run is alive, and that a task whose callback is pending is gone.
* `FixIsPickedUp` (`Spec => []FixPickedUp`): short of a fault, what plan_fix tells its
  caller is true. `Promised` adds, again short of a fault, that `driving` means a run
  is driving, that a live run that has not begun can still read, that a caller waits
  for the run in hand or one that is gone, and the promise itself.
* `AllIsGivenBack`, `NobodyIsDisturbed`, `EditsAreKept`, `OwnersTellTruly`, `NoGhostRuns`
  and `OneOwnerAtATime` (`GuestTurnProofs`): the safety invariants of `GuestTurn`, each by
  one `IInv`. Whatever goes wrong: `Boxed` says which record a user may work with,
  `Holding` what it holds at each point, `Counted` that a controller's count is the
  number of its pins (finite sets; the one fact the reapers' look at `pins` rests on),
  `Owning` that there is one owner at a time, so that nobody ships a copy over its
  buffer, and `Fetchable` that an owner's edits are in the buffer while its stream is
  open, and in its parcel while they are applied, and that on the shared guest a broken stream is noticed before the guest is up.
  While nothing has gone wrong, `Settled`: a turn that has come to the lock is bound to
  the registered box, which is not retired - the reaper looks at bindings and pins in
  the tick it retires the box - and a pinned guest is up. So the fetch in the
  finally reaches the box the owner wrote in, which is `EditsAreKept`, but for a stop during
  the apply. With one cut,
  `Settled` is false, and so are `Undisturbed`, `OwnerKeepsEdits` and `NoGhost`.
* `ReadOrHandedBack`, `WhatIsTakenArrives`, `EveryEndIsTold`, `AnswersStand`,
  `ConversationsGoOn`, `QuestionsAreClosed` (`ChatTurnProofs`): the safety invariants of
  `ChatTurn`, for any number of turns at once, the two of section 9 included.
  `OnePlace`: a row is queued, read, in a turn's hands, or handed back. `SaidOnce`: a turn has told nothing
  before its last await and written nothing before it saves. `Registered`: the
  registered task lives or is stillborn. `Attended`: a question that is waited for
  has its asker in the loop, and one that is open has some turn that will come by its
  finally. `Orderly`, short of stops and failures: the inbox is open only while a
  turn can still read it, every row that was inserted is somewhere, and one the operator
  was told of has a turn that has yet to close.
* `OneRunAtATime`, `RunningIsSaidTruly`, `WhatRunsStands`, `EachTimeOnce`: the safety
  properties of `Schedules`. The first rests on `Slot`: whoever has reserved, claimed or
  runs is who `_running` names, and nobody else is past his look at it. The third rests on
  `Fresh`: since the heartbeat read the row, every edit has moved its time past the one that
  was read, unless it was written late - which is why the claim's second look at the time
  is enough short of that, and not enough otherwise. The last is arithmetic over the same
  invariant: the time the claim writes was computed after the row was read as due, and the
  next time `ComputeNext` gives is later than now, for any day and any cadence.
* `PushesAgree`, `NoneIsHidden`, `OnlyWhatWasAsked`: the safety invariants of `GitGate`,
  by one inductive invariant, `IInv`. Its parts: `Rows`, how each row stands to its pull
  request (`Agreed`); `Sound`, what a handler in the middle of its work relies on - the
  verdict it carries fits the pull request. "Approved" goes on fitting, because merged is
  never taken back; "rejected" does because a pull request that may be called so
  (`Refusable`: neither open nor merged, or strayed) can be opened again only by straying.
  `Evolves`, what no step takes back, carries `Sound` over the steps of the others.
  `Numbered` and `Filing` say that a pull request without a row belongs to one handler that
  lives, or has strayed; `Contents`, that what is staged, committed, on a branch or about to
  be moved to was written and asked for.

Assumptions: `ConstantsAssumption` (types of the limits; acyclic dependencies, on items of
the initial plan), `LaunchAssumption` (`NoRun` is no run), `BoxAssumption` (a finite set
of turns, numbered; the job and nobody are no turns; one record at least),
`ChatAssumption` (turns are numbered, `None` is no turn, the answer of a question is not
one of the other messages), `SchedulesAssumption` (a horizon, a day of at least one tick,
cadences within it, `NoRun` no number and nothing a starter reads) and `GitGateAssumption` (the bounds are
numbers). TLC evaluates each on the runs of its module. `InHand`, `Promised` and the parts
of the `IInv`s are the invariants that the induction needs; none of them is assumed. TLC
found each of them true on the instances of sections 2 to 7 before it was proved.

Only model-checked: liveness (`RunTerminates`, `FixReturns`, `TurnEnds`, `TurnOver`,
`DueIsTaken`), which with ENABLED is out of the prover's reach. Every safety property of a
passing run is a theorem. What a recursive definition computes for every input cannot be
proved here (induction over data needs theorems with operator parameters, and RECURSIVE
switches the SMT prover off); the modules avoid recursion for that reason.

## 9. Where code and comments part

Each has a run that ends in the violation:

* `launch_replace` (`plan.py:628`): `plan_from_dump` "Refuses to replace a plan that is
  running" (line 560). It looks before the planner's model call and not after: a run
  started meanwhile has its file replaced, and its tick cancels the attempts whose items
  are gone.
* `chat_two_turns` (`voice.py:849`): one turn per conversation is claimed "in one
  synchronous step" (`chat.py:1912-1917`). The voice session looks, awaits, and starts,
  without the claim: a POST in between makes two turns, and a stop finds only the later.
* `git_sync` (`gitea.py:357`): "Only a fast-forward" (lines 335-336). The look and the
  reset are two git commands; a commit made between them is dropped from main, with its
  request recorded as approved. The edits stay in the files.

Met while modelling, and stated in the properties rather than in a run of their own:

* The last attempt to stall is given up after the tick has propagated blocks, so that the
  run ends with its dependants still todo (`plan.py:1243`; the exception in
  `EndsDrained`).
* The report of an attempt that was cancelled is taken for its successor's, as long as
  the item's record still names the old conversation (`plan.py:972`).
* An agent's own block whose text begins with "dependency " is lifted as if the runner
  had made it (`plan.py:362`; hence "lookalike").
* A plan_fix whose wait for a closing run times out says all the same that a run picks
  the edit up (`plan.py:1951`; `upset` in `FixPickedUp`). If that run ends cancelled, the
  shielded wait raises CancelledError, which is no `Exception`: the plan_fix is cut, and
  nobody relaunches for its edit (`cut` in `FixReturns`).
* A run stopped, failed or dead between two ticks forgets the tokens it has counted since
  the last, and that it was pausing for a spent budget: a plan_fix starts it again with no
  resume (`plan.py:1248-1250`; `PauseLost`).
* A stop while an owner's edits are applied loses the rest of them: they count as fetched
  before they are home (`guest_turn.py:273`; `Torn`). A guest that stays connected and never
  answers holds its turn until a stop (`guest_turn.py:249-250`).
* A turn stopped before its first step never runs its `finally` and stays in
  `_active_turns`: the conversation answers 409 until a restart, against the comment on
  ROBUST-11 (`chat.py:1194-1197`; `stillborn`).
* A stop between the commit and the return of the inbox's close loses the rows it took
  (`agentmsg.py:153`); an answer during a time-out's look at the plan is accepted and
  reaches nobody (`operator_ask.py:246`).
* The end of a run, and a request to enable that read before an edit, put the old
  timetable over the edit's (`schedules.py:449`, against line 177). An edit whose computed
  time comes before it is written is missed by a claim in between (`schedules.py:187`; `late`).
* What joiners and jobs write may be wiped by a newcomer's copy (`guest_turn.py:326`,
  `orchestrator.py:295`), and a job stopped as it begins keeps its pin and hold
  (`orchestrator.py:281`).
* A push request rejected with Gitea off says so over a pull request that is open or merged
  (`gitea.py:610`); one that an approve found closed can be reopened and merged after it says
  rejected (line 555); a merged one deleted by hand is recorded with "Nothing was merged"
  (lines 551-553). A filing cut short after the POST leaves a pull request that nobody is
  shown, which is what the comment on line 486 fears (`strayed`).
* A commit request whose approval is cut short after the commit stays pending, and may
  then be recorded as rejected while it is in main (`gitgate.py:525`); two commit
  requests filed at once leave two pending where one should replace the other.

## 10. What is left

In the order of their worth:

1. An abstract specification of the operator's inbox - each message has one fate - and one
   of the workspace, with `ChatTurn` and `GuestTurn` proved to implement them.
2. The composition of `PlanLaunch` with the leftovers of an interrupted run, which
   `has_work` does not count (`plan.py:1928`).
3. `normalise` (unknown and cyclic dependencies) as a function of the list, checked
   against `Acyclic` on all small graphs.
4. Joined turns in boxes of their own when the host is at its cap, and the slots of
   `placement.py`.
5. The event bus and the budget's reservation, as bounded queues and counters.

What stays out: the agent loop and the model's choices, subprocesses, the browser, the
media paths and the frontend, where what could go wrong is in data and not in the order
of steps.
