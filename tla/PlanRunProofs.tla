---------------------------- MODULE PlanRunProofs ---------------------------
(***************************************************************************)
(* Theorems of PlanRun, for every plan, every bound and every ending.       *)
(***************************************************************************)
EXTENDS PlanRun, FiniteSetTheorems, TLAPS

Files == [Item -> Record]

-----------------------------------------------------------------------------
\* The helpers keep the file a file.

LEMMA ReleaseType ==
  ASSUME NEW f \in Files, NEW sf
  PROVE  ReleaseWith(f, sf) \in Files
BY DEF Files, ReleaseWith, Record, Status, Error

LEMMA PropagateType ==
  ASSUME NEW f \in Files
  PROVE  Propagate(f) \in Files
BY DEF Files, Propagate, Record, Status, Error

LEMMA UnrunType ==
  ASSUME NEW f \in Files
  PROVE  Unrun(f) \in Files
BY DEF Files, Unrun, Record, Status

LEMMA NoReportType == NoReport \in Report
BY DEF NoReport, Report

LEMMA SettleType ==
  ASSUME NEW r \in Record, NEW out \in Ending, NEW broke \in BOOLEAN
  PROVE  Settle(r, out, broke) \in Record
<1> "todo" \in Status /\ "other" \in Error
  BY DEF Status, Error
<1>1. HandedBack(r) \in Record
  <2>1. (IF r.att = 0 THEN 0 ELSE r.att - 1) \in Nat
    BY DEF Record
  <2> QED
    BY <2>1, NoReportType DEF HandedBack, Record
<1>2. Judged(r, out) \in Record
  <2> DEFINE v == Verdict(r, out)
  <2>1. Spent(r, out) \in Nat
    BY DEF Spent, Record
  <2>2. (IF Free(r, out) THEN r.cont + 1 ELSE r.cont) \in Nat
    BY DEF Record
  <2>3. v \in {"done", "failed", "blocked"}
    BY DEF Verdict, Record, Report, Ending, ReportStatus
  <2>4. (IF v = "failed" /\ (Free(r, out) \/ Spent(r, out) < AttMax) THEN "todo" ELSE v) \in Status
    BY <2>3 DEF Status
  <2>5. Said(r, out) \in {"other", "lookalike"}
    BY DEF Said, Record, Report, Ending
  <2>6. (IF v = "done" THEN "none" ELSE Said(r, out)) \in Error
    BY <2>5 DEF Error
  <2> QED
    BY <2>1, <2>2, <2>4, <2>6 DEF Judged, Record
<1> QED
  BY <1>1, <1>2 DEF Settle

LEMMA StallType ==
  ASSUME NEW r \in Record
  PROVE  Stall(r) \in Record
<1>1. r.stalls + 1 \in Nat /\ r.stalls \in Nat
  BY DEF Record
<1>2. Stall(r).st \in Status
  BY DEF Stall, Record, Status
<1> QED
  BY <1>1, <1>2 DEF Stall, Record, Error

LEMMA DispatchType ==
  ASSUME NEW r \in Record
  PROVE  Dispatch(r) \in Record
<1>1. r.att + 1 \in Nat /\ "running" \in Status
  BY DEF Record, Status
<1> QED
  BY <1>1, NoReportType DEF Dispatch, Record

LEMMA Settled1Type ==
  ASSUME TypeOK, NEW broke \in BOOLEAN
  PROVE  Settled1(broke) \in Files
<1> DEFINE f == Release(items)
<1>1. f \in Files
  BY ReleaseType DEF TypeOK, Files, Release
<1>2. \A i \in Item : task[i].out \in Ending
  BY DEF TypeOK, Task
<1>3. \A i \in Item : Settle(f[i], task[i].out, broke) \in Record
  BY <1>1, <1>2, SettleType DEF Files
<1> QED
  BY <1>1, <1>3 DEF Settled1, Files

LEMMA SweptType ==
  ASSUME TypeOK, NEW broke \in BOOLEAN
  PROVE  Swept(broke) \in Files
<1>1. Propagate(Settled1(broke)) \in Files
  BY Settled1Type, PropagateType
<1>2. \A h \in Files : GiveUp(h) \in Files
  BY StallType DEF GiveUp, Files
<1> QED
  BY <1>1, <1>2 DEF Swept

LEMMA SpawningSubset ==
  ASSUME NEW f, NEW broke
  PROVE  Spawning(f, broke) \subseteq ReadyIn(f)
BY DEF Spawning, FirstOf

LEMMA ReadySubset ==
  ASSUME NEW f
  PROVE  ReadyIn(f) \subseteq {i \in Item : f[i].st = "todo"}
BY DEF ReadyIn, Ready, StOf

LEMMA ItemSetsFinite ==
  ASSUME NEW S \in SUBSET Item
  PROVE  IsFiniteSet(S) /\ Cardinality(S) \in Nat
<1>1. N \in Int /\ 1 \in Int
  BY ConstantsAssumption
<1>2. IsFiniteSet(Item)
  BY <1>1, FS_Interval DEF Item
<1> QED
  BY <1>2, FS_Subset, FS_CardinalityType

LEMMA LaunchedType ==
  ASSUME NEW f \in Files, NEW S
  PROVE  Launched(f, S) \in Files
BY DispatchType DEF Launched, Files

LEMMA FinalType ==
  ASSUME NEW f \in Files, NEW S
  PROVE  Final(f, S) \in Files
<1>1. FailReady(f) \in Files
  BY DEF FailReady, Files, Record, Status, Error
<1> QED
  BY <1>1 DEF Final

LEMMA TaskAfterType ==
  ASSUME TypeOK, NEW S
  PROVE  TaskAfter(S) \in [Item -> Task]
<1>1. NoTask \in Task /\ NewTask \in Task
  BY DEF NoTask, NewTask, Task, NoEnding, Ending, ReportStatus
<1>2. \A i \in Item : [task[i] EXCEPT !.nudged = TRUE, !.quiet = FALSE] \in Task
  BY DEF TypeOK, Task
<1> QED
  BY <1>1, <1>2 DEF TaskAfter, TypeOK

LEMMA TickType ==
  ASSUME TypeOK, NEW broke \in BOOLEAN, Tick(broke)
  PROVE  TypeOK'
<1> DEFINE f == Swept(broke)
           S == Spawning(f, broke)
           g == Launched(f, S)
<1>1. g \in Files /\ Final(g, S) \in Files
  BY SweptType, LaunchedType, FinalType
<1>2. items' \in Files
  BY <1>1 DEF Tick, TickOn, TickPause, TickEnd
<1>3. S \in SUBSET Item
  BY SpawningSubset, ReadySubset
<1>4. spawned' \in Nat
  BY <1>3, ItemSetsFinite DEF Tick, TypeOK
<1>5. task' \in [Item -> Task]
  BY TaskAfterType DEF Tick
<1>6. pausing' \in BOOLEAN /\ spent' \in BOOLEAN
  BY DEF Tick, Pause, TypeOK, BudgetStopped
<1>7. zombies' \subseteq Item
  BY DEF Tick, TypeOK, Turning, Cancelled, Tasks, Stalled, Quiet, Kept
<1>8. /\ pstat' \in {"draft", "running", "done", "failed", "stopped", "paused"}
      /\ run' \in {"idle", "starting", "driving", "closing"}
      /\ outcome' \in {"done", "failed", "paused", "stopped", "error"}
  BY DEF Tick, TickOn, TickPause, TickEnd, TypeOK
<1>9. soft' \subseteq Softenable /\ past' \in BOOLEAN /\ runs' \in Nat /\ edits' \in Nat
  BY DEF Tick, TypeOK, counters
<1> QED
  BY <1>2, <1>4, <1>5, <1>6, <1>7, <1>8, <1>9 DEF TypeOK, Files

-----------------------------------------------------------------------------
\* Each action keeps the types.

LEMMA ForgetType ==
  ASSUME TypeOK, Forget
  PROVE  /\ run' = "idle" /\ outcome' = "failed" /\ pausing' = FALSE /\ spent' = FALSE /\ spawned' = 0
         /\ runs' \in Nat /\ edits' \in Nat
BY DEF TypeOK, Forget, counters

LEMMA NoTaskType == NoTask \in Task /\ [i \in Item |-> NoTask] \in [Item -> Task]
BY DEF NoTask, Task, NoEnding, Ending, ReportStatus

LEMMA RunnerType ==
  ASSUME TypeOK, Runner
  PROVE  TypeOK'
<1>1. CASE Start
  <2>1. past' \in BOOLEAN
    BY <1>1 DEF Start, TypeOK
  <2>2. pstat' \in {"draft", "running", "done", "failed", "stopped", "paused"}
    BY <1>1 DEF Start, TypeOK
  <2>3. /\ run' = "starting" /\ runs' = runs + 1
        /\ UNCHANGED <<items, soft, outcome, pausing, spent, spawned, task, zombies, edits>>
    BY <1>1 DEF Start, memory
  <2> QED
    BY <2>1, <2>2, <2>3 DEF TypeOK
<1>2. CASE ResumeNothing
  BY <1>2 DEF ResumeNothing, TypeOK, file, memory, counters
<1>3. CASE AbandonStart
  BY <1>3 DEF AbandonStart, TypeOK, file, memory, counters
<1>4. CASE EndEarly
  BY <1>4 DEF EndEarly, TypeOK, file, memory, counters
<1>5. CASE BeginDrive
  <2>1. items' \in Files
    BY <1>5, ReleaseType, UnrunType DEF BeginDrive, TypeOK, Files, Release
  <2> QED
    BY <1>5, <2>1, NoTaskType DEF BeginDrive, TypeOK, Files, counters
<1>6. CASE Unwind
  BY <1>6, NoTaskType DEF Unwind, TypeOK, file, counters, Turning, Tasks
<1>7. CASE StopClosing
  BY <1>7 DEF StopClosing, TypeOK, file, counters
<1>8. CASE Close
  <2>1. items' \in Files
    BY <1>8, ReleaseType, UnrunType DEF Close, TypeOK, Files, Release
  <2>2. pstat' \in {"draft", "running", "done", "failed", "stopped", "paused"}
    BY <1>8 DEF Close, StatusOf, TypeOK
  <2>3. Forget /\ UNCHANGED <<soft, task, zombies, past>>
    BY <1>8 DEF Close
  <2>4. /\ run' = "idle" /\ outcome' = "failed" /\ pausing' = FALSE /\ spent' = FALSE /\ spawned' = 0
        /\ runs' \in Nat /\ edits' \in Nat
    BY <2>3, ForgetType
  <2> QED
    BY <2>1, <2>2, <2>3, <2>4 DEF TypeOK, Files
<1>9. CASE CloseUnsaved
  <2>1. Forget /\ UNCHANGED <<pstat, items, soft, task, zombies, past>>
    BY <1>9 DEF CloseUnsaved, file
  <2>2. /\ run' = "idle" /\ outcome' = "failed" /\ pausing' = FALSE /\ spent' = FALSE /\ spawned' = 0
        /\ runs' \in Nat /\ edits' \in Nat
    BY <2>1, ForgetType
  <2> QED
    BY <2>1, <2>2 DEF TypeOK
<1>10. CASE Crash
  <2>1. /\ Forget /\ UNCHANGED <<pstat, items, soft, past>>
        /\ task' \in [Item -> Task] /\ zombies' = {}
    BY <1>10, NoTaskType DEF Crash, file
  <2>2. /\ run' = "idle" /\ outcome' = "failed" /\ pausing' = FALSE /\ spent' = FALSE /\ spawned' = 0
        /\ runs' \in Nat /\ edits' \in Nat
    BY <2>1, ForgetType
  <2> QED
    BY <2>1, <2>2 DEF TypeOK
<1> QED
  BY <1>1, <1>2, <1>3, <1>4, <1>5, <1>6, <1>7, <1>8, <1>9, <1>10 DEF Runner

LEMMA AttemptType ==
  ASSUME TypeOK, NEW i \in Item, Attempt(i)
  PROVE  TypeOK'
<1>1. CASE OpenConversation(i)
  <2>1. items' \in Files
    BY <1>1, ReleaseType DEF OpenConversation, TypeOK, Files, Release
  <2>2. task' \in [Item -> Task]
    BY <1>1 DEF OpenConversation, TypeOK, Task
  <2> QED
    BY <1>1, <2>1, <2>2 DEF OpenConversation, TypeOK, Files, counters
<1>2. CASE ZombieGone(i)
  BY <1>2 DEF ZombieGone, TypeOK, file, counters
<1>3. CASE FallQuiet(i)
  <2>1. task' \in [Item -> Task]
    BY <1>3 DEF FallQuiet, TypeOK, Task
  <2> QED
    BY <1>3, <2>1 DEF FallQuiet, TypeOK, file, counters
<1>4. ASSUME NEW e \in Endings, EndAttempt(i, e) PROVE TypeOK'
  <2>1. e \in Ending
    BY ConstantsAssumption
  <2>2. [task[i] EXCEPT !.pc = "ended", !.out = e, !.quiet = FALSE] \in Task
    BY <2>1 DEF TypeOK, Task
  <2>3. task' = [task EXCEPT ![i] = [task[i] EXCEPT !.pc = "ended", !.out = e, !.quiet = FALSE]]
    BY <1>4 DEF EndAttempt, TypeOK
  <2>4. task' \in [Item -> Task]
    BY <2>2, <2>3 DEF TypeOK
  <2> QED
    BY <1>4, <2>4 DEF EndAttempt, TypeOK, file, counters
<1>5. ASSUME NEW s \in ReportStatus, NEW x \in Texts, PlanReport(i, s, x) PROVE TypeOK'
  <2> DEFINE f == Release(items)
             r == [s |-> s, text |-> x, late |-> task[i].pc # "turn"]
  <2>1. f \in Files
    BY ReleaseType DEF TypeOK, Files, Release
  <2>2. r \in Report
    BY ConstantsAssumption DEF Report
  <2>3. [f EXCEPT ![i].rep = r] \in Files
    BY <2>1, <2>2 DEF Files, Record
  <2>4. items' \in Files
    BY <1>5, <2>3 DEF PlanReport
  <2> QED
    BY <1>5, <2>4 DEF PlanReport, TypeOK, Files, memory, counters
<1> QED
  BY <1>1, <1>2, <1>3, <1>4, <1>5 DEF Attempt

LEMMA EditType ==
  ASSUME TypeOK, NEW f \in Files, Edit(f)
  PROVE  /\ items' \in Files /\ edits' \in Nat
         /\ UNCHANGED <<run, outcome, pausing, spent, spawned, task, past, runs>>
BY DEF Edit, TypeOK

\* A file with one record replaced, as released.
LEMMA ReplaceType ==
  ASSUME TypeOK, NEW i \in Item, NEW r \in Record
  PROVE  Release([Release(items) EXCEPT ![i] = r]) \in Files
<1>1. Release(items) \in Files
  BY ReleaseType DEF TypeOK, Files, Release
<1>2. [Release(items) EXCEPT ![i] = r] \in Files
  BY <1>1 DEF Files
<1> QED
  BY <1>2, ReleaseType DEF Release

LEMMA FreshType == Fresh \in Record /\ Absent \in Record
<1>1. Fresh \in Record
  BY NoReportType DEF Fresh, Record, Status, Error
<1> QED
  BY <1>1 DEF Absent, Record, Status

LEMMA EditorType ==
  ASSUME TypeOK, NEW i \in Item, Editor(i)
  PROVE  TypeOK'
<1> DEFINE f == Release(items)
<1>0. f \in Files /\ f[i] \in Record
  BY ReleaseType DEF TypeOK, Files, Release
<1>1. CASE DeleteItem(i)
  BY <1>1, ReplaceType, FreshType, EditType DEF DeleteItem, TypeOK, Files
<1>2. CASE AddItem(i)
  BY <1>2, ReplaceType, FreshType, EditType DEF AddItem, TypeOK, Files
<1>3. CASE FixRetry(i)
  <2>1. Retried(f[i]) \in Record
    <3>1. f[i].fixes + 1 \in Nat /\ "todo" \in Status
      BY <1>0 DEF Record, Status
    <3> QED
      BY <1>0, <3>1, NoReportType DEF Record, Retried
  <2>2. Edit(Release([f EXCEPT ![i] = Retried(f[i])]))
    BY <1>3 DEF FixRetry
  <2> QED
    BY <1>3, <2>1, <2>2, ReplaceType, EditType DEF FixRetry, TypeOK, Files
<1>4. CASE FixSkip(i)
  <2> DEFINE r == [f[i] EXCEPT !.st = "skipped", !.err = "other"]
  <2>1. r \in Record
    BY <1>0 DEF Record, Status, Error
  <2>2. Edit(Release([f EXCEPT ![i] = r]))
    BY <1>0, <1>4 DEF FixSkip, Files
  <2> QED
    BY <1>4, <2>1, <2>2, ReplaceType, EditType DEF FixSkip, TypeOK, Files
<1>5. CASE FixAccept(i)
  <2> DEFINE p == [s |-> "done", text |-> "other", late |-> FALSE]
             r == [f[i] EXCEPT !.st = "done", !.err = "none", !.rep = p]
  <2>1. r \in Record
    <3>1. p \in Report /\ "done" \in Status /\ "none" \in Error
      BY DEF Report, ReportStatus, Status, Error
    <3> QED
      BY <1>0, <3>1 DEF Record
  <2>2. Edit(Release([f EXCEPT ![i] = r]))
    BY <1>0, <1>5 DEF FixAccept, Files
  <2>3. pstat' \in {"draft", "running", "done", "failed", "stopped", "paused"}
    BY <1>5 DEF FixAccept, TypeOK
  <2> QED
    BY <1>5, <2>1, <2>2, <2>3, ReplaceType, EditType DEF FixAccept, TypeOK, Files
<1>6. CASE FixSoften(i)
  <2>1. ReleaseWith(f, soft') \in Files
    BY <1>0, ReleaseType
  <2>2. items' \in Files /\ soft' \subseteq Softenable /\ edits' \in Nat
    BY <1>6, <2>1 DEF FixSoften, TypeOK
  <2>3. UNCHANGED <<pstat, run, outcome, pausing, spent, spawned, task, zombies, past, runs>>
    BY <1>6 DEF FixSoften, memory
  <2> QED
    BY <2>2, <2>3 DEF TypeOK, Files
<1>7. ASSUME NEW s \in OperatorStatus, SetStatus(i, s) PROVE TypeOK'
  <2> DEFINE r == IF s = "todo"
                    THEN [f[i] EXCEPT !.st = s, !.rep = NoReport, !.err = "none"]
                    ELSE [f[i] EXCEPT !.st = s]
  <2>1. r \in Record
    <3>1. s \in Status /\ "none" \in Error
      BY DEF OperatorStatus, Status, Error
    <3> QED
      BY <1>0, <3>1, NoReportType DEF Record
  <2>2. Edit(Release([f EXCEPT ![i] = r]))
    BY <1>0, <1>7 DEF SetStatus, Files
  <2> QED
    BY <1>7, <2>1, <2>2, ReplaceType, EditType DEF SetStatus, TypeOK, Files
<1> QED
  BY <1>1, <1>2, <1>3, <1>4, <1>5, <1>6, <1>7 DEF Editor

LEMMA InitType == Init => TypeOK
<1> SUFFICES ASSUME Init PROVE TypeOK
  OBVIOUS
<1>1. items \in [Item -> Record]
  BY FreshType DEF Init
<1> QED
  BY <1>1, NoTaskType DEF Init, TypeOK

LEMMA NextType == TypeOK /\ [Next]_vars => TypeOK'
<1> SUFFICES ASSUME TypeOK, [Next]_vars PROVE TypeOK'
  OBVIOUS
<1>1. CASE UNCHANGED vars
  BY <1>1 DEF vars, file, memory, counters, TypeOK
<1>2. ASSUME NEW broke \in BOOLEAN, Tick(broke) PROVE TypeOK'
  BY <1>2, TickType
<1>3. CASE Runner
  BY <1>3, RunnerType
<1>4. CASE SpendTokens
  BY <1>4 DEF SpendTokens, TypeOK, file, memory, counters
<1>5. ASSUME NEW i \in Item, Attempt(i) PROVE TypeOK'
  BY <1>5, AttemptType
<1>6. ASSUME NEW i \in Item, Editor(i) PROVE TypeOK'
  BY <1>6, EditorType
<1> QED
  BY <1>1, <1>2, <1>3, <1>4, <1>5, <1>6 DEF Next

(***************************************************************************)
(* The file and the runner's variables keep their types through every tick, *)
(* report, edit, stop and crash.                                           *)
(***************************************************************************)
THEOREM TypeCorrect == Spec => []TypeOK
BY InitType, NextType, PTL DEF Spec

-----------------------------------------------------------------------------
(***************************************************************************)
(* A run that ends by itself leaves nothing to do.  The two facts behind    *)
(* it: propagation leaves no todo item behind a failed hard dependency, and *)
(* in an acyclic checklist where that holds and nothing runs, an item still *)
(* todo means that some item - one that no todo item precedes - is ready.   *)
(***************************************************************************)
Unblocked(f) == \A i \in Item : f[i].st = "todo" => \A d \in Hard(f, soft)[i] : f[d].st \notin Bad

LEMMA NewlyBlockedFacts ==
  ASSUME NEW st \in [Item -> Status], NEW hard \in [Item -> SUBSET Item]
  PROVE  /\ \A i \in NewlyBlocked(st, hard) : i \in Item /\ st[i] = "todo"
         /\ \A i \in Item : st[i] = "todo" /\ i \notin NewlyBlocked(st, hard) =>
              \A d \in hard[i] : st[d] \notin Bad /\ d \notin NewlyBlocked(st, hard)
<1> DEFINE T == {i \in Item : st[i] = "todo"}
<1>1. T \in SUBSET Item /\ BlockClosed(T, st, hard)
  BY DEF BlockClosed
<1>2. \A i \in NewlyBlocked(st, hard) : i \in Item /\ st[i] = "todo"
  BY <1>1 DEF NewlyBlocked
<1>3. ASSUME NEW i \in Item, st[i] = "todo", i \notin NewlyBlocked(st, hard), NEW d \in hard[i]
      PROVE  st[d] \notin Bad /\ d \notin NewlyBlocked(st, hard)
  <2>1. PICK S \in SUBSET Item : BlockClosed(S, st, hard) /\ i \notin S
    BY <1>3 DEF NewlyBlocked
  <2>2. st[d] \notin Bad /\ d \notin S
    BY <1>3, <2>1 DEF BlockClosed
  <2> QED
    BY <2>1, <2>2 DEF NewlyBlocked
<1> QED
  BY <1>2, <1>3

LEMMA HardType ==
  ASSUME NEW f \in Files, NEW sf
  PROVE  Hard(f, sf) \in [Item -> SUBSET Item] /\ StOf(f) \in [Item -> Status]
BY ConstantsAssumption DEF Hard, DepOf, Files, StOf, Record

LEMMA PropagateUnblocks ==
  ASSUME NEW f \in Files
  PROVE  Unblocked(Propagate(f))
<1> DEFINE st == StOf(f)
           H == Hard(f, soft)
           B == NewlyBlocked(st, H)
           g == Propagate(f)
<1>1. \A i \in Item : g[i].st = IF i \in B THEN "blocked" ELSE f[i].st
  BY DEF Propagate, Files, Record
<1>2. st \in [Item -> Status] /\ H \in [Item -> SUBSET Item]
  BY HardType
<1>3. /\ \A i \in B : i \in Item /\ st[i] = "todo"
      /\ \A i \in Item : st[i] = "todo" /\ i \notin B => \A d \in H[i] : st[d] \notin Bad /\ d \notin B
  BY <1>2, NewlyBlockedFacts
<1>4. \A i \in Item : st[i] = f[i].st
  BY DEF StOf
<1>5. \A i \in Item : g[i].st = "absent" <=> f[i].st = "absent"
  BY <1>1, <1>3, <1>4
<1>6. \A i \in Item : DepOf(g, i) = DepOf(f, i)
  BY <1>5, ConstantsAssumption DEF DepOf
<1>7. Hard(g, soft) = H
  BY <1>6 DEF Hard
<1>8. ASSUME NEW i \in Item, g[i].st = "todo", NEW d \in H[i]
      PROVE  g[d].st \notin Bad
  <2>1. i \notin B /\ st[i] = "todo" /\ d \in Item
    BY <1>8, <1>1, <1>2, <1>4
  <2>2. st[d] \notin Bad /\ d \notin B
    BY <1>3, <1>8, <2>1
  <2> QED
    BY <1>1, <1>4, <2>1, <2>2
<1> QED
  BY <1>7, <1>8 DEF Unblocked

LEMMA Drained ==
  ASSUME NEW f \in Files, Unblocked(f), FinishedIn(f)
  PROVE  \A i \in Item : f[i].st # "todo"
<1> DEFINE T == {i \in Item : f[i].st = "todo"}
<1> SUFFICES ASSUME T # {} PROVE FALSE
  OBVIOUS
<1>1. PICK i \in T : Dep[i] \cap T = {}
  BY ConstantsAssumption DEF Acyclic
<1>2. \A d \in DepOf(f, i) : /\ d \in Item /\ f[d].st \in Status
                             /\ f[d].st \notin {"todo", "running", "absent"}
  <2>1. Dep[i] \subseteq Item
    BY ConstantsAssumption
  <2>2. \A d \in Item : f[d].st # "running" /\ f[d].st \in Status
    BY DEF FinishedIn, Finished, StOf, Files, Record
  <2> QED
    BY <1>1, <2>1, <2>2 DEF DepOf
<1>3. \A d \in DepOf(f, i) : f[d].st \in SoftSettled
  BY <1>2 DEF Status, SoftSettled, Settled
<1>4. \A d \in Hard(f, soft)[i] : d \in Item /\ f[d].st \in Settled
  <2>1. \A d \in Hard(f, soft)[i] : d \in DepOf(f, i) /\ f[d].st \notin Bad
    BY DEF Unblocked, Hard
  <2> QED
    BY <1>2, <1>3, <2>1 DEF SoftSettled, Settled, Bad
<1>5. \A d \in Soft(f, soft)[i] : d \in Item /\ f[d].st \in SoftSettled
  BY <1>2, <1>3 DEF Soft
<1>6. i \in ReadyIn(f)
  BY <1>4, <1>5 DEF ReadyIn, Ready, StOf
<1> QED
  BY <1>6 DEF FinishedIn, Finished, ReadyIn

LEMMA EndDrained ==
  ASSUME TypeOK, NEW broke \in BOOLEAN, Tick(broke), EndsByItself, Stalled = {}
  PROVE  \A i \in Item : items'[i].st # "todo"
<1> DEFINE h == Propagate(Settled1(broke))
           f == Swept(broke)
           S == Spawning(f, broke)
           g == Launched(f, S)
<1>1. TickEnd(g, S, broke)
  BY DEF Tick, TickOn, TickPause, EndsByItself
<1>2. S = {} /\ ~AtCap(S)
  <2>1. S = {}
    BY <1>1 DEF TickEnd, Over, Idling
  <2>2. spawned' < MaxSpawns /\ spawned' = spawned + Cardinality(S)
    BY DEF Tick, EndsByItself
  <2>3. Cardinality(S) \in Nat /\ spawned \in Nat /\ MaxSpawns \in Nat
    BY <2>1, FS_EmptySet, ConstantsAssumption DEF TypeOK
  <2> QED
    BY <2>1, <2>2, <2>3 DEF AtCap
<1>3. f \in Files
  BY SweptType
<1>4. h \in Files /\ f = h
  <2>1. Settled1(broke) \in Files
    BY Settled1Type
  <2>2. h \in Files
    BY <2>1, PropagateType
  <2> QED
    BY <2>2 DEF Swept, GiveUp, Files
<1>5. g = f
  BY <1>2, <1>3 DEF Launched, Files
<1>6. FinishedIn(f) /\ items' = f
  BY <1>1, <1>2, <1>5 DEF TickEnd, Over, Final
<1>7. Unblocked(f)
  BY <1>4, PropagateUnblocks, Settled1Type
<1> QED
  BY <1>3, <1>6, <1>7, Drained

(***************************************************************************)
(* A run that ends by itself, with spawns to spare and no attempt given up  *)
(* in its last tick, leaves no item todo - for every acyclic checklist,     *)
(* every mix of hard and soft dependencies and every edit made meanwhile.   *)
(***************************************************************************)
THEOREM RunsEndDrained == Spec => EndsDrained
<1>1. TypeOK /\ [Next]_vars => [EndsByItself /\ Stalled = {} => \A i \in Item : items'[i].st # "todo"]_vars
  <2> SUFFICES ASSUME TypeOK, Next, EndsByItself, Stalled = {}
               PROVE  \A i \in Item : items'[i].st # "todo"
    OBVIOUS
  <2>1. ASSUME Runner PROVE FALSE
    BY <2>1 DEF Runner, EndsByItself, Start, ResumeNothing, AbandonStart, EndEarly, BeginDrive,
                Unwind, StopClosing, Close, CloseUnsaved, Crash, Forget
  <2>2. ASSUME SpendTokens PROVE FALSE
    BY <2>2 DEF SpendTokens, EndsByItself
  <2>3. ASSUME NEW i \in Item, Attempt(i) PROVE FALSE
    BY <2>3 DEF Attempt, EndsByItself, OpenConversation, ZombieGone, FallQuiet, EndAttempt, PlanReport
  <2>4. ASSUME NEW i \in Item, Editor(i) PROVE FALSE
    BY <2>4 DEF Editor, EndsByItself, DeleteItem, AddItem, FixRetry, FixSkip, FixAccept, FixSoften,
                SetStatus, Edit
  <2> QED
    BY <2>1, <2>2, <2>3, <2>4, EndDrained DEF Next
<1> QED
  BY <1>1, TypeCorrect, PTL DEF Spec, EndsDrained

-----------------------------------------------------------------------------
(***************************************************************************)
(* No orphan: what the file calls running has a task, or is the mark of an  *)
(* interrupted run.  With the types it is inductive as it stands; it rests  *)
(* on who can make an item running (a dispatch, which also makes its task)  *)
(* and on what settling and giving up leave behind.                         *)
(***************************************************************************)
RunningIn(f) == {i \in Item : f[i].st = "running"}

LEMMA ReleaseRunning ==
  ASSUME NEW f \in Files, NEW sf
  PROVE  RunningIn(ReleaseWith(f, sf)) = RunningIn(f)
BY DEF RunningIn, ReleaseWith, Released, Marked, Files, Record

LEMMA PropagateRunning ==
  ASSUME NEW f \in Files
  PROVE  RunningIn(Propagate(f)) = RunningIn(f)
<1>1. \A i \in NewlyBlocked(StOf(f), Hard(f, soft)) : f[i].st = "todo"
  BY HardType, NewlyBlockedFacts DEF StOf
<1> QED
  BY <1>1 DEF RunningIn, Propagate, Files, Record

LEMMA UnrunRunning ==
  ASSUME NEW f \in Files
  PROVE  RunningIn(Unrun(f)) = {}
BY DEF RunningIn, Unrun, Files, Record

LEMMA SettleRunning ==
  ASSUME NEW r \in Record, NEW out \in Ending, NEW broke \in BOOLEAN
  PROVE  Settle(r, out, broke).st # "running"
<1>1. HandedBack(r).st = "todo"
  BY DEF HandedBack, Record
<1>2. Verdict(r, out) \in {"done", "failed", "blocked"}
  BY DEF Verdict, Record, Report, Ending, ReportStatus
<1>3. Judged(r, out).st \in {"todo", Verdict(r, out)}
  BY DEF Judged, Record
<1> QED
  BY <1>1, <1>2, <1>3 DEF Settle

LEMMA SweptRunning ==
  ASSUME TypeOK, NEW broke \in BOOLEAN
  PROVE  RunningIn(Swept(broke)) \subseteq RunningIn(items) \ (Ended \cup Stalled)
<1> DEFINE f == Release(items)
           g == Settled1(broke)
           h == Propagate(g)
<1>1. f \in Files /\ g \in Files /\ h \in Files
  BY ReleaseType, Settled1Type, PropagateType DEF TypeOK, Files, Release
<1>2. RunningIn(f) = RunningIn(items)
  BY ReleaseRunning DEF TypeOK, Files, Release
<1>3. RunningIn(g) \subseteq RunningIn(f) \ Ended
  <2>1. ASSUME NEW i \in Item, i \in Ended PROVE g[i].st # "running"
    <3>1. f[i] \in Record /\ task[i].out \in Ending
      BY <1>1 DEF Files, TypeOK, Task
    <3> QED
      BY <2>1, <3>1, SettleRunning DEF Settled1
  <2>2. ASSUME NEW i \in Item, i \notin Ended PROVE g[i] = f[i]
    BY <2>2 DEF Settled1
  <2> QED
    BY <2>1, <2>2 DEF RunningIn
<1>4. RunningIn(h) = RunningIn(g)
  BY <1>1, PropagateRunning
<1>5. RunningIn(GiveUp(h)) \subseteq RunningIn(h) \ Stalled
  <2>1. ASSUME NEW i \in Item, i \in Stalled PROVE GiveUp(h)[i].st # "running"
    <3>1. h[i] \in Record
      BY <1>1 DEF Files
    <3> QED
      BY <2>1, <3>1 DEF GiveUp, Stall, Record
  <2>2. ASSUME NEW i \in Item, i \notin Stalled PROVE GiveUp(h)[i] = h[i]
    BY <2>2 DEF GiveUp
  <2> QED
    BY <2>1, <2>2 DEF RunningIn
<1> QED
  BY <1>2, <1>3, <1>4, <1>5 DEF Swept

LEMMA TickOrphan ==
  ASSUME TypeOK, NoOrphan, NEW broke \in BOOLEAN, Tick(broke)
  PROVE  NoOrphan'
<1> DEFINE f == Swept(broke)
           S == Spawning(f, broke)
           g == Launched(f, S)
<1>1. f \in Files /\ g \in Files /\ S \subseteq Item
  BY SweptType, LaunchedType, SpawningSubset, ReadySubset
<1>2. RunningIn(f) \subseteq Open
  <2>1. RunningIn(items) \subseteq Kept
    BY DEF NoOrphan, RunningIn, Kept, Tasks, Tick
  <2> QED
    BY <2>1, SweptRunning DEF Open
<1>3. RunningIn(g) \subseteq Open \cup S
  BY <1>1, <1>2 DEF RunningIn, Launched
<1>4. RunningIn(Final(g, S)) \subseteq RunningIn(g)
  BY <1>1 DEF RunningIn, Final, FailReady, Files, Record
<1>5. \A i \in Open \cup S : i \in Item /\ task'[i].pc # "none"
  <2>1. Open \subseteq Item /\ \A i \in Open : task[i] \in Task /\ task[i].pc # "none"
    BY DEF Open, Kept, Tasks, TypeOK
  <2>2. task' = TaskAfter(S)
    BY DEF Tick
  <2>3. ASSUME NEW i \in S PROVE task'[i].pc # "none"
    BY <1>1, <2>2, <2>3 DEF TaskAfter, NewTask, NoTask
  <2>4. ASSUME NEW i \in Open PROVE task'[i].pc # "none"
    <3>1. CASE i \in S
      BY <2>3, <3>1
    <3>2. CASE i \notin S
      BY <2>1, <2>2, <2>4, <3>2 DEF TaskAfter, Task
    <3> QED
      BY <3>1, <3>2
  <2> QED
    BY <1>1, <2>1, <2>3, <2>4
<1>6. CASE TickOn(g, S, broke)
  <2>1. run = "driving" /\ run' = "driving" /\ pstat' = "running"
    BY <1>6 DEF TickOn, Tick, NoOrphan
  <2>2. \A i \in Item : items'[i].st = "running" => i \in Tasks'
    BY <1>3, <1>5, <1>6 DEF TickOn, RunningIn, Tasks
  <2> QED
    BY <2>1, <2>2 DEF NoOrphan
<1>7. CASE TickPause(g, S, broke)
  BY <1>3, <1>7 DEF TickPause, Idling, NoOrphan, RunningIn
<1>8. CASE TickEnd(g, S, broke)
  BY <1>3, <1>4, <1>8 DEF TickEnd, Over, Idling, NoOrphan, RunningIn
<1> QED
  BY <1>6, <1>7, <1>8 DEF Tick

LEMMA RunnerOrphan ==
  ASSUME TypeOK, NoOrphan, Runner
  PROVE  NoOrphan'
<1> DEFINE f == Release(items)
<1>0. f \in Files
  BY ReleaseType DEF TypeOK, Files, Release
<1>1. RunningIn(Unrun(f)) = {}
  BY <1>0, UnrunRunning
<1>2. CASE Start
  BY <1>2 DEF Start, NoOrphan
<1>3. CASE ResumeNothing
  BY <1>3 DEF ResumeNothing, NoOrphan
<1>4. CASE AbandonStart
  BY <1>4 DEF AbandonStart, NoOrphan, file
<1>5. CASE EndEarly
  BY <1>5 DEF EndEarly, NoOrphan, file
<1>6. CASE BeginDrive
  BY <1>1, <1>6 DEF BeginDrive, NoOrphan, RunningIn
<1>7. CASE Unwind
  BY <1>7 DEF Unwind, NoOrphan, file
<1>8. CASE StopClosing
  BY <1>8 DEF StopClosing, NoOrphan, file
<1>9. CASE Close
  BY <1>1, <1>9 DEF Close, Forget, NoOrphan, RunningIn
<1>10. CASE CloseUnsaved
  BY <1>10 DEF CloseUnsaved, Forget, NoOrphan, file
<1>11. CASE Crash
  BY <1>11 DEF Crash, Forget, NoOrphan, file
<1> QED
  BY <1>2, <1>3, <1>4, <1>5, <1>6, <1>7, <1>8, <1>9, <1>10, <1>11 DEF Runner

LEMMA AttemptOrphan ==
  ASSUME TypeOK, NoOrphan, NEW i \in Item, Attempt(i)
  PROVE  NoOrphan'
<1> DEFINE f == Release(items)
           Same == /\ RunningIn(items') = RunningIn(items) /\ Tasks \subseteq Tasks'
                   /\ UNCHANGED <<pstat, run, outcome>>
<1>1. f \in Files /\ RunningIn(f) = RunningIn(items)
  BY ReleaseType, ReleaseRunning DEF TypeOK, Files, Release
<1>2. \A j \in Item : task[j] \in Task
  BY DEF TypeOK
<1>3. ASSUME OpenConversation(i) PROVE Same
  BY <1>1, <1>2, <1>3 DEF OpenConversation, Tasks, Task, TypeOK
<1>4. ASSUME ZombieGone(i) PROVE Same
  BY <1>4 DEF ZombieGone, file, Tasks
<1>5. ASSUME FallQuiet(i) PROVE Same
  BY <1>2, <1>5 DEF FallQuiet, file, Tasks, Task, TypeOK
<1>6. ASSUME NEW e \in Endings, EndAttempt(i, e) PROVE Same
  BY <1>2, <1>6 DEF EndAttempt, file, Tasks, Task, TypeOK
<1>7. ASSUME NEW s \in ReportStatus, NEW x \in Texts, PlanReport(i, s, x) PROVE Same
  <2>1. ASSUME NEW r PROVE RunningIn([f EXCEPT ![i].rep = r]) = RunningIn(f)
    BY <1>1 DEF RunningIn, Files, Record
  <2> QED
    BY <1>1, <1>7, <2>1 DEF PlanReport, memory, Tasks
<1>8. Same
  BY <1>3, <1>4, <1>5, <1>6, <1>7 DEF Attempt
<1> QED
  BY <1>8 DEF NoOrphan, RunningIn

\* An edit replaces one record, with one that is not running, or softens dependencies.
LEMMA EditorStep ==
  ASSUME TypeOK, NEW i \in Item, Editor(i)
  PROVE  /\ RunningIn(items') \subseteq RunningIn(items)
         /\ UNCHANGED <<run, outcome, task>>
         /\ pstat' = pstat \/ (pstat = "failed" /\ run # "driving")
<1> DEFINE f == Release(items)
           Goal == /\ RunningIn(items') \subseteq RunningIn(items)
                   /\ UNCHANGED <<run, outcome, task>>
                   /\ pstat' = pstat \/ (pstat = "failed" /\ run # "driving")
<1>1. f \in Files /\ f[i] \in Record /\ RunningIn(f) = RunningIn(items)
  BY ReleaseType, ReleaseRunning DEF TypeOK, Files, Release
<1>2. ASSUME NEW r \in Record, r.st # "running", items' = Release([f EXCEPT ![i] = r])
      PROVE  RunningIn(items') \subseteq RunningIn(items)
  <2>1. [f EXCEPT ![i] = r] \in Files
    BY <1>1 DEF Files
  <2>2. RunningIn([f EXCEPT ![i] = r]) \subseteq RunningIn(f)
    BY <1>1, <1>2 DEF RunningIn, Files
  <2> QED
    BY <1>1, <1>2, <2>1, <2>2, ReleaseRunning DEF Release
<1>3. CASE DeleteItem(i)
  <2>1. Absent \in Record /\ Absent.st # "running"
    BY FreshType DEF Absent, Fresh
  <2> QED
    BY <1>2, <1>3, <2>1 DEF DeleteItem, Edit
<1>4. CASE AddItem(i)
  <2>1. Fresh \in Record /\ Fresh.st # "running"
    BY FreshType DEF Fresh
  <2> QED
    BY <1>2, <1>4, <2>1 DEF AddItem, Edit
<1>5. CASE FixRetry(i)
  <2>1. Retried(f[i]) \in Record /\ Retried(f[i]).st # "running"
    <3>1. f[i].fixes + 1 \in Nat /\ "todo" \in Status
      BY <1>1 DEF Record, Status
    <3> QED
      BY <1>1, <3>1, NoReportType DEF Record, Retried
  <2>2. items' = Release([f EXCEPT ![i] = Retried(f[i])])
    BY <1>5 DEF FixRetry, Edit
  <2> QED
    BY <1>2, <1>5, <2>1, <2>2 DEF FixRetry, Edit
<1>6. CASE FixSkip(i)
  <2> DEFINE r == [f[i] EXCEPT !.st = "skipped", !.err = "other"]
  <2>1. r \in Record /\ r.st # "running"
    BY <1>1 DEF Record, Status, Error
  <2>2. items' = Release([f EXCEPT ![i] = r])
    BY <1>6 DEF FixSkip, Edit
  <2> QED
    BY <1>2, <1>6, <2>1, <2>2 DEF FixSkip, Edit
<1>7. CASE FixAccept(i)
  <2> DEFINE p == [s |-> "done", text |-> "other", late |-> FALSE]
             r == [f[i] EXCEPT !.st = "done", !.err = "none", !.rep = p]
  <2>1. r \in Record /\ r.st # "running"
    <3>1. p \in Report /\ "done" \in Status /\ "none" \in Error
      BY DEF Report, ReportStatus, Status, Error
    <3> QED
      BY <1>1, <3>1 DEF Record
  <2>2. items' = Release([f EXCEPT ![i] = r])
    BY <1>7 DEF FixAccept, Edit
  <2>3. pstat' = pstat \/ (pstat = "failed" /\ run # "driving")
    BY <1>7 DEF FixAccept
  <2> QED
    BY <1>2, <1>7, <2>1, <2>2, <2>3 DEF FixAccept, Edit
<1>8. CASE FixSoften(i)
  <2>1. RunningIn(ReleaseWith(f, soft')) = RunningIn(f)
    BY <1>1, ReleaseRunning
  <2> QED
    BY <1>1, <1>8, <2>1 DEF FixSoften, memory
<1>9. ASSUME NEW s \in OperatorStatus, SetStatus(i, s) PROVE Goal
  <2> DEFINE r == IF s = "todo"
                    THEN [f[i] EXCEPT !.st = s, !.rep = NoReport, !.err = "none"]
                    ELSE [f[i] EXCEPT !.st = s]
  <2>1. r \in Record /\ r.st # "running"
    <3>1. s \in Status /\ s # "running" /\ "none" \in Error
      BY DEF OperatorStatus, Status, Error
    <3> QED
      BY <1>1, <3>1, NoReportType DEF Record
  <2>2. items' = Release([f EXCEPT ![i] = r])
    BY <1>9 DEF SetStatus, Edit
  <2> QED
    BY <1>2, <1>9, <2>1, <2>2 DEF SetStatus, Edit
<1> QED
  BY <1>3, <1>4, <1>5, <1>6, <1>7, <1>8, <1>9 DEF Editor

LEMMA EditorOrphan ==
  ASSUME TypeOK, NoOrphan, NEW i \in Item, Editor(i)
  PROVE  NoOrphan'
<1>1. Tasks' = Tasks
  BY EditorStep DEF Tasks
<1> QED
  BY <1>1, EditorStep DEF NoOrphan, RunningIn

LEMMA NextOrphan == TypeOK /\ NoOrphan /\ [Next]_vars => NoOrphan'
<1> SUFFICES ASSUME TypeOK, NoOrphan, [Next]_vars PROVE NoOrphan'
  OBVIOUS
<1>1. CASE UNCHANGED vars
  BY <1>1 DEF vars, file, memory, NoOrphan, Tasks
<1>2. ASSUME NEW broke \in BOOLEAN, Tick(broke) PROVE NoOrphan'
  BY <1>2, TickOrphan
<1>3. CASE Runner
  BY <1>3, RunnerOrphan
<1>4. CASE SpendTokens
  BY <1>4 DEF SpendTokens, file, memory, NoOrphan, Tasks
<1>5. ASSUME NEW i \in Item, Attempt(i) PROVE NoOrphan'
  BY <1>5, AttemptOrphan
<1>6. ASSUME NEW i \in Item, Editor(i) PROVE NoOrphan'
  BY <1>6, EditorOrphan
<1> QED
  BY <1>1, <1>2, <1>3, <1>4, <1>5, <1>6 DEF Next

LEMMA InitOrphan == Init => NoOrphan
BY DEF Init, NoOrphan, Fresh, Absent

(***************************************************************************)
(* What the file calls running is attended to by the live drive, or is      *)
(* visibly what an interrupted run left behind: the drive never waits for   *)
(* an attempt nobody makes.                                                *)
(***************************************************************************)
THEOREM RunningIsAttended == Spec => []NoOrphan
BY InitType, NextType, InitOrphan, NextOrphan, PTL DEF Spec
=============================================================================
