---------------------------- MODULE PlanTickProofs ---------------------------
(***************************************************************************)
(* What a tick of the runner starts: never too much, never too little,      *)
(* nothing too early, and nothing past the checkpoint - and so no item more *)
(* often than it may be tried.                                             *)
(***************************************************************************)
EXTENDS PlanRunProofs, WellFoundedInduction

\* The least of a set of items.
LEMMA LeastItem ==
  ASSUME NEW T \in SUBSET Item, T # {}
  PROVE  \E m \in T : \A i \in T : m <= i
<1> DEFINE R == OpToRel(<, Nat)
<1>1. T \subseteq Nat
  BY ConstantsAssumption DEF Item
<1>2. IsWellFoundedOn(R, Nat)
  BY NatLessThanWellFounded
<1>3. \A x, y \in Nat : x < y => <<x, y>> \in R
  BY DEF OpToRel
<1> HIDE DEF R
<1>4. PICK m \in T : \A i \in T : ~ (<<i, m>> \in R)
  BY <1>1, <1>2, WFMin
<1>5. ASSUME NEW i \in T PROVE m <= i
  <2>1. i \in Nat /\ m \in Nat
    BY <1>1
  <2>2. ~(i < m)
    BY <1>3, <1>4, <2>1, Zenon
  <2> QED
    BY <2>1, <2>2
<1> QED
  BY <1>5

\* Taking the first k of some items takes k at most, and fewer only if that is all of them.
LEMMA FirstOfFacts ==
  ASSUME NEW T \in SUBSET Item, NEW k \in Int
  PROVE  /\ FirstOf(k, T) \subseteq T
         /\ k <= 0 => FirstOf(k, T) = {}
         /\ k >= 0 => Cardinality(FirstOf(k, T)) <= k
         /\ k >= 0 => FirstOf(k, T) = T \/ Cardinality(FirstOf(k, T)) = k
<1> DEFINE F == FirstOf(k, T)
           Before(i) == {j \in T : j < i}
<1>1. F \subseteq T /\ \A i \in T : i \in F <=> Cardinality(Before(i)) < k
  BY DEF FirstOf
<1>2. \A S \in SUBSET T : IsFiniteSet(S) /\ Cardinality(S) \in Nat
  BY ItemSetsFinite
<1>3. N \in Nat /\ \A i \in Item : i \in Nat /\ 1 <= i /\ i <= N
  BY ConstantsAssumption DEF Item
<1>4. \A i \in T : Before(i) \subseteq T /\ \A j \in T : j \in Before(i) <=> j < i
  OBVIOUS
<1> HIDE DEF F, Before
<1>5. ASSUME k <= 0 PROVE F = {}
  <2>1. ASSUME NEW i \in F PROVE FALSE
    <3>1. Cardinality(Before(i)) < k /\ Cardinality(Before(i)) \in Nat
      BY <1>1, <1>2, <1>4, <2>1
    <3> QED
      BY <1>5, <3>1
  <2> QED
    BY <2>1
<1>6. ASSUME k >= 0 PROVE Cardinality(F) <= k
  <2>1. CASE F = {}
    BY <1>6, <2>1, FS_EmptySet
  <2>2. CASE F # {}
    <3>1. PICK m \in F : \A i \in F : i <= m
      <4> DEFINE U == {i \in Item : \A x \in F : x <= i}
      <4>0. \A x \in F : x \in Item /\ x \in Nat /\ 1 <= x /\ x <= N
        BY <1>1, <1>3
      <4>1. N \in Item
        BY <1>3, <2>2, <4>0 DEF Item
      <4>2. U \subseteq Item /\ N \in U
        BY <4>0, <4>1
      <4>3. PICK m \in U : \A i \in U : m <= i
        BY <4>2, LeastItem
      <4>4. m \in Item /\ m \in Nat /\ \A x \in F : x <= m
        BY <1>3, <4>3
      <4>5. m \in F
        <5> SUFFICES ASSUME m \notin F PROVE FALSE
          OBVIOUS
        <5>1. \A x \in F : x <= m - 1
          BY <4>0, <4>4
        <5>2. m - 1 \in Item
          BY <1>3, <2>2, <4>0, <4>4, <5>1 DEF Item
        <5>3. m - 1 \in U
          BY <5>1, <5>2
        <5> QED
          BY <4>3, <4>4, <5>3
      <4> QED
        BY <4>4, <4>5
    <3>2. F \ {m} \subseteq Before(m)
      <4>1. \A x \in F : x \in T /\ x \in Nat /\ m \in T /\ m \in Nat
        BY <1>1, <1>3, <3>1
      <4>2. \A x \in F \ {m} : x < m
        BY <3>1, <4>1
      <4> QED
        BY <1>4, <4>1, <4>2
    <3>3. m \in T /\ IsFiniteSet(Before(m)) /\ IsFiniteSet(F)
      BY <1>1, <1>2, <1>4, <3>1
    <3>4. Cardinality(F \ {m}) <= Cardinality(Before(m))
      BY <3>2, <3>3, FS_Subset
    <3>5. Cardinality(F \ {m}) = Cardinality(F) - 1
      BY <3>1, <3>3, FS_RemoveElement
    <3>6. Cardinality(Before(m)) < k /\ Cardinality(Before(m)) \in Nat /\ Cardinality(F) \in Nat
      BY <1>1, <1>2, <1>4, <3>1
    <3> QED
      BY <3>4, <3>5, <3>6
  <2> QED
    BY <2>1, <2>2
<1>7. ASSUME k >= 0, F # T PROVE Cardinality(F) = k
  <2>1. PICK m \in T \ F : \A i \in T \ F : m <= i
    BY <1>1, <1>7, LeastItem
  <2>2. Before(m) \subseteq F
    <3>1. \A x \in Before(m) : x \in T /\ x \in Nat /\ m \in Nat /\ x < m
      BY <1>3, <1>4, <2>1
    <3>2. \A x \in Before(m) : ~(m <= x)
      BY <3>1
    <3> QED
      BY <2>1, <3>1, <3>2
  <2>3. Cardinality(Before(m)) >= k
    BY <1>1, <1>2, <1>4, <2>1
  <2>4. Cardinality(Before(m)) <= Cardinality(F)
    BY <1>1, <1>2, <2>2, FS_Subset
  <2>5. Cardinality(F) \in Nat /\ Cardinality(Before(m)) \in Nat
    BY <1>1, <1>2, <1>4, <2>1
  <2> QED
    BY <1>6, <1>7, <2>3, <2>4, <2>5
<1> QED
  BY <1>1, <1>5, <1>6, <1>7 DEF F

-----------------------------------------------------------------------------
\* What a tick keeps of the attempts is made of items and attempts.
LEMMA KeptTypes ==
  /\ Tasks \subseteq Item /\ Kept \subseteq Tasks /\ Open \subseteq Kept /\ Ended \subseteq Kept
  /\ Stalled \subseteq Kept /\ Nudgeable \subseteq Open /\ \A i \in Kept : items[i].st = "running"
BY DEF Tasks, Kept, Open, Ended, Stalled, Nudgeable, Quiet

\* An attempt that goes on is of an item that is still running when all the rest is dealt with.
LEMMA OpenRuns ==
  ASSUME TypeOK, NEW broke \in BOOLEAN, NEW i \in Open
  PROVE  Swept(broke)[i].st = "running"
<1> DEFINE f == Release(items)
           g == Settled1(broke)
           h == Propagate(g)
<1>1. f \in Files /\ g \in Files /\ h \in Files
  BY ReleaseType, Settled1Type, PropagateType DEF TypeOK, Files, Release
<1>2. i \in Item /\ items[i].st = "running" /\ i \notin Ended /\ i \notin Stalled
  BY KeptTypes DEF Open
<1>3. RunningIn(f) = RunningIn(items)
  BY ReleaseRunning DEF TypeOK, Files, Release
<1>4. g[i].st = "running"
  BY <1>2, <1>3 DEF Settled1, RunningIn
<1>5. RunningIn(h) = RunningIn(g)
  BY <1>1, PropagateRunning
<1>6. h[i].st = "running"
  BY <1>2, <1>4, <1>5 DEF RunningIn
<1> QED
  BY <1>2, <1>6 DEF Swept, GiveUp

\* What a tick starts: items that are ready, at most the idle slots and what the cap leaves.
LEMMA TickStarts ==
  ASSUME TypeOK, NEW broke \in BOOLEAN, Tick(broke)
  PROVE  LET f == Swept(broke)
             S == Spawning(f, broke)
         IN /\ f \in Files /\ S \in SUBSET Item /\ S \subseteq ReadyIn(f) /\ S \cap Open = {}
            /\ Tasks' = Open \cup S
            /\ spawned' = spawned + Cardinality(S)
            /\ Cardinality(S) \in Nat /\ Cardinality(Open) \in Nat /\ Room \in Int
            /\ Cardinality(Open \cup S) = Cardinality(Open) + Cardinality(S)
            /\ \A i \in Item : task'[i].pc = "opening" /\ i \notin S => i \in Open /\ task[i].pc = "opening"
<1> DEFINE f == Swept(broke)
           S == Spawning(f, broke)
<1>1. f \in Files /\ S \in SUBSET Item /\ S \subseteq ReadyIn(f)
  BY SweptType, SpawningSubset, ReadySubset
<1>2. S \cap Open = {}
  BY <1>1, OpenRuns, ReadySubset
<1>3. task' = TaskAfter(S) /\ spawned' = spawned + Cardinality(S)
  BY DEF Tick
<1> HIDE DEF S, f
<1>4. ASSUME NEW i \in Item
      PROVE  /\ task'[i].pc # "none" <=> i \in Open \cup S
             /\ task'[i].pc = "opening" /\ i \notin S => i \in Open /\ task[i].pc = "opening"
  <2>1. task[i] \in Task
    BY DEF TypeOK
  <2>2. i \in Open => task[i].pc # "none"
    BY KeptTypes DEF Tasks
  <2>3. CASE i \in S
    BY <1>3, <2>3 DEF TaskAfter, NewTask, NoTask
  <2>4. CASE i \notin S /\ i \in Nudgeable
    <3>1. task'[i] = [task[i] EXCEPT !.nudged = TRUE, !.quiet = FALSE]
      BY <1>3, <2>4 DEF TaskAfter
    <3>2. task'[i].pc = task[i].pc
      BY <2>1, <3>1 DEF Task
    <3> QED
      BY <2>2, <2>4, <3>2, KeptTypes
  <2>5. CASE i \notin S /\ i \notin Nudgeable /\ i \in Open
    BY <1>3, <2>2, <2>5 DEF TaskAfter
  <2>6. CASE i \notin S /\ i \notin Open
    BY <1>3, <2>6, KeptTypes DEF TaskAfter, NoTask
  <2> QED
    BY <2>3, <2>4, <2>5, <2>6
<1>5. Open \in SUBSET Item
  BY KeptTypes
<1>6. Tasks' = Open \cup S
  BY <1>1, <1>4, <1>5 DEF Tasks
<1>7. /\ IsFiniteSet(S) /\ Cardinality(S) \in Nat
      /\ IsFiniteSet(Open) /\ Cardinality(Open) \in Nat
  BY <1>1, <1>5, ItemSetsFinite
<1>8. Cardinality(Open \cup S) = Cardinality(Open) + Cardinality(S)
  <2>1. Cardinality(Open \cup S) = Cardinality(Open) + Cardinality(S) - Cardinality(Open \cap S)
    BY <1>7, FS_Union
  <2> QED
    BY <1>2, <1>7, <2>1, FS_EmptySet
<1>9. Room \in Int
  BY <1>7, ConstantsAssumption DEF Room, Smaller, TypeOK
<1> QED
  BY <1>1, <1>2, <1>3, <1>4, <1>6, <1>7, <1>8, <1>9 DEF f, S

(***************************************************************************)
(* Within the caps.                                                        *)
(***************************************************************************)

\* A tick keeps within both caps.
LEMMA TickCaps ==
  ASSUME TypeOK, WithinCaps, NEW broke \in BOOLEAN, Tick(broke)
  PROVE  WithinCaps'
<1> DEFINE f == Swept(broke)
           S == Spawning(f, broke)
<1>1. /\ S \in SUBSET Item /\ Tasks' = Open \cup S /\ spawned' = spawned + Cardinality(S)
      /\ Cardinality(S) \in Nat /\ Cardinality(Open) \in Nat /\ Room \in Int
      /\ Cardinality(Open \cup S) = Cardinality(Open) + Cardinality(S)
  BY TickStarts
<1>2. spawned \in Nat /\ MaxSpawns \in Nat /\ MaxConcurrent \in Nat
  BY ConstantsAssumption DEF TypeOK
<1>3. Cardinality(Open) <= MaxConcurrent
  <2>1. Tasks \in SUBSET Item /\ Open \subseteq Tasks
    BY KeptTypes
  <2>2. Cardinality(Open) <= Cardinality(Tasks) /\ Cardinality(Tasks) \in Nat
    BY <2>1, ItemSetsFinite, FS_Subset
  <2> QED
    BY <1>1, <1>2, <2>2 DEF WithinCaps
<1>4. Room <= MaxConcurrent - Cardinality(Open) /\ Room <= MaxSpawns - spawned /\ 0 <= Room
  BY <1>1, <1>2, <1>3 DEF Room, Smaller, WithinCaps
<1>5. Cardinality(S) <= Room
  <2>1. ReadyIn(f) \in SUBSET Item
    BY ReadySubset
  <2>2. Cardinality(FirstOf(Room, ReadyIn(f))) <= Room
    BY <1>1, <1>4, <2>1, FirstOfFacts
  <2> QED
    BY <1>4, <2>2, FS_EmptySet DEF Spawning
<1>6. run' = "driving" \/ Open \cup S = {}
  BY DEF Tick, TickOn, TickPause, TickEnd, Over, Idling
<1> QED
  BY <1>1, <1>2, <1>4, <1>5, <1>6 DEF WithinCaps

\* The runner's other steps start nothing.
LEMMA RunnerCaps ==
  ASSUME TypeOK, WithinCaps, Runner
  PROVE  WithinCaps'
<1>0. /\ MaxSpawns \in Nat /\ MaxConcurrent \in Nat /\ 0 <= MaxSpawns /\ 0 <= MaxConcurrent
      /\ Cardinality({}) = 0
  BY ConstantsAssumption, FS_EmptySet
<1>1. CASE Start \/ ResumeNothing \/ AbandonStart \/ EndEarly \/ StopClosing
  <2>1. UNCHANGED <<task, spawned>> /\ run # "driving" /\ run' # "driving"
    BY <1>1 DEF Start, ResumeNothing, AbandonStart, EndEarly, StopClosing, memory
  <2>2. Tasks' = Tasks
    BY <2>1 DEF Tasks
  <2> QED
    BY <2>1, <2>2 DEF WithinCaps
<1>2. CASE BeginDrive \/ Unwind \/ Crash
  <2>1. Tasks' = {}
    BY <1>2 DEF BeginDrive, Unwind, Crash, Tasks, NoTask
  <2>2. spawned' \in {0, spawned}
    BY <1>2 DEF BeginDrive, Unwind, Crash, Forget
  <2> QED
    BY <1>0, <2>1, <2>2 DEF WithinCaps
<1>3. CASE Close \/ CloseUnsaved
  <2>1. Tasks' = Tasks /\ Tasks = {} /\ spawned' = 0
    BY <1>3 DEF Close, CloseUnsaved, Forget, Tasks, WithinCaps
  <2> QED
    BY <1>0, <2>1 DEF WithinCaps
<1> QED
  BY <1>1, <1>2, <1>3 DEF Runner

\* An attempt's own steps, and an edit, leave the set of tasks and the run as they are.
LEMMA AttemptTasks ==
  ASSUME TypeOK, NEW i \in Item, Attempt(i) \/ Editor(i)
  PROVE  Tasks' = Tasks /\ UNCHANGED <<run, spawned>>
<1>0. \A j \in Item : task[j] \in Task
  BY DEF TypeOK
<1>1. CASE OpenConversation(i) \/ FallQuiet(i)
  BY <1>0, <1>1 DEF OpenConversation, FallQuiet, Tasks, Task, TypeOK
<1>2. CASE \E e \in Endings : EndAttempt(i, e)
  BY <1>0, <1>2 DEF EndAttempt, Tasks, Task, TypeOK
<1>3. CASE ZombieGone(i) \/ \E s \in ReportStatus, x \in Texts : PlanReport(i, s, x)
  BY <1>3 DEF ZombieGone, PlanReport, Tasks, memory
<1>4. CASE Editor(i)
  <2>1. UNCHANGED <<run, task, spawned>>
    BY <1>4 DEF Editor, DeleteItem, AddItem, FixRetry, FixSkip, FixAccept, FixSoften, SetStatus,
                Edit, memory
  <2> QED
    BY <2>1 DEF Tasks
<1> QED
  BY <1>1, <1>2, <1>3, <1>4 DEF Attempt

\* No run, no attempt.
LEMMA InitCaps == Init => WithinCaps
<1>1. Init => Tasks = {} /\ spawned = 0
  BY DEF Init, Tasks, NoTask
<1> QED
  BY <1>1, FS_EmptySet, ConstantsAssumption DEF WithinCaps

\* Every step keeps within both caps.
LEMMA NextCaps == TypeOK /\ WithinCaps /\ [Next]_vars => WithinCaps'
<1> SUFFICES ASSUME TypeOK, WithinCaps, [Next]_vars PROVE WithinCaps'
  OBVIOUS
<1>1. ASSUME Tasks' = Tasks, UNCHANGED <<run, spawned>> PROVE WithinCaps'
  BY <1>1 DEF WithinCaps
<1>2. CASE UNCHANGED vars \/ SpendTokens
  <2>1. UNCHANGED <<run, task, spawned>>
    BY <1>2 DEF vars, memory, SpendTokens
  <2> QED
    BY <1>1, <2>1 DEF Tasks
<1> QED
  BY <1>1, <1>2, TickCaps, RunnerCaps, AttemptTasks DEF Next

(***************************************************************************)
(* Never more attempts at once than the plan allows, and none without a     *)
(* live drive: the slots that settled and silent attempts give back within  *)
(* a tick are counted once.                                                *)
(***************************************************************************)
THEOREM CapsAreKept == Spec => []WithinCaps
BY InitCaps, NextCaps, TypeCorrect, PTL DEF Spec

-----------------------------------------------------------------------------
(***************************************************************************)
(* Past the checkpoint nothing starts.                                     *)
(***************************************************************************)

\* Only a tick starts anything.
LEMMA OnlyTicksStart ==
  ASSUME TypeOK, Next, ~(\E broke \in BOOLEAN : Tick(broke))
  PROVE  spawned' <= spawned
<1>1. spawned \in Nat
  BY DEF TypeOK
<1>2. CASE Runner
  <2>1. spawned' = spawned \/ spawned' = 0
    BY <1>2 DEF Runner, Start, ResumeNothing, AbandonStart, EndEarly, BeginDrive, Unwind,
                StopClosing, Close, CloseUnsaved, Crash, Forget, memory
  <2> QED
    BY <1>1, <2>1
<1>3. CASE SpendTokens
  BY <1>1, <1>3 DEF SpendTokens, memory
<1>4. ASSUME NEW i \in Item, Attempt(i) \/ Editor(i) PROVE spawned' <= spawned
  BY <1>1, <1>4, AttemptTasks
<1> QED
  BY <1>2, <1>3, <1>4 DEF Next

\* A plan that says paused has no drive: only an operator's start takes the word away first.
PausedIsOver ==
  pstat = "paused" => run = "idle" \/ (run = "closing" /\ outcome \in {"paused", "stopped"})

\* An attempt's own steps and an edit leave alone what a pause is known by.
LEMMA AttemptHeld ==
  ASSUME TypeOK, NEW i \in Item, Attempt(i) \/ Editor(i)
  PROVE  /\ UNCHANGED <<run, outcome, past, pausing, spent>>
         /\ pstat' = pstat \/ (pstat = "failed" /\ pstat' = "done")
<1>1. CASE Attempt(i)
  BY <1>1 DEF Attempt, OpenConversation, FallQuiet, EndAttempt, ZombieGone, PlanReport, memory, file
<1>2. CASE Editor(i)
  BY <1>2 DEF Editor, DeleteItem, AddItem, FixRetry, FixSkip, FixAccept, FixSoften, SetStatus,
              Edit, memory
<1> QED
  BY <1>1, <1>2

LEMMA NextPausedIsOver == TypeOK /\ PausedIsOver /\ [Next]_vars => PausedIsOver'
<1> SUFFICES ASSUME TypeOK, PausedIsOver, [Next]_vars PROVE PausedIsOver'
  OBVIOUS
<1>1. CASE UNCHANGED vars \/ SpendTokens
  BY <1>1 DEF vars, SpendTokens, memory, file, PausedIsOver
<1>2. ASSUME NEW broke \in BOOLEAN, Tick(broke) PROVE PausedIsOver'
  BY <1>2 DEF Tick, TickOn, TickPause, TickEnd, PausedIsOver
<1>3. CASE Start \/ ResumeNothing \/ AbandonStart \/ EndEarly \/ BeginDrive
  BY <1>3 DEF Start, ResumeNothing, AbandonStart, EndEarly, BeginDrive, memory, file, PausedIsOver
<1>4. CASE Unwind \/ StopClosing \/ Close \/ CloseUnsaved \/ Crash
  BY <1>4 DEF Unwind, StopClosing, Close, CloseUnsaved, Crash, Forget, file, PausedIsOver
<1>5. ASSUME NEW i \in Item, Attempt(i) \/ Editor(i) PROVE PausedIsOver'
  BY <1>5, AttemptHeld DEF PausedIsOver
<1> QED
  BY <1>1, <1>2, <1>3, <1>4, <1>5 DEF Next, Runner

\* A tick on a held plan starts nothing, and what it was held by it keeps or writes down.
LEMMA TickHeld ==
  ASSUME TypeOK, PausedIsOver, NEW broke \in BOOLEAN, Tick(broke), Held
  PROVE  spawned' <= spawned /\ Held'
<1>1. Pause(broke) /\ run = "driving"
  BY DEF Tick, Held, Pause, PausedIsOver
<1>2. Spawning(Swept(broke), broke) = {}
  BY <1>1 DEF Spawning
<1>3. spawned' = spawned + Cardinality({}) /\ spawned \in Nat
  BY <1>2, TickStarts DEF TypeOK
<1>4. pausing' /\ (run' = "driving" \/ pstat' = "paused")
  BY <1>1 DEF Tick, TickOn, TickPause, TickEnd
<1> QED
  BY <1>3, <1>4, FS_EmptySet DEF Held

\* What the runner's other steps do to a held plan.
LEMMA RunnerHeld ==
  ASSUME TypeOK, PausedIsOver, Runner, Held
  PROVE  Held' \/ Resumed \/ PauseLost
<1>1. CASE Start \/ ResumeNothing
  BY <1>1 DEF Start, ResumeNothing, memory, Held, Resumed
<1>2. CASE AbandonStart \/ EndEarly \/ BeginDrive
  BY <1>2 DEF AbandonStart, EndEarly, BeginDrive, memory, file, Held, PausedIsOver
<1>3. CASE Unwind \/ StopClosing
  BY <1>3 DEF Unwind, StopClosing, file, Held, PauseLost, PausedIsOver
<1>4. CASE Close
  BY <1>4 DEF Close, Forget, StatusOf, Held, PauseLost, PausedIsOver
<1>5. CASE CloseUnsaved \/ Crash
  BY <1>5 DEF CloseUnsaved, Crash, Forget, file, Held, PauseLost, PausedIsOver
<1> QED
  BY <1>1, <1>2, <1>3, <1>4, <1>5 DEF Runner

(***************************************************************************)
(* Once the tokens have reached the checkpoint, or the drive or the file    *)
(* says pause, no attempt starts until the operator resumes, whatever is    *)
(* edited, stopped, crashed or relaunched - but for a pause that was lost   *)
(* with the run that was cut short before the file's token count told of it.*)
(***************************************************************************)
THEOREM PausedMeansPaused == Spec => PausingStartsNothing
<1> DEFINE A == Held => spawned' <= spawned /\ (Held' \/ Resumed \/ PauseLost)
<1>1. Init => PausedIsOver
  BY DEF Init, PausedIsOver
<1>2. TypeOK /\ PausedIsOver /\ [Next]_vars => [A]_vars
  <2> SUFFICES ASSUME TypeOK, PausedIsOver, Next, Held
               PROVE  spawned' <= spawned /\ (Held' \/ Resumed \/ PauseLost)
    OBVIOUS
  <2>1. CASE \E broke \in BOOLEAN : Tick(broke)
    BY <2>1, TickHeld
  <2>2. CASE ~(\E broke \in BOOLEAN : Tick(broke))
    <3>1. spawned' <= spawned
      BY <2>2, OnlyTicksStart
    <3>2. ASSUME SpendTokens PROVE Held'
      BY <3>2 DEF SpendTokens, file, Held
    <3>3. ASSUME NEW i \in Item, Attempt(i) \/ Editor(i) PROVE Held'
      BY <3>3, AttemptHeld DEF Held
    <3> QED
      BY <2>2, <3>1, <3>2, <3>3, RunnerHeld DEF Next
  <2> QED
    BY <2>1, <2>2
<1> QED
  BY <1>1, <1>2, NextPausedIsOver, TypeCorrect, PTL DEF Spec, PausingStartsNothing

-----------------------------------------------------------------------------
(***************************************************************************)
(* Nothing starts early, and no slot is left idle.                         *)
(***************************************************************************)

\* Nothing is added to the file or taken from it by what comes before the spawning.
LEMMA SweptAbsent ==
  ASSUME TypeOK, NEW broke \in BOOLEAN
  PROVE  \A i \in Item : Swept(broke)[i].st = "absent" <=> items[i].st = "absent"
<1> DEFINE f == Release(items)
           g == Settled1(broke)
           h == Propagate(g)
<1>1. f \in Files /\ g \in Files /\ h \in Files
  BY ReleaseType, Settled1Type, PropagateType DEF TypeOK, Files, Release
<1>2. \A i \in Item : f[i].st = "absent" <=> items[i].st = "absent"
  BY DEF Release, ReleaseWith, Released, Marked, TypeOK, Record
<1>3. \A i \in Item : g[i].st = "absent" <=> f[i].st = "absent"
  <2>1. ASSUME NEW i \in Ended PROVE g[i].st # "absent" /\ f[i].st # "absent"
    <3>1. f[i] \in Record /\ task[i].out \in Ending /\ i \in Item /\ items[i].st = "running"
      BY <1>1, KeptTypes DEF Files, TypeOK, Task
    <3>2. Verdict(f[i], task[i].out) # "absent"
      BY <3>1 DEF Verdict, Record, Report, Ending, ReportStatus
    <3>3. Settle(f[i], task[i].out, broke).st # "absent"
      BY <3>1, <3>2 DEF Settle, HandedBack, Judged, Record
    <3> QED
      BY <1>2, <3>1, <3>3 DEF Settled1
  <2> QED
    BY <2>1 DEF Settled1
<1>4. \A i \in Item : h[i].st = "absent" <=> g[i].st = "absent"
  <2>1. \A i \in NewlyBlocked(StOf(g), Hard(g, soft)) : g[i].st = "todo"
    BY <1>1, HardType, NewlyBlockedFacts DEF StOf
  <2> QED
    BY <1>1, <2>1 DEF Propagate, Files, Record
<1>5. \A i \in Item : GiveUp(h)[i].st = "absent" <=> h[i].st = "absent"
  <2>1. ASSUME NEW i \in Stalled PROVE GiveUp(h)[i].st # "absent" /\ h[i].st # "absent"
    <3>1. i \in Item /\ items[i].st = "running" /\ h[i] \in Record
      BY <1>1, KeptTypes DEF Files
    <3>2. GiveUp(h)[i].st # "absent"
      BY <2>1, <3>1 DEF GiveUp, Stall, Record
    <3> QED
      BY <1>2, <1>3, <1>4, <3>1, <3>2
  <2> QED
    BY <2>1 DEF GiveUp
<1> QED
  BY <1>2, <1>3, <1>4, <1>5 DEF Swept

\* What the spawning makes of the file: what it starts is running, nothing else changes.
LEMMA LaunchedIs ==
  ASSUME NEW f \in Files, NEW S \in SUBSET Item
  PROVE  \A i \in Item : /\ i \in S => Launched(f, S)[i].st = "running"
                         /\ i \notin S => Launched(f, S)[i] = f[i]
BY DEF Launched, Dispatch, Files, Record

\* Dependencies are on what is in the file, before a tick as after it.
LEMMA SameDeps ==
  ASSUME NEW f \in Files, NEW g \in Files,
         \A i \in Item : f[i].st = "absent" <=> g[i].st = "absent"
  PROVE  \A sf : Hard(f, sf) = Hard(g, sf) /\ Soft(f, sf) = Soft(g, sf)
<1>1. \A i \in Item : DepOf(f, i) = DepOf(g, i)
  BY ConstantsAssumption DEF DepOf
<1> QED
  BY <1>1 DEF Hard, Soft

\* A dependency is an item of the file.
LEMMA DepsAreItems ==
  ASSUME NEW f, NEW sf, NEW i \in Item
  PROVE  Hard(f, sf)[i] \subseteq Item /\ Soft(f, sf)[i] \subseteq Item
BY ConstantsAssumption DEF Hard, Soft, DepOf

(***************************************************************************)
(* An attempt starts only when its hard dependencies are done or skipped    *)
(* and its soft ones have settled: on the file as the same tick leaves it,  *)
(* a retry and a re-spawn included.                                        *)
(***************************************************************************)
THEOREM NothingEarly == Spec => ReadyOnly
<1> DEFINE A == \A i \in Item :
       spawned' > spawned /\ task'[i].pc = "opening" /\ (task[i].pc # "opening" \/ i \in Stalled)
         => /\ \A d \in Hard(items, soft)[i] : items'[d].st \in Settled
            /\ \A d \in Soft(items, soft)[i] : items'[d].st \in SoftSettled
<1>1. TypeOK /\ [Next]_vars => [A]_vars
  <2> SUFFICES ASSUME TypeOK, Next, NEW i \in Item, spawned' > spawned, task'[i].pc = "opening",
                      task[i].pc # "opening" \/ i \in Stalled
               PROVE  /\ \A d \in Hard(items, soft)[i] : items'[d].st \in Settled
                      /\ \A d \in Soft(items, soft)[i] : items'[d].st \in SoftSettled
    OBVIOUS
  <2>1. PICK broke \in BOOLEAN : Tick(broke)
    <3>1. spawned \in Nat /\ spawned' \in Nat
      BY NextType DEF TypeOK
    <3>2. ~(spawned' <= spawned)
      BY <3>1
    <3> QED
      BY <3>2, OnlyTicksStart
  <2> DEFINE f == Swept(broke)
             S == Spawning(f, broke)
             g == Launched(f, S)
  <2>2. /\ f \in Files /\ S \in SUBSET Item /\ S \subseteq ReadyIn(f)
        /\ task'[i].pc = "opening" /\ i \notin S => i \in Open /\ task[i].pc = "opening"
    BY <2>1, TickStarts
  <2>3. i \in S
    BY <2>2 DEF Open
  <2>4. g \in Files /\ items' = g
    <3>1. items' \in {g, Final(g, S)} /\ (items' = g \/ Idling(S))
      BY <2>1 DEF Tick, TickOn, TickPause, TickEnd, Over
    <3> QED
      BY <2>2, <2>3, <3>1, LaunchedType DEF Idling
  <2>5. Hard(items, soft) = Hard(f, soft) /\ Soft(items, soft) = Soft(f, soft)
    BY <2>2, SweptAbsent, SameDeps DEF TypeOK, Files
  <2>6. /\ \A d \in Hard(f, soft)[i] : d \in Item /\ f[d].st \in Settled
        /\ \A d \in Soft(f, soft)[i] : d \in Item /\ f[d].st \in SoftSettled
    BY <2>2, <2>3, DepsAreItems DEF ReadyIn, Ready, StOf
  <2>7. \A d \in Item : f[d].st \in SoftSettled => items'[d] = f[d]
    <3>1. \A d \in S : f[d].st = "todo"
      BY <2>2, ReadySubset
    <3>2. \A d \in Item : d \notin S => g[d] = f[d]
      BY <2>2, LaunchedIs
    <3> QED
      BY <2>4, <3>1, <3>2 DEF SoftSettled, Settled
  <2> QED
    BY <2>5, <2>6, <2>7 DEF SoftSettled
<1> QED
  BY <1>1, TypeCorrect, PTL DEF Spec, ReadyOnly

\* Starting all that is ready makes nothing else ready.
LEMMA NoneReadyLeft ==
  ASSUME NEW f \in Files, NEW S \in SUBSET Item, S = ReadyIn(f)
  PROVE  ReadyIn(Launched(f, S)) = {}
<1> DEFINE g == Launched(f, S)
<1>1. /\ g \in Files
      /\ \A i \in S : g[i].st = "running"
      /\ \A i \in Item : i \notin S => g[i] = f[i]
  BY LaunchedType, LaunchedIs
<1> HIDE DEF g
<1>2. \A i \in S : f[i].st = "todo"
  BY ReadySubset
<1>3. \A i \in Item : f[i].st = "absent" <=> g[i].st = "absent"
  <2>1. ASSUME NEW i \in Item, i \in S PROVE f[i].st # "absent" /\ g[i].st # "absent"
    BY <1>1, <1>2, <2>1
  <2>2. ASSUME NEW i \in Item, i \notin S PROVE f[i].st = g[i].st
    BY <1>1, <2>2
  <2> QED
    BY <2>1, <2>2
<1>4. Hard(f, soft) = Hard(g, soft) /\ Soft(f, soft) = Soft(g, soft)
  BY <1>1, <1>3, SameDeps
<1>5. ASSUME NEW d \in Item, g[d].st \in SoftSettled PROVE f[d].st = g[d].st
  <2>1. d \notin S
    BY <1>1, <1>5 DEF SoftSettled, Settled
  <2> QED
    BY <1>1, <2>1
<1>6. ASSUME NEW i \in ReadyIn(g) PROVE FALSE
  <2>1. i \in Item /\ g[i].st = "todo"
    BY DEF ReadyIn, Ready, StOf
  <2>0. i \notin S /\ f[i].st = "todo"
    BY <1>1, <2>1
  <2>2. /\ \A d \in Hard(g, soft)[i] : d \in Item /\ g[d].st \in Settled
        /\ \A d \in Soft(g, soft)[i] : d \in Item /\ g[d].st \in SoftSettled
    BY <2>1, DepsAreItems DEF ReadyIn, Ready, StOf
  <2>3. i \in ReadyIn(f)
    <3>1. /\ \A d \in Hard(f, soft)[i] : d \in Item /\ f[d].st \in Settled
          /\ \A d \in Soft(f, soft)[i] : d \in Item /\ f[d].st \in SoftSettled
      BY <1>4, <1>5, <2>2 DEF SoftSettled
    <3> QED
      BY <2>0, <2>1, <3>1 DEF ReadyIn, Ready, StOf
  <2> QED
    BY <2>0, <2>3
<1> QED
  BY <1>6 DEF g

(***************************************************************************)
(* A tick that goes on leaves no slot idle that it could fill.             *)
(***************************************************************************)
THEOREM NoSlotIdle == Spec => WorkConserving
<1> DEFINE A == (\E broke \in BOOLEAN : Tick(broke)) /\ run' = "driving" =>
       \/ pausing' \/ spawned' = MaxSpawns
       \/ Cardinality({i \in Item : task'[i].pc # "none"}) = MaxConcurrent
       \/ ReadyIn(items') = {}
<1>1. TypeOK /\ WithinCaps /\ [Next]_vars => [A]_vars
  <2> SUFFICES ASSUME TypeOK, WithinCaps, NEW broke \in BOOLEAN, Tick(broke), run' = "driving", ~pausing'
               PROVE  \/ spawned' = MaxSpawns
                      \/ Cardinality({i \in Item : task'[i].pc # "none"}) = MaxConcurrent
                      \/ ReadyIn(items') = {}
    OBVIOUS
  <2> DEFINE f == Swept(broke)
             S == Spawning(f, broke)
             g == Launched(f, S)
  <2>1. /\ f \in Files /\ S \in SUBSET Item /\ Tasks' = Open \cup S
        /\ spawned' = spawned + Cardinality(S)
        /\ Cardinality(S) \in Nat /\ Cardinality(Open) \in Nat /\ Room \in Int
        /\ Cardinality(Open \cup S) = Cardinality(Open) + Cardinality(S)
    BY TickStarts
  <2>2. S = FirstOf(Room, ReadyIn(f)) /\ items' = g
    BY DEF Tick, Spawning, TickOn, TickPause, TickEnd
  <2>3. {i \in Item : task'[i].pc # "none"} = Open \cup S
    BY <2>1 DEF Tasks
  <2>4. spawned \in Nat /\ MaxSpawns \in Nat /\ MaxConcurrent \in Nat
    BY ConstantsAssumption DEF TypeOK
  <2>5. Cardinality(Open) <= MaxConcurrent
    <3>1. Tasks \in SUBSET Item /\ Open \subseteq Tasks
      BY KeptTypes
    <3>2. Cardinality(Open) <= Cardinality(Tasks) /\ Cardinality(Tasks) \in Nat
      BY <3>1, ItemSetsFinite, FS_Subset
    <3> QED
      BY <2>1, <2>4, <3>2 DEF WithinCaps
  <2>6. 0 <= Room /\ (Room = MaxConcurrent - Cardinality(Open) \/ Room = MaxSpawns - spawned)
    BY <2>1, <2>4, <2>5 DEF Room, Smaller, WithinCaps
  <2>7. S = ReadyIn(f) \/ Cardinality(S) = Room
    <3>1. ReadyIn(f) \in SUBSET Item
      BY ReadySubset
    <3> QED
      BY <2>1, <2>2, <2>6, <3>1, FirstOfFacts
  <2>8. CASE S = ReadyIn(f)
    BY <2>1, <2>2, <2>8, NoneReadyLeft
  <2>9. CASE Cardinality(S) = Room
    <3> HIDE DEF S, f, g
    <3>1. Cardinality(Open \cup S) = MaxConcurrent \/ spawned' = MaxSpawns
      BY <2>1, <2>4, <2>6, <2>9
    <3> QED
      BY <2>3, <3>1
  <2> QED
    BY <2>7, <2>8, <2>9
<1>2. Spec => []WithinCaps
  BY InitCaps, NextCaps, TypeCorrect, PTL DEF Spec
<1> QED
  BY <1>1, <1>2, TypeCorrect, PTL DEF Spec, WorkConserving

-----------------------------------------------------------------------------
(***************************************************************************)
(* How often an item is tried.  The count grows only where an item that is  *)
(* todo is dispatched, so that what has to be shown is that an item of a    *)
(* live drive which is todo, or may be released to it, has a try to spare;  *)
(* a new run and an edit raise the bound for every item.                    *)
(***************************************************************************)
\* No agent's words look like the runner's own mark on a block.
PlainWords == Texts \subseteq {"other"} /\ \A e \in Endings : e.text = "other"

Bound == AttMax + (IF runs = 0 THEN 0 ELSE runs - 1) + edits

\* The items of f that may be dispatched without an edit or a new run.
Again(f) == {i \in Item : f[i].st = "todo"} \cup Marked(f)

Within(f, b) == \A i \in Item : f[i].att <= b
Spare(f, b) == \A i \in Again(f) : f[i].att + 1 <= b
Plain(f) == \A i \in Item : f[i].rep.text = "other"

\* The same tries and reports, and nothing more to be dispatched.
NoMoreTries(f, g) ==
  /\ \A i \in Item : g[i].att = f[i].att /\ g[i].rep = f[i].rep
  /\ Again(g) \subseteq Again(f)

LEMMA ReleaseTries ==
  ASSUME NEW f \in Files, NEW sf
  PROVE  NoMoreTries(f, ReleaseWith(f, sf))
BY DEF NoMoreTries, Again, ReleaseWith, Released, Marked, Files, Record

LEMMA PropagateTries ==
  ASSUME NEW f \in Files
  PROVE  NoMoreTries(f, Propagate(f))
<1>1. \A i \in NewlyBlocked(StOf(f), Hard(f, soft)) : f[i].st = "todo"
  BY HardType, NewlyBlockedFacts DEF StOf
<1> QED
  BY <1>1 DEF NoMoreTries, Again, Propagate, Marked, Files, Record

LEMMA FinalTries ==
  ASSUME NEW f \in Files, NEW S
  PROVE  NoMoreTries(f, Final(f, S))
<1> DEFINE g == FailReady(f)
<1>1. \A i \in Item : /\ i \in ReadyIn(f) => g[i].st = "failed" /\ g[i].att = f[i].att /\ g[i].rep = f[i].rep
                      /\ i \notin ReadyIn(f) => g[i] = f[i]
  BY DEF FailReady, Files, Record
<1> HIDE DEF g
<1>2. NoMoreTries(f, g)
  BY <1>1 DEF NoMoreTries, Again, Marked
<1>3. NoMoreTries(f, f)
  BY DEF NoMoreTries
<1> QED
  BY <1>2, <1>3 DEF Final, g

LEMMA UnrunTries ==
  ASSUME NEW f \in Files
  PROVE  \A i \in Item : Unrun(f)[i].att = f[i].att /\ Unrun(f)[i].rep = f[i].rep
BY DEF Unrun, Files, Record

\* A settled attempt that is to be made again has not used up the item's tries.
LEMMA SettleTries ==
  ASSUME NEW r \in Record, NEW out \in Ending, NEW broke \in BOOLEAN, NEW b \in Nat,
         r.rep.text = "other", out.text = "other", r.att <= b, AttMax <= b
  PROVE  LET q == Settle(r, out, broke)
         IN /\ q.att <= b /\ q.rep.text = "other"
            /\ q.st = "todo" => q.att + 1 <= b
            /\ q.st = "blocked" => q.err \notin {"dependency", "lookalike"}
<1>1. AttMax \in Nat \ {0} /\ r.att \in Nat
  BY ConstantsAssumption DEF Record
<1>2. CASE BudgetStopped(r, out, broke)
  <2>1. HandedBack(r).att = (IF r.att = 0 THEN 0 ELSE r.att - 1)
    BY DEF HandedBack, Record
  <2>2. HandedBack(r).st = "todo" /\ HandedBack(r).rep.text = "other"
    BY DEF HandedBack, Record, NoReport
  <2> QED
    BY <1>1, <1>2, <2>1, <2>2 DEF Settle
<1>3. CASE ~BudgetStopped(r, out, broke)
  <2> DEFINE q == Judged(r, out)
  <2>1. q.att = Spent(r, out) /\ q.rep = r.rep
    BY DEF Judged, Record
  <2>2. Spent(r, out) = (IF Free(r, out) /\ r.att > 0 THEN r.att - 1 ELSE r.att)
    BY DEF Spent
  <2>3. Verdict(r, out) \in {"done", "failed", "blocked"} /\ Said(r, out) = "other"
    BY DEF Verdict, Said, Record, Report, Ending, ReportStatus
  <2>4. /\ q.st = "todo" => Free(r, out) \/ Spent(r, out) < AttMax
        /\ q.err \in {"none", "other"}
    BY <2>3 DEF Judged, Record
  <2>5. q.att <= b /\ (q.st = "todo" => q.att + 1 <= b)
    BY <1>1, <2>1, <2>2, <2>4
  <2> QED
    BY <1>3, <2>1, <2>4, <2>5 DEF Settle
<1> QED
  BY <1>2, <1>3

\* What is over is dealt with, and still every item that is todo has a try to spare.
LEMMA SweptTries ==
  ASSUME TypeOK, NEW broke \in BOOLEAN, NEW b \in Nat, AttMax <= b,
         Within(items, b), Spare(items, b), Plain(items), \A i \in Item : task[i].out.text = "other"
  PROVE  LET k == Swept(broke) IN Within(k, b) /\ Spare(k, b) /\ Plain(k)
<1> DEFINE f == Release(items)
           g == Settled1(broke)
           h == Propagate(g)
           k == GiveUp(h)
<1>1. f \in Files /\ g \in Files /\ h \in Files /\ k \in Files
  BY ReleaseType, Settled1Type, PropagateType, SweptType DEF TypeOK, Files, Release, Swept
<1>2. Within(f, b) /\ Spare(f, b) /\ Plain(f)
  <2>1. NoMoreTries(items, f)
    BY ReleaseTries DEF TypeOK, Files, Release
  <2> QED
    BY <2>1 DEF NoMoreTries, Within, Spare, Plain, Again, Marked
<1>3. ASSUME NEW i \in Item
      PROVE  /\ g[i].att <= b /\ g[i].rep.text = "other"
             /\ i \in Again(g) => g[i].att + 1 <= b
  <2>1. CASE i \in Ended
    <3>1. f[i] \in Record /\ task[i].out \in Ending /\ g[i] = Settle(f[i], task[i].out, broke)
      BY <1>1, <2>1 DEF Files, TypeOK, Task, Settled1
    <3>2. /\ g[i].att <= b /\ g[i].rep.text = "other"
          /\ g[i].st = "todo" => g[i].att + 1 <= b
          /\ g[i].st = "blocked" => g[i].err \notin {"dependency", "lookalike"}
      BY <1>2, <3>1, SettleTries DEF Within, Plain
    <3> QED
      BY <3>2 DEF Again, Marked
  <2>2. CASE i \notin Ended
    <3>1. g[i] = f[i]
      BY <2>2 DEF Settled1
    <3> QED
      BY <1>2, <3>1 DEF Again, Marked, Within, Spare, Plain
  <2> QED
    BY <2>1, <2>2
<1>4. Within(g, b) /\ Spare(g, b) /\ Plain(g)
  BY <1>3 DEF Within, Spare, Plain, Again, Marked
<1>5. Within(h, b) /\ Spare(h, b) /\ Plain(h)
  <2>1. NoMoreTries(g, h)
    BY <1>1, PropagateTries
  <2> QED
    BY <1>4, <2>1 DEF NoMoreTries, Within, Spare, Plain, Again, Marked
<1>6. ASSUME NEW i \in Item
      PROVE  /\ k[i].att <= b /\ k[i].rep.text = "other"
             /\ i \in Again(k) => k[i].att + 1 <= b
  <2>1. CASE i \in Stalled
    <3>1. h[i] \in Record /\ k[i] = Stall(h[i])
      BY <1>1, <2>1 DEF Files, GiveUp
    <3>2. /\ k[i].att = h[i].att /\ k[i].rep = h[i].rep /\ k[i].st # "blocked"
          /\ k[i].st = "todo" => h[i].att < AttMax
      BY <3>1 DEF Stall, Record
    <3>3. h[i].att \in Nat /\ AttMax \in Nat
      BY <3>1, ConstantsAssumption DEF Record
    <3> QED
      BY <1>5, <3>2, <3>3 DEF Again, Marked, Within, Plain
  <2>2. CASE i \notin Stalled
    <3>1. k[i] = h[i]
      BY <2>2 DEF GiveUp
    <3> QED
      BY <1>5, <3>1 DEF Again, Marked, Within, Spare, Plain
  <2> QED
    BY <2>1, <2>2
<1>7. Within(k, b) /\ Spare(k, b) /\ Plain(k)
  BY <1>6 DEF Within, Spare, Plain, Again, Marked
<1> QED
  BY <1>7 DEF Swept

\* Starting what has a try to spare stays within the bound.
LEMMA LaunchedTries ==
  ASSUME NEW f \in Files, NEW S \in SUBSET ReadyIn(f), NEW b \in Nat,
         Within(f, b), Spare(f, b), Plain(f)
  PROVE  LET g == Launched(f, S) IN Within(g, b) /\ Spare(g, b) /\ Plain(g)
<1> DEFINE g == Launched(f, S)
<1>1. S \subseteq Item /\ \A i \in S : f[i].st = "todo"
  BY ReadySubset
<1>2. ASSUME NEW i \in Item
      PROVE  /\ g[i].att <= b /\ g[i].rep.text = "other"
             /\ i \in Again(g) => g[i].att + 1 <= b
  <2>1. CASE i \in S
    <3>1. f[i] \in Record /\ g[i] = Dispatch(f[i])
      BY <2>1 DEF Files, Launched
    <3>2. g[i].att = f[i].att + 1 /\ g[i].rep.text = "other" /\ g[i].st = "running"
      BY <3>1 DEF Dispatch, Record, NoReport
    <3>3. f[i].att + 1 <= b
      BY <1>1, <2>1 DEF Spare, Again
    <3> QED
      BY <3>2, <3>3 DEF Again, Marked
  <2>2. CASE i \notin S
    <3>1. g[i] = f[i]
      BY <2>2 DEF Launched
    <3> QED
      BY <3>1 DEF Again, Marked, Within, Spare, Plain
  <2> QED
    BY <2>1, <2>2
<1> QED
  BY <1>2 DEF Within, Spare, Plain, Again, Marked

-----------------------------------------------------------------------------
(***************************************************************************)
(* The strengthening: a live drive's items that may be dispatched have a    *)
(* try to spare; every item has one while a run begins; and nothing was     *)
(* tried before the first run.                                              *)
(***************************************************************************)
TriesInv ==
  /\ Within(items, Bound) /\ Plain(items)
  /\ \A i \in Item : task[i].out.text = "other"
  /\ run = "driving" => Spare(items, Bound)
  /\ run = "starting" => \A i \in Item : items[i].att + 1 <= Bound
  /\ runs = 0 => run = "idle" /\ \A i \in Item : items[i].att = 0

LEMMA BoundType ==
  ASSUME TypeOK
  PROVE  Bound \in Nat /\ AttMax <= Bound /\ 1 <= Bound
BY ConstantsAssumption DEF Bound, TypeOK

LEMMA TickTries ==
  ASSUME TypeOK, TriesInv, NEW broke \in BOOLEAN, Tick(broke)
  PROVE  TriesInv'
<1> DEFINE f == Swept(broke)
           S == Spawning(f, broke)
           g == Launched(f, S)
           b == Bound
<1>1. f \in Files /\ S \in SUBSET ReadyIn(f) /\ g \in Files /\ b \in Nat /\ AttMax <= b
  BY SweptType, SpawningSubset, LaunchedType, BoundType
<1>2. run = "driving" /\ runs' = runs /\ edits' = edits /\ Bound' = b
  BY DEF Tick, counters, Bound
<1>3. Within(f, b) /\ Spare(f, b) /\ Plain(f)
  BY <1>1, <1>2, SweptTries DEF TriesInv
<1>4. Within(g, b) /\ Spare(g, b) /\ Plain(g)
  BY <1>1, <1>3, LaunchedTries
<1>5. Within(Final(g, S), b) /\ Spare(Final(g, S), b) /\ Plain(Final(g, S))
  <2>1. NoMoreTries(g, Final(g, S))
    BY <1>1, FinalTries
  <2> QED
    BY <1>4, <2>1 DEF NoMoreTries, Within, Spare, Plain, Again, Marked
<1>6. items' \in {g, Final(g, S)} /\ run' \in {"driving", "closing"}
  BY <1>2 DEF Tick, TickOn, TickPause, TickEnd
<1>7. Within(items', b) /\ Spare(items', b) /\ Plain(items')
  BY <1>4, <1>5, <1>6
<1>8. \A i \in Item : task'[i].out.text = "other"
  <2>1. task' = TaskAfter(S) /\ \A i \in Item : task[i] \in Task
    BY DEF Tick, TypeOK
  <2>2. NoTask.out.text = "other" /\ NewTask.out.text = "other"
    BY DEF NoTask, NewTask, NoEnding
  <2>3. \A i \in Item : [task[i] EXCEPT !.nudged = TRUE, !.quiet = FALSE].out = task[i].out
    BY <2>1 DEF Task
  <2> QED
    BY <2>1, <2>2, <2>3 DEF TaskAfter, TriesInv
<1>9. runs # 0
  BY <1>2 DEF TriesInv
<1> QED
  BY <1>2, <1>6, <1>7, <1>8, <1>9 DEF TriesInv, Within, Spare, Plain, Again, Marked

LEMMA RunnerTries ==
  ASSUME TypeOK, TriesInv, Runner
  PROVE  TriesInv'
<1> DEFINE f == Release(items)
           u == Unrun(f)
<1>1. f \in Files /\ u \in Files
  BY ReleaseType, UnrunType DEF TypeOK, Files, Release
<1>2. \A i \in Item : u[i].att = items[i].att /\ u[i].rep = items[i].rep
  BY <1>1, ReleaseTries, UnrunTries DEF NoMoreTries, TypeOK, Files, Release
<1>3. \A i \in Item : items[i].att \in Nat
  BY DEF TypeOK, Record
<1>4. runs \in Nat /\ edits \in Nat /\ AttMax \in Nat \ {0} /\ NoTask.out.text = "other"
  BY ConstantsAssumption DEF TypeOK, NoTask, NoEnding
<1>5. CASE Start
  <2>1. runs' = runs + 1 /\ run' = "starting" /\ UNCHANGED <<items, task, edits>>
    BY <1>5 DEF Start, memory
  <2>2. runs # 0 => Bound' = Bound + 1
    BY <1>4, <2>1 DEF Bound
  <2>3. runs = 0 => Bound' = Bound /\ \A i \in Item : items[i].att = 0
    BY <1>4, <2>1 DEF Bound, TriesInv
  <2>4. Bound \in Nat /\ Bound >= 1
    BY BoundType
  <2>5. \A i \in Item : items[i].att + 1 <= Bound'
    BY <1>3, <2>2, <2>3, <2>4 DEF TriesInv, Within
  <2>6. \A i \in Item : items[i].att <= Bound'
    BY <1>3, <2>2, <2>3, <2>4 DEF TriesInv, Within
  <2> QED
    BY <1>4, <2>1, <2>5, <2>6 DEF TriesInv, Within, Plain
<1>6. CASE ResumeNothing \/ AbandonStart \/ EndEarly \/ StopClosing \/ CloseUnsaved
  <2>1. UNCHANGED <<items, task, runs, edits>> /\ run' \in {"idle", "closing"}
    BY <1>6 DEF ResumeNothing, AbandonStart, EndEarly, StopClosing, CloseUnsaved, Forget,
                file, memory, counters
  <2>2. runs = 0 => run' = "idle"
    BY <1>6 DEF TriesInv, ResumeNothing, AbandonStart, EndEarly, StopClosing, CloseUnsaved, Forget
  <2>3. Bound' = Bound
    BY <2>1 DEF Bound
  <2> QED
    BY <2>1, <2>2, <2>3 DEF TriesInv, Within, Plain
<1>7. CASE Unwind \/ Crash
  <2>1. UNCHANGED <<items, runs, edits>> /\ run' \in {"idle", "closing"} /\ run # "idle"
    BY <1>7 DEF Unwind, Crash, Forget, file, counters
  <2>2. task' = [i \in Item |-> NoTask]
    BY <1>7 DEF Unwind, Crash
  <2>3. Bound' = Bound
    BY <2>1 DEF Bound
  <2> QED
    BY <1>4, <2>1, <2>2, <2>3 DEF TriesInv, Within, Plain
<1>8. CASE BeginDrive
  <2>1. items' = u /\ run' = "driving" /\ run = "starting" /\ UNCHANGED <<runs, edits>>
    BY <1>8 DEF BeginDrive, counters
  <2>2. task' = [i \in Item |-> NoTask]
    BY <1>8 DEF BeginDrive
  <2>3. Bound' = Bound /\ runs # 0
    BY <2>1 DEF Bound, TriesInv
  <2>4. \A i \in Item : u[i].att + 1 <= Bound /\ u[i].att <= Bound /\ u[i].rep.text = "other"
    BY <1>2, <2>1 DEF TriesInv, Within, Plain
  <2> QED
    BY <1>4, <2>1, <2>2, <2>3, <2>4 DEF TriesInv, Within, Plain, Spare, Again, Marked
<1>9. CASE Close
  <2>1. items' = u /\ run' = "idle" /\ run = "closing" /\ UNCHANGED <<runs, edits, task>>
    BY <1>9 DEF Close, Forget, counters
  <2>2. Bound' = Bound /\ runs # 0
    BY <2>1 DEF Bound, TriesInv
  <2> QED
    BY <1>2, <2>1, <2>2 DEF TriesInv, Within, Plain
<1> QED
  BY <1>5, <1>6, <1>7, <1>8, <1>9 DEF Runner

LEMMA AttemptTries ==
  ASSUME PlainWords, TypeOK, TriesInv, NEW i \in Item, Attempt(i)
  PROVE  TriesInv'
<1> DEFINE f == Release(items)
<1>1. f \in Files /\ NoMoreTries(items, f)
  BY ReleaseType, ReleaseTries DEF TypeOK, Files, Release
<1>2. UNCHANGED <<run, runs, edits>> /\ Bound' = Bound
  BY DEF Attempt, OpenConversation, ZombieGone, FallQuiet, EndAttempt, PlanReport, Bound,
         memory, counters
<1>3. \A j \in Item : task'[j].out.text = "other"
  <2>1. \A j \in Item : task[j] \in Task /\ task[j].out.text = "other"
    BY DEF TypeOK, TriesInv
  <2>2. CASE OpenConversation(i)
    BY <2>1, <2>2 DEF OpenConversation, Task, TypeOK
  <2>3. CASE FallQuiet(i)
    BY <2>1, <2>3 DEF FallQuiet, Task, TypeOK
  <2>4. ASSUME NEW e \in Endings, EndAttempt(i, e) PROVE \A j \in Item : task'[j].out.text = "other"
    <3>1. e.text = "other"
      BY DEF PlainWords
    <3> QED
      BY <2>1, <2>4, <3>1 DEF EndAttempt, Task, TypeOK
  <2>5. CASE ZombieGone(i) \/ \E s \in ReportStatus, x \in Texts : PlanReport(i, s, x)
    <3>1. task' = task
      BY <2>5 DEF ZombieGone, PlanReport, memory
    <3> QED
      BY <2>1, <3>1
  <2> QED
    BY <2>2, <2>3, <2>4, <2>5 DEF Attempt
<1>4. /\ \A j \in Item : items'[j].att = items[j].att /\ items'[j].rep.text = "other"
      /\ Again(items') \subseteq Again(items)
  <2>1. CASE OpenConversation(i)
    BY <1>1, <2>1 DEF OpenConversation, NoMoreTries, TriesInv, Plain
  <2>2. CASE ZombieGone(i) \/ FallQuiet(i) \/ \E e \in Endings : EndAttempt(i, e)
    <3>1. items' = items
      BY <2>2 DEF ZombieGone, FallQuiet, EndAttempt, file
    <3> QED
      BY <3>1 DEF TriesInv, Plain
  <2>3. ASSUME NEW s \in ReportStatus, NEW x \in Texts, PlanReport(i, s, x)
        PROVE  /\ \A j \in Item : items'[j].att = items[j].att /\ items'[j].rep.text = "other"
               /\ Again(items') \subseteq Again(items)
    <3> DEFINE p == [s |-> s, text |-> x, late |-> task[i].pc # "turn"]
               g == [f EXCEPT ![i].rep = p]
    <3>1. p.text = "other"
      BY DEF PlainWords
    <3>2. \A j \in Item : /\ g[j].st = f[j].st /\ g[j].err = f[j].err /\ g[j].att = f[j].att
                          /\ g[j].rep = IF j = i THEN p ELSE f[j].rep
      BY <1>1 DEF Files, Record
    <3>3. items' = g
      BY <2>3 DEF PlanReport
    <3> HIDE DEF g, p
    <3>4. Again(g) \subseteq Again(f)
      BY <3>2 DEF Again, Marked
    <3>5. Again(f) \subseteq Again(items) /\ \A j \in Item : f[j].att = items[j].att /\ f[j].rep = items[j].rep
      BY <1>1 DEF NoMoreTries
    <3> HIDE DEF f
    <3> QED
      BY <3>1, <3>2, <3>3, <3>4, <3>5 DEF TriesInv, Plain
  <2> QED
    BY <2>1, <2>2, <2>3 DEF Attempt
<1>5. /\ Spare(items, Bound) => \A j \in Again(items') : items'[j].att + 1 <= Bound
      /\ run = "starting" => \A j \in Item : items'[j].att + 1 <= Bound
      /\ \A j \in Item : items'[j].att <= Bound
      /\ runs = 0 => \A j \in Item : items'[j].att = 0
  <2>1. Again(items') \subseteq Item
    BY DEF Again, Marked
  <2> QED
    BY <1>4, <2>1 DEF TriesInv, Within, Spare
<1> QED
  BY <1>2, <1>3, <1>4, <1>5 DEF TriesInv, Within, Plain, Spare, Again, Marked

-----------------------------------------------------------------------------
\* An edit starts no item's count above what it was, and its words are not an agent's.
LEMMA EditTries ==
  ASSUME TypeOK, TriesInv, NEW i \in Item, Editor(i)
  PROVE  /\ \A j \in Item : items'[j].att <= items[j].att /\ items'[j].rep.text = "other"
         /\ edits' = edits + 1 /\ UNCHANGED <<run, runs, task>>
<1> DEFINE f == Release(items)
           Goal == \A j \in Item : items'[j].att <= items[j].att /\ items'[j].rep.text = "other"
<1>1. f \in Files /\ f[i] \in Record /\ NoMoreTries(items, f)
  BY ReleaseType, ReleaseTries DEF TypeOK, Files, Release
<1>2. \A j \in Item : f[j].att = items[j].att /\ items[j].att \in Nat /\ f[j].rep.text = "other"
  BY <1>1 DEF NoMoreTries, TriesInv, Plain, TypeOK, Record
<1>3. ASSUME NEW r \in Record, items' = Release([f EXCEPT ![i] = r]),
             r.att \in {0, f[i].att}, r.rep.text = "other"
      PROVE  Goal
  <2> DEFINE g == [f EXCEPT ![i] = r]
  <2>1. g \in Files
    BY <1>1 DEF Files
  <2>2. \A j \in Item : g[j].att \in {0, f[j].att} /\ g[j].rep.text = "other"
    BY <1>1, <1>2, <1>3 DEF Files
  <2> HIDE DEF g
  <2>3. \A j \in Item : Release(g)[j].att = g[j].att /\ Release(g)[j].rep = g[j].rep
    BY <2>1, ReleaseTries DEF NoMoreTries, Release
  <2>4. items' = Release(g)
    BY <1>3 DEF g
  <2> QED
    BY <1>2, <2>2, <2>3, <2>4
<1>4. CASE DeleteItem(i)
  BY <1>3, <1>4, FreshType DEF DeleteItem, Edit, Absent, Fresh, NoReport
<1>5. CASE AddItem(i)
  BY <1>3, <1>5, FreshType DEF AddItem, Edit, Fresh, NoReport
<1>6. CASE FixRetry(i)
  <2>1. Retried(f[i]) \in Record
    <3>1. f[i].fixes + 1 \in Nat /\ "todo" \in Status
      BY <1>1 DEF Record, Status
    <3> QED
      BY <1>1, <3>1, NoReportType DEF Record, Retried
  <2>2. Retried(f[i]).att = 0 /\ Retried(f[i]).rep.text = "other"
    BY <1>1 DEF Retried, Record, NoReport
  <2>3. items' = Release([f EXCEPT ![i] = Retried(f[i])])
    BY <1>6 DEF FixRetry, Edit
  <2> QED
    BY <1>3, <1>6, <2>1, <2>2, <2>3 DEF FixRetry, Edit
<1>7. CASE FixSkip(i)
  <2> DEFINE r == [f[i] EXCEPT !.st = "skipped", !.err = "other"]
  <2>1. r \in Record /\ r.att = f[i].att /\ r.rep = f[i].rep
    BY <1>1 DEF Record, Status, Error
  <2>2. items' = Release([f EXCEPT ![i] = r])
    BY <1>7 DEF FixSkip, Edit
  <2> QED
    BY <1>2, <1>3, <1>7, <2>1, <2>2 DEF FixSkip, Edit
<1>8. CASE FixAccept(i)
  <2> DEFINE p == [s |-> "done", text |-> "other", late |-> FALSE]
             r == [f[i] EXCEPT !.st = "done", !.err = "none", !.rep = p]
  <2>1. r \in Record /\ r.att = f[i].att /\ r.rep.text = "other"
    <3>1. p \in Report /\ "done" \in Status /\ "none" \in Error
      BY DEF Report, ReportStatus, Status, Error
    <3> QED
      BY <1>1, <3>1 DEF Record
  <2>2. items' = Release([f EXCEPT ![i] = r])
    BY <1>8 DEF FixAccept, Edit
  <2> QED
    BY <1>3, <1>8, <2>1, <2>2 DEF FixAccept, Edit
<1>9. CASE FixSoften(i)
  <2>1. NoMoreTries(f, ReleaseWith(f, soft'))
    BY <1>1, ReleaseTries
  <2>2. items' = ReleaseWith(f, soft')
    BY <1>9 DEF FixSoften
  <2>3. Goal
    BY <1>2, <2>1, <2>2 DEF NoMoreTries
  <2> QED
    BY <1>9, <2>3 DEF FixSoften, memory
<1>10. ASSUME NEW s \in OperatorStatus, SetStatus(i, s)
       PROVE  Goal /\ edits' = edits + 1 /\ UNCHANGED <<run, runs, task>>
  <2> DEFINE r == IF s = "todo"
                    THEN [f[i] EXCEPT !.st = s, !.rep = NoReport, !.err = "none"]
                    ELSE [f[i] EXCEPT !.st = s]
  <2>1. r \in Record
    <3>1. s \in Status /\ "none" \in Error
      BY DEF OperatorStatus, Status, Error
    <3> QED
      BY <1>1, <3>1, NoReportType DEF Record
  <2>2. r.att = f[i].att /\ r.rep.text = "other"
    BY <1>1, <1>2 DEF Record, NoReport
  <2>3. items' = Release([f EXCEPT ![i] = r])
    BY <1>10 DEF SetStatus, Edit
  <2> QED
    BY <1>3, <1>10, <2>1, <2>2, <2>3 DEF SetStatus, Edit
<1> QED
  BY <1>4, <1>5, <1>6, <1>7, <1>8, <1>9, <1>10 DEF Editor

\* The edit itself raises the bound.
LEMMA EditorTries ==
  ASSUME TypeOK, TriesInv, NEW i \in Item, Editor(i)
  PROVE  TriesInv'
<1>1. /\ \A j \in Item : items'[j].att <= items[j].att /\ items'[j].rep.text = "other"
      /\ edits' = edits + 1 /\ UNCHANGED <<run, runs, task>>
  BY EditTries
<1>2. TypeOK'
  BY EditorType
<1>3. \A j \in Item : items[j].att \in Nat /\ items'[j].att \in Nat
  BY <1>2 DEF TypeOK, Record
<1>4. Bound' = Bound + 1 /\ Bound \in Nat
  <2>1. runs \in Nat /\ edits \in Nat /\ AttMax \in Nat
    BY ConstantsAssumption DEF TypeOK
  <2>2. runs' = runs /\ edits' = edits + 1
    BY <1>1
  <2>3. Bound' = AttMax + (IF runs = 0 THEN 0 ELSE runs - 1) + (edits + 1)
    BY <2>2 DEF Bound
  <2> QED
    BY <2>1, <2>3 DEF Bound
<1>5. \A j \in Item : items'[j].att + 1 <= Bound' /\ items'[j].att <= Bound'
  BY <1>1, <1>3, <1>4 DEF TriesInv, Within
<1>6. runs = 0 => \A j \in Item : items'[j].att = 0
  BY <1>1, <1>3 DEF TriesInv
<1> QED
  BY <1>1, <1>5, <1>6 DEF TriesInv, Within, Plain, Spare, Again, Marked

LEMMA InitTries == Init => TriesInv
<1> SUFFICES ASSUME Init PROVE TriesInv
  OBVIOUS
<1>1. \A i \in Item : items[i].att = 0 /\ items[i].rep.text = "other" /\ task[i].out.text = "other"
  BY DEF Init, Fresh, Absent, NoReport, NoTask, NoEnding
<1>2. Bound \in Nat
  BY InitType, BoundType
<1> QED
  BY <1>1, <1>2 DEF Init, TriesInv, Within, Plain

LEMMA NextTries ==
  ASSUME PlainWords
  PROVE  TypeOK /\ TriesInv /\ [Next]_vars => TriesInv'
<1> SUFFICES ASSUME TypeOK, TriesInv, [Next]_vars PROVE TriesInv'
  OBVIOUS
<1>1. CASE UNCHANGED vars
  BY <1>1 DEF vars, file, memory, counters, TriesInv, Within, Plain, Spare, Again, Marked, Bound
<1>2. ASSUME NEW broke \in BOOLEAN, Tick(broke) PROVE TriesInv'
  BY <1>2, TickTries
<1>3. CASE Runner
  BY <1>3, RunnerTries
<1>4. CASE SpendTokens
  BY <1>4 DEF SpendTokens, file, memory, counters, TriesInv, Within, Plain, Spare, Again, Marked, Bound
<1>5. ASSUME NEW i \in Item, Attempt(i) PROVE TriesInv'
  BY <1>5, AttemptTries
<1>6. ASSUME NEW i \in Item, Editor(i) PROVE TriesInv'
  BY <1>6, EditorTries
<1> QED
  BY <1>1, <1>2, <1>3, <1>4, <1>5, <1>6 DEF Next

(***************************************************************************)
(* As long as no agent's words look like the runner's own mark, an item is  *)
(* attempted at most attempts_max times, plus once for each further run and *)
(* each edit, whatever stalls, hand-backs, stops and restarts come between. *)
(***************************************************************************)
THEOREM TriesAreBounded ==
  ASSUME PlainWords
  PROVE  Spec => []AttemptsBounded
<1>1. TypeOK /\ TriesInv => AttemptsBounded
  BY DEF TriesInv, Within, Bound, AttemptsBounded
<1>2. TypeOK /\ TriesInv /\ [Next]_vars => TriesInv'
  BY NextTries
<1> QED
  BY <1>1, <1>2, InitTries, TypeCorrect, PTL DEF Spec
=============================================================================
