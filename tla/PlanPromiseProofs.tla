--------------------------- MODULE PlanPromiseProofs -------------------------
(***************************************************************************)
(* No block of the runner's making outlives its cause, and the runner keeps *)
(* the checklist's promise.                                                *)
(*                                                                         *)
(* Releasing blocks establishes the first, whatever an edit did before;     *)
(* propagating blocks keeps it because the least set it blocks holds        *)
(* nothing without a reason; and the other steps of a tick take nothing bad *)
(* away and write no block of their own.                                    *)
(***************************************************************************)
EXTENDS PlanTickProofs

Blocked(f) == {i \in Item : f[i].st = "blocked" /\ f[i].err = "dependency"}
BadIn(f) == {i \in Item : f[i].st \in Bad}

\* Every block of the runner's making in f has its cause in f.
Stands(f, sf) == \A i \in Blocked(f) : Hard(f, sf)[i] \cap BadIn(f) # {}

\* A file that blocks no more, keeps what is bad and what is there still stands.
LEMMA StandsKept ==
  ASSUME NEW f \in Files, NEW g \in Files, NEW sf, Stands(f, sf),
         \A i \in Item : f[i].st = "absent" <=> g[i].st = "absent",
         Blocked(g) \subseteq Blocked(f), BadIn(f) \subseteq BadIn(g)
  PROVE  Stands(g, sf)
<1>1. Hard(g, sf) = Hard(f, sf)
  BY SameDeps
<1> QED
  BY <1>1 DEF Stands

\* Releasing keeps what is there, and lifts every block without a cause.
LEMMA ReleaseStands ==
  ASSUME NEW f \in Files, NEW sf
  PROVE  Stands(ReleaseWith(f, sf), sf)
<1> DEFINE st == StOf(f)
           H == Hard(f, sf)
           M == Marked(f)
           R == Released(st, M, H)
           g == ReleaseWith(f, sf)
<1>1. H \in [Item -> SUBSET Item] /\ st \in [Item -> Status] /\ g \in Files
  BY HardType, ReleaseType
<1>2. R \subseteq M /\ M \subseteq Item
  BY DEF Released, Marked
<1>3. \A i \in Item : /\ i \in R => g[i].st = "todo"
                      /\ i \notin R => g[i] = f[i]
  BY DEF ReleaseWith, Files, Record
<1>4. \A i \in M : f[i].st = "blocked"
  BY DEF Marked
<1>5. \A i \in Item : f[i].st = "absent" <=> g[i].st = "absent"
  BY <1>2, <1>3, <1>4
<1>6. Hard(g, sf) = H
  BY <1>1, <1>5, SameDeps
<1>7. ASSUME NEW i \in M, i \notin R PROVE \E d \in H[i] : st[d] \in Bad /\ d \notin R
  <2>1. PICK S \in SUBSET Item : ReleaseClosed(S, st, M, H) /\ i \notin S
    BY <1>7 DEF Released
  <2>2. PICK d \in H[i] : st[d] \in Bad /\ d \notin S
    BY <1>7, <2>1 DEF ReleaseClosed
  <2>3. d \notin R
    BY <2>1, <2>2 DEF Released
  <2> QED
    BY <2>2, <2>3
<1>8. ASSUME NEW i \in Blocked(g) PROVE H[i] \cap BadIn(g) # {}
  <2>1. i \in Item /\ i \notin R /\ i \in M
    BY <1>3, <1>8 DEF Blocked, Marked
  <2>2. PICK d \in H[i] : st[d] \in Bad /\ d \notin R
    BY <1>7, <2>1
  <2>3. d \in Item
    BY <1>1, <2>1
  <2>4. g[d].st \in Bad
    BY <1>3, <2>2, <2>3 DEF StOf
  <2> QED
    BY <2>2, <2>3, <2>4 DEF BadIn
<1> HIDE DEF g, H
<1> QED
  BY <1>6, <1>8 DEF Stands, g

\* What is newly blocked has a cause: the least set holds nothing without one.
LEMMA BlockedForCause ==
  ASSUME NEW st \in [Item -> Status], NEW hard \in [Item -> SUBSET Item],
         NEW i \in NewlyBlocked(st, hard)
  PROVE  \E d \in hard[i] : st[d] \in Bad \/ d \in NewlyBlocked(st, hard)
<1> DEFINE B == NewlyBlocked(st, hard)
           C == {j \in B : \E d \in hard[j] : st[d] \in Bad \/ d \in B}
<1>1. C \in SUBSET Item /\ B \subseteq Item
  BY DEF NewlyBlocked
<1>2. ASSUME NEW j \in Item, st[j] = "todo", NEW d \in hard[j], st[d] \in Bad \/ d \in C
      PROVE  j \in C
  <2>1. st[d] \in Bad \/ d \in B
    BY <1>2
  <2>2. j \in B
    BY <1>2, <2>1, NewlyBlockedFacts
  <2> QED
    BY <2>1, <2>2
<1>3. BlockClosed(C, st, hard)
  BY <1>2 DEF BlockClosed
<1>4. i \in C
  BY <1>1, <1>3 DEF NewlyBlocked
<1> QED
  BY <1>4

LEMMA PropagateStands ==
  ASSUME NEW f \in Files, Stands(f, soft)
  PROVE  Stands(Propagate(f), soft)
<1> DEFINE st == StOf(f)
           H == Hard(f, soft)
           B == NewlyBlocked(st, H)
           g == Propagate(f)
<1>1. H \in [Item -> SUBSET Item] /\ st \in [Item -> Status] /\ g \in Files
  BY HardType, PropagateType
<1>2. B \subseteq Item /\ \A i \in B : f[i].st = "todo"
  BY <1>1, NewlyBlockedFacts DEF StOf
<1>3. \A i \in Item : /\ i \in B => g[i].st = "blocked"
                      /\ i \notin B => g[i] = f[i]
  BY DEF Propagate, Files, Record
<1>4. Hard(g, soft) = H
  <2>1. \A i \in Item : f[i].st = "absent" <=> g[i].st = "absent"
    BY <1>2, <1>3
  <2> QED
    BY <1>1, <2>1, SameDeps
<1>5. \A d \in Item : f[d].st \in Bad \/ d \in B => d \in BadIn(g)
  BY <1>3 DEF BadIn, Bad
<1>6. ASSUME NEW i \in Blocked(g) PROVE H[i] \cap BadIn(g) # {}
  <2>1. CASE i \in B
    <3>1. PICK d \in H[i] : st[d] \in Bad \/ d \in B
      BY <1>1, <2>1, BlockedForCause
    <3>2. d \in Item
      BY <1>1, <1>2, <2>1
    <3> QED
      BY <1>5, <3>1, <3>2 DEF StOf
  <2>2. CASE i \notin B
    <3>1. i \in Blocked(f)
      BY <1>3, <1>6, <2>2 DEF Blocked
    <3>2. PICK d \in H[i] : d \in BadIn(f)
      BY <3>1 DEF Stands
    <3> QED
      BY <1>5, <3>2 DEF BadIn
  <2> QED
    BY <2>1, <2>2
<1> HIDE DEF g, H
<1> QED
  BY <1>4, <1>6 DEF Stands, g

LEMMA UnrunStands ==
  ASSUME NEW f \in Files, NEW sf, Stands(f, sf)
  PROVE  Stands(Unrun(f), sf)
<1>1. \A i \in Item : /\ f[i].st = "running" => Unrun(f)[i].st = "todo"
                      /\ f[i].st # "running" => Unrun(f)[i] = f[i]
  BY DEF Unrun, Files, Record
<1>2. Blocked(Unrun(f)) \subseteq Blocked(f) /\ BadIn(f) \subseteq BadIn(Unrun(f))
  BY <1>1 DEF Blocked, BadIn, Bad
<1> QED
  BY <1>1, <1>2, UnrunType, StandsKept

-----------------------------------------------------------------------------
\* A settled attempt's words are never the runner's mark.
LEMMA SettleBlocksInWords ==
  ASSUME NEW r \in Record, NEW out \in Ending, NEW broke \in BOOLEAN
  PROVE  /\ Settle(r, out, broke).st # "absent"
         /\ Settle(r, out, broke).st = "blocked" => Settle(r, out, broke).err # "dependency"
<1>1. Verdict(r, out) \in {"done", "failed", "blocked"} /\ Said(r, out) # "dependency"
  BY DEF Verdict, Said, Record, Report, Ending, ReportStatus
<1>2. HandedBack(r).st = "todo"
  BY DEF HandedBack, Record
<1>3. /\ Judged(r, out).st \in {"todo", Verdict(r, out)}
      /\ Judged(r, out).err \in {"none", Said(r, out)}
  BY DEF Judged, Record
<1> QED
  BY <1>1, <1>2, <1>3 DEF Settle

LEMMA SettledStands ==
  ASSUME TypeOK, NEW broke \in BOOLEAN
  PROVE  Stands(Settled1(broke), soft)
<1> DEFINE f == Release(items)
           g == Settled1(broke)
<1>1. f \in Files /\ g \in Files /\ Stands(f, soft)
  BY ReleaseType, Settled1Type, ReleaseStands DEF TypeOK, Files, Release
<1>2. RunningIn(f) = RunningIn(items)
  BY ReleaseRunning DEF TypeOK, Files, Release
<1>3. \A i \in Item \ Ended : g[i] = f[i]
  BY DEF Settled1
<1>4. ASSUME NEW i \in Ended
      PROVE  /\ i \in Item /\ f[i].st = "running" /\ g[i].st # "absent"
             /\ g[i].st = "blocked" => g[i].err # "dependency"
  <2>1. i \in Item /\ items[i].st = "running"
    BY KeptTypes
  <2>2. f[i] \in Record /\ task[i].out \in Ending
    BY <1>1, <2>1 DEF Files, TypeOK, Task
  <2>3. g[i] = Settle(f[i], task[i].out, broke)
    BY <1>4, <2>1 DEF Settled1
  <2> QED
    BY <1>2, <2>1, <2>2, <2>3, SettleBlocksInWords DEF RunningIn
<1>5. Blocked(g) \subseteq Blocked(f)
  BY <1>3, <1>4 DEF Blocked
<1>6. BadIn(f) \subseteq BadIn(g)
  BY <1>3, <1>4 DEF BadIn, Bad
<1>7. \A i \in Item : f[i].st = "absent" <=> g[i].st = "absent"
  BY <1>3, <1>4
<1> QED
  BY <1>1, <1>5, <1>6, <1>7, StandsKept

\* Who falls silent is running until the tick gives it up.
LEMMA SweptStands ==
  ASSUME TypeOK, NEW broke \in BOOLEAN
  PROVE  Stands(Swept(broke), soft)
<1> DEFINE f == Release(items)
           g == Settled1(broke)
           h == Propagate(g)
           k == GiveUp(h)
<1>1. f \in Files /\ g \in Files /\ h \in Files /\ k \in Files
  BY ReleaseType, Settled1Type, PropagateType, SweptType DEF TypeOK, Files, Release, Swept
<1>2. RunningIn(f) = RunningIn(items) /\ RunningIn(h) = RunningIn(g)
  BY <1>1, ReleaseRunning, PropagateRunning DEF TypeOK, Files, Release
<1>3. Stands(h, soft)
  BY <1>1, SettledStands, PropagateStands
<1>4. \A i \in Item \ Stalled : k[i] = h[i]
  BY DEF GiveUp
<1>5. ASSUME NEW i \in Stalled
      PROVE  i \in Item /\ h[i].st = "running" /\ k[i].st \in {"todo", "failed"}
  <2>1. i \in Item /\ items[i].st = "running" /\ i \notin Ended
    BY KeptTypes DEF Stalled, Quiet
  <2>2. g[i] = f[i] /\ f[i].st = "running"
    BY <1>2, <2>1 DEF Settled1, RunningIn
  <2>3. h[i].st = "running"
    BY <1>2, <2>1, <2>2 DEF RunningIn
  <2>4. h[i] \in Record
    BY <1>1, <2>1 DEF Files
  <2>5. k[i].st \in {"todo", "failed"}
    BY <1>5, <2>1, <2>4 DEF GiveUp, Stall, Record
  <2> QED
    BY <2>1, <2>3, <2>5
<1>6. Blocked(k) \subseteq Blocked(h)
  BY <1>4, <1>5 DEF Blocked
<1>7. BadIn(h) \subseteq BadIn(k)
  BY <1>4, <1>5 DEF BadIn, Bad
<1>8. \A i \in Item : h[i].st = "absent" <=> k[i].st = "absent"
  BY <1>4, <1>5
<1> QED
  BY <1>1, <1>3, <1>6, <1>7, <1>8, StandsKept DEF Swept

LEMMA LaunchedStands ==
  ASSUME NEW f \in Files, NEW S \in SUBSET ReadyIn(f), Stands(f, soft)
  PROVE  Stands(Launched(f, S), soft)
<1> DEFINE g == Launched(f, S)
<1>1. S \subseteq Item /\ \A i \in S : f[i].st = "todo"
  BY ReadySubset
<1>2. g \in Files
  BY LaunchedType
<1>3. \A i \in S : g[i].st = "running"
  BY <1>1, LaunchedIs
<1>4. \A i \in Item \ S : g[i] = f[i]
  BY <1>1, LaunchedIs
<1> HIDE DEF g
<1>5. Blocked(g) \subseteq Blocked(f)
  BY <1>3, <1>4 DEF Blocked
<1>6. BadIn(f) \subseteq BadIn(g)
  BY <1>1, <1>4 DEF BadIn, Bad
<1>7. \A i \in Item : f[i].st = "absent" <=> g[i].st = "absent"
  BY <1>1, <1>3, <1>4
<1>8. Stands(g, soft)
  BY <1>2, <1>5, <1>6, <1>7, StandsKept
<1> QED
  BY <1>8 DEF g

LEMMA FinalStands ==
  ASSUME NEW f \in Files, NEW S, Stands(f, soft)
  PROVE  Stands(Final(f, S), soft)
<1> DEFINE g == FailReady(f)
           R == ReadyIn(f)
<1>1. R \subseteq Item /\ \A i \in R : f[i].st = "todo"
  BY ReadySubset
<1>2. g \in Files
  BY DEF FailReady, Files, Record, Status, Error
<1>3. \A i \in Item : /\ i \in R => g[i].st = "failed"
                      /\ i \notin R => g[i] = f[i]
  BY DEF FailReady, Files, Record
<1> HIDE DEF g, R
<1>4. Blocked(g) \subseteq Blocked(f)
  BY <1>3 DEF Blocked
<1>5. BadIn(f) \subseteq BadIn(g)
  BY <1>1, <1>3 DEF BadIn, Bad
<1>6. \A i \in Item : f[i].st = "absent" <=> g[i].st = "absent"
  BY <1>1, <1>3
<1>7. Stands(g, soft)
  BY <1>2, <1>4, <1>5, <1>6, StandsKept
<1> QED
  BY <1>7 DEF g, Final

-----------------------------------------------------------------------------
\* An edit replaces one record or the softness of one item, and releases.
LEMMA EditIs ==
  ASSUME TypeOK, NEW i \in Item, Editor(i)
  PROVE  \/ soft' = soft /\ \E r \in Record : items' = Release([Release(items) EXCEPT ![i] = r])
         \/ items' = ReleaseWith(Release(items), soft') /\ soft' \ {i} = soft \ {i}
<1> DEFINE f == Release(items)
<1>1. f \in Files /\ f[i] \in Record
  BY ReleaseType DEF TypeOK, Files, Release
<1>2. CASE DeleteItem(i)
  BY <1>2, FreshType DEF DeleteItem, Edit
<1>3. CASE AddItem(i)
  BY <1>3, FreshType DEF AddItem, Edit
<1>4. CASE FixRetry(i)
  <2>1. Retried(f[i]) \in Record
    <3>1. f[i].fixes + 1 \in Nat /\ "todo" \in Status
      BY <1>1 DEF Record, Status
    <3> QED
      BY <1>1, <3>1, NoReportType DEF Record, Retried
  <2>2. items' = Release([f EXCEPT ![i] = Retried(f[i])])
    BY <1>4 DEF FixRetry, Edit
  <2> QED
    BY <1>4, <2>1, <2>2 DEF FixRetry
<1>5. CASE FixSkip(i)
  <2> DEFINE r == [f[i] EXCEPT !.st = "skipped", !.err = "other"]
  <2>1. r \in Record
    BY <1>1 DEF Record, Status, Error
  <2>2. items' = Release([f EXCEPT ![i] = r])
    BY <1>5 DEF FixSkip, Edit
  <2> QED
    BY <1>5, <2>1, <2>2 DEF FixSkip
<1>6. CASE FixAccept(i)
  <2> DEFINE p == [s |-> "done", text |-> "other", late |-> FALSE]
             r == [f[i] EXCEPT !.st = "done", !.err = "none", !.rep = p]
  <2>1. r \in Record
    <3>1. p \in Report /\ "done" \in Status /\ "none" \in Error
      BY DEF Report, ReportStatus, Status, Error
    <3> QED
      BY <1>1, <3>1 DEF Record
  <2>2. items' = Release([f EXCEPT ![i] = r])
    BY <1>6 DEF FixAccept, Edit
  <2> QED
    BY <1>6, <2>1, <2>2 DEF FixAccept
<1>7. CASE FixSoften(i)
  BY <1>1, <1>7 DEF FixSoften
<1>8. ASSUME NEW s \in OperatorStatus, SetStatus(i, s)
      PROVE  soft' = soft /\ \E r \in Record : items' = Release([f EXCEPT ![i] = r])
  <2> DEFINE r == IF s = "todo"
                    THEN [f[i] EXCEPT !.st = s, !.rep = NoReport, !.err = "none"]
                    ELSE [f[i] EXCEPT !.st = s]
  <2>1. r \in Record
    <3>1. s \in Status /\ "none" \in Error
      BY DEF OperatorStatus, Status, Error
    <3> QED
      BY <1>1, <3>1, NoReportType DEF Record
  <2>2. items' = Release([f EXCEPT ![i] = r])
    BY <1>8 DEF SetStatus, Edit
  <2> QED
    BY <1>8, <2>1, <2>2 DEF SetStatus
<1> QED
  BY <1>2, <1>3, <1>4, <1>5, <1>6, <1>7, <1>8 DEF Editor

\* Whatever an edit does, it ends by releasing, under the softness it leaves.
LEMMA EditReleases ==
  ASSUME TypeOK, NEW i \in Item, Editor(i)
  PROVE  \E h \in Files : items' = ReleaseWith(h, soft')
<1>1. Release(items) \in Files
  BY ReleaseType DEF TypeOK, Files, Release
<1>2. \A r \in Record : [Release(items) EXCEPT ![i] = r] \in Files
  BY <1>1 DEF Files
<1> QED
  BY <1>1, <1>2, EditIs DEF Release

LEMMA EditorStands ==
  ASSUME TypeOK, NEW i \in Item, Editor(i)
  PROVE  Stands(items', soft')
<1>1. PICK h \in Files : items' = ReleaseWith(h, soft')
  BY EditReleases
<1> QED
  BY <1>1, ReleaseStands

LEMMA TickStands ==
  ASSUME TypeOK, NEW broke \in BOOLEAN, Tick(broke)
  PROVE  Stands(items', soft')
<1> DEFINE f == Swept(broke)
           S == Spawning(f, broke)
           g == Launched(f, S)
<1>1. f \in Files /\ S \in SUBSET ReadyIn(f) /\ g \in Files
  BY SweptType, SpawningSubset, LaunchedType
<1>2. Stands(g, soft)
  BY <1>1, SweptStands, LaunchedStands
<1>3. Stands(Final(g, S), soft)
  BY <1>1, <1>2, FinalStands
<1>4. items' \in {g, Final(g, S)} /\ soft' = soft
  BY DEF Tick, TickOn, TickPause, TickEnd
<1> HIDE DEF g, S
<1> QED
  BY <1>2, <1>3, <1>4

LEMMA RunnerStands ==
  ASSUME TypeOK, Stands(items, soft), Runner
  PROVE  Stands(items', soft')
<1>1. Release(items) \in Files
  BY ReleaseType DEF TypeOK, Files, Release
<1>2. Stands(Unrun(Release(items)), soft)
  BY <1>1, ReleaseStands, UnrunStands DEF TypeOK, Files, Release
<1>3. soft' = soft /\ items' \in {items, Unrun(Release(items))}
  BY DEF Runner, Start, ResumeNothing, AbandonStart, EndEarly, BeginDrive, Unwind, StopClosing,
         Close, CloseUnsaved, Crash, file
<1> QED
  BY <1>2, <1>3

\* An attempt's own steps at most release what is marked and write a report.
LEMMA AttemptStands ==
  ASSUME TypeOK, Stands(items, soft), NEW i \in Item, Attempt(i)
  PROVE  Stands(items', soft')
<1> DEFINE f == Release(items)
<1>1. f \in Files /\ Stands(f, soft)
  BY ReleaseType, ReleaseStands DEF TypeOK, Files, Release
<1>2. ASSUME NEW s \in ReportStatus, NEW x \in Texts, PlanReport(i, s, x)
      PROVE  Stands(items', soft')
  <2> DEFINE p == [s |-> s, text |-> x, late |-> task[i].pc # "turn"]
             g == [f EXCEPT ![i].rep = p]
  <2>1. p \in Report
    BY ConstantsAssumption DEF Report
  <2>2. g \in Files /\ \A j \in Item : g[j].st = f[j].st /\ g[j].err = f[j].err
    BY <1>1, <2>1 DEF Files, Record
  <2>3. Blocked(g) \subseteq Blocked(f) /\ BadIn(f) \subseteq BadIn(g)
    BY <2>2 DEF Blocked, BadIn
  <2>4. items' = g /\ soft' = soft
    BY <1>2 DEF PlanReport
  <2> HIDE DEF g
  <2>5. \A j \in Item : f[j].st = "absent" <=> g[j].st = "absent"
    BY <2>2
  <2>6. Stands(g, soft)
    BY <1>1, <2>2, <2>3, <2>5, StandsKept
  <2> QED
    BY <2>4, <2>6
<1>3. CASE OpenConversation(i)
  BY <1>1, <1>3 DEF OpenConversation
<1>4. CASE ZombieGone(i) \/ FallQuiet(i) \/ \E e \in Endings : EndAttempt(i, e)
  BY <1>4 DEF ZombieGone, FallQuiet, EndAttempt, file
<1> QED
  BY <1>2, <1>3, <1>4 DEF Attempt

LEMMA InitStands == Init => Stands(items, soft)
BY DEF Init, Stands, Blocked, Fresh, Absent

LEMMA NextStands == TypeOK /\ Stands(items, soft) /\ [Next]_vars => Stands(items, soft)'
<1> SUFFICES ASSUME TypeOK, Stands(items, soft), [Next]_vars PROVE Stands(items', soft')
  BY DEF Stands, Blocked, BadIn
<1>1. CASE UNCHANGED vars
  BY <1>1 DEF vars, file
<1>2. ASSUME NEW broke \in BOOLEAN, Tick(broke) PROVE Stands(items', soft')
  BY <1>2, TickStands
<1>3. CASE Runner
  BY <1>3, RunnerStands
<1>4. CASE SpendTokens
  BY <1>4 DEF SpendTokens, file
<1>5. ASSUME NEW i \in Item, Attempt(i) PROVE Stands(items', soft')
  BY <1>5, AttemptStands
<1>6. ASSUME NEW i \in Item, Editor(i) PROVE Stands(items', soft')
  BY <1>6, EditorStands
<1> QED
  BY <1>1, <1>2, <1>3, <1>4, <1>5, <1>6 DEF Next

(***************************************************************************)
(* A block the runner made is lifted with its cause, whoever lifts it:      *)
(* whatever the operator, the orchestrator, the agents and the ticks do to  *)
(* a plan of any size, a block marked as the runner's has a hard dependency *)
(* that is failed or blocked.                                              *)
(***************************************************************************)
THEOREM BlocksHaveCauses == Spec => []NoStaleBlock
<1>1. TypeOK /\ Stands(items, soft) => NoStaleBlock
  BY DEF Stands, Blocked, BadIn, NoStaleBlock
<1> QED
  BY <1>1, InitStands, NextStands, TypeCorrect, PTL DEF Spec
-----------------------------------------------------------------------------
(***************************************************************************)
(* The runner keeps the checklist's promise.                               *)
(*                                                                         *)
(* A tick is followed through its stages, each of which moves a status in   *)
(* one way: released, settled, blocked, given up, started, failed at the    *)
(* cap.                                                                    *)
(***************************************************************************)

\* What releasing and handing back do to a status.
LEMMA ReleaseLifts ==
  ASSUME NEW f \in Files, NEW sf, NEW i \in Item
  PROVE  \/ ReleaseWith(f, sf)[i].st = f[i].st
         \/ f[i].st = "blocked" /\ ReleaseWith(f, sf)[i].st = "todo"
BY DEF ReleaseWith, Released, Marked, Files, Record

LEMMA UnrunHandsBack ==
  ASSUME NEW f \in Files, NEW i \in Item
  PROVE  Unrun(f)[i].st = IF f[i].st = "running" THEN "todo" ELSE f[i].st
BY DEF Unrun, Files, Record

\* What a finished attempt may make of its item.
LEMMA SettleMoves ==
  ASSUME NEW r \in Record, NEW out \in Ending, NEW broke \in BOOLEAN
  PROVE  Settle(r, out, broke).st \in {"todo", "done", "failed", "blocked"}
<1>1. Verdict(r, out) \in {"done", "failed", "blocked"}
  BY DEF Verdict, Record, Report, Ending, ReportStatus
<1>2. HandedBack(r).st = "todo" /\ Judged(r, out).st \in {"todo", Verdict(r, out)}
  BY DEF HandedBack, Judged, Record
<1> QED
  BY <1>1, <1>2 DEF Settle

\* Up to the spawning: an item that is not running is blocked, released or left as it is.
LEMMA SweptMoves ==
  ASSUME TypeOK, NEW broke \in BOOLEAN, NEW i \in Item
  PROVE  LET k == Swept(broke)
         IN /\ items[i].st = "todo" => k[i].st \in {"todo", "blocked"}
            /\ items[i].st = "running" => k[i].st \in {"running", "todo", "blocked", "failed", "done"}
            /\ items[i].st = "blocked" => k[i].st \in {"blocked", "todo"}
            /\ items[i].st \notin {"todo", "running", "blocked"} => k[i].st = items[i].st
<1> DEFINE f == Release(items)
           g == Settled1(broke)
           h == Propagate(g)
           k == GiveUp(h)
<1>1. f \in Files /\ g \in Files /\ h \in Files /\ k \in Files
  BY ReleaseType, Settled1Type, PropagateType, SweptType DEF TypeOK, Files, Release, Swept
<1>2. f[i].st = items[i].st \/ (items[i].st = "blocked" /\ f[i].st = "todo")
  BY ReleaseLifts DEF TypeOK, Files, Release
<1>3. IF i \in Ended THEN items[i].st = "running" /\ g[i].st \in {"todo", "done", "failed", "blocked"}
                     ELSE g[i] = f[i]
  <2>1. CASE i \in Ended
    <3>1. f[i] \in Record /\ task[i].out \in Ending /\ items[i].st = "running"
      BY <1>1, <2>1, KeptTypes DEF Files, TypeOK, Task
    <3>2. g[i] = Settle(f[i], task[i].out, broke)
      BY <2>1 DEF Settled1
    <3> QED
      BY <2>1, <3>1, <3>2, SettleMoves
  <2>2. CASE i \notin Ended
    BY <2>2 DEF Settled1
  <2> QED
    BY <2>1, <2>2
<1>4. h[i].st = g[i].st \/ (g[i].st = "todo" /\ h[i].st = "blocked")
  <2>1. i \in NewlyBlocked(StOf(g), Hard(g, soft)) => g[i].st = "todo"
    BY <1>1, HardType, NewlyBlockedFacts DEF StOf
  <2> QED
    BY <1>1, <2>1 DEF Propagate, Files, Record
<1>5. IF i \in Stalled THEN items[i].st = "running" /\ k[i].st \in {"todo", "failed"}
                       ELSE k[i] = h[i]
  <2>1. CASE i \in Stalled
    <3>1. h[i] \in Record /\ items[i].st = "running"
      BY <1>1, <2>1, KeptTypes DEF Files
    <3> QED
      BY <2>1, <3>1 DEF GiveUp, Stall, Record
  <2>2. CASE i \notin Stalled
    BY <2>2 DEF GiveUp
  <2> QED
    BY <2>1, <2>2
<1> HIDE DEF f, g, h, k
<1>6. /\ items[i].st = "todo" => k[i].st \in {"todo", "blocked"}
      /\ items[i].st = "running" => k[i].st \in {"running", "todo", "blocked", "failed", "done"}
      /\ items[i].st = "blocked" => k[i].st \in {"blocked", "todo"}
      /\ items[i].st \notin {"todo", "running", "blocked"} => k[i].st = items[i].st
  BY <1>2, <1>3, <1>4, <1>5
<1> QED
  BY <1>6 DEF Swept, k, h, g

\* What starts may start, by the file the spawning leaves.
LEMMA LaunchedMayStart ==
  ASSUME NEW f \in Files, NEW S \in SUBSET ReadyIn(f), NEW i \in S
  PROVE  /\ i \in Item /\ f[i].st = "todo"
         /\ \A d \in Dep[i] : LET s == Launched(f, S)[d].st
                              IN /\ s \in SoftSettled \cup {"absent"}
                                 /\ i \notin soft => s \in Settled \cup {"absent"}
<1> DEFINE g == Launched(f, S)
<1>1. S \subseteq Item /\ \A j \in S : f[j].st = "todo"
  BY ReadySubset
<1>2. \A j \in Item : j \notin S => g[j] = f[j]
  BY <1>1, LaunchedIs
<1> HIDE DEF g
<1>3. Dep[i] \subseteq Item
  BY <1>1, ConstantsAssumption
<1>4. ASSUME NEW d \in Dep[i]
      PROVE  /\ f[d].st \in SoftSettled \cup {"absent"}
             /\ i \notin soft => f[d].st \in Settled \cup {"absent"}
  BY <1>1, <1>3 DEF ReadyIn, Ready, StOf, Hard, Soft, DepOf, SoftSettled
<1>5. ASSUME NEW d \in Dep[i] PROVE d \notin S
  BY <1>1, <1>4 DEF SoftSettled, Settled
<1>6. ASSUME NEW d \in Dep[i] PROVE g[d] = f[d]
  BY <1>2, <1>3, <1>5
<1> QED
  BY <1>1, <1>4, <1>6 DEF g

\* What is blocked in a tick has a dependency to blame in the file the tick leaves.
LEMMA SweptBlocks ==
  ASSUME TypeOK, NEW broke \in BOOLEAN, NEW i \in Item,
         items[i].st = "todo", Swept(broke)[i].st = "blocked"
  PROVE  i \notin soft /\ \E d \in Dep[i] : d \in Item /\ Swept(broke)[d].st \in Bad
<1> DEFINE f == Release(items)
           g == Settled1(broke)
           h == Propagate(g)
           k == GiveUp(h)
           B == NewlyBlocked(StOf(g), Hard(g, soft))
<1>1. f \in Files /\ g \in Files /\ h \in Files
  BY ReleaseType, Settled1Type, PropagateType DEF TypeOK, Files, Release
<1>2. i \notin Ended /\ i \notin Stalled
  BY KeptTypes
<1>3. g[i].st = "todo"
  <2>1. f[i].st = "todo"
    BY ReleaseLifts DEF TypeOK, Files, Release
  <2> QED
    BY <1>2, <2>1 DEF Settled1
<1>4. h[i].st = "blocked"
  BY <1>2 DEF Swept, GiveUp
<1>5. i \in B
  BY <1>3, <1>4 DEF Propagate
<1>6. Hard(g, soft) \in [Item -> SUBSET Item] /\ StOf(g) \in [Item -> Status]
  BY <1>1, HardType
<1>7. PICK d \in Hard(g, soft)[i] : StOf(g)[d] \in Bad \/ d \in B
  BY <1>5, <1>6, BlockedForCause
<1>8. d \in Item /\ d \in Dep[i] /\ i \notin soft
  BY <1>6, <1>7 DEF Hard, DepOf
<1>9. h[d].st \in Bad
  <2>1. CASE d \in B
    BY <1>1, <1>8, <2>1 DEF Propagate, Bad, Files, Record
  <2>2. CASE d \notin B
    BY <1>7, <1>8, <2>2 DEF Propagate, StOf
  <2> QED
    BY <2>1, <2>2
<1>10. k[d].st \in Bad
  <2>1. CASE d \in Stalled
    <3>1. items[d].st = "running" /\ d \notin Ended
      BY <2>1, KeptTypes DEF Stalled, Quiet
    <3>2. f[d].st = "running" /\ g[d] = f[d]
      BY <1>8, <3>1, ReleaseLifts DEF TypeOK, Files, Release, Settled1
    <3>3. h[d].st = "running"
      <4>1. d \in RunningIn(g) /\ RunningIn(h) = RunningIn(g)
        BY <1>1, <1>8, <3>2, PropagateRunning DEF RunningIn
      <4> QED
        BY <4>1 DEF RunningIn
    <3> QED
      BY <1>9, <3>3 DEF Bad
  <2>2. CASE d \notin Stalled
    BY <1>8, <1>9, <2>2 DEF GiveUp
  <2> QED
    BY <2>1, <2>2
<1> QED
  BY <1>8, <1>10 DEF Swept

\* The end at the spawn cap fails what is ready, and nothing else changes.
LEMMA FinalMoves ==
  ASSUME NEW f \in Files, NEW S, NEW i \in Item
  PROVE  \/ Final(f, S)[i].st = f[i].st
         \/ f[i].st = "todo" /\ Final(f, S)[i].st = "failed"
<1>1. i \in ReadyIn(f) => f[i].st = "todo"
  BY ReadySubset
<1> QED
  BY <1>1 DEF Final, FailReady, Files, Record

LEMMA MovesAre ==
  /\ Promise!Moves("todo") = {"todo", "running", "blocked", "failed"}
  /\ Promise!Moves("running") = {"running", "todo", "blocked", "failed", "done"}
  /\ Promise!Moves("blocked") = {"blocked", "todo", "running", "failed"}
  /\ \A s : s \notin {"todo", "running", "blocked"} => Promise!Moves(s) = {s}
BY DEF Promise!Moves

\* A tick is an advance of the checklist.
LEMMA TickAdvances ==
  ASSUME TypeOK, NoOrphan, NEW broke \in BOOLEAN, Tick(broke)
  PROVE  Promise!Advance
<1> DEFINE k == Swept(broke)
           S == Spawning(k, broke)
           l == Launched(k, S)
<1>1. k \in Files /\ S \in SUBSET ReadyIn(k) /\ l \in Files
  BY SweptType, SpawningSubset, LaunchedType
<1>2. S \subseteq Item /\ \A i \in S : k[i].st = "todo"
  BY <1>1, ReadySubset
<1>3. \A i \in Item : /\ i \in S => l[i].st = "running"
                      /\ i \notin S => l[i] = k[i]
  BY <1>1, <1>2, LaunchedIs
<1>4. run = "driving" /\ soft' = soft
  BY DEF Tick
<1>5. CASE TickOn(l, S, broke)
  <2>1. items' = l /\ run' = "driving"
    BY <1>4, <1>5 DEF TickOn
  <2> HIDE DEF k, S, l
  <2>2. ASSUME NEW i \in Item PROVE l[i].st \in Promise!Moves(items[i].st)
    BY <1>2, <1>3, SweptMoves, MovesAre DEF k
  <2>3. ASSUME NEW i \in Item, l[i].st = "running", items[i].st # "running"
        PROVE  i \in S
    <3>1. k[i].st # "running"
      BY <2>3, SweptMoves DEF k, TypeOK, Record, Status
    <3> QED
      BY <1>3, <2>3, <3>1
  <2>4. ASSUME NEW i \in S
        PROVE  \A d \in Dep[i] : l[d].st \in IF i \in soft THEN Promise!Out ELSE Promise!Over
    BY <1>1, LaunchedMayStart DEF l, Promise!Out, Promise!Over, Promise!Gone, SoftSettled, Settled
  <2>5. ASSUME NEW i \in Item, l[i].st = "blocked", items[i].st = "todo"
        PROVE  i \notin soft /\ \E d \in Dep[i] : l[d].st \in {"failed", "blocked"}
    <3>1. k[i].st = "blocked"
      BY <1>3, <2>5
    <3>2. PICK d \in Dep[i] : d \in Item /\ k[d].st \in Bad
      BY <2>5, <3>1, SweptBlocks DEF k
    <3>3. l[d].st \in {"failed", "blocked"}
      BY <1>2, <1>3, <3>2 DEF Bad
    <3> QED
      BY <2>5, <3>1, <3>3, SweptBlocks DEF k
  <2>6. StOf(items)' = [i \in Item |-> l[i].st] /\ StOf(items) = [i \in Item |-> items[i].st]
    BY <2>1 DEF StOf
  <2>7. [i \in Item |-> l[i].st] \in [Item -> UNION {Promise!Moves(items[i].st) : i \in Item}]
    BY <2>2
  <2>8. \A i \in Item : Dep[i] \subseteq Item
    BY ConstantsAssumption
  <2> QED
    BY <1>2, <1>4, <2>1, <2>2, <2>3, <2>4, <2>5, <2>6, <2>7, <2>8
       DEF Promise!Advance, Promise!MayStart, Promise!Failed
<1>6. ASSUME S = {}, Open = {}, items' \in {k, Final(k, S)}, run' = "closing"
      PROVE  Promise!Advance
  <2>1. \A i \in Item : items'[i].st = k[i].st \/ (k[i].st = "todo" /\ items'[i].st = "failed")
    BY <1>1, <1>6, FinalMoves
  <2> HIDE DEF k, S, l
  <2>2. ASSUME NEW i \in Item PROVE items'[i].st \in Promise!Moves(items[i].st)
    BY <2>1, SweptMoves, MovesAre DEF k
  <2>3. ASSUME NEW i \in Item PROVE items'[i].st # "running"
    <3>1. RunningIn(items) \subseteq Kept
      BY <1>4 DEF NoOrphan, RunningIn, Kept, Tasks
    <3>2. RunningIn(k) \subseteq Open
      BY <3>1, SweptRunning DEF Open, k
    <3> QED
      BY <1>6, <2>1, <3>2 DEF RunningIn
  <2>4. ASSUME NEW i \in Item, items'[i].st = "blocked", items[i].st = "todo"
        PROVE  i \notin soft /\ \E d \in Dep[i] : items'[d].st \in {"failed", "blocked"}
    <3>1. k[i].st = "blocked"
      BY <2>1, <2>4
    <3>2. PICK d \in Dep[i] : d \in Item /\ k[d].st \in Bad
      BY <2>4, <3>1, SweptBlocks DEF k
    <3>3. items'[d].st \in {"failed", "blocked"}
      BY <2>1, <3>2 DEF Bad
    <3> QED
      BY <2>4, <3>1, <3>3, SweptBlocks DEF k
  <2>5. StOf(items)' = [i \in Item |-> items'[i].st] /\ StOf(items) = [i \in Item |-> items[i].st]
    BY DEF StOf
  <2>6. [i \in Item |-> items'[i].st] \in [Item -> UNION {Promise!Moves(items[i].st) : i \in Item}]
    BY <2>2
  <2>7. \A i \in Item : Dep[i] \subseteq Item
    BY ConstantsAssumption
  <2> QED
    BY <1>4, <1>6, <2>2, <2>3, <2>4, <2>5, <2>6, <2>7
       DEF Promise!Advance, Promise!MayStart, Promise!Failed
<1>7. S = {} => l = k
  BY <1>1 DEF Launched, Files
<1>8. CASE TickPause(l, S, broke)
  <2>1. S = {} /\ Open = {} /\ items' = l /\ run' = "closing"
    BY <1>8 DEF TickPause, Idling
  <2> QED
    BY <1>6, <1>7, <2>1
<1>9. CASE TickEnd(l, S, broke)
  <2>1. S = {} /\ Open = {} /\ items' = Final(l, S) /\ run' = "closing"
    BY <1>9 DEF TickEnd, Over, Idling
  <2> QED
    BY <1>6, <1>7, <2>1
<1> QED
  BY <1>5, <1>8, <1>9 DEF Tick

\* A stuttering step of the checklist: statuses, softness and liveness of the run stay.
StaysAsIs ==
  /\ \A i \in Item : items'[i].st = items[i].st
  /\ soft' = soft /\ (run' = "driving" <=> run = "driving")

LEMMA StaysStutters ==
  ASSUME TypeOK, StaysAsIs
  PROVE  UNCHANGED Promise!vars
<1>1. StOf(items)' = StOf(items)
  BY DEF StaysAsIs, StOf
<1>2. (run = "driving")' = (run = "driving")
  BY DEF StaysAsIs
<1> QED
  BY <1>1, <1>2 DEF StaysAsIs, Promise!vars

\* Who only reads the file, and saves what the reading released.
LEMMA LiftsLift ==
  ASSUME TypeOK, \A i \in Item : \/ items'[i].st = items[i].st
                                 \/ items[i].st = "blocked" /\ items'[i].st = "todo",
         soft' = soft, run' = run
  PROVE  Promise!Lift
<1>1. \A i \in Item : StOf(items)'[i] = items'[i].st /\ StOf(items)[i] = items[i].st
  BY DEF StOf
<1> QED
  BY <1>1 DEF Promise!Lift, Promise!Lifted

LEMMA RunnerKeeps ==
  ASSUME TypeOK, Runner
  PROVE  Promise!Next \/ UNCHANGED Promise!vars
<1> DEFINE u == Unrun(Release(items))
<1>1. \A i \in Item :
        IF items[i].st = "running" THEN u[i].st = "todo"
        ELSE u[i].st = items[i].st \/ (items[i].st = "blocked" /\ u[i].st = "todo")
  <2>1. Release(items) \in Files
    BY ReleaseType DEF TypeOK, Files, Release
  <2>2. \A i \in Item : \/ Release(items)[i].st = items[i].st
                        \/ items[i].st = "blocked" /\ Release(items)[i].st = "todo"
    BY ReleaseLifts DEF TypeOK, Files, Release
  <2> QED
    BY <2>1, <2>2, UnrunHandsBack
<1> HIDE DEF u
<1>2. ASSUME items' = u, soft' = soft
      PROVE  \A i \in Item : Promise!HandedBack(i)
  <2>1. \A i \in Item : StOf(items)'[i] = items'[i].st /\ StOf(items)[i] = items[i].st
    BY DEF StOf
  <2> QED
    BY <1>1, <1>2, <2>1 DEF Promise!HandedBack, Promise!Lifted
<1>3. CASE BeginDrive
  <2>1. items' = u /\ soft' = soft /\ run = "starting" /\ run' = "driving"
    BY <1>3 DEF BeginDrive, u
  <2>2. Promise!Begin
    BY <1>2, <2>1 DEF Promise!Begin
  <2> QED
    BY <2>2 DEF Promise!Next
<1>4. CASE Close
  <2>1. items' = u /\ soft' = soft /\ run = "closing" /\ run' = "idle"
    BY <1>4 DEF Close, Forget, u
  <2>2. Promise!HandBack
    BY <1>2, <2>1 DEF Promise!HandBack
  <2> QED
    BY <2>2 DEF Promise!Next
<1>5. CASE Unwind \/ (Crash /\ run = "driving")
  <2>1. items' = items /\ soft' = soft /\ run = "driving" /\ run' # "driving"
    BY <1>5 DEF Unwind, Crash, Forget, file
  <2>2. StOf(items)' = StOf(items)
    BY <2>1 DEF StOf
  <2>3. Promise!Interrupt
    BY <2>1, <2>2 DEF Promise!Interrupt
  <2> QED
    BY <2>3 DEF Promise!Next
<1>6. CASE \/ Start \/ ResumeNothing \/ AbandonStart \/ EndEarly \/ StopClosing \/ CloseUnsaved
           \/ (Crash /\ run # "driving")
  <2>1. items' = items /\ soft' = soft /\ run # "driving" /\ run' # "driving"
    BY <1>6 DEF Start, ResumeNothing, AbandonStart, EndEarly, StopClosing, CloseUnsaved, Crash,
                Forget, file
  <2> QED
    BY <2>1, StaysStutters DEF StaysAsIs
<1> QED
  BY <1>3, <1>4, <1>5, <1>6 DEF Runner

LEMMA AttemptKeeps ==
  ASSUME TypeOK, NEW i \in Item, Attempt(i)
  PROVE  Promise!Next \/ UNCHANGED Promise!vars
<1> DEFINE f == Release(items)
<1>1. f \in Files /\ \A j \in Item : \/ f[j].st = items[j].st
                                     \/ items[j].st = "blocked" /\ f[j].st = "todo"
  BY ReleaseType, ReleaseLifts DEF TypeOK, Files, Release
<1>2. CASE OpenConversation(i)
  <2>1. items' = f /\ soft' = soft /\ run' = run
    BY <1>2 DEF OpenConversation
  <2> QED
    BY <1>1, <2>1, LiftsLift DEF Promise!Next
<1>3. ASSUME NEW s \in ReportStatus, NEW x \in Texts, PlanReport(i, s, x)
      PROVE  Promise!Next
  <2> DEFINE g == [f EXCEPT ![i].rep = [s |-> s, text |-> x, late |-> task[i].pc # "turn"]]
  <2>1. items' = g /\ soft' = soft /\ run' = run
    BY <1>3 DEF PlanReport
  <2>2. \A j \in Item : g[j].st = f[j].st
    BY <1>1 DEF Files, Record
  <2> HIDE DEF g, f
  <2>3. \A j \in Item : \/ items'[j].st = items[j].st
                        \/ items[j].st = "blocked" /\ items'[j].st = "todo"
    BY <1>1, <2>1, <2>2
  <2> QED
    BY <2>1, <2>3, LiftsLift DEF Promise!Next
<1>4. CASE ZombieGone(i) \/ FallQuiet(i) \/ \E e \in Endings : EndAttempt(i, e)
  <2>1. items' = items /\ soft' = soft /\ run' = run
    BY <1>4 DEF ZombieGone, FallQuiet, EndAttempt, file
  <2> QED
    BY <2>1, StaysStutters DEF StaysAsIs
<1> QED
  BY <1>2, <1>3, <1>4 DEF Attempt

\* An edit of one item lifts blocks of others at most, and starts nothing.
LEMMA EditorKeeps ==
  ASSUME TypeOK, NEW i \in Item, Editor(i)
  PROVE  Promise!Edit(i)
<1> DEFINE f == Release(items)
           Lifts(j) == \/ items'[j].st = items[j].st
                       \/ items[j].st = "blocked" /\ items'[j].st = "todo"
<1>1. f \in Files /\ f[i] \in Record /\ \A j \in Item : \/ f[j].st = items[j].st
                                                        \/ items[j].st = "blocked" /\ f[j].st = "todo"
  BY ReleaseType, ReleaseLifts DEF TypeOK, Files, Release
<1>2. run' = run /\ items'[i].st = "running" => items[i].st = "running"
  BY EditorStep DEF RunningIn
<1>3. \/ soft' = soft /\ \E r \in Record : items' = Release([f EXCEPT ![i] = r])
      \/ items' = ReleaseWith(f, soft') /\ soft' \ {i} = soft \ {i}
  BY EditIs
<1>4. \A j \in Item \ {i} : Lifts(j)
  <2>1. ASSUME NEW r \in Record, items' = Release([f EXCEPT ![i] = r]), NEW j \in Item \ {i}
        PROVE  Lifts(j)
    <3> DEFINE g == [f EXCEPT ![i] = r]
    <3>1. g \in Files /\ g[j] = f[j]
      BY <1>1, <2>1 DEF Files
    <3> HIDE DEF g
    <3>2. \/ Release(g)[j].st = g[j].st
          \/ g[j].st = "blocked" /\ Release(g)[j].st = "todo"
      BY <3>1, ReleaseLifts DEF Release
    <3>3. items' = Release(g)
      BY <2>1 DEF g
    <3> QED
      BY <1>1, <3>1, <3>2, <3>3
  <2>2. ASSUME items' = ReleaseWith(f, soft'), NEW j \in Item
        PROVE  Lifts(j)
    <3>1. \/ ReleaseWith(f, soft')[j].st = f[j].st
          \/ f[j].st = "blocked" /\ ReleaseWith(f, soft')[j].st = "todo"
      BY <1>1, ReleaseLifts
    <3> QED
      BY <1>1, <2>2, <3>1
  <2> QED
    BY <1>3, <2>1, <2>2
<1>5. \A j \in Item : StOf(items)'[j] = items'[j].st /\ StOf(items)[j] = items[j].st
  BY DEF StOf
<1>6. soft' \ {i} = soft \ {i}
  BY <1>3
<1>7. run' = run
  BY EditorStep
<1> QED
  BY <1>2, <1>4, <1>5, <1>6, <1>7 DEF Promise!Edit, Promise!Lifted

(***************************************************************************)
(* The runner implements the checklist: however attempts, edits, stops and  *)
(* crashes interleave, on a plan of any size, nothing that is settled is    *)
(* touched by the runner, nothing starts outside a live drive or ahead of   *)
(* its dependencies, no edit starts anything, and whoever reads the file    *)
(* lifts blocks at most.                                                    *)
(***************************************************************************)
THEOREM RunnerKeepsPromise == Spec => ImplementsChecklist
<1>1. Init => Promise!Init
  BY ConstantsAssumption DEF Init, Promise!Init, StOf, Fresh, Absent
<1>2. TypeOK /\ NoOrphan /\ [Next]_vars => Promise!Next \/ UNCHANGED Promise!vars
  <2> SUFFICES ASSUME TypeOK, NoOrphan, [Next]_vars
               PROVE  Promise!Next \/ UNCHANGED Promise!vars
    OBVIOUS
  <2>1. CASE UNCHANGED vars
    BY <2>1, StaysStutters DEF vars, file, StaysAsIs
  <2>2. ASSUME NEW broke \in BOOLEAN, Tick(broke) PROVE Promise!Next
    BY <2>2, TickAdvances DEF Promise!Next
  <2>3. CASE Runner
    BY <2>3, RunnerKeeps
  <2>4. CASE SpendTokens
    BY <2>4, StaysStutters DEF SpendTokens, file, StaysAsIs
  <2>5. ASSUME NEW i \in Item, Attempt(i) PROVE Promise!Next \/ UNCHANGED Promise!vars
    BY <2>5, AttemptKeeps
  <2>6. ASSUME NEW i \in Item, Editor(i) PROVE Promise!Next
    BY <2>6, EditorKeeps DEF Promise!Next
  <2> QED
    BY <2>1, <2>2, <2>3, <2>4, <2>5, <2>6 DEF Next
<1>3. TypeOK' => StOf(items)' \in [Item -> {"absent", "todo", "running", "blocked", "done",
                                            "failed", "skipped"}]
  BY DEF TypeOK, StOf, Record, Status
<1> QED
  BY <1>1, <1>2, <1>3, TypeCorrect, RunningIsAttended, PTL DEF Spec, ImplementsChecklist, Promise!Spec
=============================================================================
