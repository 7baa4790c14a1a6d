--------------------------- MODULE SchedulesProofs ---------------------------
(***************************************************************************)
(* Theorems of Schedules, for any number of requests, any cadences and any  *)
(* length of a day, whatever is edited, fails or restarts.                  *)
(***************************************************************************)
EXTENDS Schedules, FiniteSetTheorems, TLAPS

LEMMA Limits ==
  /\ MaxTime \in Nat /\ MaxEdits \in Nat /\ MaxCrashes \in Nat /\ MaxFaults \in Nat
  /\ Day \in Nat \ {0}
BY SchedulesAssumption

LEMMA Names == "heartbeat" \notin Req /\ Free \notin Starter /\ "heartbeat" \in Starter
BY SchedulesAssumption DEF Starter

-----------------------------------------------------------------------------
\* The clock's arithmetic: a time of day comes again within a day.

LEMMA LessThanOneTurn ==
  ASSUME NEW D \in Nat \ {0}, NEW k \in Int, k * D < D, k * D > -D
  PROVE  k = 0
<1>1. CASE k >= 1
  BY <1>1, SMT
<1>2. CASE k <= -1
  BY <1>2, SMT
<1> QED
  BY <1>1, <1>2

LEMMA ModOfSum ==
  ASSUME NEW D \in Nat \ {0}, NEW q \in Int, NEW n \in 0..D-1
  PROVE  (q * D + n) % D = n
<1> DEFINE x == q * D + n
<1>1. x = (x \div D) * D + (x % D) /\ x % D \in 0..D-1 /\ x \div D \in Int
  BY SMT
<1>2. (q - (x \div D)) * D = (x % D) - n
  BY <1>1, SMT
<1>3. q - (x \div D) = 0
  BY <1>1, <1>2, LessThanOneTurn
<1> QED
  BY <1>1, <1>2, <1>3

LEMMA TimeComesAgain ==
  ASSUME NEW D \in Nat \ {0}, NEW n \in 0..D-1, NEW t \in Nat
  PROVE  \E u \in t + 1 .. t + D : u % D = n
<1> DEFINE q == (t + 1) \div D
           r == (t + 1) % D
<1>1. t + 1 = q * D + r /\ r \in 0..D-1 /\ q \in Int
  BY SMT
<1> HIDE DEF q, r
<1>2. CASE n >= r
  <2>1. q * D + n \in t + 1 .. t + D
    BY <1>1, <1>2
  <2> QED
    BY <2>1, <1>1, ModOfSum
<1>3. CASE n < r
  <2>1. (q + 1) * D + n = t + 1 - r + D + n
    BY <1>1, SMT
  <2>2. (q + 1) * D + n \in t + 1 .. t + D /\ q + 1 \in Int
    BY <2>1, <1>1, <1>3
  <2> QED
    BY <2>2, ModOfSum
<1> QED
  BY <1>1, <1>2, <1>3

\* compute_next moves on: the time it gives is after the one it was asked at.
LEMMA NextIsLater ==
  ASSUME NEW c \in Cadence, NEW t \in Nat
  PROVE  ComputeNext(c, t) \in Nat /\ ComputeNext(c, t) > t
<1>1. c.n \in Nat /\ (c.kind # "interval" => c.n \in 0..Day-1) /\ (c.kind = "interval" => c.n > 0)
  BY SchedulesAssumption
<1>2. CASE c.kind = "interval"
  BY <1>1, <1>2 DEF ComputeNext
<1>3. CASE c.kind # "interval"
  <2>1. \E u \in t + 1 .. t + Day : u % Day = c.n
    BY <1>1, <1>3, TimeComesAgain, SchedulesAssumption
  <2>2. ComputeNext(c, t) \in t + 1 .. t + Day
    BY <1>3, <2>1 DEF ComputeNext
  <2> QED
    BY <2>2, SchedulesAssumption
<1> QED
  BY <1>2, <1>3

-----------------------------------------------------------------------------
\* The types.

RowType == [in : {"list", "bin", "gone"}, enabled : BOOLEAN, ver : 0..MaxEdits, cad : Cadence,
            next : Nat, result : {"never", "running", "done", "interrupted"}]

\* The steps of the operator, the clock and the process.
Aside ==
  \/ Clock \/ Crash \/ Disable \/ Delete \/ Purge
  \/ \E o \in Operator : SetTime(o)

\* The steps of a starter and of its run.
Starting(s) ==
  \/ RunNowReads(s) /\ s \in Req
  \/ RunNow(s) /\ s \in Req
  \/ s = "heartbeat" /\ (Boot \/ BootFails \/ TickReads \/ Claim)
  \/ Reserve(s) \/ ReservedFails(s) \/ RunEnds(s) \/ RunStored(s) \/ RunLost(s)

LEMMA NextSplits == Next => Aside \/ \E s \in Starter : Starting(s)
BY DEF Next, Aside, Starting, Heartbeat, Starter

LEMMA InitType == Init => TypeOK
<1> SUFFICES ASSUME Init PROVE TypeOK
  OBVIOUS
<1>1. now = 0 /\ now \in 0..MaxTime /\ faults \in 0..MaxFaults /\ stops \in 0..MaxCrashes
  BY Limits DEF Init
<1>2. PICK c \in Cadence :
        row = [in |-> "list", enabled |-> TRUE, ver |-> 0, cad |-> c, next |-> ComputeNext(c, 0),
               result |-> "never"]
  BY DEF Init
<1>3. ComputeNext(c, 0) \in Nat
  BY NextIsLater
<1>4. row \in RowType
  BY <1>2, <1>3, Limits DEF RowType
<1> QED
  BY <1>1, <1>4, Limits DEF Init, TypeOK, RowType, Starter

\* What a request asks: a time after the one it was computed at.
LEMMA AsksType ==
  ASSUME TypeOK, NEW o \in Operator, NEW c \in Cadence, NEW what \in {"edit", "enable", "restore"},
         Asks(o, what, c)
  PROVE  TypeOK'
<1>1. now \in Nat /\ ComputeNext(c, now) \in Nat
  BY Limits, NextIsLater DEF TypeOK
<1>2. [what |-> what, cad |-> c, next |-> ComputeNext(c, now)] \in Ask
  BY <1>1 DEF Ask
<1> QED
  BY <1>2 DEF Asks, TypeOK

LEMMA AskedType ==
  ASSUME TypeOK, NEW o \in Operator, asked[o].what # "none"
  PROVE  asked[o] \in Ask /\ asked[o].next \in Nat /\ asked[o].cad \in Cadence
<1>1. asked[o] \in Ask \cup {NoAsk} /\ asked[o] # NoAsk
  BY DEF TypeOK, NoAsk
<1> QED
  BY <1>1 DEF Ask

LEMMA WritesType ==
  ASSUME TypeOK, NEW o \in Operator, asked[o].what # "none", NEW r \in RowType, Writes(o, r)
  PROVE  TypeOK'
<1>1. late' \in BOOLEAN
  BY DEF Writes
<1>2. asked' \in [Operator -> Ask \cup {NoAsk}]
  BY DEF Writes, TypeOK
<1> QED
  BY <1>1, <1>2 DEF Writes, TypeOK, RowType

LEMMA SetTimeType ==
  ASSUME TypeOK, NEW o \in Operator, SetTime(o)
  PROVE  TypeOK'
<1>0. row \in RowType
  BY DEF TypeOK, RowType
<1>1. CASE EnableAsks(o) \/ RestoreAsks(o)
  BY <1>1, AsksType DEF EnableAsks, RestoreAsks, TypeOK
<1>2. ASSUME NEW c \in Cadence, EditAsks(o, c) PROVE TypeOK'
  BY <1>2, AsksType DEF EditAsks
<1>3. CASE EditWrites(o)
  <2>1. row.ver + 1 \in 0..MaxEdits /\ asked[o].what # "none"
    BY <1>3, Limits DEF EditWrites, TypeOK
  <2>2. [row EXCEPT !.ver = @ + 1, !.cad = asked[o].cad, !.next = asked[o].next] \in RowType
    BY <1>0, <2>1, AskedType DEF RowType
  <2> QED
    BY <1>3, <2>1, <2>2, WritesType DEF EditWrites
<1>4. CASE EnableWrites(o)
  <2>1. asked[o].what # "none" /\ (row.enabled \/ Listed) \in BOOLEAN
    BY <1>4 DEF EnableWrites, TypeOK, Listed
  <2>2. [row EXCEPT !.enabled = @ \/ Listed, !.next = asked[o].next] \in RowType
    BY <1>0, <2>1, AskedType DEF RowType
  <2> QED
    BY <1>4, <2>1, <2>2, WritesType DEF EnableWrites
<1>5. CASE RestoreWrites(o)
  <2>1. asked[o].what # "none"
    BY <1>5 DEF RestoreWrites
  <2>2. [row EXCEPT !.in = "list", !.next = asked[o].next] \in RowType
    BY <1>0, <2>1, AskedType DEF RowType
  <2> QED
    BY <1>5, <2>1, <2>2, WritesType DEF RestoreWrites
<1>6. CASE MissesRow(o)
  BY <1>6 DEF MissesRow, WritesNone, TypeOK
<1> QED
  BY <1>1, <1>2, <1>3, <1>4, <1>5, <1>6 DEF SetTime

LEMMA AsideType ==
  ASSUME TypeOK, Aside
  PROVE  TypeOK'
<1> USE DEF TypeOK
<1>0. now \in Nat
  BY Limits
<1>1. CASE Clock
  BY <1>1, Limits DEF Clock
<1>2. CASE Crash
  <2>1. /\ stops' \in 0..MaxCrashes /\ faults' \in 0..MaxFaults
        /\ now' \in 0..MaxTime /\ row' = row
    BY <1>2, Limits DEF Crash
  <2>2. /\ seen' \in [Starter -> Seen \cup {NoRun}] /\ run' \in [Starter -> Seen \cup {NoRun}]
        /\ ended' \in [Starter -> 0..MaxTime \cup {NoRun}] /\ running' \in Starter \cup {Free}
        /\ \A s \in Starter : ended'[s] = NoRun
    BY <1>2 DEF Crash
  <2>3. asked' \in [Operator -> Ask \cup {NoAsk}] /\ late' \in BOOLEAN
    BY <1>2 DEF Crash
  <2>4. /\ at' \in [Starter -> {"boot", "idle", "read", "reserved", "off"}]
        /\ \A s \in Starter : at'[s] \notin {"read", "reserved"}
    BY <1>2 DEF Crash
  <2> QED
    BY <2>1, <2>2, <2>3, <2>4
<1>3. CASE Disable
  BY <1>3 DEF Disable
<1>4. ASSUME NEW o \in Operator, SetTime(o) PROVE TypeOK'
  BY <1>4, SetTimeType
<1>5. CASE Delete
  BY <1>5 DEF Delete
<1>6. CASE Purge
  BY <1>6 DEF Purge
<1> QED
  BY <1>1, <1>2, <1>3, <1>4, <1>5, <1>6 DEF Aside

LEMMA SeeType ==
  ASSUME TypeOK
  PROVE  See \in Seen /\ See # NoRun
<1>1. See \in Seen /\ See \in [ver : Nat, cad : Cadence, next : Nat, to : Nat]
  BY Limits DEF TypeOK, See, Seen
<1> QED
  BY <1>1, SchedulesAssumption

LEMMA StartingType ==
  ASSUME TypeOK, NEW s \in Starter, Starting(s)
  PROVE  TypeOK'
<1> USE DEF TypeOK
<1>0. now \in Nat /\ "heartbeat" \in Starter
  BY Limits, Names
<1>1. CASE RunNowReads(s)
  BY <1>1, SeeType DEF RunNowReads, Reads, Go
<1>2. CASE RunNow(s)
  <2>1. row' \in RowType
    BY <1>2 DEF RunNow, RowType
  <2> QED
    BY <1>2, <2>1 DEF RunNow, Launch, Leave, RowType
<1>3. CASE Boot
  <2>1. row' \in RowType
    BY <1>3 DEF Boot, RowType
  <2> QED
    BY <1>0, <1>3, <2>1 DEF Boot, Go, RowType
<1>4. CASE BootFails
  BY <1>0, <1>4, Limits DEF BootFails, Go
<1>5. CASE TickReads
  BY <1>0, <1>5, SeeType DEF TickReads, Reads, Go
<1>6. CASE Claim
  <2>1. seen["heartbeat"] \in Seen
    BY <1>0, <1>6 DEF Claim
  <2>2. row' \in RowType
    BY <1>6, <2>1 DEF Claim, RowType, Seen
  <2> QED
    BY <1>0, <1>6, <2>2 DEF Claim, Launch, Leave, RowType
<1>7. CASE Reserve(s)
  <2>1. CASE running = Free /\ running' = s /\ Go(s, "reserved") /\ Prepares(s)
    <3>1. seen[s] \in Seen /\ seen[s] # NoRun
      BY <1>7 DEF Reserve
    <3>2. ComputeNext(seen[s].cad, now) \in Nat
      BY <1>0, <3>1, NextIsLater DEF Seen
    <3>3. [seen[s] EXCEPT !.to = ComputeNext(seen[s].cad, now)] \in Seen
      BY <3>1, <3>2 DEF Seen
    <3>4. Seen \subseteq [ver : Nat, cad : Cadence, next : Nat, to : Nat]
      BY Limits DEF Seen
    <3>5. [seen[s] EXCEPT !.to = ComputeNext(seen[s].cad, now)] # NoRun
      BY <3>3, <3>4, SchedulesAssumption
    <3>6. seen' \in [Starter -> Seen \cup {NoRun}] /\ seen'[s] # NoRun
          /\ \A z \in Starter \ {s} : seen'[z] = seen[z]
      BY <2>1, <3>1, <3>3, <3>5 DEF Prepares
    <3>7. at' \in [Starter -> {"boot", "idle", "read", "reserved", "off"}]
          /\ \A z \in Starter \ {s} : at'[z] = at[z]
      BY <2>1 DEF Go
    <3>8. \A z \in Starter : at'[z] \in {"read", "reserved"} => seen'[z] # NoRun
      BY <3>6, <3>7
    <3> QED
      BY <1>7, <2>1, <3>6, <3>7, <3>8 DEF Reserve
  <2>2. CASE Leave(s) /\ UNCHANGED running
    BY <1>7, <2>2 DEF Reserve, Leave
  <2> QED
    BY <1>7, <2>1, <2>2 DEF Reserve
<1>8. CASE ReservedFails(s)
  BY <1>8, Limits DEF ReservedFails, Leave
<1>9. CASE RunEnds(s)
  <2>1. ended' \in [Starter -> 0..MaxTime \cup {NoRun}]
    BY <1>9 DEF RunEnds
  <2>2. \A z \in Starter : ended'[z] # NoRun => run'[z] # NoRun
    BY <1>9 DEF RunEnds
  <2> QED
    BY <1>9, <2>1, <2>2 DEF RunEnds
<1>10. CASE RunStored(s)
  <2>1. ended[s] \in 0..MaxTime /\ run[s] \in Seen
    BY <1>10 DEF RunStored
  <2>2. ComputeNext(run[s].cad, ended[s]) \in Nat
    BY <2>1, Limits, NextIsLater DEF Seen
  <2>3. row' \in RowType
    BY <1>10, <2>2 DEF RunStored, RowType
  <2> QED
    BY <1>10, <2>3 DEF RunStored, Done, RowType
<1>11. CASE RunLost(s)
  BY <1>11, Limits DEF RunLost, Done
<1> QED
  BY <1>1, <1>2, <1>3, <1>4, <1>5, <1>6, <1>7, <1>8, <1>9, <1>10, <1>11 DEF Starting

LEMMA StutterType == TypeOK /\ UNCHANGED vars => TypeOK'
BY DEF TypeOK, vars

\* Every reachable state has the types of TypeOK: the times the heartbeat and the edits
\* compute are times, and a starter that has read the row has read something.
THEOREM TypeCorrect == Spec => []TypeOK
<1>1. TypeOK /\ [Next]_vars => TypeOK'
  BY NextSplits, AsideType, StartingType, StutterType
<1> QED
  BY <1>1, InitType, PTL DEF Spec

-----------------------------------------------------------------------------
\* One run at a time.  The slot is the starter's from before it writes the row to the end of
\* its run, and a starter that has just taken the slot has no run.
Slot ==
  /\ \A s \in Starter : run[s] # NoRun => running = s
  /\ \A s \in Starter : at[s] = "reserved" => running = s /\ run[s] = NoRun

\* The operator's requests leave everything but the row to the others.
LEMMA SetTimeLeaves ==
  ASSUME NEW o \in Operator, SetTime(o)
  PROVE  UNCHANGED <<now, seen, at, running, run, ended, stops, faults>>
BY DEF SetTime, EnableAsks, RestoreAsks, EditAsks, Asks, EditWrites, EnableWrites, RestoreWrites,
       MissesRow, Writes, WritesNone

LEMMA AsideSlot ==
  ASSUME TypeOK, Slot, Aside
  PROVE  Slot'
<1>1. CASE Crash
  BY <1>1 DEF Crash, Slot, TypeOK
<1>2. CASE ~Crash
  <2>1. UNCHANGED <<run, running, at>>
    BY <1>2, SetTimeLeaves DEF Aside, Clock, Disable, Delete, Purge
  <2> QED
    BY <2>1 DEF Slot
<1> QED
  BY <1>1, <1>2

LEMMA StartingSlot ==
  ASSUME TypeOK, Slot, NEW s \in Starter, Starting(s)
  PROVE  Slot'
<1> USE Names DEF TypeOK, Slot
<1>1. CASE RunNowReads(s)
  BY <1>1 DEF RunNowReads, Reads, Go
<1>2. CASE RunNow(s)
  BY <1>2 DEF RunNow, Launch, Leave
<1>3. CASE s = "heartbeat" /\ (Boot \/ BootFails \/ TickReads)
  BY <1>3 DEF Boot, BootFails, TickReads, Reads, Go
<1>4. CASE s = "heartbeat" /\ Claim
  BY <1>4 DEF Claim, Launch, Leave
<1>5. CASE Reserve(s)
  <2>1. CASE running = Free /\ running' = s /\ Go(s, "reserved")
    <3>1. \A z \in Starter : run[z] = NoRun /\ at[z] # "reserved"
      BY <2>1
    <3> QED
      BY <1>5, <2>1, <3>1 DEF Reserve, Go
  <2>2. CASE Leave(s) /\ UNCHANGED running
    BY <1>5, <2>2 DEF Reserve, Leave
  <2> QED
    BY <1>5, <2>1, <2>2 DEF Reserve
<1>6. CASE ReservedFails(s)
  BY <1>6 DEF ReservedFails, Leave
<1>7. CASE RunStored(s) \/ RunLost(s)
  BY <1>7 DEF RunStored, RunLost, Done
<1>8. CASE RunEnds(s)
  BY <1>8 DEF RunEnds
<1> QED
  BY <1>1, <1>2, <1>3, <1>4, <1>5, <1>6, <1>7, <1>8 DEF Starting

LEMMA SlotIsOneRun == Slot => OneRun
<1> SUFFICES ASSUME Slot PROVE OneRun
  OBVIOUS
<1> DEFINE R == {s \in Starter : run[s] # NoRun}
<1>1. R \subseteq {running}
  BY DEF Slot
<1>2. IsFiniteSet({running}) /\ Cardinality({running}) = 1
  BY FS_Singleton
<1>3. Cardinality(R) <= Cardinality({running})
  BY <1>1, <1>2, FS_Subset
<1> QED
  BY <1>2, <1>3 DEF OneRun, Slot

LEMMA SlotHolds == Spec => [](TypeOK /\ Slot)
<1>1. Init => Slot
  BY DEF Init, Slot
<1>2. TypeOK /\ Slot /\ [Next]_vars => Slot'
  <2> SUFFICES ASSUME TypeOK, Slot, [Next]_vars PROVE Slot'
    OBVIOUS
  <2>1. CASE UNCHANGED vars
    BY <2>1 DEF Slot, vars
  <2> QED
    BY <2>1, NextSplits, AsideSlot, StartingSlot
<1> QED
  BY <1>1, <1>2, TypeCorrect, PTL DEF Spec

\* However the heartbeat and run-now meet, and whatever fails or restarts, the schedule runs
\* once at a time, and the slot names the run.
THEOREM OneRunAtATime == Spec => []OneRun
BY SlotHolds, SlotIsOneRun, PTL

-----------------------------------------------------------------------------
\* What the row says of its run.

LEMMA RunningStep ==
  ASSUME TypeOK, RunningIsTrue, [Next]_vars
  PROVE  RunningIsTrue'
<1> USE Names DEF RunningIsTrue
<1>1. CASE UNCHANGED vars
  BY <1>1 DEF vars
<1>2. CASE Aside
  <2>1. CASE Crash
    BY <2>1 DEF Crash, TypeOK
  <2>2. CASE ~Crash
    <3>1. CASE Clock \/ Disable \/ Delete \/ Purge
      BY <3>1 DEF Clock, Disable, Delete, Purge, TypeOK, Listed
    <3>2. ASSUME NEW o \in Operator, SetTime(o) PROVE RunningIsTrue'
      <4>1. UNCHANGED <<run, at, faults>>
        BY <3>2, SetTimeLeaves
      <4>2. row'.result = row.result /\ (row'.in # "gone" => row.in # "gone")
        BY <3>2 DEF SetTime, EnableAsks, RestoreAsks, EditAsks, Asks, EditWrites, EnableWrites,
                    RestoreWrites, MissesRow, Writes, WritesNone, TypeOK, Listed
      <4> QED
        BY <4>1, <4>2
    <3> QED
      BY <1>2, <2>2, <3>1, <3>2 DEF Aside
  <2> QED
    BY <2>1, <2>2
<1>3. ASSUME NEW s \in Starter, Starting(s) PROVE RunningIsTrue'
  <2> USE DEF TypeOK
  <2>0. faults \in Nat
    BY Limits
  <2>1. CASE RunNowReads(s) /\ s \in Req
    BY <2>1 DEF RunNowReads, Reads, Go
  <2>2. CASE RunNow(s)
    BY <2>2 DEF RunNow, Launch, Leave
  <2>3. CASE s = "heartbeat" /\ Boot
    BY <2>3 DEF Boot, Go
  <2>4. CASE s = "heartbeat" /\ TickReads
    BY <2>4 DEF TickReads, Reads, Go
  <2>5. CASE s = "heartbeat" /\ Claim
    BY <2>5 DEF Claim, Launch, Leave
  <2>6. CASE Reserve(s)
    BY <2>6 DEF Reserve, Go, Leave, Prepares
  <2>7. CASE BootFails \/ ReservedFails(s) \/ RunLost(s)
    <3>1. faults' = faults + 1
      BY <2>7 DEF BootFails, ReservedFails, RunLost
    <3> QED
      BY <2>0, <3>1
  <2>8. CASE RunStored(s)
    BY <2>8 DEF RunStored, Done
  <2>9. CASE RunEnds(s)
    BY <2>9 DEF RunEnds
  <2> QED
    BY <1>3, <2>1, <2>2, <2>3, <2>4, <2>5, <2>6, <2>7, <2>8, <2>9 DEF Starting
<1> QED
  BY <1>1, <1>2, <1>3, NextSplits

\* Short of a failed write, the row says `running` only while its run is in flight, or after
\* a restart that the heartbeat has yet to look at.
THEOREM RunningIsSaidTruly == Spec => []RunningIsTrue
<1>1. Init => RunningIsTrue
  BY DEF Init, RunningIsTrue
<1> QED
  BY <1>1, RunningStep, TypeCorrect, PTL DEF Spec

-----------------------------------------------------------------------------
\* What the heartbeat starts.  Once the tick has read the row it is due, and every edit since
\* has put the time of the row past the one that was read, unless it came late; and what the
\* claim will move the row to is past it too.
Fresh ==
  at["heartbeat"] \in {"read", "reserved"} =>
    /\ seen["heartbeat"].next <= now
    /\ seen["heartbeat"].ver <= row.ver
    /\ seen["heartbeat"].ver # row.ver => late \/ row.next > seen["heartbeat"].next
    /\ at["heartbeat"] = "reserved" => seen["heartbeat"].to > seen["heartbeat"].next

\* The heartbeat stays where it is with what it has read, the clock and the edits go on, and
\* the time of the row stays, moves on, or is past the clock unless it was written late.
Onward ==
  /\ at'["heartbeat"] \in {"read", "reserved"} =>
       at'["heartbeat"] = at["heartbeat"] /\ seen'["heartbeat"] = seen["heartbeat"]
  /\ now' >= now
  /\ at'["heartbeat"] \in {"read", "reserved"} =>
       \/ row'.ver = row.ver /\ row'.next >= row.next /\ (late => late')
       \/ row'.ver >= row.ver /\ (row'.next > now \/ late')

LEMMA OnwardIsFresh ==
  ASSUME TypeOK, Fresh, Onward, TypeOK'
  PROVE  Fresh'
<1> SUFFICES ASSUME at'["heartbeat"] \in {"read", "reserved"} PROVE Fresh'
  BY DEF Fresh
<1> DEFINE h == seen["heartbeat"]
<1>1. at'["heartbeat"] = at["heartbeat"] /\ seen'["heartbeat"] = h
  BY DEF Onward
<1>2. h \in Seen
  BY <1>1, Names DEF TypeOK
<1>3. h.next \in Nat /\ h.ver \in Nat /\ row.ver \in Nat /\ row.next \in Nat /\ now \in Nat
      /\ now' \in Nat /\ row'.ver \in Nat /\ row'.next \in Nat
  BY <1>2, Limits DEF TypeOK, Seen
<1> HIDE DEF h
<1>4. h.next <= now /\ h.ver <= row.ver /\ (h.ver # row.ver => late \/ row.next > h.next)
      /\ (at["heartbeat"] = "reserved" => h.to > h.next)
  BY <1>1 DEF Fresh, h
<1>5. h.next <= now' /\ h.ver <= row'.ver /\ (h.ver # row'.ver => late' \/ row'.next > h.next)
  BY <1>3, <1>4 DEF Onward
<1> QED
  BY <1>1, <1>4, <1>5 DEF Fresh, h

LEMMA SetTimeOnward ==
  ASSUME TypeOK, NEW o \in Operator, SetTime(o)
  PROVE  Onward
<1>0. now \in Nat /\ row.ver \in Nat /\ row.next \in Nat
  BY Limits DEF TypeOK
<1>1. UNCHANGED <<now, at, seen>>
  BY SetTimeLeaves
<1>2. CASE UNCHANGED <<row, late>>
  BY <1>0, <1>1, <1>2 DEF Onward
<1>3. CASE EditWrites(o) \/ EnableWrites(o) \/ RestoreWrites(o)
  <2>1. asked[o].next \in Nat /\ row'.next = asked[o].next
    BY <1>3, AskedType DEF EditWrites, EnableWrites, RestoreWrites, Writes, TypeOK
  <2>3. row'.ver \in {row.ver, row.ver + 1}
    BY <1>3 DEF EditWrites, EnableWrites, RestoreWrites, Writes, TypeOK
  <2>2. late' = (asked[o].next <= now /\ at["heartbeat"] \in {"read", "reserved"})
    BY <1>3 DEF EditWrites, EnableWrites, RestoreWrites, Writes
  <2>4. row'.ver >= row.ver
    BY <1>0, <2>3
  <2>5. CASE at["heartbeat"] \in {"read", "reserved"}
    <3>1. asked[o].next <= now => late'
      BY <2>2, <2>5, Zenon
    <3>4. ~(asked[o].next <= now) => row'.next > now
      BY <1>0, <2>1
    <3>2. now' >= now
      BY <1>0, <1>1
    <3>3. at'["heartbeat"] = at["heartbeat"] /\ seen'["heartbeat"] = seen["heartbeat"]
      BY <1>1
    <3> QED
      BY <2>4, <3>1, <3>2, <3>3, <3>4, Zenon DEF Onward
  <2>6. CASE at["heartbeat"] \notin {"read", "reserved"}
    BY <1>0, <1>1, <2>6 DEF Onward
  <2> QED
    BY <2>5, <2>6
<1> QED
  BY <1>2, <1>3 DEF SetTime, EnableAsks, RestoreAsks, EditAsks, Asks, MissesRow, WritesNone

LEMMA AsideOnward ==
  ASSUME TypeOK, Aside
  PROVE  Onward
<1> USE Names DEF TypeOK
<1>0. now \in Nat /\ row.ver \in Nat
  BY Limits
<1>1. CASE Clock
  BY <1>0, <1>1 DEF Clock, Onward
<1>2. CASE Crash
  BY <1>0, <1>2 DEF Crash, Onward
<1>3. CASE Disable \/ Delete \/ Purge
  BY <1>0, <1>3 DEF Disable, Delete, Purge, Onward
<1> QED
  BY <1>1, <1>2, <1>3, SetTimeOnward DEF Aside

\* The slot reserved, the time the claim will move the row to is past the one that was read.
LEMMA ReserveFresh ==
  ASSUME TypeOK, Fresh, Reserve("heartbeat"), TypeOK'
  PROVE  Fresh'
<1> DEFINE h == seen["heartbeat"]
<1>1. CASE Go("heartbeat", "reserved") /\ Prepares("heartbeat")
  <2>1. h \in Seen /\ "heartbeat" \in Starter /\ now \in Nat
    BY Names, Limits DEF Reserve, TypeOK
  <2>2. ComputeNext(h.cad, now) > now /\ ComputeNext(h.cad, now) \in Nat /\ h.next \in Nat
    BY <2>1, NextIsLater DEF Seen
  <2>3. seen'["heartbeat"] = [h EXCEPT !.to = ComputeNext(h.cad, now)]
    BY <1>1, <2>1 DEF Prepares, TypeOK
  <2>4. /\ seen'["heartbeat"].ver = h.ver /\ seen'["heartbeat"].next = h.next
        /\ seen'["heartbeat"].to = ComputeNext(h.cad, now)
    BY <2>1, <2>3 DEF Seen
  <2>5. UNCHANGED <<now, row, late>> /\ at["heartbeat"] = "read"
    BY DEF Reserve
  <2>6. h.next <= now /\ h.ver <= row.ver /\ (h.ver # row.ver => late \/ row.next > h.next)
    BY <2>5 DEF Fresh
  <2>7. ComputeNext(h.cad, now) > h.next
    BY <2>1, <2>2, <2>6
  <2> HIDE DEF h
  <2> QED
    BY <2>4, <2>5, <2>6, <2>7 DEF Fresh
<1>2. CASE Leave("heartbeat")
  BY <1>2, Names DEF Leave, Fresh, TypeOK
<1> QED
  BY <1>1, <1>2 DEF Reserve

LEMMA StartingFresh ==
  ASSUME TypeOK, Fresh, NEW s \in Starter, Starting(s), TypeOK'
  PROVE  Fresh'
<1> USE Names
<1>0. now \in Nat /\ row.ver \in Nat /\ row.next \in Nat
  BY Limits DEF TypeOK
<1>1. CASE s = "heartbeat" /\ TickReads
  BY <1>0, <1>1 DEF TickReads, IsDue, Reads, See, Fresh, TypeOK, Go
<1>2. CASE RunNowReads(s) /\ s \in Req
  <2>1. Onward
    BY <1>0, <1>2 DEF RunNowReads, Reads, Go, Onward, TypeOK
  <2> QED
    BY <2>1, OnwardIsFresh
<1>3. CASE RunNow(s) /\ s \in Req
  <2>1. row'.ver = row.ver /\ row'.next = row.next
    BY <1>3 DEF RunNow, TypeOK
  <2>2. Onward
    BY <1>0, <1>3, <2>1 DEF RunNow, Launch, Leave, Onward, TypeOK
  <2> QED
    BY <2>2, OnwardIsFresh
<1>4. CASE s = "heartbeat" /\ (Boot \/ BootFails \/ Claim)
  BY <1>4 DEF Boot, BootFails, Claim, Leave, Go, Fresh, TypeOK
<1>5. CASE Reserve(s)
  <2>1. CASE s # "heartbeat"
    <3>1. Onward
      BY <1>0, <1>5, <2>1 DEF Reserve, Go, Leave, Prepares, Onward, TypeOK
    <3> QED
      BY <3>1, OnwardIsFresh
  <2> QED
    BY <1>5, <2>1, ReserveFresh
<1>6. CASE ReservedFails(s)
  <2>1. Onward
    BY <1>0, <1>6 DEF ReservedFails, Leave, Onward, TypeOK
  <2> QED
    BY <2>1, OnwardIsFresh
<1>7. CASE RunEnds(s) \/ RunLost(s)
  <2>1. Onward
    BY <1>0, <1>7 DEF RunEnds, RunLost, Onward, TypeOK
  <2> QED
    BY <2>1, OnwardIsFresh
<1>8. CASE RunStored(s)
  <2>1. run[s] \in Seen /\ ended[s] \in Nat
    BY <1>8, Limits DEF RunStored, TypeOK
  <2>2. ComputeNext(run[s].cad, ended[s]) > ended[s] /\ ComputeNext(run[s].cad, ended[s]) \in Nat
    BY <2>1, NextIsLater DEF Seen
  <2>3. row'.ver = row.ver /\ row'.next >= row.next
    BY <1>0, <1>8, <2>1, <2>2 DEF RunStored, TypeOK
  <2>4. Onward
    BY <1>0, <1>8, <2>3 DEF RunStored, Onward, TypeOK
  <2> QED
    BY <2>4, OnwardIsFresh
<1> QED
  BY <1>1, <1>2, <1>3, <1>4, <1>5, <1>6, <1>7, <1>8 DEF Starting

LEMMA FreshHolds == Spec => [](TypeOK /\ Fresh)
<1>1. Init => Fresh
  BY Names DEF Init, Fresh
<1>2. TypeOK /\ Fresh /\ [Next]_vars /\ TypeOK' => Fresh'
  <2> SUFFICES ASSUME TypeOK, Fresh, [Next]_vars, TypeOK' PROVE Fresh'
    OBVIOUS
  <2>1. CASE UNCHANGED vars
    BY <2>1 DEF Fresh, vars
  <2> QED
    BY <2>1, NextSplits, AsideOnward, OnwardIsFresh, StartingFresh
<1> QED
  BY <1>1, <1>2, TypeCorrect, PTL DEF Spec

\* Only a claim gives the heartbeat a run.
LEMMA OnlyClaimStarts ==
  ASSUME TypeOK, Next, run["heartbeat"] = NoRun, run'["heartbeat"] # NoRun
  PROVE  Claim /\ run'["heartbeat"] = seen["heartbeat"] /\ row.in = "list" /\ row.enabled
         /\ row.next = seen["heartbeat"].next
         /\ row'.next = seen["heartbeat"].to
<1> USE Names DEF TypeOK
<1>1. ~Aside
  <2>1. ~Crash
    BY DEF Crash
  <2>2. Aside => run' = run
    BY <2>1, SetTimeLeaves DEF Aside, Clock, Disable, Delete, Purge
  <2> QED
    BY <2>2
<1>2. PICK s \in Starter : Starting(s)
  BY <1>1, NextSplits
<1>3. Claim
  BY <1>2 DEF Starting, RunNowReads, RunNow, Launch, Boot, BootFails, TickReads, Reserve,
              ReservedFails, RunEnds, RunStored, RunLost, Done
<1>4. run' # run
  OBVIOUS
<1> QED
  BY <1>3, <1>4 DEF Claim, Launch, Listed

\* What the heartbeat starts is the schedule as it stands, however long ago the tick's list
\* was read: an edit in between has moved the time that the claim compares - if the time it
\* wrote was still to come.
THEOREM WhatRunsStands == Spec => RunsAsItStands
<1> DEFINE A == \A s \in {"heartbeat"} : run[s] = NoRun /\ run'[s] # NoRun =>
                  Listed /\ row.enabled /\ (run'[s].ver = row.ver \/ late)
<1>1. TypeOK /\ Fresh /\ [Next]_vars => [A]_vars
  <2> SUFFICES ASSUME TypeOK, Fresh, Next, run["heartbeat"] = NoRun, run'["heartbeat"] # NoRun
               PROVE  Listed /\ row.enabled /\ (run'["heartbeat"].ver = row.ver \/ late)
    OBVIOUS
  <2>1. /\ Claim /\ run'["heartbeat"] = seen["heartbeat"] /\ row.in = "list" /\ row.enabled
        /\ row.next = seen["heartbeat"].next
    BY OnlyClaimStarts
  <2>2. row.next \in Nat
    BY DEF TypeOK
  <2>3. seen["heartbeat"].ver = row.ver \/ late
    BY <2>1, <2>2 DEF Claim, Fresh
  <2> QED
    BY <2>1, <2>3 DEF Listed
<1> QED
  BY <1>1, FreshHolds, PTL DEF Spec, RunsAsItStands

\* The time that a run is started for is spent with its start: the claim moves the row past
\* it, so that a restart in the middle of the run does not find it due again.
THEOREM EachTimeOnce == Spec => TimeIsSpent
<1> DEFINE A == run["heartbeat"] = NoRun /\ run'["heartbeat"] # NoRun =>
                  row'.next > run'["heartbeat"].next
<1>1. TypeOK /\ Fresh /\ [Next]_vars => [A]_vars
  <2> SUFFICES ASSUME TypeOK, Fresh, Next, run["heartbeat"] = NoRun, run'["heartbeat"] # NoRun
               PROVE  row'.next > run'["heartbeat"].next
    OBVIOUS
  <2>1. /\ Claim /\ row'.next = seen["heartbeat"].to
        /\ run'["heartbeat"] = seen["heartbeat"]
    BY OnlyClaimStarts
  <2>2. seen["heartbeat"].to > seen["heartbeat"].next
    BY <2>1 DEF Claim, Fresh
  <2> QED
    BY <2>1, <2>2
<1> QED
  BY <1>1, FreshHolds, PTL DEF Spec, TimeIsSpent
=============================================================================
