------------------------------ MODULE Schedules ------------------------------
(***************************************************************************)
(* A schedule and what starts it: schedules.py, the heartbeat (_tick), the  *)
(* operator's run-now, and the operator's edits of the row between their    *)
(* awaits.  Schedules do not touch each other, so there is one.             *)
(*                                                                          *)
(* Time is in ticks.  A cadence is daily at a time of day, or an interval.  *)
(* The row lives in the database and survives a restart; which run is in    *)
(* flight (_running) does not.  `ver` counts the operator's edits: it tells *)
(* whether what runs is what the row says.                                  *)
(*                                                                          *)
(* Whoever moves the row's time computes it first and writes it after an    *)
(* await: the operator's requests, the heartbeat's claim, the end of a run. *)
(* The clock and everybody else may come in between.                       *)
(***************************************************************************)
EXTENDS Naturals, FiniteSets

CONSTANTS
  Req,        \* requests that run the schedule now
  Operator,   \* the operator's windows, each with one request that sets the row's time in flight
  Free, NoRun,
  Cadence,    \* cadences the schedule may have: [kind, n]
  Day,        \* ticks in a day
  MaxTime,    \* bound: the clock
  MaxEdits,   \* bound: edits
  MaxCrashes, \* bound: restarts
  MaxFaults   \* bound: failures of the database

ASSUME SchedulesAssumption ==
  /\ "heartbeat" \notin Req /\ Free \notin Req \cup {"heartbeat"}
  /\ Day \in Nat \ {0} /\ {MaxTime, MaxEdits, MaxCrashes, MaxFaults} \subseteq Nat
  /\ Cadence \subseteq [kind : {"daily", "interval"}, n : Nat]
  /\ \A c \in Cadence : IF c.kind = "daily" THEN c.n < Day ELSE c.n > 0
  /\ NoRun \notin Nat \cup [ver : Nat, cad : Cadence, next : Nat, to : Nat]

Starter == Req \cup {"heartbeat"}

VARIABLES
  now,
  row,      \* the schedule: [in, enabled, ver, cad, next, result], in \in "list", "bin", "gone"
  seen,     \* what each starter read of the row
  at,       \* where each starter is
  running,  \* the starter whose slot or run is registered (_running), or Free
  run,      \* what each starter's run was launched with
  ended,    \* when each starter's run looked at the clock on its end, its result not yet written
  asked,    \* the request in flight in each of the operator's windows: what it is to write
  late,     \* the time the operator last gave the row, since the heartbeat read it, had already
            \* come when it was written
  stops, faults

vars == <<now, row, seen, at, running, run, ended, asked, late, stops, faults>>

\* compute_next: strictly later, on the cadence's own grid if it has one.
ComputeNext(c, t) ==
  IF c.kind = "interval" THEN t + c.n
  ELSE CHOOSE u \in t + 1 .. t + Day : u % Day = c.n

\* What a starter has read of the row, and the time its claim will move the row to.
Seen == [ver : 0..MaxEdits, cad : Cadence, next : Nat, to : Nat]
See == [ver |-> row.ver, cad |-> row.cad, next |-> row.next, to |-> 0]

NoAsk == [what |-> "none"]
Ask == [what : {"edit", "enable", "restore"}, cad : Cadence, next : Nat]
Listed == row.in = "list"

TypeOK ==
  /\ now \in 0..MaxTime
  /\ row \in [in : {"list", "bin", "gone"}, enabled : BOOLEAN, ver : 0..MaxEdits, cad : Cadence,
              next : Nat, result : {"never", "running", "done", "interrupted"}]
  /\ seen \in [Starter -> Seen \cup {NoRun}] /\ run \in [Starter -> Seen \cup {NoRun}]
  /\ at \in [Starter -> {"boot", "idle", "read", "reserved", "off"}]
  /\ \A s \in Starter : at[s] \in {"read", "reserved"} => seen[s] # NoRun
  /\ running \in Starter \cup {Free}
  /\ ended \in [Starter -> 0..MaxTime \cup {NoRun}]
  /\ \A s \in Starter : ended[s] # NoRun => run[s] # NoRun
  /\ asked \in [Operator -> Ask \cup {NoAsk}] /\ late \in BOOLEAN
  /\ stops \in 0..MaxCrashes /\ faults \in 0..MaxFaults

Init ==
  /\ now = 0
  /\ \E c \in Cadence :
       row = [in |-> "list", enabled |-> TRUE, ver |-> 0, cad |-> c, next |-> ComputeNext(c, 0),
              result |-> "never"]
  /\ seen = [s \in Starter |-> NoRun] /\ run = [s \in Starter |-> NoRun]
  /\ at = [s \in Starter |-> IF s = "heartbeat" THEN "boot" ELSE "idle"]
  /\ running = Free /\ ended = [s \in Starter |-> NoRun]
  /\ asked = [o \in Operator |-> NoAsk] /\ late = FALSE
  /\ stops = 0 /\ faults = 0

Go(s, p) == at' = [at EXCEPT ![s] = p]

-----------------------------------------------------------------------------
\* The operator's edits of the row.

Asks(o, what, c) ==
  /\ asked[o] = NoAsk
  /\ asked' = [asked EXCEPT ![o] = [what |-> what, cad |-> c, next |-> ComputeNext(c, now)]]
  /\ UNCHANGED <<now, row, seen, at, running, run, ended, late, stops, faults>>

\* update_schedule computes the new time before it has looked at the row; the requests to
\* enable and to restore read the row first.
EditAsks(o, c) == row.ver < MaxEdits /\ Asks(o, "edit", c)
EnableAsks(o) == Listed /\ Asks(o, "enable", row.cad)
RestoreAsks(o) == row.in = "bin" /\ Asks(o, "restore", row.cad)

\* The write, one transaction: the row with the time that was computed.
Writes(o, r) ==
  /\ row' = r
  /\ late' = (asked[o].next <= now /\ at["heartbeat"] \in {"read", "reserved"})
  /\ asked' = [asked EXCEPT ![o] = NoAsk]
  /\ UNCHANGED <<now, seen, at, running, run, ended, stops, faults>>

\* There is nothing left for it to write.
WritesNone(o) ==
  /\ asked' = [asked EXCEPT ![o] = NoAsk]
  /\ UNCHANGED <<now, row, seen, at, running, run, ended, late, stops, faults>>

\* An edit, whether or not a run is in flight, of a row that is listed.
EditWrites(o) ==
  /\ asked[o].what = "edit" /\ Listed /\ row.ver < MaxEdits
  /\ Writes(o, [row EXCEPT !.ver = @ + 1, !.cad = asked[o].cad, !.next = asked[o].next])

\* Enabling sets the time whether or not the row is in the bin by now.
EnableWrites(o) ==
  /\ asked[o].what = "enable" /\ row.in # "gone"
  /\ Writes(o, [row EXCEPT !.enabled = @ \/ Listed, !.next = asked[o].next])

RestoreWrites(o) ==
  /\ asked[o].what = "restore" /\ row.in # "gone"
  /\ Writes(o, [row EXCEPT !.in = "list", !.next = asked[o].next])

MissesRow(o) ==
  /\ \/ asked[o].what = "edit" /\ (~Listed \/ row.ver = MaxEdits)
     \/ asked[o].what \in {"enable", "restore"} /\ row.in = "gone"
  /\ WritesNone(o)

SetTime(o) ==
  \/ EnableAsks(o) \/ RestoreAsks(o) \/ \E c \in Cadence : EditAsks(o, c)
  \/ EditWrites(o) \/ EnableWrites(o) \/ RestoreWrites(o) \/ MissesRow(o)

Disable ==
  /\ Listed /\ row.enabled
  /\ row' = [row EXCEPT !.enabled = FALSE]
  /\ UNCHANGED <<now, seen, at, running, run, ended, asked, late, stops, faults>>

Delete ==
  /\ Listed
  /\ row' = [row EXCEPT !.in = "bin"]
  /\ UNCHANGED <<now, seen, at, running, run, ended, asked, late, stops, faults>>

\* By the operator, or by the heartbeat once the bin's window is over.
Purge ==
  /\ row.in = "bin"
  /\ row' = [row EXCEPT !.in = "gone"]
  /\ UNCHANGED <<now, seen, at, running, run, ended, asked, late, stops, faults>>

-----------------------------------------------------------------------------
\* The slot.

Reads(s) == seen' = [seen EXCEPT ![s] = See] /\ Go(s, "read")
Leave(s) ==
  /\ at' = [at EXCEPT ![s] = IF s = "heartbeat" THEN "idle" ELSE "off"]
  /\ seen' = [seen EXCEPT ![s] = NoRun]
Launch(s) == run' = [run EXCEPT ![s] = seen[s]]

\* What the claim is to move the row to is computed before its first await.
Prepares(s) ==
  seen' = IF s = "heartbeat" THEN [seen EXCEPT ![s].to = ComputeNext(seen[s].cad, now)] ELSE seen

\* Mutant: the slot is taken without a look at who has it.
ReserveAny(s) ==
  /\ at[s] = "read"
  /\ running' = s /\ Go(s, "reserved") /\ Prepares(s)
  /\ UNCHANGED <<now, row, run, ended, asked, late, stops, faults>>

\* _reserve, in one tick: a slot that is taken sends a run-now away (409) and the heartbeat
\* on its way.
Reserve(s) ==
  /\ at[s] = "read"
  /\ \/ running = Free /\ running' = s /\ Go(s, "reserved") /\ Prepares(s)
     \/ running # Free /\ Leave(s) /\ UNCHANGED running
  /\ UNCHANGED <<now, row, run, ended, asked, late, stops, faults>>

-----------------------------------------------------------------------------
\* run_now.

\* Mutant: the slot is asked for before the row is read.
RunNowBlind(q) ==
  /\ at[q] = "idle" /\ Listed /\ Go(q, "read")
  /\ UNCHANGED <<now, row, seen, running, run, ended, asked, late, stops, faults>>

RunNowReads(q) ==
  /\ at[q] = "idle" /\ Listed
  /\ Reads(q)
  /\ UNCHANGED <<now, row, running, run, ended, asked, late, stops, faults>>

\* The row is marked, unless it has gone to the bin; the run is launched all the same.
RunNow(q) ==
  /\ at[q] = "reserved"
  /\ row' = IF Listed THEN [row EXCEPT !.result = "running"] ELSE row
  /\ Launch(q) /\ Leave(q)
  /\ UNCHANGED <<now, running, ended, asked, late, stops, faults>>

-----------------------------------------------------------------------------
\* The heartbeat.

\* Mutant: nothing is marked at boot.
BootUnmarked ==
  /\ at["heartbeat"] = "boot" /\ Go("heartbeat", "idle")
  /\ UNCHANGED <<now, row, seen, running, run, ended, asked, late, stops, faults>>

\* Rows that say running lost their run to the restart.
Boot ==
  /\ at["heartbeat"] = "boot" /\ Go("heartbeat", "idle")
  /\ row' = [row EXCEPT !.result = IF @ = "running" THEN "interrupted" ELSE @]
  /\ UNCHANGED <<now, seen, running, run, ended, asked, late, stops, faults>>

\* The mark could not be written: the heartbeat goes on without it.
BootFails ==
  /\ at["heartbeat"] = "boot" /\ faults < MaxFaults /\ faults' = faults + 1
  /\ Go("heartbeat", "idle")
  /\ UNCHANGED <<now, row, seen, running, run, ended, asked, late, stops>>

IsDue == Listed /\ row.enabled /\ row.next <= now

TickReads ==
  /\ at["heartbeat"] = "idle" /\ IsDue
  /\ Reads("heartbeat") /\ late' = FALSE
  /\ UNCHANGED <<now, row, running, run, ended, asked, stops, faults>>

\* Mutant: a due schedule is taken as it was read.
ClaimAsRead ==
  /\ at["heartbeat"] = "reserved"
  /\ row' = [row EXCEPT !.next = seen["heartbeat"].to, !.result = "running"]
  /\ Launch("heartbeat") /\ Leave("heartbeat")
  /\ UNCHANGED <<now, running, ended, asked, late, stops, faults>>

\* Mutant: the time is moved on only when the run ends.
ClaimAtEnd ==
  /\ at["heartbeat"] = "reserved" /\ Leave("heartbeat")
  /\ IF Listed /\ row.enabled /\ row.next = seen["heartbeat"].next
     THEN row' = [row EXCEPT !.result = "running"] /\ Launch("heartbeat") /\ UNCHANGED running
     ELSE running' = Free /\ UNCHANGED <<row, run>>
  /\ UNCHANGED <<now, ended, asked, late, stops, faults>>

\* The row is claimed before it runs, in one statement that looks again.
Claim ==
  /\ at["heartbeat"] = "reserved" /\ Leave("heartbeat")
  /\ IF Listed /\ row.enabled /\ row.next = seen["heartbeat"].next
     THEN /\ row' = [row EXCEPT !.next = seen["heartbeat"].to,
                                !.result = "running"]
          /\ Launch("heartbeat") /\ UNCHANGED running
     ELSE running' = Free /\ UNCHANGED <<row, run>>
  /\ UNCHANGED <<now, ended, asked, late, stops, faults>>

\* Mutant: a claim or a mark that fails keeps the slot.
ReservedFailsKept(s) ==
  /\ at[s] = "reserved" /\ faults < MaxFaults /\ faults' = faults + 1
  /\ Leave(s)
  /\ UNCHANGED <<now, row, running, run, ended, asked, late, stops>>

\* A claim or a mark that fails gives the slot back.
ReservedFails(s) ==
  /\ at[s] = "reserved" /\ faults < MaxFaults /\ faults' = faults + 1
  /\ running' = Free /\ Leave(s)
  /\ UNCHANGED <<now, row, run, ended, asked, late, stops>>

-----------------------------------------------------------------------------
\* A run ends: its result, and over the times that went by while it ran.

Done(s) ==
  /\ run' = [run EXCEPT ![s] = NoRun]
  /\ ended' = [ended EXCEPT ![s] = NoRun]
  /\ running' = IF running = s THEN Free ELSE running

\* The run is over, and has looked at the clock.
RunEnds(s) ==
  /\ run[s] # NoRun /\ ended[s] = NoRun
  /\ ended' = [ended EXCEPT ![s] = now]
  /\ UNCHANGED <<now, row, seen, at, running, run, asked, late, stops, faults>>

RunStored(s) ==
  /\ ended[s] # NoRun
  /\ row' = IF row.in = "gone" THEN row
            ELSE [row EXCEPT !.result = "done",
                             !.next = IF @ <= ended[s] THEN ComputeNext(run[s].cad, ended[s])
                                                       ELSE @]
  /\ Done(s)
  /\ UNCHANGED <<now, seen, at, asked, late, stops, faults>>

\* The result could not be written.
RunLost(s) ==
  /\ ended[s] # NoRun /\ faults < MaxFaults /\ faults' = faults + 1
  /\ Done(s)
  /\ UNCHANGED <<now, row, seen, at, asked, late, stops>>

\* The process goes, and comes back.
Crash ==
  /\ stops < MaxCrashes /\ stops' = stops + 1
  /\ run' = [s \in Starter |-> NoRun] /\ ended' = [s \in Starter |-> NoRun]
  /\ running' = Free /\ seen' = [s \in Starter |-> NoRun]
  /\ asked' = [o \in Operator |-> NoAsk] /\ late' = FALSE
  /\ at' = [s \in Starter |-> IF s = "heartbeat" THEN "boot"
                              ELSE IF at[s] \in {"read", "reserved"} THEN "off" ELSE at[s]]
  /\ UNCHANGED <<now, row, faults>>

Clock ==
  /\ now < MaxTime /\ now' = now + 1
  /\ UNCHANGED <<row, seen, at, running, run, ended, asked, late, stops, faults>>

Heartbeat == Boot \/ TickReads \/ Reserve("heartbeat") \/ Claim

Next ==
  \/ Clock \/ Crash \/ Disable \/ Delete \/ Purge
  \/ \E o \in Operator : SetTime(o)
  \/ \E q \in Req : RunNowReads(q) \/ Reserve(q) \/ RunNow(q)
  \/ Heartbeat \/ BootFails
  \/ \E s \in Starter : RunEnds(s) \/ RunStored(s) \/ RunLost(s) \/ ReservedFails(s)

Spec == Init /\ [][Next]_vars

\* The heartbeat never stops, and a run is bounded by its budget.
FairSpec ==
  /\ Spec
  /\ WF_vars(Heartbeat)
  /\ \A q \in Req : WF_vars(Reserve(q) \/ RunNow(q))
  /\ \A s \in Starter : WF_vars(RunEnds(s) \/ RunStored(s))

-----------------------------------------------------------------------------
\* However the heartbeat and run-now meet, the schedule runs once at a time, and the slot
\* names the run (ROBUST-18).
OneRun ==
  /\ Cardinality({s \in Starter : run[s] # NoRun}) <= 1
  /\ \A s \in Starter : run[s] # NoRun => running = s

\* The row says `running` only while its run is in flight, or was until a restart that the
\* heartbeat has yet to look at.
RunningIsTrue ==
  row.result = "running" /\ row.in # "gone" /\ faults = 0 =>
    at["heartbeat"] = "boot" \/ \E s \in Starter : run[s] # NoRun

\* What the heartbeat starts is the schedule as it stands: enabled, listed, and with the
\* last edit in it, however long ago the tick's list was read - unless the time the operator
\* last gave the row had already come when it was written, and may be the very time that
\* the heartbeat has read.
RunsAsItStands ==
  [][\A s \in {"heartbeat"} : run[s] = NoRun /\ run'[s] # NoRun =>
       Listed /\ row.enabled /\ (run'[s].ver = row.ver \/ late)]_vars

\* The write that takes a time of the schedule to run it moves the row on from that time, so
\* that a restart in the middle of the run does not find it due again.
TimeIsSpent ==
  [][run["heartbeat"] = NoRun /\ run'["heartbeat"] # NoRun =>
       row'.next > run'["heartbeat"].next]_vars

\* A schedule that is due is taken up, or is not due any more.
DueIsTaken == IsDue ~> ~IsDue
=============================================================================
