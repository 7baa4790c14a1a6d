----------------------------- MODULE GuestBox -------------------------------
(***************************************************************************)
(* The guest a project's turns run in: vm/boxes.py (the registry, destroy,  *)
(* the idle reaper) and vm/lifecycle.py (GuestVM: acquire, release,         *)
(* teardown, nuke).  The box is either the one shared guest, which is       *)
(* scrubbed and nuked but never removed, or the project's own, which is     *)
(* reaped, destroyed and made again: each making is a record of its own,    *)
(* with a controller of its own.                                            *)
(*                                                                          *)
(* A guest has a process ("down", "boot" until it serves, "up") and a disk  *)
(* that starts fresh at every boot, with the copy of the workspace and,     *)
(* beside it, the buffer of what turns wrote (server.py, .staging).         *)
(* The actions here are steps of the users in GuestTurn, of the reaper and  *)
(* of the operator; GuestTurn puts them together.                           *)
(***************************************************************************)
EXTENDS Naturals, FiniteSets

CONSTANTS
  Turn,      \* top-level turns of one project, numbered as they come
  Job,       \* a funnel job or a plan run of the same project
  Nobody,
  Kinds,     \* a subset of {"shared", "own"}: which box the project may run in
  MaxRec,    \* bound: records made for the project
  MaxCuts    \* bound: crashes, nukes, and stops or destroys by the operator

ASSUME BoxAssumption ==
  /\ Job \notin Turn /\ Nobody \notin Turn \cup {Job}
  /\ Turn \subseteq Nat /\ IsFiniteSet(Turn)
  /\ Kinds \subseteq {"shared", "own"} /\ Kinds # {}
  /\ MaxRec \in Nat \ {0} /\ MaxCuts \in Nat

User == Turn \cup {Job}
Rec == 1..MaxRec

VARIABLES
  kind,        \* which box: "shared" or "own"
  registered,  \* the record in the registry, 0 if there is none
  made,        \* records made so far
  retired,     \* records a destroy has begun on
  going,       \* the record being destroyed, 0 if none
  guest,       \* each record's process
  buffer,      \* each record's disk: whose writes are beside the copy, not yet fetched
  lock,        \* each controller's lock: the user acquiring it, or Nobody
  pins,        \* each controller's _inflight
  at,          \* the record whose controller a user works with, 0 before it has one
  bound,       \* the turns the registry has bound to the box (_op_box)
  conn,        \* the turns whose stream to the guest is open
  cuts         \* what the operator or a crash did to a guest, counted

boxVars == <<kind, registered, made, retired, going, guest, buffer, lock, pins,
             at, bound, conn, cuts>>

BoxTypeOK ==
  /\ kind \in Kinds
  /\ registered \in 0..MaxRec /\ made \in 0..MaxRec /\ going \in 0..MaxRec
  /\ retired \subseteq Rec
  /\ guest \in [Rec -> {"down", "boot", "up"}]
  /\ buffer \in [Rec -> SUBSET User]
  /\ lock \in [Rec -> User \cup {Nobody}]
  /\ pins \in [Rec -> Nat]
  /\ at \in [User -> 0..MaxRec]
  /\ bound \subseteq Turn /\ conn \subseteq Turn
  /\ cuts \in 0..MaxCuts

\* The shared box always exists; a project's own is made on first use.
BoxInit ==
  /\ kind \in Kinds
  /\ registered = IF kind = "shared" THEN 1 ELSE 0
  /\ made = IF kind = "shared" THEN 1 ELSE 0
  /\ retired = {} /\ going = 0
  /\ guest = [r \in Rec |-> "down"]
  /\ buffer = [r \in Rec |-> {}]
  /\ lock = [r \in Rec |-> Nobody]
  /\ pins = [r \in Rec |-> 0]
  /\ at = [u \in User |-> 0]
  /\ bound = {} /\ conn = {} /\ cuts = 0

-----------------------------------------------------------------------------
\* The registry and the controller, as steps of a user.

\* for_project: the registered record, or a new one.
Resolve(r) ==
  \/ registered # 0 /\ r = registered /\ UNCHANGED <<registered, made>>
  \/ registered = 0 /\ made < MaxRec /\ r = made + 1 /\ registered' = r /\ made' = r

\* A booting controller: the flag `starting`.
Starting(r) == lock[r] # Nobody /\ guest[r] = "boot"

\* The process is killed, its disk goes, streams to it end.  A boot in progress is
\* not waited for (teardown does not take the lock): it goes on and spawns its guest.
Teardown(r, g) ==
  /\ guest' = [guest EXCEPT ![r] = IF Starting(r) THEN "boot" ELSE g]
  /\ buffer' = [buffer EXCEPT ![r] = {}]
  /\ conn' = {t \in conn : at[t] # r}

\* acquire, up to the wait for a guest that serves.
AcquireBegin(u, r) ==
  /\ lock[r] = Nobody /\ r \notin retired
  /\ lock' = [lock EXCEPT ![r] = u]
  /\ guest' = [guest EXCEPT ![r] = IF @ = "down" THEN "boot" ELSE @]

\* ... to its return: the pin is taken in the tick the guest was found to serve.
AcquireEnd(u, r) ==
  /\ lock[r] = u /\ guest[r] # "down"
  /\ guest' = [guest EXCEPT ![r] = "up"]
  /\ lock' = [lock EXCEPT ![r] = Nobody]
  /\ pins' = [pins EXCEPT ![r] = @ + 1]

\* Mutant: a boot that fails keeps the lock.
AcquireFailKeeps(u, r) ==
  /\ lock[r] = u
  /\ \E g \in IF guest[r] = "boot" THEN {"boot", "down"} ELSE {guest[r]} :
       guest' = [guest EXCEPT ![r] = g]
  /\ UNCHANGED <<lock, pins>>

\* ... or to its failure: the boot failed, or what was booted does not serve in time.
AcquireFail(u, r) ==
  /\ lock[r] = u
  /\ lock' = [lock EXCEPT ![r] = Nobody]
  /\ \E g \in IF guest[r] = "boot" THEN {"boot", "down"} ELSE {guest[r]} :
       guest' = [guest EXCEPT ![r] = g]
  /\ UNCHANGED pins

\* A guest that was up and does not answer is restarted, unless a turn is pinned to it.
Wedged(u, r) ==
  /\ lock[r] = u /\ guest[r] # "boot" /\ pins[r] = 0
  /\ Teardown(r, "boot")

Unpin(r) == pins' = [pins EXCEPT ![r] = IF @ = 0 THEN 0 ELSE @ - 1]

-----------------------------------------------------------------------------
\* The reaper, the operator, and what breaks.

Unbound(r) == \A t \in bound : at[t] # r

\* A guest that was booted by nobody's acquire comes up.
BootReady(r) ==
  /\ guest[r] = "boot" /\ lock[r] = Nobody
  /\ guest' = [guest EXCEPT ![r] = "up"]
  /\ UNCHANGED <<kind, registered, made, retired, going, buffer, lock, pins, at, bound,
                 conn, cuts>>

\* Mutant: the scrub does not look again once it has the lock.
ScrubUnchecked ==
  /\ kind = "shared" /\ guest[1] = "up" /\ lock[1] = Nobody
  /\ Teardown(1, "boot")
  /\ UNCHANGED <<kind, registered, made, retired, going, lock, pins, at, bound, cuts>>

\* The idle scrub of the shared guest: torn down and booted again under the lock.
Scrub ==
  /\ kind = "shared" /\ guest[1] = "up" /\ lock[1] = Nobody /\ pins[1] = 0
  /\ Teardown(1, "boot")
  /\ UNCHANGED <<kind, registered, made, retired, going, lock, pins, at, bound, cuts>>

Nuke ==
  /\ kind = "shared" /\ lock[1] = Nobody /\ cuts < MaxCuts
  /\ Teardown(1, "boot") /\ cuts' = cuts + 1
  /\ UNCHANGED <<kind, registered, made, retired, going, lock, pins, at, bound>>

Crash(r) ==
  /\ guest[r] = "up" /\ cuts < MaxCuts
  /\ Teardown(r, "down") /\ cuts' = cuts + 1
  /\ UNCHANGED <<kind, registered, made, retired, going, lock, pins, at, bound>>

StopBox ==
  /\ kind = "own" /\ registered # 0 /\ cuts < MaxCuts
  /\ Teardown(registered, "down") /\ cuts' = cuts + 1
  /\ UNCHANGED <<kind, registered, made, retired, going, lock, pins, at, bound>>

\* destroy, up to its first wait: acquire is refused from here on, the guest is killed.
DestroyBegin ==
  /\ kind = "own" /\ registered # 0 /\ going = 0
  /\ retired' = retired \cup {registered} /\ going' = registered
  /\ Teardown(registered, "down")

DestroyBox ==
  /\ DestroyBegin /\ cuts < MaxCuts /\ cuts' = cuts + 1
  /\ UNCHANGED <<kind, registered, made, lock, pins, at, bound>>

\* Mutant: the reaper goes by the idle clock alone.
ReapOnClock ==
  /\ DestroyBegin
  /\ pins[registered] = 0
  /\ UNCHANGED <<kind, registered, made, lock, pins, at, bound, cuts>>

ReapIdle ==
  /\ DestroyBegin
  /\ pins[registered] = 0 /\ ~Starting(registered) /\ Unbound(registered)
  /\ UNCHANGED <<kind, registered, made, lock, pins, at, bound, cuts>>

\* ... the reservation is released, with the bindings to it; or the stop has failed and
\* the box stays.
DestroyEnd ==
  /\ going # 0
  /\ going' = 0
  /\ \/ registered' = 0 /\ bound' = {t \in bound : at[t] # going} /\ UNCHANGED retired
        /\ UNCHANGED cuts
     \/ retired' = retired \ {going} /\ cuts < MaxCuts /\ cuts' = cuts + 1
        /\ UNCHANGED <<registered, bound>>
  /\ UNCHANGED <<kind, made, guest, buffer, lock, pins, at, conn>>
=============================================================================
