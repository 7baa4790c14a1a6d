------------------------------ MODULE GuestTurn ------------------------------
(***************************************************************************)
(* A project's turns and a job in its guest: vm/guest_turn.py (guest_turn,  *)
(* host side), orchestrator.py (job_workspace, flush_workspace) and the     *)
(* guest's own server (guest/backend/server.py), over the box of GuestBox.  *)
(*                                                                          *)
(* The first user of the workspace owns it: it ships the copy, and its      *)
(* writes come back with its answer.  Those that come while it is held use  *)
(* the same copy; the last one out sweeps the buffer home.  What happens    *)
(* between two awaits is one step.  A pull (boot and pin the box if it is   *)
(* the project's own, fetch the buffer, apply it) is one step: it fails     *)
(* where it would be interrupted.  `cuts` counts what goes wrong: a crash,  *)
(* a nuke, a stop or a destroy by the operator, a guest that goes quiet, a  *)
(* second stop of a turn that is being stopped.                             *)
(***************************************************************************)
EXTENDS GuestBox

VARIABLES
  pc,        \* where each user is
  pinned,    \* the users that hold a pin (pinned, acquired)
  holders,   \* the users of the project's workspace (_ws_holds)
  owners,    \* the turns that shipped the copy (owns_ws)
  staged,    \* the owners whose buffer was fetched, or was tried (staged_done)
  parcel,    \* whose writes the buffer holds that the owner has fetched and is applying
  wrote,     \* the users whose writes the guest has accepted
  home,      \* the users all of whose writes are in the host's files
  told       \* the owners that have answered: as if all was well, or with a note

turnVars == <<pc, pinned, holders, owners, staged, parcel, wrote, home, told>>
vars == <<boxVars, turnVars>>

Point == {"idle", "placed", "acquiring", "connecting", "in", "staging", "applying",
          "rescue", "unwind", "priming", "running", "sweeping", "done"}

TypeOK ==
  /\ BoxTypeOK
  /\ pc \in [User -> Point]
  /\ pinned \subseteq User /\ holders \subseteq User
  /\ owners \subseteq Turn /\ staged \subseteq owners /\ parcel \subseteq wrote
  /\ wrote \subseteq User /\ home \subseteq wrote
  /\ told \in [Turn -> {"none", "clean", "noted"}]

Init ==
  /\ BoxInit
  /\ pc = [u \in User |-> "idle"]
  /\ pinned = {} /\ holders = {} /\ owners = {} /\ staged = {} /\ parcel = {}
  /\ wrote = {} /\ home = {}
  /\ told = [t \in Turn |-> "none"]

Go(u, p) == pc' = [pc EXCEPT ![u] = p]
Say(t, a) == told' = [told EXCEPT ![t] = a]

\* An external cause, counted.
Cut == cuts < MaxCuts /\ cuts' = cuts + 1

-----------------------------------------------------------------------------
\* Getting into the guest.

\* The box is resolved and the turn bound to it in one tick; or the caps refuse a new box.
Place(t) ==
  /\ pc[t] = "idle" /\ \A v \in Turn : v < t => pc[v] # "idle"
  /\ \/ \E r \in Rec : Resolve(r) /\ at' = [at EXCEPT ![t] = r]
        /\ bound' = bound \cup {t} /\ Go(t, "placed")
     \/ /\ kind = "own" /\ registered = 0
        /\ Go(t, "done") /\ UNCHANGED <<registered, made, at, bound>>
  /\ UNCHANGED <<kind, retired, going, guest, buffer, lock, pins, conn, cuts, pinned,
                 holders, owners, staged, parcel, wrote, home, told>>

\* Before it waits for the controller's lock or once it has it: the box was retired.
Refused(t) ==
  /\ pc[t] = "placed" /\ at[t] \in retired
  /\ Go(t, "unwind")
  /\ UNCHANGED <<boxVars, pinned, holders, owners, staged, parcel, wrote, home, told>>

\* A top-level job pins the shared guest, whichever box the project has: the project's
\* own is not pinned for it.
JobPlace ==
  /\ pc[Job] = "idle"
  /\ IF kind = "shared"
     THEN Go(Job, "placed") /\ at' = [at EXCEPT ![Job] = registered]
          /\ UNCHANGED holders
     ELSE /\ UNCHANGED at
          /\ \/ holders' = holders \cup {Job} /\ Go(Job, IF holders = {} THEN "priming" ELSE "running")
             \/ Go(Job, "running") /\ UNCHANGED holders
  /\ UNCHANGED <<kind, registered, made, retired, going, guest, buffer, lock, pins, bound,
                 conn, cuts, pinned, owners, staged, parcel, wrote, home, told>>

Begin(u) ==
  /\ pc[u] = "placed" /\ AcquireBegin(u, at[u])
  /\ Go(u, "acquiring")
  /\ UNCHANGED <<kind, registered, made, retired, going, buffer, pins, at, bound, conn,
                 cuts, pinned, holders, owners, staged, parcel, wrote, home, told>>

\* A stream that broke is noticed long before a guest has booted again.
Noticed(r) == \A t \in Turn : at[t] = r /\ pc[t] \in {"in", "staging", "rescue"} => t \in conn

\* The pin, then the hold on the workspace: whoever finds it free ships the copy.  The
\* copy is built in the same tick.
Pinned(u) ==
  /\ pc[u] = "acquiring" /\ AcquireEnd(u, at[u]) /\ (guest[at[u]] = "boot" => Noticed(at[u]))
  /\ pinned' = pinned \cup {u}
  /\ holders' = holders \cup {u}
  /\ owners' = IF u \in Turn /\ holders = {} THEN owners \cup {u} ELSE owners
  /\ Go(u, IF u \in Turn THEN "connecting"
           ELSE IF holders = {} THEN "priming" ELSE "running")
  /\ UNCHANGED <<kind, registered, made, retired, going, buffer, at, bound, conn, cuts,
                 staged, parcel, wrote, home, told>>

\* A job goes on without the workspace: its leaves meet the error themselves.
BootFails(u) ==
  /\ pc[u] = "acquiring" /\ AcquireFail(u, at[u])
  /\ Go(u, IF u = Job THEN "running" ELSE "unwind")
  /\ UNCHANGED <<kind, registered, made, retired, going, buffer, at, bound, conn, cuts,
                 pinned, holders, owners, staged, parcel, wrote, home, told>>

Restart(u) ==
  /\ pc[u] = "acquiring" /\ Wedged(u, at[u])
  /\ UNCHANGED <<kind, registered, made, retired, going, lock, pins, at, bound, cuts, turnVars>>

\* The guest unpacks the copy an owner ships over what is there, its buffer included.
Deliver(t) ==
  /\ pc[t] = "connecting" /\ guest[at[t]] = "up"
  /\ conn' = conn \cup {t} /\ Go(t, "in")
  /\ buffer' = IF t \in owners THEN [buffer EXCEPT ![at[t]] = {}]
                ELSE buffer
  /\ UNCHANGED <<kind, registered, made, retired, going, guest, lock, pins, at, bound, cuts,
                 pinned, holders, owners, staged, parcel, wrote, home, told>>

ConnectFails(t) ==
  /\ pc[t] = "connecting" /\ guest[at[t]] # "up"
  /\ Go(t, "unwind")
  /\ UNCHANGED <<boxVars, pinned, holders, owners, staged, parcel, wrote, home, told>>

-----------------------------------------------------------------------------
\* In the guest.

Put(u, r) ==
  /\ buffer' = [buffer EXCEPT ![r] = @ \cup {u}]
  /\ wrote' = wrote \cup {u}

Write(t) ==
  /\ pc[t] = "in" /\ t \in conn /\ t \notin wrote
  /\ Put(t, at[t])
  /\ UNCHANGED <<kind, registered, made, retired, going, guest, lock, pins, at, bound, conn,
                 cuts, pc, pinned, holders, owners, staged, parcel, home, told>>

\* `final`: a turn that does not own the workspace hands it on at once, the owner holds it
\* until its buffer has come.
Answer(t) ==
  /\ pc[t] = "in" /\ t \in conn
  /\ IF t \in owners THEN Go(t, "staging")
                     ELSE Go(t, "unwind")
  /\ UNCHANGED <<boxVars, pinned, holders, owners, staged, parcel, wrote, home, told>>

StreamLost(t) ==
  /\ pc[t] = "in" /\ t \notin conn
  /\ Go(t, "unwind")
  /\ UNCHANGED <<boxVars, pinned, holders, owners, staged, parcel, wrote, home, told>>

\* `staged`: the buffer has come, and counts as fetched before it is applied.
Staged(t) ==
  /\ pc[t] = "staging" /\ t \in conn
  /\ staged' = staged \cup {t} /\ parcel' = buffer[at[t]]
  /\ Go(t, "applying")
  /\ UNCHANGED <<boxVars, pinned, holders, owners, wrote, home, told>>

\* Mutant: the owner's edits count as home without a look at what has come.
AppliedAll(t) ==
  /\ pc[t] = "applying"
  /\ home' = home \cup {t} /\ Say(t, "clean")
  /\ Go(t, "unwind")
  /\ UNCHANGED <<boxVars, pinned, holders, owners, staged, parcel, wrote>>

\* The files are written one by one, with awaits in between; a buffer that cannot be read is
\* said in the answer.
Applied(t) ==
  /\ pc[t] = "applying"
  /\ \/ home' = home \cup parcel /\ Say(t, "clean") /\ UNCHANGED cuts
     \/ Cut /\ Say(t, "noted") /\ UNCHANGED home
  /\ Go(t, "unwind")
  /\ UNCHANGED <<kind, registered, made, retired, going, guest, buffer, lock, pins, at, bound,
                 conn, pinned, holders, owners, staged, parcel, wrote>>

\* The stream ended, or the guest went quiet, with the answer held.
Unstaged(t) ==
  /\ pc[t] = "staging"
  /\ t \in conn => Cut
  /\ t \notin conn => UNCHANGED cuts
  /\ staged' = staged \cup {t} /\ Go(t, "rescue")
  /\ UNCHANGED <<kind, registered, made, retired, going, guest, buffer, lock, pins, at, bound,
                 conn, pinned, holders, owners, parcel, wrote, home, told>>

-----------------------------------------------------------------------------
\* Fetching the buffer.

\* pull_writes: it goes to the box the project has now.  The shared guest must be up; the
\* project's own is booted if it is not, and one just booted has an empty buffer.
Reach(r) ==
  /\ Resolve(r) /\ lock[r] = Nobody /\ r \notin retired
  /\ kind = "shared" => guest[r] = "up"
  /\ guest' = [guest EXCEPT ![r] = "up"]

PullOk == \E r \in Rec : /\ Reach(r) /\ home' = home \cup buffer[r]
                        /\ UNCHANGED cuts

Unreachable ==
  IF kind = "shared" THEN guest[1] # "up"
  ELSE registered \in retired \/ registered = 0

PullFails ==
  /\ IF Unreachable THEN UNCHANGED cuts ELSE Cut
  /\ UNCHANGED <<registered, made, guest, home>>

\* Mutant: an owner whose buffer could not be fetched hands its answer on as it is.
RescueSilent(t) ==
  /\ pc[t] = "rescue"
  /\ (PullOk \/ PullFails) /\ Say(t, "clean")
  /\ Go(t, "unwind")
  /\ UNCHANGED <<kind, retired, going, buffer, lock, pins, at, bound, conn,
                 pinned, holders, owners, staged, parcel, wrote>>

\* The held answer says so if the edits did not come.
Rescue(t) ==
  /\ pc[t] = "rescue"
  /\ \/ PullOk /\ Say(t, "clean")
     \/ PullFails /\ Say(t, "noted")
  /\ Go(t, "unwind")
  /\ UNCHANGED <<kind, retired, going, buffer, lock, pins, at, bound, conn,
                 pinned, holders, owners, staged, parcel, wrote>>

\* An operator's stop, at any await of the turn; another may land while it unwinds.  Of edits
\* that are being applied, those that are left are dropped.
Stop(t) ==
  /\ pc[t] \in {"placed", "acquiring", "connecting", "in", "staging", "applying", "rescue"}
  /\ Go(t, "unwind")
  /\ lock' = [r \in Rec |-> IF lock[r] = t THEN Nobody ELSE lock[r]]
  /\ UNCHANGED <<kind, registered, made, retired, going, guest, buffer, pins, at, bound,
                 conn, cuts, pinned, holders, owners, staged, parcel, wrote, home, told>>

-----------------------------------------------------------------------------
\* Letting go.

\* Mutant: a turn whose boot failed gives back a pin all the same.
LetGoAlways(u) ==
  /\ IF at[u] # 0 THEN Unpin(at[u]) ELSE UNCHANGED pins
  /\ pinned' = pinned \ {u} /\ bound' = bound \ {u} /\ at' = [at EXCEPT ![u] = 0]
  /\ Go(u, "done")

\* The pin, then the binding: the turn is no longer anywhere.
LetGo(u) ==
  /\ IF u \in pinned THEN Unpin(at[u]) ELSE UNCHANGED pins
  /\ pinned' = pinned \ {u} /\ bound' = bound \ {u} /\ at' = [at EXCEPT ![u] = 0]
  /\ Go(u, "done")

\* Mutant: the hold is dropped first, and the owner's buffer is fetched after it.
UnwindHoldFirst(t) ==
  /\ pc[t] = "unwind"
  /\ holders' = holders \ {t} /\ conn' = conn \ {t}
  /\ IF holders = {t} THEN Go(t, "sweeping") /\ UNCHANGED <<pins, pinned, bound, at>>
                      ELSE LetGo(t)
  /\ UNCHANGED <<kind, registered, made, retired, going, guest, buffer, lock, cuts,
                 owners, staged, parcel, wrote, home, told>>

\* The turn's own finally: an owner whose buffer was not fetched fetches it, then the
\* hold is dropped; the last one out, if it is not the owner, has the sweep to do.
Unwind(t) ==
  /\ pc[t] = "unwind"
  /\ IF t \in owners \ staged THEN PullOk \/ PullFails
                              ELSE UNCHANGED <<registered, made, guest, home, cuts>>
  /\ holders' = holders \ {t} /\ conn' = conn \ {t}
  /\ IF holders = {t} /\ t \notin owners
     THEN Go(t, "sweeping") /\ UNCHANGED <<pins, pinned, bound, at>>
     ELSE LetGo(t)
  /\ UNCHANGED <<kind, retired, going, buffer, lock, owners, staged, parcel, wrote, told>>

\* The sweep, best effort: a failure, or a stop, is passed over.
Sweep(t) ==
  /\ pc[t] = "sweeping"
  /\ PullOk \/ PullFails
  /\ LetGo(t)
  /\ UNCHANGED <<kind, retired, going, buffer, lock, conn, holders, owners, staged, parcel,
                 wrote, told>>

-----------------------------------------------------------------------------
\* The job (a plan run, a funnel job).

\* The copy is primed where the job was first in; whatever becomes of that, the job runs.
Prime ==
  /\ pc[Job] = "priming"
  /\ \/ \E r \in Rec :
          /\ Reach(r) /\ buffer' = [buffer EXCEPT ![r] = {}]
          /\ UNCHANGED <<home, cuts>>
     \/ PullFails /\ UNCHANGED buffer
  /\ Go(Job, "running")
  /\ UNCHANGED <<kind, retired, going, lock, pins, at, bound, conn, pinned, holders, owners,
                 staged, parcel, wrote, told>>

\* A leaf is a nested turn: it boots, pins and binds the project's box for itself, and is
\* one step here.  One write stands for all of them.
Leaf ==
  /\ pc[Job] = "running" /\ Job \notin wrote
  /\ \E r \in Rec :
       /\ Resolve(r) /\ lock[r] = Nobody /\ r \notin retired
       /\ guest[r] = "up" \/ Noticed(r)
       /\ guest' = [guest EXCEPT ![r] = "up"]
       /\ Put(Job, r)
  /\ UNCHANGED <<kind, retired, going, lock, pins, at, bound, conn, cuts, pc, pinned, holders,
                 owners, staged, parcel, home, told>>

\* flush_workspace: while anybody holds the workspace, the buffer is fetched.
Flush ==
  /\ pc[Job] = "running" /\ Job \in wrote /\ holders # {}
  /\ PullOk
  /\ UNCHANGED <<kind, retired, going, buffer, lock, pins, at, bound, conn, pc, pinned,
                 holders, owners, staged, parcel, wrote, told>>

\* The end of the job, by itself or by a stop: the hold is dropped before the sweep.
JobEnd ==
  /\ pc[Job] = "running"
  /\ holders' = holders \ {Job}
  /\ IF holders = {Job} THEN Go(Job, "sweeping") /\ UNCHANGED <<pins, pinned, bound, at>>
                        ELSE LetGo(Job)
  /\ UNCHANGED <<kind, registered, made, retired, going, guest, buffer, lock, conn, cuts,
                 owners, staged, parcel, wrote, home, told>>

JobSweep ==
  /\ pc[Job] = "sweeping"
  /\ PullOk \/ PullFails
  /\ LetGo(Job)
  /\ UNCHANGED <<kind, retired, going, buffer, lock, conn, holders, owners, staged, parcel,
                 wrote, told>>

\* A stop while the job gets in, or while it sweeps, ends it there: the pin and the hold
\* it has by then are not given back.
JobStop ==
  /\ pc[Job] \in {"placed", "acquiring", "priming", "sweeping"}
  /\ Go(Job, "done")
  /\ lock' = [r \in Rec |-> IF lock[r] = Job THEN Nobody ELSE lock[r]]
  /\ UNCHANGED <<kind, registered, made, retired, going, guest, buffer, pins, at, bound,
                 conn, cuts, pinned, holders, owners, staged, parcel, wrote, home, told>>

-----------------------------------------------------------------------------
\* The guest comes up, the reaper, the operator, a crash.
Booted == \E r \in Rec : Noticed(r) /\ BootReady(r)
Crashes == \E r \in Rec : Crash(r)

Around ==
  /\ Booted \/ Scrub \/ Nuke \/ Crashes \/ StopBox \/ DestroyBox \/ ReapIdle \/ DestroyEnd
  /\ UNCHANGED turnVars

\* What a turn does by itself once it is placed; its answer is the guest's to give.
Progress(t) ==
  \/ Refused(t) \/ Begin(t) \/ Pinned(t) \/ BootFails(t) \/ Deliver(t) \/ ConnectFails(t)
  \/ StreamLost(t) \/ Staged(t) \/ Unstaged(t) \/ Applied(t) \/ Rescue(t) \/ Unwind(t)
  \/ Sweep(t)

JobProgress ==
  \/ Begin(Job) \/ Pinned(Job) \/ BootFails(Job) \/ Prime \/ JobEnd \/ JobSweep

Done == (\A u \in User : pc[u] = "done") /\ UNCHANGED vars

Next ==
  \/ \E t \in Turn : \/ Place(t) \/ Progress(t) \/ Restart(t)
                    \/ Write(t) \/ Answer(t) \/ Stop(t)
  \/ JobPlace \/ JobProgress \/ Restart(Job) \/ Leaf \/ Flush \/ JobStop
  \/ Around \/ Done

Spec == Init /\ [][Next]_vars

\* Every wait of a turn is bounded (the boot timeout, RPC_TIMEOUT, RESCUE_TIMEOUT) or ends
\* with the guest's stream, except the wait for the answer: the stream is read with no
\* time-out until then, and nothing makes a guest answer.  A destroy that has begun goes on.
FairSpec ==
  /\ Spec
  /\ \A t \in Turn : WF_vars(Progress(t))
  /\ WF_vars(JobProgress)
  /\ WF_vars(DestroyEnd /\ UNCHANGED turnVars)

-----------------------------------------------------------------------------
\* A turn gives back exactly what it took, however it ends: no hold, pin or binding is
\* left behind, and none of another's is taken (guest_turn's one finally).
NothingLeaks ==
  /\ \A t \in Turn : pc[t] = "done" => t \notin holders \cup pinned \cup bound
  /\ \A r \in Rec : pins[r] = Cardinality({u \in pinned : at[u] = r})

\* Unless something goes wrong, no reaper and no other turn takes the guest from a turn
\* that is in it (the checks of reap_if_idle, reap_idle and _ensure_ready_locked).
Undisturbed ==
  cuts = 0 => \A t \in Turn : pc[t] \in {"in", "staging", "applying"} => t \in conn

\* Stopped with its buffer fetched and no answer given: while its edits were being applied.
Torn(t) == t \in staged /\ told[t] = "none" /\ pc[t] \in {"unwind", "done"}

\* Unless something goes wrong, what the owner of the workspace wrote is in the buffer
\* until it is home, and home when the turn is over, stopped or not - but for a stop that
\* lands while the edits are being applied: they count as fetched by then (staged_done), and
\* neither the rescue nor the sweep looks again.
OwnerKeepsEdits ==
  cuts = 0 => \A t \in owners \cap wrote :
                \/ t \in home \/ (pc[t] # "done" /\ t \in buffer[at[t]])
                \/ Torn(t)

\* On the shared guest an owner's answer is never handed on as if all was well when its
\* edits did not come home, whatever went wrong (the answer is held for it).
Told ==
  kind = "shared" => \A t \in owners \cap wrote : told[t] = "clean" => t \in home

\* Unless the operator steps in, a guest runs only in a box that is registered.
NoGhost == cuts = 0 => \A r \in Rec : guest[r] # "down" => r = registered

\* Every turn comes to its end, or is in a connected guest that has yet to answer: no lock,
\* boot, lost stream, held answer or fetch holds it forever.
TurnEnds ==
  <>[](\A t \in Turn : pc[t] \in {"idle", "done"} \/ (pc[t] = "in" /\ t \in conn))
=============================================================================
