---------------------------- MODULE GuestTurnProofs --------------------------
(***************************************************************************)
(* A project's turns and a job in its guest, for any number of turns, boxes *)
(* and things that go wrong.  The inductive invariant says which box the    *)
(* project has, what each user holds, who owns the workspace, when an       *)
(* owner's edits can be fetched, and, while nothing has gone wrong, that    *)
(* the box of whoever is in it stays registered and its guest up.           *)
(***************************************************************************)
EXTENDS GuestTurn, FiniteSetTheorems, TLAPS

-----------------------------------------------------------------------------
(***************************************************************************)
(* The box.  The shared one is always the first record and never destroyed; *)
(* a destroy is of the registered box, which is retired for it.  A user     *)
(* that gets in, or has a pin, has a controller; the job has one only in    *)
(* the shared guest.                                                        *)
(***************************************************************************)
Boxed ==
  /\ kind = "shared" =>
       registered = 1 /\ going = 0 /\ retired = {} /\ \A u \in User : at[u] \in {0, 1}
  /\ going # 0 => going = registered /\ going \in retired
  /\ \A u \in User : pc[u] \in {"placed", "acquiring"} \/ u \in pinned => at[u] # 0
  /\ pc[Job] \in {"placed", "acquiring"} \/ Job \in pinned => kind = "shared"

(***************************************************************************)
(* What a user holds.  Before the pin nothing but the binding, then the pin *)
(* and the workspace until the unwinding; a turn that is done has nothing,  *)
(* and a controller counts the pins that are held.                          *)
(***************************************************************************)
Inside == {"connecting", "in", "staging", "applying", "rescue"}

Holding ==
  /\ \A u \in User : pc[u] \in {"idle", "placed", "acquiring"} => u \notin pinned \cup holders
  /\ \A t \in Turn : /\ pc[t] \in Inside => t \in pinned \cap holders
                     /\ pc[t] = "idle" => t \notin bound
                     /\ pc[t] = "sweeping" => t \notin holders
                     /\ pc[t] = "done" => t \notin holders \cup pinned \cup bound
  /\ pc[Job] = "priming" => Job \in holders

Counted == \A r \in Rec : pins[r] = Cardinality({u \in pinned : at[u] = r})

(***************************************************************************)
(* Who owns the workspace.  An owner holds it, and its pin, to its end, so  *)
(* that there is one owner, or a job that primes the copy, at a time; only  *)
(* an owner stages, and what a buffer holds was written.                    *)
(***************************************************************************)
Owning ==
  /\ \A t \in owners : pc[t] # "done" =>
       t \in pinned \cap holders /\ pc[t] \in Inside \cup {"unwind"}
  /\ \A t, o \in owners : pc[t] # "done" /\ pc[o] # "done" => t = o
  /\ pc[Job] = "priming" => \A t \in owners : pc[t] = "done"
  /\ \A t \in Turn : /\ pc[t] \in {"staging", "applying", "rescue"} => t \in owners
                     /\ t \in staged => pc[t] \in {"applying", "rescue", "unwind", "done"}
                     /\ pc[t] \in {"applying", "rescue"} => t \in staged
                     /\ t \in wrote => pc[t] \notin {"idle", "placed", "acquiring", "connecting"}
  /\ \A r \in Rec : buffer[r] \subseteq wrote

(***************************************************************************)
(* An owner's edits are in the buffer as long as its stream is open, and in *)
(* what it has fetched while it applies them; on the shared guest, a stream *)
(* that broke is noticed before the guest is up.                            *)
(***************************************************************************)
Fetchable ==
  /\ \A t \in Turn : told[t] # "none" => t \in owners /\ pc[t] \in {"unwind", "done"}
  /\ \A t \in owners \cap wrote :
       /\ pc[t] \in {"in", "staging", "applying", "rescue"} /\ t \in conn => t \in buffer[at[t]]
       /\ pc[t] = "applying" => t \in parcel
  /\ kind = "shared" =>
       \A t \in Turn : pc[t] \in {"in", "staging", "rescue"} /\ guest[at[t]] = "up" => t \in conn

(***************************************************************************)
(* While nothing has gone wrong.  A turn's box is retired or the registered *)
(* one, with the turn bound to it; from the lock on it is not retired, and  *)
(* pinned it is up; a box that is being destroyed is down; what an owner    *)
(* has staged it applies, has home, or gave no answer with.                 *)
(***************************************************************************)
Settled ==
  /\ \A t \in Turn : pc[t] \notin {"idle", "done"} =>
       at[t] # 0 /\ (at[t] \in retired \/ (at[t] = registered /\ t \in bound))
  /\ \A t \in Turn : pc[t] = "acquiring" \/ t \in pinned =>
       at[t] = registered /\ t \in bound /\ at[t] \notin retired
  /\ \A u \in pinned : guest[at[u]] = "up"
  /\ going # 0 => guest[going] = "down"
  /\ \A t \in Turn : pc[t] # "rescue"
  /\ \A t \in staged \cap wrote : pc[t] = "applying" \/ t \in home \/ told[t] = "none"

Steady == cuts = 0 => Settled

IInv ==
  /\ TypeOK /\ Boxed /\ Holding /\ Counted /\ Owning /\ Fetchable /\ Told
  /\ Steady /\ Undisturbed /\ OwnerKeepsEdits /\ NoGhost

-----------------------------------------------------------------------------
\* The users and the records.

LEMMA Users == Job \in User /\ Turn \subseteq User /\ Job \notin Turn
BY BoxAssumption DEF User

LEMMA Records == 1 \in Rec /\ 0 \notin Rec /\ Rec = 0..MaxRec \ {0}
BY BoxAssumption DEF Rec

-----------------------------------------------------------------------------
\* The types.

LEMMA CutCounted == TypeOK /\ Cut => cuts' \in 0..MaxCuts
BY BoxAssumption DEF TypeOK, BoxTypeOK, Cut

LEMMA PullTypes ==
  ASSUME TypeOK, Owning, PullOk \/ PullFails
  PROVE  /\ registered' \in 0..MaxRec /\ made' \in 0..MaxRec
         /\ guest' \in [Rec -> {"down", "boot", "up"}]
         /\ home' \subseteq wrote /\ cuts' \in 0..MaxCuts
<1>1. CASE PullOk
  <2>1. PICK r \in Rec : Reach(r) /\ home' = home \cup buffer[r] /\ UNCHANGED cuts
    BY <1>1 DEF PullOk
  <2>2. registered' \in 0..MaxRec /\ made' \in 0..MaxRec
    BY <2>1, Records DEF Reach, Resolve, TypeOK, BoxTypeOK
  <2>3. guest' \in [Rec -> {"down", "boot", "up"}]
    BY <2>1 DEF Reach, TypeOK, BoxTypeOK
  <2> QED
    BY <2>1, <2>2, <2>3 DEF TypeOK, BoxTypeOK, Owning
<1>2. CASE PullFails
  BY <1>2, CutCounted DEF PullFails, TypeOK, BoxTypeOK
<1> QED
  BY <1>1, <1>2

LEMMA LetGoTypes ==
  ASSUME TypeOK, NEW u \in User, LetGo(u)
  PROVE  /\ pc' \in [User -> Point] /\ pinned' \subseteq User /\ bound' \subseteq Turn
         /\ at' \in [User -> 0..MaxRec] /\ pins' \in [Rec -> Nat]
<1>1. pc' \in [User -> Point]
  BY DEF LetGo, Go, TypeOK, Point
<1>2. at' \in [User -> 0..MaxRec]
  <2>1. 0 \in 0..MaxRec
    BY BoxAssumption
  <2> QED
    BY <2>1 DEF LetGo, TypeOK, BoxTypeOK
<1>3. pins' \in [Rec -> Nat]
  BY DEF LetGo, Unpin, TypeOK, BoxTypeOK
<1> QED
  BY <1>1, <1>2, <1>3 DEF LetGo, TypeOK, BoxTypeOK

LEMMA TeardownTypes ==
  ASSUME TypeOK, NEW r, NEW g \in {"down", "boot"}, Teardown(r, g)
  PROVE  /\ guest' \in [Rec -> {"down", "boot", "up"}] /\ buffer' \in [Rec -> SUBSET User]
         /\ conn' \subseteq Turn
<1>1. guest' \in [Rec -> {"down", "boot", "up"}]
  BY DEF Teardown, TypeOK, BoxTypeOK
<1> QED
  BY <1>1 DEF Teardown, TypeOK, BoxTypeOK

LEMMA TypeStep ==
  ASSUME IInv, [Next]_vars
  PROVE  TypeOK'
<1>a. TypeOK /\ Boxed /\ Owning
  BY DEF IInv
<1>1. ASSUME NEW u \in User, Begin(u) PROVE TypeOK'
  BY <1>1, <1>a, Users, Records DEF Begin, AcquireBegin, Go, TypeOK, BoxTypeOK, Point
<1>2. ASSUME NEW u \in User, Pinned(u) PROVE TypeOK'
  <2>1. guest' \in [Rec -> {"down", "boot", "up"}] /\ lock' \in [Rec -> User \cup {Nobody}]
    BY <1>2, <1>a DEF Pinned, AcquireEnd, TypeOK, BoxTypeOK
  <2>2. pins' \in [Rec -> Nat]
    <3>1. pins \in [Rec -> Nat] /\ pins' = [pins EXCEPT ![at[u]] = @ + 1]
      BY <1>2, <1>a DEF Pinned, AcquireEnd, TypeOK, BoxTypeOK
    <3>2. at[u] \in Rec
      BY <1>2, <1>a, Records DEF Pinned, Boxed, TypeOK, BoxTypeOK
    <3>3. pins[at[u]] \in Nat /\ pins[at[u]] + 1 \in Nat
      BY <3>1, <3>2
    <3> QED
      BY <3>1, <3>3
  <2>3. pc' \in [User -> Point]
    BY <1>2, <1>a DEF Pinned, Go, TypeOK, Point
  <2> QED
    BY <1>2, <2>1, <2>2, <2>3, <1>a DEF Pinned, TypeOK, BoxTypeOK
<1>3. ASSUME NEW u \in User, BootFails(u) PROVE TypeOK'
  <2>1. guest' \in [Rec -> {"down", "boot", "up"}] /\ lock' \in [Rec -> User \cup {Nobody}]
    BY <1>3, <1>a DEF BootFails, AcquireFail, TypeOK, BoxTypeOK
  <2>2. pc' \in [User -> Point]
    BY <1>3, <1>a DEF BootFails, Go, TypeOK, Point
  <2> QED
    BY <1>3, <2>1, <2>2, <1>a DEF BootFails, AcquireFail, TypeOK, BoxTypeOK
<1>4. ASSUME NEW u \in User, Restart(u) PROVE TypeOK'
  BY <1>4, <1>a, Users, Records DEF Restart, Wedged, Teardown, Starting, turnVars, TypeOK,
     BoxTypeOK, Point
<1>5. ASSUME NEW t \in Turn, Place(t) PROVE TypeOK'
  <2>1. CASE Go(t, "placed")
    BY <1>5, <2>1, <1>a, Users, Records DEF Place, Go, Resolve, TypeOK, BoxTypeOK, Point
  <2>2. CASE Go(t, "done")
    BY <1>5, <2>2, <1>a, Users, Records DEF Place, Go, Resolve, TypeOK, BoxTypeOK, Point
  <2> QED
    BY <1>5, <2>1, <2>2 DEF Place
<1>6. ASSUME NEW t \in Turn, Refused(t) PROVE TypeOK'
  BY <1>6, <1>a, Users, Records DEF Refused, Go, boxVars, TypeOK, BoxTypeOK, Point
<1>7. ASSUME NEW t \in Turn, Deliver(t) PROVE TypeOK'
  BY <1>7, <1>a, Users, Records DEF Deliver, Go, TypeOK, BoxTypeOK, Point
<1>8. ASSUME NEW t \in Turn, ConnectFails(t) PROVE TypeOK'
  BY <1>8, <1>a, Users, Records DEF ConnectFails, Go, boxVars, TypeOK, BoxTypeOK, Point
<1>9. ASSUME NEW t \in Turn, Write(t) PROVE TypeOK'
  BY <1>9, <1>a, Users, Records DEF Write, Put, TypeOK, BoxTypeOK, Point
<1>10. ASSUME NEW t \in Turn, Answer(t) PROVE TypeOK'
  <2>1. CASE t \in owners
    BY <1>10, <2>1, <1>a, Users, Records DEF Answer, Go, boxVars, TypeOK, BoxTypeOK, Point
  <2>2. CASE t \notin owners
    BY <1>10, <2>2, <1>a, Users, Records DEF Answer, Go, boxVars, TypeOK, BoxTypeOK, Point
  <2> QED
    BY <1>10, <2>1, <2>2
<1>11. ASSUME NEW t \in Turn, StreamLost(t) PROVE TypeOK'
  BY <1>11, <1>a, Users, Records DEF StreamLost, Go, boxVars, TypeOK, BoxTypeOK, Point
<1>12. ASSUME NEW t \in Turn, Staged(t) PROVE TypeOK'
  <2>1. pc' \in [User -> Point]
    BY <1>12, <1>a, Users DEF Staged, Go, TypeOK, Point
  <2>2. t \in owners /\ parcel' \subseteq wrote
    <3>1. \A r \in Rec : buffer[r] \subseteq wrote
      BY <1>a DEF Owning
    <3>2. t \in owners /\ t \in pinned
      BY <1>12, <1>a, Users DEF Staged, Owning
    <3>3. at[t] \in Rec
      BY <3>2, <1>a, Users, Records DEF TypeOK, BoxTypeOK, Boxed
    <3> QED
      BY <1>12, <3>1, <3>2, <3>3, <1>a DEF Staged, TypeOK
  <2> QED
    BY <1>12, <2>1, <2>2, <1>a DEF Staged, boxVars, TypeOK, BoxTypeOK
<1>13. ASSUME NEW t \in Turn, Unstaged(t) PROVE TypeOK'
  <2>1. pc' \in [User -> Point] /\ t \in owners
    BY <1>13, <1>a, Users DEF Unstaged, Go, TypeOK, Point, Owning
  <2>2. cuts' \in 0..MaxCuts
    BY <1>13, <1>a, CutCounted DEF Unstaged, TypeOK, BoxTypeOK
  <2> QED
    BY <1>13, <2>1, <2>2, <1>a DEF Unstaged, TypeOK, BoxTypeOK
<1>14. ASSUME NEW t \in Turn, Rescue(t) PROVE TypeOK'
  <2>1. pc' \in [User -> Point] /\ told' \in [Turn -> {"none", "clean", "noted"}]
    BY <1>14, <1>a, Users DEF Rescue, Go, Say, TypeOK, Point
  <2>2. PullOk \/ PullFails
    BY <1>14 DEF Rescue
  <2> QED
    BY <1>14, <2>1, <2>2, <1>a, PullTypes DEF Rescue, TypeOK, BoxTypeOK
<1>15. ASSUME NEW t \in Turn, Stop(t) PROVE TypeOK'
  BY <1>15, <1>a, Users, Records DEF Stop, Go, TypeOK, BoxTypeOK, Point
<1>16. ASSUME NEW t \in Turn, Unwind(t) PROVE TypeOK'
  <2>1. /\ registered' \in 0..MaxRec /\ made' \in 0..MaxRec
        /\ guest' \in [Rec -> {"down", "boot", "up"}]
        /\ home' \subseteq wrote /\ cuts' \in 0..MaxCuts
    <3>1. CASE PullOk \/ PullFails
      BY <3>1, <1>a, PullTypes
    <3>2. CASE UNCHANGED <<registered, made, guest, home, cuts>>
      BY <3>2, <1>a DEF TypeOK, BoxTypeOK
    <3> QED
      BY <1>16, <3>1, <3>2 DEF Unwind
  <2>2. /\ pc' \in [User -> Point] /\ pinned' \subseteq User /\ bound' \subseteq Turn
        /\ at' \in [User -> 0..MaxRec] /\ pins' \in [Rec -> Nat]
    <3>1. CASE LetGo(t)
      BY <3>1, <1>a, Users, LetGoTypes
    <3>2. CASE Go(t, "sweeping") /\ UNCHANGED <<pins, pinned, bound, at>>
      BY <3>2, <1>a DEF Go, Point, TypeOK, BoxTypeOK
    <3> QED
      BY <1>16, <3>1, <3>2 DEF Unwind
  <2> QED
    BY <1>16, <2>1, <2>2, <1>a DEF Unwind, TypeOK, BoxTypeOK
<1>17. ASSUME NEW t \in Turn, Sweep(t) PROVE TypeOK'
  BY <1>17, <1>a, Users, PullTypes, LetGoTypes DEF Sweep, TypeOK, BoxTypeOK
<1>18. CASE JobPlace
  BY <1>18, <1>a, Users, Records DEF JobPlace, Go, TypeOK, BoxTypeOK, Point
<1>19. CASE Prime
  <2>1. pc' \in [User -> Point]
    BY <1>19, <1>a DEF Prime, Go, TypeOK, Point
  <2>2. CASE PullFails /\ UNCHANGED buffer
    BY <1>19, <2>1, <2>2, <1>a, PullTypes DEF Prime, TypeOK, BoxTypeOK
  <2>3. ASSUME NEW r \in Rec, Reach(r), buffer' = [buffer EXCEPT ![r] = {}],
               UNCHANGED <<home, cuts>>
        PROVE  TypeOK'
    <3>1. registered' \in 0..MaxRec /\ made' \in 0..MaxRec
      BY <2>3, <1>a, Records DEF Reach, Resolve, TypeOK, BoxTypeOK
    <3>2. /\ guest' \in [Rec -> {"down", "boot", "up"}]
          /\ buffer' \in [Rec -> SUBSET User]
      BY <2>3, <1>a DEF Reach, TypeOK, BoxTypeOK
    <3> QED
      BY <1>19, <2>1, <2>3, <3>1, <3>2, <1>a DEF Prime, TypeOK, BoxTypeOK
  <2> QED
    BY <1>19, <2>2, <2>3 DEF Prime
<1>20. CASE Leaf
  BY <1>20, <1>a, Users, Records DEF Leaf, Resolve, Noticed, Put, TypeOK, BoxTypeOK, Point
<1>21. CASE Flush
  BY <1>21, <1>a, PullTypes DEF Flush, TypeOK, BoxTypeOK
<1>22. CASE JobEnd
  <2>1. /\ pc' \in [User -> Point] /\ pinned' \subseteq User /\ bound' \subseteq Turn
        /\ at' \in [User -> 0..MaxRec] /\ pins' \in [Rec -> Nat]
    <3>1. CASE LetGo(Job)
      BY <3>1, <1>a, Users, LetGoTypes
    <3>2. CASE Go(Job, "sweeping") /\ UNCHANGED <<pins, pinned, bound, at>>
      BY <3>2, <1>a DEF Go, Point, TypeOK, BoxTypeOK
    <3> QED
      BY <1>22, <3>1, <3>2 DEF JobEnd
  <2> QED
    BY <1>22, <2>1, <1>a DEF JobEnd, TypeOK, BoxTypeOK
<1>23. CASE JobSweep
  BY <1>23, <1>a, Users, PullTypes, LetGoTypes DEF JobSweep, TypeOK, BoxTypeOK
<1>24. CASE JobStop
  BY <1>24, <1>a, Users, Records DEF JobStop, Go, TypeOK, BoxTypeOK, Point
<1>25. CASE Booted /\ UNCHANGED turnVars
  BY <1>25, <1>a, Users, Records DEF Booted, turnVars, BootReady, Noticed, TypeOK, BoxTypeOK,
     Point
<1>26. CASE Scrub /\ UNCHANGED turnVars
  BY <1>26, <1>a, Users, Records DEF Scrub, turnVars, Teardown, Starting, TypeOK, BoxTypeOK,
     Point
<1>27. CASE Nuke /\ UNCHANGED turnVars
  <2>1. cuts' \in 0..MaxCuts
    BY <1>27, <1>a, CutCounted DEF Nuke, Cut
  <2>2. Teardown(1, "boot")
    BY <1>27 DEF Nuke
  <2> QED
    BY <1>27, <2>1, <2>2, <1>a, TeardownTypes DEF Nuke, turnVars, TypeOK, BoxTypeOK
<1>28. CASE Crashes /\ UNCHANGED turnVars
  <2>1. cuts' \in 0..MaxCuts
    BY <1>28, <1>a, CutCounted DEF Crashes, Crash, Cut
  <2>2. PICK r \in Rec : Crash(r)
    BY <1>28 DEF Crashes
  <2> QED
    BY <1>28, <2>1, <2>2, <1>a, TeardownTypes DEF Crash, turnVars, TypeOK, BoxTypeOK
<1>29. CASE StopBox /\ UNCHANGED turnVars
  <2>1. cuts' \in 0..MaxCuts
    BY <1>29, <1>a, CutCounted DEF StopBox, Cut
  <2>2. Teardown(registered, "down")
    BY <1>29 DEF StopBox
  <2> QED
    BY <1>29, <2>1, <2>2, <1>a, TeardownTypes DEF StopBox, turnVars, TypeOK, BoxTypeOK
<1>30. CASE DestroyBox /\ UNCHANGED turnVars
  <2>1. cuts' \in 0..MaxCuts
    BY <1>30, <1>a, CutCounted DEF DestroyBox, Cut
  <2>2. registered \in Rec /\ Teardown(registered, "down")
    BY <1>30, <1>a, Records DEF DestroyBox, DestroyBegin, TypeOK, BoxTypeOK
  <2> QED
    BY <1>30, <2>1, <2>2, <1>a, TeardownTypes
       DEF DestroyBox, DestroyBegin, turnVars, TypeOK, BoxTypeOK
<1>31. CASE ReapIdle /\ UNCHANGED turnVars
  BY <1>31, <1>a, Users, Records DEF ReapIdle, turnVars, DestroyBegin, Teardown, Starting,
     Unbound, TypeOK, BoxTypeOK, Point
<1>32. CASE DestroyEnd /\ UNCHANGED turnVars
  <2>1. cuts' \in 0..MaxCuts
    BY <1>32, <1>a, CutCounted DEF DestroyEnd, Cut, TypeOK, BoxTypeOK
  <2>2. registered' \in 0..MaxRec /\ going' \in 0..MaxRec
    BY <1>32, <1>a, BoxAssumption DEF DestroyEnd, TypeOK, BoxTypeOK
  <2> QED
    BY <1>32, <2>1, <2>2, <1>a DEF DestroyEnd, turnVars, TypeOK, BoxTypeOK
<1>33. CASE UNCHANGED vars
  BY <1>33, <1>a, Users, Records DEF vars, boxVars, turnVars, TypeOK, BoxTypeOK, Point
<1>34. ASSUME NEW t \in Turn, Applied(t) PROVE TypeOK'
  <2>1. pc' \in [User -> Point] /\ told' \in [Turn -> {"none", "clean", "noted"}]
    BY <1>34, <1>a, Users DEF Applied, Go, Say, TypeOK, Point
  <2>2. cuts' \in 0..MaxCuts /\ home' \subseteq wrote
    BY <1>34, <1>a, CutCounted DEF Applied, TypeOK, BoxTypeOK
  <2> QED
    BY <1>34, <2>1, <2>2, <1>a DEF Applied, TypeOK, BoxTypeOK
<1> QED
  BY <1>1, <1>2, <1>3, <1>4, <1>5, <1>6, <1>7, <1>8, <1>9, <1>10, <1>11, <1>12, <1>13, <1>14,
     <1>15, <1>16, <1>17, <1>18, <1>19, <1>20, <1>21, <1>22, <1>23, <1>24, <1>25, <1>26,
     <1>27, <1>28, <1>29, <1>30, <1>31, <1>32, <1>33, <1>34
     DEF Next, Progress, JobProgress, Around, Done, User

-----------------------------------------------------------------------------
\* The pins, counted.

PinsOf(r) == {u \in pinned : at[u] = r}

LEMMA PinsFinite ==
  ASSUME TypeOK, NEW r
  PROVE  IsFiniteSet(PinsOf(r)) /\ Cardinality(PinsOf(r)) \in Nat
<1>1. IsFiniteSet(User)
  BY BoxAssumption, FS_AddElement, User = Turn \cup {Job} DEF User
<1>2. PinsOf(r) \subseteq User
  BY DEF TypeOK, PinsOf
<1> QED
  BY <1>1, <1>2, FS_Subset, FS_CardinalityType

\* A controller whose user is pinned counts one pin at least.
LEMMA PinIsCounted ==
  ASSUME TypeOK, Counted, Boxed, NEW u \in pinned
  PROVE  at[u] \in Rec /\ pins[at[u]] # 0
<1>1. at[u] \in Rec
  BY Records DEF TypeOK, BoxTypeOK, Boxed
<1>2. u \in PinsOf(at[u])
  BY DEF PinsOf
<1>3. Cardinality(PinsOf(at[u])) # 0
  BY <1>2, PinsFinite, FS_EmptySet
<1> QED
  BY <1>1, <1>3 DEF Counted, PinsOf

\* Users without a pin may move.
LEMMA PinsKept ==
  ASSUME Counted, pins' = pins, pinned' = pinned, \A v \in pinned : at'[v] = at[v]
  PROVE  Counted'
BY DEF Counted

LEMMA PinAdded ==
  ASSUME TypeOK, Counted, NEW u \in User, u \notin pinned, at[u] \in Rec,
         at' = at, pinned' = pinned \cup {u}, pins' = [pins EXCEPT ![at[u]] = @ + 1]
  PROVE  Counted'
<1> SUFFICES ASSUME NEW r \in Rec
             PROVE  pins'[r] = Cardinality(PinsOf(r)')
  BY DEF Counted, PinsOf
<1>1. pins[r] = Cardinality(PinsOf(r)) /\ pins \in [Rec -> Nat]
  BY DEF Counted, PinsOf, TypeOK, BoxTypeOK
<1>2. CASE r = at[u]
  <2>1. PinsOf(r)' = PinsOf(r) \cup {u} /\ u \notin PinsOf(r)
    BY <1>2 DEF PinsOf
  <2>2. Cardinality(PinsOf(r)') = Cardinality(PinsOf(r)) + 1
    BY <2>1, PinsFinite, FS_AddElement
  <2> QED
    BY <1>1, <1>2, <2>2
<1>3. CASE r # at[u]
  <2>1. PinsOf(r)' = PinsOf(r)
    BY <1>3 DEF PinsOf
  <2> QED
    BY <1>1, <1>3, <2>1
<1> QED
  BY <1>2, <1>3

\* A pin that is given back is no longer counted; a user without one gives none back.
LEMMA PinGivenBack ==
  ASSUME TypeOK, Counted, Boxed, NEW u \in User, LetGo(u)
  PROVE  Counted'
<1>1. CASE u \notin pinned
  <2>1. pins' = pins /\ pinned' = pinned
    BY <1>1 DEF LetGo
  <2>2. \A v \in pinned : at'[v] = at[v]
    BY <1>1 DEF LetGo, TypeOK, BoxTypeOK
  <2> QED
    BY <2>1, <2>2, PinsKept
<1>2. CASE u \in pinned
  <2> SUFFICES ASSUME NEW r \in Rec
               PROVE  pins'[r] = Cardinality(PinsOf(r)')
    BY DEF Counted, PinsOf
  <2>1. pins[r] = Cardinality(PinsOf(r)) /\ pins \in [Rec -> Nat]
    BY DEF Counted, PinsOf, TypeOK, BoxTypeOK
  <2>2. at[u] \in Rec /\ pins[at[u]] # 0
    BY <1>2, PinIsCounted
  <2>3. /\ pinned' = pinned \ {u} /\ \A v \in pinned' : at'[v] = at[v]
        /\ pins' = [pins EXCEPT ![at[u]] = @ - 1]
    BY <1>2, <2>1, <2>2 DEF LetGo, Unpin, TypeOK, BoxTypeOK
  <2>4. CASE r = at[u]
    <3>1. PinsOf(r)' = PinsOf(r) \ {u} /\ u \in PinsOf(r)
      BY <1>2, <2>3, <2>4 DEF PinsOf
    <3>2. Cardinality(PinsOf(r)') = Cardinality(PinsOf(r)) - 1
      BY <3>1, PinsFinite, FS_RemoveElement
    <3> QED
      BY <2>1, <2>3, <2>4, <3>2
  <2>5. CASE r # at[u]
    <3>1. PinsOf(r)' = PinsOf(r)
      BY <2>3, <2>5 DEF PinsOf
    <3> QED
      BY <2>1, <2>3, <2>5, <3>1
  <2> QED
    BY <2>4, <2>5
<1> QED
  BY <1>1, <1>2

LEMMA CountedStep ==
  ASSUME IInv, [Next]_vars
  PROVE  Counted'
<1>a. TypeOK /\ Boxed /\ Holding /\ Counted
  BY DEF IInv
<1>b. pc \in [User -> Point] /\ at \in [User -> 0..MaxRec] /\ pinned \subseteq User
  BY DEF IInv, TypeOK, BoxTypeOK
<1>1. ASSUME NEW u \in User, Begin(u) PROVE Counted'
  BY <1>1, <1>a, PinsKept DEF Begin, AcquireBegin, Go
<1>2. ASSUME NEW u \in User, Pinned(u) PROVE Counted'
  <2>1. at[u] \in Rec /\ u \notin pinned
    BY <1>2, <1>a, <1>b, Records DEF Pinned, Boxed, Holding
  <2> QED
    BY <1>2, <2>1, <1>a, PinAdded DEF Pinned, AcquireEnd
<1>3. ASSUME NEW u \in User, BootFails(u) PROVE Counted'
  BY <1>3, <1>a, PinsKept DEF BootFails, AcquireFail, Go
<1>4. ASSUME NEW u \in User, Restart(u) PROVE Counted'
  BY <1>4, <1>a, PinsKept DEF Restart, Wedged, Teardown, Starting, turnVars
<1>5. ASSUME NEW t \in Turn, Place(t) PROVE Counted'
  <2>1. CASE Go(t, "placed")
    <3>1. pins' = pins /\ pinned' = pinned /\ t \notin pinned
      BY <1>5, <1>a, Users DEF Place, Holding
    <3>2. PICK r \in Rec : at' = [at EXCEPT ![t] = r]
      BY <1>5, <2>1, <1>b, Users DEF Place, Go
    <3> QED
      BY <3>1, <3>2, <1>a, <1>b, PinsKept
  <2>2. CASE Go(t, "done")
    <3>1. pins' = pins /\ pinned' = pinned /\ UNCHANGED at
      BY <1>5, <2>2, <1>b, Users DEF Place, Go
    <3> QED
      BY <3>1, <1>a, PinsKept
  <2> QED
    BY <1>5, <2>1, <2>2 DEF Place
<1>6. ASSUME NEW t \in Turn, Refused(t) PROVE Counted'
  BY <1>6, <1>a, PinsKept DEF Refused, Go, boxVars
<1>7. ASSUME NEW t \in Turn, Deliver(t) PROVE Counted'
  BY <1>7, <1>a, PinsKept DEF Deliver, Go
<1>8. ASSUME NEW t \in Turn, ConnectFails(t) PROVE Counted'
  BY <1>8, <1>a, PinsKept DEF ConnectFails, Go, boxVars
<1>9. ASSUME NEW t \in Turn, Write(t) PROVE Counted'
  BY <1>9, <1>a, PinsKept DEF Write, Put
<1>10. ASSUME NEW t \in Turn, Answer(t) PROVE Counted'
  BY <1>10, <1>a, PinsKept DEF Answer, Go, boxVars
<1>11. ASSUME NEW t \in Turn, StreamLost(t) PROVE Counted'
  BY <1>11, <1>a, PinsKept DEF StreamLost, Go, boxVars
<1>12. ASSUME NEW t \in Turn, Staged(t) PROVE Counted'
  BY <1>12, <1>a, PinsKept DEF Staged, Go, Say, boxVars
<1>13. ASSUME NEW t \in Turn, Unstaged(t) PROVE Counted'
  BY <1>13, <1>a, PinsKept DEF Unstaged, Go, Cut
<1>14. ASSUME NEW t \in Turn, Rescue(t) PROVE Counted'
  BY <1>14, <1>a, PinsKept DEF Rescue, PullOk, PullFails, Reach, Resolve, Unreachable, Cut,
     Say, Go
<1>15. ASSUME NEW t \in Turn, Stop(t) PROVE Counted'
  BY <1>15, <1>a, PinsKept DEF Stop, Go
<1>16. ASSUME NEW t \in Turn, Unwind(t) PROVE Counted'
  <2>1. CASE LetGo(t)
    BY <2>1, <1>a, Users, PinGivenBack
  <2>2. CASE UNCHANGED <<pins, pinned, bound, at>>
    BY <2>2, <1>a, PinsKept
  <2> QED
    BY <1>16, <2>1, <2>2 DEF Unwind
<1>17. ASSUME NEW t \in Turn, Sweep(t) PROVE Counted'
  BY <1>17, <1>a, Users, PinGivenBack DEF Sweep
<1>18. CASE JobPlace
  <2>1. pins' = pins /\ pinned' = pinned /\ Job \notin pinned
    BY <1>18, <1>a, Users DEF JobPlace, Holding
  <2>2. \A v \in pinned : at'[v] = at[v]
    BY <1>18, <2>1, <1>b DEF JobPlace
  <2> QED
    BY <2>1, <2>2, <1>a, PinsKept
<1>19. CASE Prime
  BY <1>19, <1>a, PinsKept DEF Prime, PullFails, Reach, Resolve, Unreachable, Cut, Go
<1>20. CASE Leaf
  BY <1>20, <1>a, PinsKept DEF Leaf, Resolve, Noticed, Put
<1>21. CASE Flush
  BY <1>21, <1>a, PinsKept DEF Flush, PullOk, Reach, Resolve
<1>22. CASE JobEnd
  <2>1. CASE LetGo(Job)
    BY <2>1, <1>a, Users, PinGivenBack
  <2>2. CASE UNCHANGED <<pins, pinned, bound, at>>
    BY <2>2, <1>a, PinsKept
  <2> QED
    BY <1>22, <2>1, <2>2 DEF JobEnd
<1>23. CASE JobSweep
  BY <1>23, <1>a, Users, PinGivenBack DEF JobSweep
<1>24. CASE JobStop
  BY <1>24, <1>a, PinsKept DEF JobStop, Go
<1>25. CASE Booted /\ UNCHANGED turnVars
  BY <1>25, <1>a, PinsKept DEF Booted, turnVars, BootReady, Noticed
<1>26. CASE Scrub /\ UNCHANGED turnVars
  BY <1>26, <1>a, PinsKept DEF Scrub, turnVars, Teardown, Starting
<1>27. CASE Nuke /\ UNCHANGED turnVars
  BY <1>27, <1>a, PinsKept DEF Nuke, turnVars, Teardown, Starting
<1>28. CASE Crashes /\ UNCHANGED turnVars
  BY <1>28, <1>a, PinsKept DEF Crashes, turnVars, Crash, Teardown, Starting
<1>29. CASE StopBox /\ UNCHANGED turnVars
  BY <1>29, <1>a, PinsKept DEF StopBox, turnVars, Teardown, Starting
<1>30. CASE DestroyBox /\ UNCHANGED turnVars
  BY <1>30, <1>a, PinsKept DEF DestroyBox, turnVars, DestroyBegin, Teardown, Starting
<1>31. CASE ReapIdle /\ UNCHANGED turnVars
  BY <1>31, <1>a, PinsKept DEF ReapIdle, turnVars, DestroyBegin, Teardown, Starting, Unbound
<1>32. CASE DestroyEnd /\ UNCHANGED turnVars
  BY <1>32, <1>a, PinsKept DEF DestroyEnd, turnVars
<1>33. CASE UNCHANGED vars
  BY <1>33, <1>a, PinsKept DEF vars, boxVars, turnVars
<1>34. ASSUME NEW t \in Turn, Applied(t) PROVE Counted'
  BY <1>34, <1>a, PinsKept DEF Applied, Go, Say, Cut, boxVars
<1> QED
  BY <1>1, <1>2, <1>3, <1>4, <1>5, <1>6, <1>7, <1>8, <1>9, <1>10, <1>11, <1>12, <1>13, <1>14,
     <1>15, <1>16, <1>17, <1>18, <1>19, <1>20, <1>21, <1>22, <1>23, <1>24, <1>25, <1>26,
     <1>27, <1>28, <1>29, <1>30, <1>31, <1>32, <1>33, <1>34
     DEF Next, Progress, JobProgress, Around, Done, User

-----------------------------------------------------------------------------
\* The box, what is held, who owns the workspace.

LEMMA BoxedStep ==
  ASSUME IInv, [Next]_vars
  PROVE  Boxed'
<1>a. Boxed /\ Holding
  BY DEF IInv
<1>b. pc \in [User -> Point] /\ at \in [User -> 0..MaxRec]
  BY DEF IInv, TypeOK, BoxTypeOK
<1>1. ASSUME NEW u \in User, Begin(u) PROVE Boxed'
  BY <1>1, <1>a, <1>b, Users DEF Begin, AcquireBegin, Go, Boxed, Holding
<1>2. ASSUME NEW u \in User, Pinned(u) PROVE Boxed'
  BY <1>2, <1>a, <1>b, Users DEF Pinned, AcquireEnd, Noticed, Go, Boxed, Holding
<1>3. ASSUME NEW u \in User, BootFails(u) PROVE Boxed'
  BY <1>3, <1>a, <1>b, Users DEF BootFails, AcquireFail, Go, Boxed, Holding
<1>4. ASSUME NEW u \in User, Restart(u) PROVE Boxed'
  BY <1>4, <1>a, <1>b, Users DEF Restart, Wedged, Teardown, Starting, turnVars, Boxed, Holding
<1>5. ASSUME NEW t \in Turn, Place(t) PROVE Boxed'
  <2>1. CASE Go(t, "placed")
    <3>1. PICK r \in Rec : Resolve(r) /\ at' = [at EXCEPT ![t] = r]
      BY <1>5, <2>1, <1>b, Users DEF Place, Go
    <3>2. r # 0
      BY BoxAssumption DEF Rec
    <3> QED
      BY <1>5, <2>1, <3>1, <3>2, <1>a, <1>b, Users DEF Place, Go, Resolve, Boxed, Holding
  <2>2. CASE Go(t, "done")
    BY <1>5, <2>2, <1>a, <1>b, Users DEF Place, Go, Resolve, Boxed, Holding
  <2> QED
    BY <1>5, <2>1, <2>2 DEF Place
<1>6. ASSUME NEW t \in Turn, Refused(t) PROVE Boxed'
  BY <1>6, <1>a, <1>b, Users DEF Refused, Go, boxVars, Boxed, Holding
<1>7. ASSUME NEW t \in Turn, Deliver(t) PROVE Boxed'
  BY <1>7, <1>a, <1>b, Users DEF Deliver, Go, Boxed, Holding
<1>8. ASSUME NEW t \in Turn, ConnectFails(t) PROVE Boxed'
  BY <1>8, <1>a, <1>b, Users DEF ConnectFails, Go, boxVars, Boxed, Holding
<1>9. ASSUME NEW t \in Turn, Write(t) PROVE Boxed'
  BY <1>9, <1>a, <1>b, Users DEF Write, Put, Boxed, Holding
<1>10. ASSUME NEW t \in Turn, Answer(t) PROVE Boxed'
  <2>1. CASE t \in owners
    BY <1>10, <2>1, <1>a, <1>b, Users DEF Answer, Go, boxVars, Boxed, Holding
  <2>2. CASE t \notin owners
    BY <1>10, <2>2, <1>a, <1>b, Users DEF Answer, Go, boxVars, Boxed, Holding
  <2> QED
    BY <1>10, <2>1, <2>2
<1>11. ASSUME NEW t \in Turn, StreamLost(t) PROVE Boxed'
  BY <1>11, <1>a, <1>b, Users DEF StreamLost, Go, boxVars, Boxed, Holding
<1>12. ASSUME NEW t \in Turn, Staged(t) PROVE Boxed'
  BY <1>12, <1>a, <1>b, Users DEF Staged, Go, Say, boxVars, Boxed, Holding
<1>13. ASSUME NEW t \in Turn, Unstaged(t) PROVE Boxed'
  BY <1>13, <1>a, <1>b, Users DEF Unstaged, Go, Cut, Boxed, Holding
<1>14. ASSUME NEW t \in Turn, Rescue(t) PROVE Boxed'
  BY <1>14, <1>a, <1>b, Users DEF Rescue, PullOk, PullFails, Reach, Resolve, Unreachable, Cut,
     Say, Go, Boxed, Holding
<1>15. ASSUME NEW t \in Turn, Stop(t) PROVE Boxed'
  BY <1>15, <1>a, <1>b, Users DEF Stop, Go, Boxed, Holding
<1>16. ASSUME NEW t \in Turn, Unwind(t) PROVE Boxed'
  <2>1. CASE t \in owners
    BY <1>16, <2>1, <1>a, <1>b, Users DEF Unwind, PullOk, PullFails, Reach, Resolve,
       Unreachable, Cut, Go, LetGo, Unpin, Boxed, Holding
  <2>2. CASE t \notin owners /\ holders = {t}
    BY <1>16, <2>2, <1>a, <1>b, Users DEF Unwind, PullOk, PullFails, Reach, Resolve,
       Unreachable, Cut, Go, LetGo, Unpin, Boxed, Holding
  <2>3. CASE t \notin owners /\ holders # {t}
    BY <1>16, <2>3, <1>a, <1>b, Users DEF Unwind, PullOk, PullFails, Reach, Resolve,
       Unreachable, Cut, Go, LetGo, Unpin, Boxed, Holding
  <2> QED
    BY <1>16, <2>1, <2>2, <2>3
<1>17. ASSUME NEW t \in Turn, Sweep(t) PROVE Boxed'
  BY <1>17, <1>a, <1>b, Users DEF Sweep, PullOk, PullFails, Reach, Resolve, Unreachable, Cut,
     Go, LetGo, Unpin, Boxed, Holding
<1>18. CASE JobPlace
  BY <1>18, <1>a, <1>b, Users DEF JobPlace, Go, Boxed, Holding
<1>19. CASE Prime
  BY <1>19, <1>a, <1>b, Users DEF Prime, PullFails, Reach, Resolve, Unreachable, Cut, Go,
     Boxed, Holding
<1>20. CASE Leaf
  BY <1>20, <1>a, <1>b, Users DEF Leaf, Resolve, Noticed, Put, Boxed, Holding
<1>21. CASE Flush
  BY <1>21, <1>a, <1>b, Users DEF Flush, PullOk, Reach, Resolve, Boxed, Holding
<1>22. CASE JobEnd
  BY <1>22, <1>a, <1>b, Users DEF JobEnd, Go, LetGo, Unpin, Boxed, Holding
<1>23. CASE JobSweep
  BY <1>23, <1>a, <1>b, Users DEF JobSweep, PullOk, PullFails, Reach, Resolve, Unreachable,
     Cut, Go, LetGo, Unpin, Boxed, Holding
<1>24. CASE JobStop
  BY <1>24, <1>a, <1>b, Users DEF JobStop, Go, Boxed, Holding
<1>25. CASE Booted /\ UNCHANGED turnVars
  BY <1>25, <1>a, <1>b, Users DEF Booted, turnVars, BootReady, Noticed, Boxed, Holding
<1>26. CASE Scrub /\ UNCHANGED turnVars
  BY <1>26, <1>a, <1>b, Users DEF Scrub, turnVars, Teardown, Starting, Boxed, Holding
<1>27. CASE Nuke /\ UNCHANGED turnVars
  BY <1>27, <1>a, <1>b, Users DEF Nuke, turnVars, Teardown, Starting, Boxed, Holding
<1>28. CASE Crashes /\ UNCHANGED turnVars
  BY <1>28, <1>a, <1>b, Users DEF Crashes, turnVars, Crash, Teardown, Starting, Boxed, Holding
<1>29. CASE StopBox /\ UNCHANGED turnVars
  BY <1>29, <1>a, <1>b, Users DEF StopBox, turnVars, Teardown, Starting, Boxed, Holding
<1>30. CASE DestroyBox /\ UNCHANGED turnVars
  BY <1>30, <1>a, <1>b, Users DEF DestroyBox, turnVars, DestroyBegin, Teardown, Starting,
     Boxed, Holding
<1>31. CASE ReapIdle /\ UNCHANGED turnVars
  BY <1>31, <1>a, <1>b, Users DEF ReapIdle, turnVars, DestroyBegin, Teardown, Starting,
     Unbound, Boxed, Holding
<1>32. CASE DestroyEnd /\ UNCHANGED turnVars
  BY <1>32, <1>a, <1>b, Users DEF DestroyEnd, turnVars, Boxed, Holding
<1>33. CASE UNCHANGED vars
  BY <1>33, <1>a, <1>b, Users DEF vars, boxVars, turnVars, Boxed, Holding
<1>34. ASSUME NEW t \in Turn, Applied(t) PROVE Boxed'
  BY <1>34, <1>a, <1>b, Users DEF Applied, Go, Say, Cut, Boxed, Holding
<1> QED
  BY <1>1, <1>2, <1>3, <1>4, <1>5, <1>6, <1>7, <1>8, <1>9, <1>10, <1>11, <1>12, <1>13, <1>14,
     <1>15, <1>16, <1>17, <1>18, <1>19, <1>20, <1>21, <1>22, <1>23, <1>24, <1>25, <1>26,
     <1>27, <1>28, <1>29, <1>30, <1>31, <1>32, <1>33, <1>34
     DEF Next, Progress, JobProgress, Around, Done, User

LEMMA HoldingStep ==
  ASSUME IInv, [Next]_vars
  PROVE  Holding'
<1>a. Boxed /\ Holding
  BY DEF IInv
<1>b. pc \in [User -> Point] /\ pinned \subseteq User /\ bound \subseteq Turn /\ holders \subseteq User
  BY DEF IInv, TypeOK, BoxTypeOK
<1>1. ASSUME NEW u \in User, Begin(u) PROVE Holding'
  BY <1>1, <1>a, <1>b, Users DEF Begin, AcquireBegin, Go, Holding, Inside
<1>2. ASSUME NEW u \in User, Pinned(u) PROVE Holding'
  BY <1>2, <1>a, <1>b, Users DEF Pinned, AcquireEnd, Noticed, Go, Holding, Inside
<1>3. ASSUME NEW u \in User, BootFails(u) PROVE Holding'
  BY <1>3, <1>a, <1>b, Users DEF BootFails, AcquireFail, Go, Holding, Inside
<1>4. ASSUME NEW u \in User, Restart(u) PROVE Holding'
  BY <1>4, <1>a, <1>b, Users DEF Restart, Wedged, Teardown, Starting, turnVars, Holding,
     Inside
<1>5. ASSUME NEW t \in Turn, Place(t) PROVE Holding'
  <2>1. CASE Go(t, "placed")
    BY <1>5, <2>1, <1>a, <1>b, Users DEF Place, Go, Resolve, Holding, Inside
  <2>2. CASE Go(t, "done")
    BY <1>5, <2>2, <1>a, <1>b, Users DEF Place, Go, Resolve, Holding, Inside
  <2> QED
    BY <1>5, <2>1, <2>2 DEF Place
<1>6. ASSUME NEW t \in Turn, Refused(t) PROVE Holding'
  BY <1>6, <1>a, <1>b, Users DEF Refused, Go, boxVars, Holding, Inside
<1>7. ASSUME NEW t \in Turn, Deliver(t) PROVE Holding'
  BY <1>7, <1>a, <1>b, Users DEF Deliver, Go, Holding, Inside
<1>8. ASSUME NEW t \in Turn, ConnectFails(t) PROVE Holding'
  BY <1>8, <1>a, <1>b, Users DEF ConnectFails, Go, boxVars, Holding, Inside
<1>9. ASSUME NEW t \in Turn, Write(t) PROVE Holding'
  BY <1>9, <1>a, <1>b, Users DEF Write, Put, Holding, Inside
<1>10. ASSUME NEW t \in Turn, Answer(t) PROVE Holding'
  <2>1. CASE t \in owners
    BY <1>10, <2>1, <1>a, <1>b, Users DEF Answer, Go, boxVars, Holding, Inside
  <2>2. CASE t \notin owners
    BY <1>10, <2>2, <1>a, <1>b, Users DEF Answer, Go, boxVars, Holding, Inside
  <2> QED
    BY <1>10, <2>1, <2>2
<1>11. ASSUME NEW t \in Turn, StreamLost(t) PROVE Holding'
  BY <1>11, <1>a, <1>b, Users DEF StreamLost, Go, boxVars, Holding, Inside
<1>12. ASSUME NEW t \in Turn, Staged(t) PROVE Holding'
  BY <1>12, <1>a, <1>b, Users DEF Staged, Go, Say, boxVars, Holding, Inside
<1>13. ASSUME NEW t \in Turn, Unstaged(t) PROVE Holding'
  BY <1>13, <1>a, <1>b, Users DEF Unstaged, Go, Cut, Holding, Inside
<1>14. ASSUME NEW t \in Turn, Rescue(t) PROVE Holding'
  BY <1>14, <1>a, <1>b, Users DEF Rescue, PullOk, PullFails, Reach, Resolve, Unreachable, Cut,
     Say, Go, Holding, Inside
<1>15. ASSUME NEW t \in Turn, Stop(t) PROVE Holding'
  BY <1>15, <1>a, <1>b, Users DEF Stop, Go, Holding, Inside
<1>16. ASSUME NEW t \in Turn, Unwind(t) PROVE Holding'
  <2>1. CASE t \in owners
    BY <1>16, <2>1, <1>a, <1>b, Users DEF Unwind, PullOk, PullFails, Reach, Resolve,
       Unreachable, Cut, Go, LetGo, Unpin, Holding, Inside
  <2>2. CASE t \notin owners /\ holders = {t}
    BY <1>16, <2>2, <1>a, <1>b, Users DEF Unwind, PullOk, PullFails, Reach, Resolve,
       Unreachable, Cut, Go, LetGo, Unpin, Holding, Inside
  <2>3. CASE t \notin owners /\ holders # {t}
    BY <1>16, <2>3, <1>a, <1>b, Users DEF Unwind, PullOk, PullFails, Reach, Resolve,
       Unreachable, Cut, Go, LetGo, Unpin, Holding, Inside
  <2> QED
    BY <1>16, <2>1, <2>2, <2>3
<1>17. ASSUME NEW t \in Turn, Sweep(t) PROVE Holding'
  BY <1>17, <1>a, <1>b, Users DEF Sweep, PullOk, PullFails, Reach, Resolve, Unreachable, Cut,
     Go, LetGo, Unpin, Holding, Inside
<1>18. CASE JobPlace
  BY <1>18, <1>a, <1>b, Users DEF JobPlace, Go, Holding, Inside
<1>19. CASE Prime
  BY <1>19, <1>a, <1>b, Users DEF Prime, PullFails, Reach, Resolve, Unreachable, Cut, Go,
     Holding, Inside
<1>20. CASE Leaf
  BY <1>20, <1>a, <1>b, Users DEF Leaf, Resolve, Noticed, Put, Holding, Inside
<1>21. CASE Flush
  BY <1>21, <1>a, <1>b, Users DEF Flush, PullOk, Reach, Resolve, Holding, Inside
<1>22. CASE JobEnd
  BY <1>22, <1>a, <1>b, Users DEF JobEnd, Go, LetGo, Unpin, Holding, Inside
<1>23. CASE JobSweep
  BY <1>23, <1>a, <1>b, Users DEF JobSweep, PullOk, PullFails, Reach, Resolve, Unreachable,
     Cut, Go, LetGo, Unpin, Holding, Inside
<1>24. CASE JobStop
  BY <1>24, <1>a, <1>b, Users DEF JobStop, Go, Holding, Inside
<1>25. CASE Booted /\ UNCHANGED turnVars
  BY <1>25, <1>a, <1>b, Users DEF Booted, turnVars, BootReady, Noticed, Holding, Inside
<1>26. CASE Scrub /\ UNCHANGED turnVars
  BY <1>26, <1>a, <1>b, Users DEF Scrub, turnVars, Teardown, Starting, Holding, Inside
<1>27. CASE Nuke /\ UNCHANGED turnVars
  BY <1>27, <1>a, <1>b, Users DEF Nuke, turnVars, Teardown, Starting, Holding, Inside
<1>28. CASE Crashes /\ UNCHANGED turnVars
  BY <1>28, <1>a, <1>b, Users DEF Crashes, turnVars, Crash, Teardown, Starting, Holding,
     Inside
<1>29. CASE StopBox /\ UNCHANGED turnVars
  BY <1>29, <1>a, <1>b, Users DEF StopBox, turnVars, Teardown, Starting, Holding, Inside
<1>30. CASE DestroyBox /\ UNCHANGED turnVars
  BY <1>30, <1>a, <1>b, Users DEF DestroyBox, turnVars, DestroyBegin, Teardown, Starting,
     Holding, Inside
<1>31. CASE ReapIdle /\ UNCHANGED turnVars
  BY <1>31, <1>a, <1>b, Users DEF ReapIdle, turnVars, DestroyBegin, Teardown, Starting,
     Unbound, Holding, Inside
<1>32. CASE DestroyEnd /\ UNCHANGED turnVars
  BY <1>32, <1>a, <1>b, Users DEF DestroyEnd, turnVars, Holding, Inside
<1>33. CASE UNCHANGED vars
  BY <1>33, <1>a, <1>b, Users DEF vars, boxVars, turnVars, Holding, Inside
<1>34. ASSUME NEW t \in Turn, Applied(t) PROVE Holding'
  BY <1>34, <1>a, <1>b, Users DEF Applied, Go, Say, Cut, Holding, Inside
<1> QED
  BY <1>1, <1>2, <1>3, <1>4, <1>5, <1>6, <1>7, <1>8, <1>9, <1>10, <1>11, <1>12, <1>13, <1>14,
     <1>15, <1>16, <1>17, <1>18, <1>19, <1>20, <1>21, <1>22, <1>23, <1>24, <1>25, <1>26,
     <1>27, <1>28, <1>29, <1>30, <1>31, <1>32, <1>33, <1>34
     DEF Next, Progress, JobProgress, Around, Done, User

LEMMA OwningStep ==
  ASSUME IInv, [Next]_vars
  PROVE  Owning'
<1>a. Boxed /\ Holding /\ Owning
  BY DEF IInv
<1>b. pc \in [User -> Point] /\ pinned \subseteq User /\ bound \subseteq Turn /\ holders \subseteq User /\ owners \subseteq Turn /\ staged \subseteq owners /\ buffer \in [Rec -> SUBSET User]
  BY DEF IInv, TypeOK, BoxTypeOK
<1>1. ASSUME NEW u \in User, Begin(u) PROVE Owning'
  BY <1>1, <1>a, <1>b, Users DEF Begin, AcquireBegin, Go, Holding, Owning, Inside
<1>2. ASSUME NEW u \in User, Pinned(u) PROVE Owning'
  BY <1>2, <1>a, <1>b, Users DEF Pinned, AcquireEnd, Noticed, Go, Holding, Owning, Inside
<1>3. ASSUME NEW u \in User, BootFails(u) PROVE Owning'
  BY <1>3, <1>a, <1>b, Users DEF BootFails, AcquireFail, Go, Holding, Owning, Inside
<1>4. ASSUME NEW u \in User, Restart(u) PROVE Owning'
  BY <1>4, <1>a, <1>b, Users DEF Restart, Wedged, Teardown, Starting, turnVars, Holding,
     Owning, Inside
<1>5. ASSUME NEW t \in Turn, Place(t) PROVE Owning'
  <2>1. CASE Go(t, "placed")
    BY <1>5, <2>1, <1>a, <1>b, Users DEF Place, Go, Resolve, Holding, Owning, Inside
  <2>2. CASE Go(t, "done")
    BY <1>5, <2>2, <1>a, <1>b, Users DEF Place, Go, Resolve, Holding, Owning, Inside
  <2> QED
    BY <1>5, <2>1, <2>2 DEF Place
<1>6. ASSUME NEW t \in Turn, Refused(t) PROVE Owning'
  BY <1>6, <1>a, <1>b, Users DEF Refused, Go, boxVars, Holding, Owning, Inside
<1>7. ASSUME NEW t \in Turn, Deliver(t) PROVE Owning'
  BY <1>7, <1>a, <1>b, Users DEF Deliver, Go, Holding, Owning, Inside
<1>8. ASSUME NEW t \in Turn, ConnectFails(t) PROVE Owning'
  BY <1>8, <1>a, <1>b, Users DEF ConnectFails, Go, boxVars, Holding, Owning, Inside
<1>9. ASSUME NEW t \in Turn, Write(t) PROVE Owning'
  BY <1>9, <1>a, <1>b, Users DEF Write, Put, Holding, Owning, Inside
<1>10. ASSUME NEW t \in Turn, Answer(t) PROVE Owning'
  <2>1. CASE t \in owners
    BY <1>10, <2>1, <1>a, <1>b, Users DEF Answer, Go, boxVars, Holding, Owning, Inside
  <2>2. CASE t \notin owners
    BY <1>10, <2>2, <1>a, <1>b, Users DEF Answer, Go, boxVars, Holding, Owning, Inside
  <2> QED
    BY <1>10, <2>1, <2>2
<1>11. ASSUME NEW t \in Turn, StreamLost(t) PROVE Owning'
  BY <1>11, <1>a, <1>b, Users DEF StreamLost, Go, boxVars, Holding, Owning, Inside
<1>12. ASSUME NEW t \in Turn, Staged(t) PROVE Owning'
  BY <1>12, <1>a, <1>b, Users DEF Staged, Go, Say, boxVars, Holding, Owning, Inside
<1>13. ASSUME NEW t \in Turn, Unstaged(t) PROVE Owning'
  BY <1>13, <1>a, <1>b, Users DEF Unstaged, Go, Cut, Holding, Owning, Inside
<1>14. ASSUME NEW t \in Turn, Rescue(t) PROVE Owning'
  BY <1>14, <1>a, <1>b, Users DEF Rescue, PullOk, PullFails, Reach, Resolve, Unreachable, Cut,
     Say, Go, Holding, Owning, Inside
<1>15. ASSUME NEW t \in Turn, Stop(t) PROVE Owning'
  BY <1>15, <1>a, <1>b, Users DEF Stop, Go, Holding, Owning, Inside
<1>16. ASSUME NEW t \in Turn, Unwind(t) PROVE Owning'
  <2>1. CASE t \in owners
    BY <1>16, <2>1, <1>a, <1>b, Users DEF Unwind, PullOk, PullFails, Reach, Resolve,
       Unreachable, Cut, Go, LetGo, Unpin, Holding, Owning, Inside
  <2>2. CASE t \notin owners /\ holders = {t}
    BY <1>16, <2>2, <1>a, <1>b, Users DEF Unwind, PullOk, PullFails, Reach, Resolve,
       Unreachable, Cut, Go, LetGo, Unpin, Holding, Owning, Inside
  <2>3. CASE t \notin owners /\ holders # {t}
    BY <1>16, <2>3, <1>a, <1>b, Users DEF Unwind, PullOk, PullFails, Reach, Resolve,
       Unreachable, Cut, Go, LetGo, Unpin, Holding, Owning, Inside
  <2> QED
    BY <1>16, <2>1, <2>2, <2>3
<1>17. ASSUME NEW t \in Turn, Sweep(t) PROVE Owning'
  BY <1>17, <1>a, <1>b, Users DEF Sweep, PullOk, PullFails, Reach, Resolve, Unreachable, Cut,
     Go, LetGo, Unpin, Holding, Owning, Inside
<1>18. CASE JobPlace
  BY <1>18, <1>a, <1>b, Users DEF JobPlace, Go, Holding, Owning, Inside
<1>19. CASE Prime
  BY <1>19, <1>a, <1>b, Users DEF Prime, PullFails, Reach, Resolve, Unreachable, Cut, Go,
     Holding, Owning, Inside
<1>20. CASE Leaf
  BY <1>20, <1>a, <1>b, Users DEF Leaf, Resolve, Noticed, Put, Holding, Owning, Inside
<1>21. CASE Flush
  BY <1>21, <1>a, <1>b, Users DEF Flush, PullOk, Reach, Resolve, Holding, Owning, Inside
<1>22. CASE JobEnd
  BY <1>22, <1>a, <1>b, Users DEF JobEnd, Go, LetGo, Unpin, Holding, Owning, Inside
<1>23. CASE JobSweep
  BY <1>23, <1>a, <1>b, Users DEF JobSweep, PullOk, PullFails, Reach, Resolve, Unreachable,
     Cut, Go, LetGo, Unpin, Holding, Owning, Inside
<1>24. CASE JobStop
  BY <1>24, <1>a, <1>b, Users DEF JobStop, Go, Holding, Owning, Inside
<1>25. CASE Booted /\ UNCHANGED turnVars
  BY <1>25, <1>a, <1>b, Users DEF Booted, turnVars, BootReady, Noticed, Holding, Owning,
     Inside
<1>26. CASE Scrub /\ UNCHANGED turnVars
  BY <1>26, <1>a, <1>b, Users DEF Scrub, turnVars, Teardown, Starting, Holding, Owning, Inside
<1>27. CASE Nuke /\ UNCHANGED turnVars
  BY <1>27, <1>a, <1>b, Users DEF Nuke, turnVars, Teardown, Starting, Holding, Owning, Inside
<1>28. CASE Crashes /\ UNCHANGED turnVars
  BY <1>28, <1>a, <1>b, Users DEF Crashes, turnVars, Crash, Teardown, Starting, Holding,
     Owning, Inside
<1>29. CASE StopBox /\ UNCHANGED turnVars
  BY <1>29, <1>a, <1>b, Users DEF StopBox, turnVars, Teardown, Starting, Holding, Owning,
     Inside
<1>30. CASE DestroyBox /\ UNCHANGED turnVars
  BY <1>30, <1>a, <1>b, Users DEF DestroyBox, turnVars, DestroyBegin, Teardown, Starting,
     Holding, Owning, Inside
<1>31. CASE ReapIdle /\ UNCHANGED turnVars
  BY <1>31, <1>a, <1>b, Users DEF ReapIdle, turnVars, DestroyBegin, Teardown, Starting,
     Unbound, Holding, Owning, Inside
<1>32. CASE DestroyEnd /\ UNCHANGED turnVars
  BY <1>32, <1>a, <1>b, Users DEF DestroyEnd, turnVars, Holding, Owning, Inside
<1>33. CASE UNCHANGED vars
  BY <1>33, <1>a, <1>b, Users DEF vars, boxVars, turnVars, Holding, Owning, Inside
<1>34. ASSUME NEW t \in Turn, Applied(t) PROVE Owning'
  BY <1>34, <1>a, <1>b, Users DEF Applied, Go, Say, Cut, Holding, Owning, Inside
<1> QED
  BY <1>1, <1>2, <1>3, <1>4, <1>5, <1>6, <1>7, <1>8, <1>9, <1>10, <1>11, <1>12, <1>13, <1>14,
     <1>15, <1>16, <1>17, <1>18, <1>19, <1>20, <1>21, <1>22, <1>23, <1>24, <1>25, <1>26,
     <1>27, <1>28, <1>29, <1>30, <1>31, <1>32, <1>33, <1>34
     DEF Next, Progress, JobProgress, Around, Done, User

-----------------------------------------------------------------------------
\* The owner's edits, whatever goes wrong.

LEMMA FetchableStep ==
  ASSUME IInv, [Next]_vars
  PROVE  Fetchable'
<1>a. Boxed /\ Holding /\ Owning /\ Fetchable
  BY DEF IInv
<1>b. pc \in [User -> Point] /\ at \in [User -> 0..MaxRec] /\ told \in [Turn -> {"none", "clean", "noted"}] /\ owners \subseteq Turn /\ buffer \in [Rec -> SUBSET User] /\ guest \in [Rec -> {"down", "boot", "up"}]
  BY DEF IInv, TypeOK, BoxTypeOK
<1>1. ASSUME NEW u \in User, Begin(u) PROVE Fetchable'
  BY <1>1, <1>a, <1>b, Users DEF Begin, AcquireBegin, Go, Boxed, Holding, Owning, Fetchable,
     Inside
<1>2. ASSUME NEW u \in User, Pinned(u) PROVE Fetchable'
  BY <1>2, <1>a, <1>b, Users DEF Pinned, AcquireEnd, Noticed, Go, Boxed, Holding, Owning,
     Fetchable, Inside
<1>3. ASSUME NEW u \in User, BootFails(u) PROVE Fetchable'
  BY <1>3, <1>a, <1>b, Users DEF BootFails, AcquireFail, Go, Boxed, Holding, Owning,
     Fetchable, Inside
<1>4. ASSUME NEW u \in User, Restart(u) PROVE Fetchable'
  BY <1>4, Records, <1>a, <1>b, Users DEF Restart, Wedged, Teardown, Starting, turnVars,
     Boxed, Holding, Owning, Fetchable, Inside
<1>5. ASSUME NEW t \in Turn, Place(t) PROVE Fetchable'
  <2>1. CASE Go(t, "placed")
    BY <1>5, <2>1, <1>a, <1>b, Users DEF Place, Go, Resolve, Boxed, Holding, Owning,
       Fetchable, Inside
  <2>2. CASE Go(t, "done")
    BY <1>5, <2>2, <1>a, <1>b, Users DEF Place, Go, Resolve, Boxed, Holding, Owning,
       Fetchable, Inside
  <2> QED
    BY <1>5, <2>1, <2>2 DEF Place
<1>6. ASSUME NEW t \in Turn, Refused(t) PROVE Fetchable'
  BY <1>6, <1>a, <1>b, Users DEF Refused, Go, boxVars, Boxed, Holding, Owning, Fetchable,
     Inside
<1>7. ASSUME NEW t \in Turn, Deliver(t) PROVE Fetchable'
  BY <1>7, <1>a, <1>b, Users DEF Deliver, Go, Boxed, Holding, Owning, Fetchable, Inside
<1>8. ASSUME NEW t \in Turn, ConnectFails(t) PROVE Fetchable'
  BY <1>8, <1>a, <1>b, Users DEF ConnectFails, Go, boxVars, Boxed, Holding, Owning, Fetchable,
     Inside
<1>9. ASSUME NEW t \in Turn, Write(t) PROVE Fetchable'
  BY <1>9, Records, <1>a, <1>b, Users DEF Write, Put, Boxed, Holding, Owning, Fetchable,
     Inside
<1>10. ASSUME NEW t \in Turn, Answer(t) PROVE Fetchable'
  <2>1. CASE t \in owners
    BY <1>10, <2>1, <1>a, <1>b, Users DEF Answer, Go, boxVars, Boxed, Holding, Owning,
       Fetchable, Inside
  <2>2. CASE t \notin owners
    BY <1>10, <2>2, <1>a, <1>b, Users DEF Answer, Go, boxVars, Boxed, Holding, Owning,
       Fetchable, Inside
  <2> QED
    BY <1>10, <2>1, <2>2
<1>11. ASSUME NEW t \in Turn, StreamLost(t) PROVE Fetchable'
  BY <1>11, <1>a, <1>b, Users DEF StreamLost, Go, boxVars, Boxed, Holding, Owning, Fetchable,
     Inside
<1>12. ASSUME NEW t \in Turn, Staged(t) PROVE Fetchable'
  BY <1>12, <1>a, <1>b, Users DEF Staged, Go, Say, boxVars, Boxed, Holding, Owning, Fetchable,
     Inside
<1>13. ASSUME NEW t \in Turn, Unstaged(t) PROVE Fetchable'
  BY <1>13, <1>a, <1>b, Users DEF Unstaged, Go, Cut, Boxed, Holding, Owning, Fetchable, Inside
<1>14. ASSUME NEW t \in Turn, Rescue(t) PROVE Fetchable'
  BY <1>14, <1>a, <1>b, Users DEF Rescue, PullOk, PullFails, Reach, Resolve, Unreachable, Cut,
     Say, Go, Boxed, Holding, Owning, Fetchable, Inside
<1>15. ASSUME NEW t \in Turn, Stop(t) PROVE Fetchable'
  BY <1>15, <1>a, <1>b, Users DEF Stop, Go, Boxed, Holding, Owning, Fetchable, Inside
<1>16. ASSUME NEW t \in Turn, Unwind(t) PROVE Fetchable'
  <2>1. CASE t \in owners
    BY <1>16, <2>1, <1>a, <1>b, Users DEF Unwind, PullOk, PullFails, Reach, Resolve, Unreachable, Cut, Go, LetGo, Unpin, Boxed, Holding, Owning, Fetchable, Inside
  <2>2. CASE t \notin owners /\ holders = {t}
    BY <1>16, <2>2, <1>a, <1>b, Users DEF Unwind, Go, Fetchable
  <2>3. CASE t \notin owners /\ holders # {t}
    BY <1>16, <2>3, <1>a, <1>b, Users DEF Unwind, Go, LetGo, Fetchable
  <2> QED
    BY <1>16, <2>1, <2>2, <2>3
<1>17. ASSUME NEW t \in Turn, Sweep(t) PROVE Fetchable'
  BY <1>17, <1>a, <1>b, Users DEF Sweep, PullOk, PullFails, Reach, Resolve, Unreachable, Cut,
     Go, LetGo, Unpin, Boxed, Holding, Owning, Fetchable, Inside
<1>18. CASE JobPlace
  BY <1>18, <1>a, <1>b, Users DEF JobPlace, Go, Boxed, Holding, Owning, Fetchable, Inside
<1>19. CASE Prime
  BY <1>19, <1>a, <1>b, Users DEF Prime, PullFails, Reach, Resolve, Unreachable, Cut, Go,
     Boxed, Holding, Owning, Fetchable, Inside
<1>20. CASE Leaf
  BY <1>20, <1>a, <1>b, Users DEF Leaf, Resolve, Noticed, Put, Boxed, Holding, Owning,
     Fetchable, Inside
<1>21. CASE Flush
  BY <1>21, <1>a, <1>b, Users DEF Flush, PullOk, Reach, Resolve, Boxed, Holding, Owning,
     Fetchable, Inside
<1>22. CASE JobEnd
  BY <1>22, <1>a, <1>b, Users DEF JobEnd, Go, LetGo, Unpin, Boxed, Holding, Owning, Fetchable,
     Inside
<1>23. CASE JobSweep
  BY <1>23, <1>a, <1>b, Users DEF JobSweep, PullOk, PullFails, Reach, Resolve, Unreachable,
     Cut, Go, LetGo, Unpin, Boxed, Holding, Owning, Fetchable, Inside
<1>24. CASE JobStop
  BY <1>24, <1>a, <1>b, Users DEF JobStop, Go, Boxed, Holding, Owning, Fetchable, Inside
<1>25. CASE Booted /\ UNCHANGED turnVars
  BY <1>25, <1>a, <1>b, Users DEF Booted, turnVars, BootReady, Noticed, Boxed, Holding,
     Owning, Fetchable, Inside
<1>26. CASE Scrub /\ UNCHANGED turnVars
  BY <1>26, Records, <1>a, <1>b, Users DEF Scrub, turnVars, Teardown, Starting, Boxed,
     Holding, Owning, Fetchable, Inside
<1>27. CASE Nuke /\ UNCHANGED turnVars
  BY <1>27, Records, <1>a, <1>b, Users DEF Nuke, turnVars, Teardown, Starting, Boxed, Holding,
     Owning, Fetchable, Inside
<1>28. CASE Crashes /\ UNCHANGED turnVars
  BY <1>28, <1>a, <1>b, Users DEF Crashes, turnVars, Crash, Teardown, Starting, Boxed,
     Holding, Owning, Fetchable, Inside
<1>29. CASE StopBox /\ UNCHANGED turnVars
  BY <1>29, <1>a, <1>b, Users DEF StopBox, turnVars, Teardown, Starting, Boxed, Holding,
     Owning, Fetchable, Inside
<1>30. CASE DestroyBox /\ UNCHANGED turnVars
  BY <1>30, <1>a, <1>b, Users DEF DestroyBox, turnVars, DestroyBegin, Teardown, Starting,
     Boxed, Holding, Owning, Fetchable, Inside
<1>31. CASE ReapIdle /\ UNCHANGED turnVars
  BY <1>31, <1>a, <1>b, Users DEF ReapIdle, turnVars, DestroyBegin, Teardown, Starting,
     Unbound, Boxed, Holding, Owning, Fetchable, Inside
<1>32. CASE DestroyEnd /\ UNCHANGED turnVars
  BY <1>32, <1>a, <1>b, Users DEF DestroyEnd, turnVars, Boxed, Holding, Owning, Fetchable,
     Inside
<1>33. CASE UNCHANGED vars
  BY <1>33, <1>a, <1>b, Users DEF vars, boxVars, turnVars, Boxed, Holding, Owning, Fetchable,
     Inside
<1>34. ASSUME NEW t \in Turn, Applied(t) PROVE Fetchable'
  BY <1>34, <1>a, <1>b, Users DEF Applied, Go, Say, Cut, Boxed, Holding, Owning, Fetchable,
     Inside
<1> QED
  BY <1>1, <1>2, <1>3, <1>4, <1>5, <1>6, <1>7, <1>8, <1>9, <1>10, <1>11, <1>12, <1>13, <1>14,
     <1>15, <1>16, <1>17, <1>18, <1>19, <1>20, <1>21, <1>22, <1>23, <1>24, <1>25, <1>26,
     <1>27, <1>28, <1>29, <1>30, <1>31, <1>32, <1>33, <1>34
     DEF Next, Progress, JobProgress, Around, Done, User

LEMMA ToldStep ==
  ASSUME IInv, [Next]_vars
  PROVE  Told'
<1>a. Boxed /\ Holding /\ Owning /\ Fetchable /\ Told
  BY DEF IInv
<1>b. pc \in [User -> Point] /\ told \in [Turn -> {"none", "clean", "noted"}] /\ owners \subseteq Turn
  BY DEF IInv, TypeOK, BoxTypeOK
<1>1. ASSUME NEW u \in User, Begin(u) PROVE Told'
  BY <1>1, <1>a, <1>b, Users DEF Begin, AcquireBegin, Go, Told, Boxed, Holding, Owning,
     Fetchable, Inside
<1>2. ASSUME NEW u \in User, Pinned(u) PROVE Told'
  BY <1>2, <1>a, <1>b, Users DEF Pinned, AcquireEnd, Noticed, Go, Told, Boxed, Holding,
     Owning, Fetchable, Inside
<1>3. ASSUME NEW u \in User, BootFails(u) PROVE Told'
  BY <1>3, <1>a, <1>b, Users DEF BootFails, AcquireFail, Go, Told, Boxed, Holding, Owning,
     Fetchable, Inside
<1>4. ASSUME NEW u \in User, Restart(u) PROVE Told'
  BY <1>4, <1>a, <1>b, Users DEF Restart, Wedged, Teardown, Starting, turnVars, Told, Boxed,
     Holding, Owning, Fetchable, Inside
<1>5. ASSUME NEW t \in Turn, Place(t) PROVE Told'
  <2>1. CASE Go(t, "placed")
    BY <1>5, <2>1, <1>a, <1>b, Users DEF Place, Go, Resolve, Told, Boxed, Holding, Owning,
       Fetchable, Inside
  <2>2. CASE Go(t, "done")
    BY <1>5, <2>2, <1>a, <1>b, Users DEF Place, Go, Resolve, Told, Boxed, Holding, Owning,
       Fetchable, Inside
  <2> QED
    BY <1>5, <2>1, <2>2 DEF Place
<1>6. ASSUME NEW t \in Turn, Refused(t) PROVE Told'
  BY <1>6, <1>a, <1>b, Users DEF Refused, Go, boxVars, Told, Boxed, Holding, Owning,
     Fetchable, Inside
<1>7. ASSUME NEW t \in Turn, Deliver(t) PROVE Told'
  BY <1>7, <1>a, <1>b, Users DEF Deliver, Go, Told, Boxed, Holding, Owning, Fetchable, Inside
<1>8. ASSUME NEW t \in Turn, ConnectFails(t) PROVE Told'
  BY <1>8, <1>a, <1>b, Users DEF ConnectFails, Go, boxVars, Told, Boxed, Holding, Owning,
     Fetchable, Inside
<1>9. ASSUME NEW t \in Turn, Write(t) PROVE Told'
  BY <1>9, <1>a, <1>b, Users DEF Write, Put, Told, Boxed, Holding, Owning, Fetchable, Inside
<1>10. ASSUME NEW t \in Turn, Answer(t) PROVE Told'
  <2>1. CASE t \in owners
    BY <1>10, <2>1, <1>a, <1>b, Users DEF Answer, Go, boxVars, Told, Boxed, Holding, Owning,
       Fetchable, Inside
  <2>2. CASE t \notin owners
    BY <1>10, <2>2, <1>a, <1>b, Users DEF Answer, Go, boxVars, Told, Boxed, Holding, Owning,
       Fetchable, Inside
  <2> QED
    BY <1>10, <2>1, <2>2
<1>11. ASSUME NEW t \in Turn, StreamLost(t) PROVE Told'
  BY <1>11, <1>a, <1>b, Users DEF StreamLost, Go, boxVars, Told, Boxed, Holding, Owning,
     Fetchable, Inside
<1>12. ASSUME NEW t \in Turn, Staged(t) PROVE Told'
  BY <1>12, <1>a, <1>b, Users DEF Staged, Go, Say, boxVars, Told, Boxed, Holding, Owning,
     Fetchable, Inside
<1>13. ASSUME NEW t \in Turn, Unstaged(t) PROVE Told'
  BY <1>13, <1>a, <1>b, Users DEF Unstaged, Go, Cut, Told, Boxed, Holding, Owning, Fetchable,
     Inside
<1>14. ASSUME NEW t \in Turn, Rescue(t) PROVE Told'
  <2> SUFFICES ASSUME kind = "shared", NEW o \in owners \cap wrote, told'[o] = "clean"
               PROVE  o \in home'
    BY <1>14 DEF Rescue, Told
  <2>1. CASE o # t
    BY <1>14, <2>1, <1>a, <1>b DEF Rescue, Say, Told, PullOk, PullFails
  <2>2. CASE o = t
    <3>1. pc[t] = "rescue" /\ t \in pinned /\ told'[t] # "noted"
      BY <1>14, <2>2, <1>a DEF Rescue, Holding, Inside
    <3>2. PullOk
      BY <1>14, <3>1, <1>b DEF Rescue, Say
    <3>3. at[t] = 1 /\ registered = 1
      BY <3>1, <1>a, Users DEF Boxed
    <3>4. guest[1] = "up" /\ home' = home \cup buffer[1]
      BY <3>2, <3>3 DEF PullOk, Reach, Resolve
    <3>5. t \in buffer[1]
      BY <2>2, <3>1, <3>3, <3>4, <1>a DEF Fetchable
    <3> QED
      BY <2>2, <3>4, <3>5
  <2> QED
    BY <2>1, <2>2
<1>15. ASSUME NEW t \in Turn, Stop(t) PROVE Told'
  BY <1>15, <1>a, <1>b, Users DEF Stop, Go, Told, Boxed, Holding, Owning, Fetchable, Inside
<1>16. ASSUME NEW t \in Turn, Unwind(t) PROVE Told'
  <2>1. CASE t \in owners
    BY <1>16, <2>1, <1>a, <1>b, Users DEF Unwind, PullOk, PullFails, Reach, Resolve,
       Unreachable, Cut, Go, LetGo, Unpin, Told, Boxed, Holding, Owning, Fetchable, Inside
  <2>2. CASE t \notin owners /\ holders = {t}
    BY <1>16, <2>2, <1>a, <1>b, Users DEF Unwind, PullOk, PullFails, Reach, Resolve,
       Unreachable, Cut, Go, LetGo, Unpin, Told, Boxed, Holding, Owning, Fetchable, Inside
  <2>3. CASE t \notin owners /\ holders # {t}
    BY <1>16, <2>3, <1>a, <1>b, Users DEF Unwind, PullOk, PullFails, Reach, Resolve,
       Unreachable, Cut, Go, LetGo, Unpin, Told, Boxed, Holding, Owning, Fetchable, Inside
  <2> QED
    BY <1>16, <2>1, <2>2, <2>3
<1>17. ASSUME NEW t \in Turn, Sweep(t) PROVE Told'
  BY <1>17, <1>a, <1>b, Users DEF Sweep, PullOk, PullFails, Reach, Resolve, Unreachable, Cut,
     Go, LetGo, Unpin, Told, Boxed, Holding, Owning, Fetchable, Inside
<1>18. CASE JobPlace
  BY <1>18, <1>a, <1>b, Users DEF JobPlace, Go, Told, Boxed, Holding, Owning, Fetchable,
     Inside
<1>19. CASE Prime
  BY <1>19, <1>a, <1>b, Users DEF Prime, PullFails, Reach, Resolve, Unreachable, Cut, Go,
     Told, Boxed, Holding, Owning, Fetchable, Inside
<1>20. CASE Leaf
  BY <1>20, <1>a, <1>b, Users DEF Leaf, Resolve, Noticed, Put, Told, Boxed, Holding, Owning,
     Fetchable, Inside
<1>21. CASE Flush
  BY <1>21, <1>a, <1>b, Users DEF Flush, PullOk, Reach, Resolve, Told, Boxed, Holding, Owning,
     Fetchable, Inside
<1>22. CASE JobEnd
  BY <1>22, <1>a, <1>b, Users DEF JobEnd, Go, LetGo, Unpin, Told, Boxed, Holding, Owning,
     Fetchable, Inside
<1>23. CASE JobSweep
  BY <1>23, <1>a, <1>b, Users DEF JobSweep, PullOk, PullFails, Reach, Resolve, Unreachable,
     Cut, Go, LetGo, Unpin, Told, Boxed, Holding, Owning, Fetchable, Inside
<1>24. CASE JobStop
  BY <1>24, <1>a, <1>b, Users DEF JobStop, Go, Told, Boxed, Holding, Owning, Fetchable, Inside
<1>25. CASE Booted /\ UNCHANGED turnVars
  BY <1>25, <1>a, <1>b, Users DEF Booted, turnVars, BootReady, Noticed, Told, Boxed, Holding,
     Owning, Fetchable, Inside
<1>26. CASE Scrub /\ UNCHANGED turnVars
  BY <1>26, <1>a, <1>b, Users DEF Scrub, turnVars, Teardown, Starting, Told, Boxed, Holding,
     Owning, Fetchable, Inside
<1>27. CASE Nuke /\ UNCHANGED turnVars
  BY <1>27, <1>a, <1>b, Users DEF Nuke, turnVars, Teardown, Starting, Told, Boxed, Holding,
     Owning, Fetchable, Inside
<1>28. CASE Crashes /\ UNCHANGED turnVars
  BY <1>28, <1>a, <1>b, Users DEF Crashes, turnVars, Crash, Teardown, Starting, Told, Boxed,
     Holding, Owning, Fetchable, Inside
<1>29. CASE StopBox /\ UNCHANGED turnVars
  BY <1>29, <1>a, <1>b, Users DEF StopBox, turnVars, Teardown, Starting, Told, Boxed, Holding,
     Owning, Fetchable, Inside
<1>30. CASE DestroyBox /\ UNCHANGED turnVars
  BY <1>30, <1>a, <1>b, Users DEF DestroyBox, turnVars, DestroyBegin, Teardown, Starting,
     Told, Boxed, Holding, Owning, Fetchable, Inside
<1>31. CASE ReapIdle /\ UNCHANGED turnVars
  BY <1>31, <1>a, <1>b, Users DEF ReapIdle, turnVars, DestroyBegin, Teardown, Starting,
     Unbound, Told, Boxed, Holding, Owning, Fetchable, Inside
<1>32. CASE DestroyEnd /\ UNCHANGED turnVars
  BY <1>32, <1>a, <1>b, Users DEF DestroyEnd, turnVars, Told, Boxed, Holding, Owning,
     Fetchable, Inside
<1>33. CASE UNCHANGED vars
  BY <1>33, <1>a, <1>b, Users DEF vars, boxVars, turnVars, Told, Boxed, Holding, Owning,
     Fetchable, Inside
<1>34. ASSUME NEW t \in Turn, Applied(t) PROVE Told'
  BY <1>34, <1>a, <1>b, Users DEF Applied, Go, Say, Cut, Told, Boxed, Holding, Owning, Fetchable,
     Inside
<1> QED
  BY <1>1, <1>2, <1>3, <1>4, <1>5, <1>6, <1>7, <1>8, <1>9, <1>10, <1>11, <1>12, <1>13, <1>14,
     <1>15, <1>16, <1>17, <1>18, <1>19, <1>20, <1>21, <1>22, <1>23, <1>24, <1>25, <1>26,
     <1>27, <1>28, <1>29, <1>30, <1>31, <1>32, <1>33, <1>34
     DEF Next, Progress, JobProgress, Around, Done, User

-----------------------------------------------------------------------------
\* While nothing has gone wrong.

LEMMA SteadyStep ==
  ASSUME IInv, [Next]_vars
  PROVE  Steady'
<1> SUFFICES ASSUME cuts' = 0 PROVE Settled'
  BY DEF Steady
<1>z. cuts = 0 => Settled /\ Undisturbed /\ OwnerKeepsEdits
  BY DEF IInv, Steady
<1>a. Boxed /\ Holding /\ Owning
  BY DEF IInv
<1>b. pc \in [User -> Point] /\ at \in [User -> 0..MaxRec] /\ pinned \subseteq User /\ bound \subseteq Turn /\ holders \subseteq User /\ guest \in [Rec -> {"down", "boot", "up"}] /\ owners \subseteq Turn /\ staged \subseteq owners /\ registered \in 0..MaxRec /\ going \in 0..MaxRec /\ cuts \in 0..MaxCuts
  BY DEF IInv, TypeOK, BoxTypeOK
<1>c. \A v \in pinned : at[v] \in Rec /\ pins[at[v]] # 0
  BY PinIsCounted DEF IInv
<1>f. /\ told \in [Turn -> {"none", "clean", "noted"}]
      /\ \A t \in Turn : pc[t] \in {"applying", "rescue"} => told[t] = "none" /\ t \in owners
      /\ \A t \in owners \cap wrote : pc[t] = "applying" => t \in parcel
  BY DEF IInv, TypeOK, Fetchable, Owning
<1>1. ASSUME NEW u \in User, Begin(u) PROVE Settled'
  BY <1>1, <1>a, <1>b, <1>c, <1>z, Users, Records DEF Begin, AcquireBegin, Go, Settled, Boxed,
     Holding, Owning, Inside, Undisturbed
<1>2. ASSUME NEW u \in User, Pinned(u) PROVE Settled'
  BY <1>2, <1>a, <1>b, <1>c, <1>z, Users, Records DEF Pinned, AcquireEnd, Noticed, Go,
     Settled, Boxed, Holding, Owning, Inside, Undisturbed
<1>3. ASSUME NEW u \in User, BootFails(u) PROVE Settled'
  BY <1>3, <1>a, <1>b, <1>c, <1>z, Users, Records DEF BootFails, AcquireFail, Go, Settled,
     Boxed, Holding, Owning, Inside, Undisturbed
<1>4. ASSUME NEW u \in User, Restart(u) PROVE Settled'
  <2>1. at[u] \in Rec /\ (going # 0 => going # at[u])
    BY <1>4, <1>a, <1>b, <1>z, Records, Users DEF Restart, Boxed, Settled, User
  <2>2. /\ \A r \in Rec : guest'[r] = IF r = at[u] THEN "boot" ELSE guest[r]
        /\ UNCHANGED <<registered, retired, going, at, bound, cuts, turnVars>>
    BY <1>4, <2>1, <1>b DEF Restart, Wedged, Teardown
  <2>3. \A v \in pinned : at[v] # at[u]
    BY <1>4, <1>c DEF Restart, Wedged
  <2>4. cuts = 0 /\ going \in 0..MaxRec
    BY <2>2, <1>b
  <2> QED
    BY <2>1, <2>2, <2>3, <2>4, <1>c, <1>z, Records DEF Settled, turnVars
<1>5. ASSUME NEW t \in Turn, Place(t) PROVE Settled'
  <2>1. CASE Go(t, "placed")
    BY <1>5, <2>1, <1>a, <1>b, <1>c, <1>z, Users, Records DEF Place, Go, Resolve, Settled,
       Boxed, Holding, Owning, Inside, Undisturbed
  <2>2. CASE Go(t, "done")
    BY <1>5, <2>2, <1>a, <1>b, <1>c, <1>z, Users, Records DEF Place, Go, Resolve, Settled,
       Boxed, Holding, Owning, Inside, Undisturbed
  <2> QED
    BY <1>5, <2>1, <2>2 DEF Place
<1>6. ASSUME NEW t \in Turn, Refused(t) PROVE Settled'
  BY <1>6, <1>a, <1>b, <1>c, <1>z, Users, Records DEF Refused, Go, boxVars, Settled, Boxed,
     Holding, Owning, Inside, Undisturbed
<1>7. ASSUME NEW t \in Turn, Deliver(t) PROVE Settled'
  BY <1>7, <1>a, <1>b, <1>c, <1>z, Users, Records DEF Deliver, Go, Settled, Boxed, Holding,
     Owning, Inside, Undisturbed
<1>8. ASSUME NEW t \in Turn, ConnectFails(t) PROVE Settled'
  BY <1>8, <1>a, <1>b, <1>c, <1>z, Users, Records DEF ConnectFails, Go, boxVars, Settled,
     Boxed, Holding, Owning, Inside, Undisturbed
<1>9. ASSUME NEW t \in Turn, Write(t) PROVE Settled'
  BY <1>9, <1>a, <1>b, <1>c, <1>z, Users, Records DEF Write, Put, Settled, Boxed, Holding,
     Owning, Inside, Undisturbed
<1>10. ASSUME NEW t \in Turn, Answer(t) PROVE Settled'
  <2>1. CASE t \in owners
    BY <1>10, <2>1, <1>a, <1>b, <1>c, <1>z, Users, Records DEF Answer, Go, boxVars, Settled,
       Boxed, Holding, Owning, Inside, Undisturbed
  <2>2. CASE t \notin owners
    BY <1>10, <2>2, <1>a, <1>b, <1>c, <1>z, Users, Records DEF Answer, Go, boxVars, Settled,
       Boxed, Holding, Owning, Inside, Undisturbed
  <2> QED
    BY <1>10, <2>1, <2>2
<1>11. ASSUME NEW t \in Turn, StreamLost(t) PROVE Settled'
  BY <1>11, <1>a, <1>b, <1>c, <1>z, Users, Records DEF StreamLost, Go, boxVars, Settled,
     Boxed, Holding, Owning, Inside, Undisturbed
<1>12. ASSUME NEW t \in Turn, Staged(t) PROVE Settled'
  BY <1>12, <1>a, <1>b, <1>z, Users DEF Staged, Go, Settled, boxVars
<1>13. ASSUME NEW t \in Turn, Unstaged(t) PROVE Settled'
  BY <1>13, <1>f, <1>a, <1>b, <1>c, <1>z, Users, Records DEF Unstaged, Go, Cut, Settled, Boxed,
     Holding, Owning, Inside, Undisturbed
<1>14. ASSUME NEW t \in Turn, Rescue(t) PROVE Settled'
  BY <1>14, <1>f, <1>a, <1>b, <1>c, <1>z, Users, Records DEF Rescue, PullOk, PullFails, Reach,
     Resolve, Unreachable, Cut, Say, Go, Settled, Boxed, Holding, Owning, Inside, Undisturbed
<1>15. ASSUME NEW t \in Turn, Stop(t) PROVE Settled'
  BY <1>15, <1>f, <1>a, <1>b, <1>c, <1>z, Users, Records DEF Stop, Go, Settled, Boxed, Holding,
     Owning, Inside, Undisturbed
<1>16. ASSUME NEW t \in Turn, Unwind(t) PROVE Settled'
  <2>1. CASE t \in owners
    BY <1>16, <2>1, <1>a, <1>b, <1>c, <1>z, Users, Records DEF Unwind, PullOk, PullFails,
       Reach, Resolve, Unreachable, Cut, Go, LetGo, Unpin, Settled, Boxed, Holding, Owning,
       Inside, Undisturbed
  <2>2. CASE t \notin owners /\ holders = {t}
    BY <1>16, <2>2, <1>a, <1>b, <1>c, <1>z, Users, Records DEF Unwind, PullOk, PullFails,
       Reach, Resolve, Unreachable, Cut, Go, LetGo, Unpin, Settled, Boxed, Holding, Owning,
       Inside, Undisturbed
  <2>3. CASE t \notin owners /\ holders # {t}
    BY <1>16, <2>3, <1>a, <1>b, <1>c, <1>z, Users, Records DEF Unwind, PullOk, PullFails,
       Reach, Resolve, Unreachable, Cut, Go, LetGo, Unpin, Settled, Boxed, Holding, Owning,
       Inside, Undisturbed
  <2> QED
    BY <1>16, <2>1, <2>2, <2>3
<1>17. ASSUME NEW t \in Turn, Sweep(t) PROVE Settled'
  BY <1>17, <1>a, <1>b, <1>c, <1>z, Users, Records DEF Sweep, PullOk, PullFails, Reach,
     Resolve, Unreachable, Cut, Go, LetGo, Unpin, Settled, Boxed, Holding, Owning, Inside,
     Undisturbed
<1>18. CASE JobPlace
  BY <1>18, <1>a, <1>b, <1>c, <1>z, Users, Records DEF JobPlace, Go, Settled, Boxed, Holding,
     Owning, Inside, Undisturbed
<1>19. CASE Prime
  BY <1>19, <1>a, <1>b, <1>c, <1>z, Users, Records DEF Prime, PullFails, Reach, Resolve,
     Unreachable, Cut, Go, Settled, Boxed, Holding, Owning, Inside, Undisturbed
<1>20. CASE Leaf
  BY <1>20, <1>a, <1>b, <1>c, <1>z, Users, Records DEF Leaf, Resolve, Noticed, Put, Settled,
     Boxed, Holding, Owning, Inside, Undisturbed
<1>21. CASE Flush
  BY <1>21, <1>a, <1>b, <1>c, <1>z, Users, Records DEF Flush, PullOk, Reach, Resolve, Settled,
     Boxed, Holding, Owning, Inside, Undisturbed
<1>22. CASE JobEnd
  BY <1>22, <1>a, <1>b, <1>c, <1>z, Users, Records DEF JobEnd, Go, LetGo, Unpin, Settled,
     Boxed, Holding, Owning, Inside, Undisturbed
<1>23. CASE JobSweep
  BY <1>23, <1>a, <1>b, <1>c, <1>z, Users, Records DEF JobSweep, PullOk, PullFails, Reach,
     Resolve, Unreachable, Cut, Go, LetGo, Unpin, Settled, Boxed, Holding, Owning, Inside,
     Undisturbed
<1>24. CASE JobStop
  BY <1>24, <1>a, <1>b, <1>c, <1>z, Users, Records DEF JobStop, Go, Settled, Boxed, Holding,
     Owning, Inside, Undisturbed
<1>25. CASE Booted /\ UNCHANGED turnVars
  BY <1>25, <1>a, <1>b, <1>c, <1>z, Users, Records DEF Booted, turnVars, BootReady, Noticed,
     Settled, Boxed, Holding, Owning, Inside, Undisturbed
<1>26. CASE Scrub /\ UNCHANGED turnVars
  BY <1>26, <1>a, <1>b, <1>c, <1>z, Users, Records DEF Scrub, turnVars, Teardown, Starting,
     Settled, Boxed, Holding, Owning, Inside, Undisturbed
<1>27. CASE Nuke /\ UNCHANGED turnVars
  BY <1>27, <1>b, BoxAssumption DEF Nuke, turnVars, Teardown, Starting
<1>28. CASE Crashes /\ UNCHANGED turnVars
  BY <1>28, <1>b, BoxAssumption DEF Crashes, turnVars, Crash, Teardown, Starting
<1>29. CASE StopBox /\ UNCHANGED turnVars
  BY <1>29, <1>b, BoxAssumption DEF StopBox, turnVars, Teardown, Starting
<1>30. CASE DestroyBox /\ UNCHANGED turnVars
  BY <1>30, <1>b, BoxAssumption DEF DestroyBox, turnVars, DestroyBegin, Teardown, Starting
<1>31. CASE ReapIdle /\ UNCHANGED turnVars
  BY <1>31, <1>a, <1>b, <1>c, <1>z, Users, Records DEF ReapIdle, turnVars, DestroyBegin,
     Teardown, Starting, Unbound, Settled, Boxed, Holding, Owning, Inside, Undisturbed
<1>32. CASE DestroyEnd /\ UNCHANGED turnVars
  BY <1>32, <1>a, <1>b, <1>c, <1>z, Users, Records DEF DestroyEnd, turnVars, Settled, Boxed,
     Holding, Owning, Inside, Undisturbed
<1>33. CASE UNCHANGED vars
  BY <1>33, <1>a, <1>b, <1>c, <1>z, Users, Records DEF vars, boxVars, turnVars, Settled,
     Boxed, Holding, Owning, Inside, Undisturbed
<1>34. ASSUME NEW t \in Turn, Applied(t) PROVE Settled'
  BY <1>34, <1>f, <1>a, <1>b, <1>c, <1>z, Users, Records DEF Applied, Go, Say, Cut, Settled, Boxed,
     Holding, Owning, Inside, Undisturbed
<1> QED
  BY <1>1, <1>2, <1>3, <1>4, <1>5, <1>6, <1>7, <1>8, <1>9, <1>10, <1>11, <1>12, <1>13, <1>14,
     <1>15, <1>16, <1>17, <1>18, <1>19, <1>20, <1>21, <1>22, <1>23, <1>24, <1>25, <1>26,
     <1>27, <1>28, <1>29, <1>30, <1>31, <1>32, <1>33, <1>34
     DEF Next, Progress, JobProgress, Around, Done, User

LEMMA UndisturbedStep ==
  ASSUME IInv, [Next]_vars
  PROVE  Undisturbed'
<1> SUFFICES ASSUME cuts' = 0 PROVE Undisturbed'
  BY DEF Undisturbed
<1>z. cuts = 0 => Undisturbed
  BY DEF IInv, Steady
<1>a. Boxed /\ Holding /\ Owning
  BY DEF IInv
<1>b. pc \in [User -> Point] /\ at \in [User -> 0..MaxRec] /\ conn \subseteq Turn /\ cuts \in 0..MaxCuts
  BY DEF IInv, TypeOK, BoxTypeOK
<1>c. \A v \in pinned : at[v] \in Rec /\ pins[at[v]] # 0
  BY PinIsCounted DEF IInv
<1>1. ASSUME NEW u \in User, Begin(u) PROVE Undisturbed'
  BY <1>1, <1>a, <1>b, <1>c, <1>z, Users, Records DEF Begin, AcquireBegin, Go, Undisturbed,
     Boxed, Holding, Inside
<1>2. ASSUME NEW u \in User, Pinned(u) PROVE Undisturbed'
  BY <1>2, <1>a, <1>b, <1>c, <1>z, Users, Records DEF Pinned, AcquireEnd, Noticed, Go,
     Undisturbed, Boxed, Holding, Inside
<1>3. ASSUME NEW u \in User, BootFails(u) PROVE Undisturbed'
  BY <1>3, <1>a, <1>b, <1>c, <1>z, Users, Records DEF BootFails, AcquireFail, Go, Undisturbed,
     Boxed, Holding, Inside
<1>4. ASSUME NEW u \in User, Restart(u) PROVE Undisturbed'
  BY <1>4, <1>a, <1>b, <1>c, <1>z, Users, Records DEF Restart, Wedged, Teardown, Starting,
     turnVars, Undisturbed, Boxed, Holding, Inside
<1>5. ASSUME NEW t \in Turn, Place(t) PROVE Undisturbed'
  <2>1. CASE Go(t, "placed")
    BY <1>5, <2>1, <1>a, <1>b, <1>c, <1>z, Users, Records DEF Place, Go, Resolve, Undisturbed,
       Boxed, Holding, Inside
  <2>2. CASE Go(t, "done")
    BY <1>5, <2>2, <1>a, <1>b, <1>c, <1>z, Users, Records DEF Place, Go, Resolve, Undisturbed,
       Boxed, Holding, Inside
  <2> QED
    BY <1>5, <2>1, <2>2 DEF Place
<1>6. ASSUME NEW t \in Turn, Refused(t) PROVE Undisturbed'
  BY <1>6, <1>a, <1>b, <1>c, <1>z, Users, Records DEF Refused, Go, boxVars, Undisturbed,
     Boxed, Holding, Inside
<1>7. ASSUME NEW t \in Turn, Deliver(t) PROVE Undisturbed'
  BY <1>7, <1>a, <1>b, <1>c, <1>z, Users, Records DEF Deliver, Go, Undisturbed, Boxed,
     Holding, Inside
<1>8. ASSUME NEW t \in Turn, ConnectFails(t) PROVE Undisturbed'
  BY <1>8, <1>a, <1>b, <1>c, <1>z, Users, Records DEF ConnectFails, Go, boxVars, Undisturbed,
     Boxed, Holding, Inside
<1>9. ASSUME NEW t \in Turn, Write(t) PROVE Undisturbed'
  BY <1>9, <1>a, <1>b, <1>c, <1>z, Users, Records DEF Write, Put, Undisturbed, Boxed, Holding,
     Inside
<1>10. ASSUME NEW t \in Turn, Answer(t) PROVE Undisturbed'
  <2>1. CASE t \in owners
    BY <1>10, <2>1, <1>a, <1>b, <1>c, <1>z, Users, Records DEF Answer, Go, boxVars,
       Undisturbed, Boxed, Holding, Inside
  <2>2. CASE t \notin owners
    BY <1>10, <2>2, <1>a, <1>b, <1>c, <1>z, Users, Records DEF Answer, Go, boxVars,
       Undisturbed, Boxed, Holding, Inside
  <2> QED
    BY <1>10, <2>1, <2>2
<1>11. ASSUME NEW t \in Turn, StreamLost(t) PROVE Undisturbed'
  BY <1>11, <1>a, <1>b, <1>c, <1>z, Users, Records DEF StreamLost, Go, boxVars, Undisturbed,
     Boxed, Holding, Inside
<1>12. ASSUME NEW t \in Turn, Staged(t) PROVE Undisturbed'
  BY <1>12, <1>a, <1>b, <1>c, <1>z, Users, Records DEF Staged, Go, Say, boxVars, Undisturbed,
     Boxed, Holding, Inside
<1>13. ASSUME NEW t \in Turn, Unstaged(t) PROVE Undisturbed'
  BY <1>13, <1>a, <1>b, <1>c, <1>z, Users, Records DEF Unstaged, Go, Cut, Undisturbed, Boxed,
     Holding, Inside
<1>14. ASSUME NEW t \in Turn, Rescue(t) PROVE Undisturbed'
  BY <1>14, <1>a, <1>b, <1>c, <1>z, Users, Records DEF Rescue, PullOk, PullFails, Reach,
     Resolve, Unreachable, Cut, Say, Go, Undisturbed, Boxed, Holding, Inside
<1>15. ASSUME NEW t \in Turn, Stop(t) PROVE Undisturbed'
  BY <1>15, <1>a, <1>b, <1>c, <1>z, Users, Records DEF Stop, Go, Undisturbed, Boxed, Holding,
     Inside
<1>16. ASSUME NEW t \in Turn, Unwind(t) PROVE Undisturbed'
  <2>1. CASE t \in owners
    BY <1>16, <2>1, <1>a, <1>b, <1>c, <1>z, Users, Records DEF Unwind, PullOk, PullFails,
       Reach, Resolve, Unreachable, Cut, Go, LetGo, Unpin, Undisturbed, Boxed, Holding, Inside
  <2>2. CASE t \notin owners /\ holders = {t}
    BY <1>16, <2>2, <1>a, <1>b, <1>c, <1>z, Users, Records DEF Unwind, PullOk, PullFails,
       Reach, Resolve, Unreachable, Cut, Go, LetGo, Unpin, Undisturbed, Boxed, Holding, Inside
  <2>3. CASE t \notin owners /\ holders # {t}
    BY <1>16, <2>3, <1>a, <1>b, <1>c, <1>z, Users, Records DEF Unwind, PullOk, PullFails,
       Reach, Resolve, Unreachable, Cut, Go, LetGo, Unpin, Undisturbed, Boxed, Holding, Inside
  <2> QED
    BY <1>16, <2>1, <2>2, <2>3
<1>17. ASSUME NEW t \in Turn, Sweep(t) PROVE Undisturbed'
  BY <1>17, <1>a, <1>b, <1>c, <1>z, Users, Records DEF Sweep, PullOk, PullFails, Reach,
     Resolve, Unreachable, Cut, Go, LetGo, Unpin, Undisturbed, Boxed, Holding, Inside
<1>18. CASE JobPlace
  BY <1>18, <1>a, <1>b, <1>c, <1>z, Users, Records DEF JobPlace, Go, Undisturbed, Boxed,
     Holding, Inside
<1>19. CASE Prime
  BY <1>19, <1>a, <1>b, <1>c, <1>z, Users, Records DEF Prime, PullFails, Reach, Resolve,
     Unreachable, Cut, Go, Undisturbed, Boxed, Holding, Inside
<1>20. CASE Leaf
  BY <1>20, <1>a, <1>b, <1>c, <1>z, Users, Records DEF Leaf, Resolve, Noticed, Put,
     Undisturbed, Boxed, Holding, Inside
<1>21. CASE Flush
  BY <1>21, <1>a, <1>b, <1>c, <1>z, Users, Records DEF Flush, PullOk, Reach, Resolve,
     Undisturbed, Boxed, Holding, Inside
<1>22. CASE JobEnd
  BY <1>22, <1>a, <1>b, <1>c, <1>z, Users, Records DEF JobEnd, Go, LetGo, Unpin, Undisturbed,
     Boxed, Holding, Inside
<1>23. CASE JobSweep
  BY <1>23, <1>a, <1>b, <1>c, <1>z, Users, Records DEF JobSweep, PullOk, PullFails, Reach,
     Resolve, Unreachable, Cut, Go, LetGo, Unpin, Undisturbed, Boxed, Holding, Inside
<1>24. CASE JobStop
  BY <1>24, <1>a, <1>b, <1>c, <1>z, Users, Records DEF JobStop, Go, Undisturbed, Boxed,
     Holding, Inside
<1>25. CASE Booted /\ UNCHANGED turnVars
  BY <1>25, <1>a, <1>b, <1>c, <1>z, Users, Records DEF Booted, turnVars, BootReady, Noticed,
     Undisturbed, Boxed, Holding, Inside
<1>26. CASE Scrub /\ UNCHANGED turnVars
  BY <1>26, <1>a, <1>b, <1>c, <1>z, Users, Records DEF Scrub, turnVars, Teardown, Starting,
     Undisturbed, Boxed, Holding, Inside
<1>27. CASE Nuke /\ UNCHANGED turnVars
  BY <1>27, <1>b, BoxAssumption DEF Nuke, turnVars, Teardown, Starting
<1>28. CASE Crashes /\ UNCHANGED turnVars
  BY <1>28, <1>b, BoxAssumption DEF Crashes, turnVars, Crash, Teardown, Starting
<1>29. CASE StopBox /\ UNCHANGED turnVars
  BY <1>29, <1>b, BoxAssumption DEF StopBox, turnVars, Teardown, Starting
<1>30. CASE DestroyBox /\ UNCHANGED turnVars
  BY <1>30, <1>b, BoxAssumption DEF DestroyBox, turnVars, DestroyBegin, Teardown, Starting
<1>31. CASE ReapIdle /\ UNCHANGED turnVars
  BY <1>31, <1>a, <1>b, <1>c, <1>z, Users, Records DEF ReapIdle, turnVars, DestroyBegin,
     Teardown, Starting, Unbound, Undisturbed, Boxed, Holding, Inside
<1>32. CASE DestroyEnd /\ UNCHANGED turnVars
  BY <1>32, <1>a, <1>b, <1>c, <1>z, Users, Records DEF DestroyEnd, turnVars, Undisturbed,
     Boxed, Holding, Inside
<1>33. CASE UNCHANGED vars
  BY <1>33, <1>a, <1>b, <1>c, <1>z, Users, Records DEF vars, boxVars, turnVars, Undisturbed,
     Boxed, Holding, Inside
<1>34. ASSUME NEW t \in Turn, Applied(t) PROVE Undisturbed'
  BY <1>34, <1>a, <1>b, <1>c, <1>z, Users, Records DEF Applied, Go, Say, Cut, Undisturbed,
     Settled, Boxed, Holding, Owning, Inside
<1> QED
  BY <1>1, <1>2, <1>3, <1>4, <1>5, <1>6, <1>7, <1>8, <1>9, <1>10, <1>11, <1>12, <1>13, <1>14,
     <1>15, <1>16, <1>17, <1>18, <1>19, <1>20, <1>21, <1>22, <1>23, <1>24, <1>25, <1>26,
     <1>27, <1>28, <1>29, <1>30, <1>31, <1>32, <1>33, <1>34
     DEF Next, Progress, JobProgress, Around, Done, User

LEMMA OwnerKeepsEditsStep ==
  ASSUME IInv, [Next]_vars
  PROVE  OwnerKeepsEdits'
<1> SUFFICES ASSUME cuts' = 0 PROVE OwnerKeepsEdits'
  BY DEF OwnerKeepsEdits
<1>z. cuts = 0 => Settled /\ Undisturbed /\ OwnerKeepsEdits
  BY DEF IInv, Steady
<1>a. Boxed /\ Holding /\ Owning
  BY DEF IInv
<1>b. pc \in [User -> Point] /\ at \in [User -> 0..MaxRec] /\ pinned \subseteq User /\ bound \subseteq Turn /\ holders \subseteq User /\ guest \in [Rec -> {"down", "boot", "up"}] /\ owners \subseteq Turn /\ registered \in 0..MaxRec /\ buffer \in [Rec -> SUBSET User] /\ cuts \in 0..MaxCuts
  BY DEF IInv, TypeOK, BoxTypeOK
<1>c. \A v \in pinned : at[v] \in Rec /\ pins[at[v]] # 0
  BY PinIsCounted DEF IInv
<1>f. /\ told \in [Turn -> {"none", "clean", "noted"}]
      /\ \A t \in Turn : pc[t] \in {"applying", "rescue"} => told[t] = "none" /\ t \in owners
      /\ \A t \in owners \cap wrote : pc[t] = "applying" => t \in parcel
  BY DEF IInv, TypeOK, Fetchable, Owning
<1>1. ASSUME NEW u \in User, Begin(u) PROVE OwnerKeepsEdits'
  BY <1>1, <1>a, <1>b, <1>c, <1>z, Users, Records DEF Begin, AcquireBegin, Go,
     OwnerKeepsEdits, Torn, Settled, Boxed, Holding, Owning, Inside, Undisturbed
<1>2. ASSUME NEW u \in User, Pinned(u) PROVE OwnerKeepsEdits'
  BY <1>2, <1>a, <1>b, <1>c, <1>z, Users, Records DEF Pinned, AcquireEnd, Noticed, Go,
     OwnerKeepsEdits, Torn, Settled, Boxed, Holding, Owning, Inside, Undisturbed
<1>3. ASSUME NEW u \in User, BootFails(u) PROVE OwnerKeepsEdits'
  BY <1>3, <1>a, <1>b, <1>c, <1>z, Users, Records DEF BootFails, AcquireFail, Go,
     OwnerKeepsEdits, Torn, Settled, Boxed, Holding, Owning, Inside, Undisturbed
<1>4. ASSUME NEW u \in User, Restart(u) PROVE OwnerKeepsEdits'
  BY <1>4, <1>a, <1>b, <1>c, <1>z, Users, Records DEF Restart, Wedged, Teardown, Starting,
     turnVars, OwnerKeepsEdits, Torn, Settled, Boxed, Holding, Owning, Inside, Undisturbed
<1>5. ASSUME NEW t \in Turn, Place(t) PROVE OwnerKeepsEdits'
  <2>1. CASE Go(t, "placed")
    BY <1>5, <2>1, <1>a, <1>b, <1>c, <1>z, Users, Records DEF Place, Go, Resolve,
       OwnerKeepsEdits, Torn, Settled, Boxed, Holding, Owning, Inside, Undisturbed
  <2>2. CASE Go(t, "done")
    BY <1>5, <2>2, <1>a, <1>b, <1>c, <1>z, Users, Records DEF Place, Go, Resolve,
       OwnerKeepsEdits, Torn, Settled, Boxed, Holding, Owning, Inside, Undisturbed
  <2> QED
    BY <1>5, <2>1, <2>2 DEF Place
<1>6. ASSUME NEW t \in Turn, Refused(t) PROVE OwnerKeepsEdits'
  BY <1>6, <1>a, <1>b, <1>c, <1>z, Users, Records DEF Refused, Go, boxVars, OwnerKeepsEdits, Torn,
     Settled, Boxed, Holding, Owning, Inside, Undisturbed
<1>7. ASSUME NEW t \in Turn, Deliver(t) PROVE OwnerKeepsEdits'
  BY <1>7, <1>a, <1>b, <1>c, <1>z, Users, Records DEF Deliver, Go, OwnerKeepsEdits, Torn, Settled,
     Boxed, Holding, Owning, Inside, Undisturbed
<1>8. ASSUME NEW t \in Turn, ConnectFails(t) PROVE OwnerKeepsEdits'
  BY <1>8, <1>a, <1>b, <1>c, <1>z, Users, Records DEF ConnectFails, Go, boxVars,
     OwnerKeepsEdits, Torn, Settled, Boxed, Holding, Owning, Inside, Undisturbed
<1>9. ASSUME NEW t \in Turn, Write(t) PROVE OwnerKeepsEdits'
  BY <1>9, <1>a, <1>b, <1>c, <1>z, Users, Records DEF Write, Put, OwnerKeepsEdits, Torn, Settled,
     Boxed, Holding, Owning, Inside, Undisturbed
<1>10. ASSUME NEW t \in Turn, Answer(t) PROVE OwnerKeepsEdits'
  <2>1. CASE t \in owners
    BY <1>10, <2>1, <1>a, <1>b, <1>c, <1>z, Users, Records DEF Answer, Go, boxVars,
       OwnerKeepsEdits, Torn, Settled, Boxed, Holding, Owning, Inside, Undisturbed
  <2>2. CASE t \notin owners
    BY <1>10, <2>2, <1>a, <1>b, <1>c, <1>z, Users, Records DEF Answer, Go, boxVars,
       OwnerKeepsEdits, Torn, Settled, Boxed, Holding, Owning, Inside, Undisturbed
  <2> QED
    BY <1>10, <2>1, <2>2
<1>11. ASSUME NEW t \in Turn, StreamLost(t) PROVE OwnerKeepsEdits'
  BY <1>11, <1>a, <1>b, <1>c, <1>z, Users, Records DEF StreamLost, Go, boxVars,
     OwnerKeepsEdits, Torn, Settled, Boxed, Holding, Owning, Inside, Undisturbed
<1>12. ASSUME NEW t \in Turn, Staged(t) PROVE OwnerKeepsEdits'
  BY <1>12, <1>a, <1>b, <1>c, <1>z, Users, Records DEF Staged, Go, Say, boxVars,
     OwnerKeepsEdits, Torn, Settled, Boxed, Holding, Owning, Inside, Undisturbed
<1>13. ASSUME NEW t \in Turn, Unstaged(t) PROVE OwnerKeepsEdits'
  BY <1>13, <1>f, <1>a, <1>b, <1>c, <1>z, Users, Records DEF Unstaged, Go, Cut, OwnerKeepsEdits, Torn,
     Settled, Boxed, Holding, Owning, Inside, Undisturbed
<1>14. ASSUME NEW t \in Turn, Rescue(t) PROVE OwnerKeepsEdits'
  BY <1>14, <1>f, <1>a, <1>b, <1>c, <1>z, Users, Records DEF Rescue, PullOk, PullFails, Reach,
     Resolve, Unreachable, Cut, Say, Go, OwnerKeepsEdits, Torn, Settled, Boxed, Holding, Owning,
     Inside, Undisturbed
<1>15. ASSUME NEW t \in Turn, Stop(t) PROVE OwnerKeepsEdits'
  BY <1>15, <1>f, <1>a, <1>b, <1>c, <1>z, Users, Records DEF Stop, Go, OwnerKeepsEdits, Torn, Settled,
     Boxed, Holding, Owning, Inside, Undisturbed
<1>16. ASSUME NEW t \in Turn, Unwind(t) PROVE OwnerKeepsEdits'
  <2>1. CASE t \in owners
    BY <1>16, <2>1, <1>a, <1>b, <1>c, <1>z, Users, Records DEF Unwind, PullOk, PullFails,
       Reach, Resolve, Unreachable, Cut, Go, LetGo, Unpin, OwnerKeepsEdits, Torn, Settled, Boxed,
       Holding, Owning, Inside, Undisturbed
  <2>2. CASE t \notin owners /\ holders = {t}
    BY <1>16, <2>2, <1>a, <1>b, <1>c, <1>z, Users, Records DEF Unwind, PullOk, PullFails,
       Reach, Resolve, Unreachable, Cut, Go, LetGo, Unpin, OwnerKeepsEdits, Torn, Settled, Boxed,
       Holding, Owning, Inside, Undisturbed
  <2>3. CASE t \notin owners /\ holders # {t}
    BY <1>16, <2>3, <1>a, <1>b, <1>c, <1>z, Users, Records DEF Unwind, PullOk, PullFails,
       Reach, Resolve, Unreachable, Cut, Go, LetGo, Unpin, OwnerKeepsEdits, Torn, Settled, Boxed,
       Holding, Owning, Inside, Undisturbed
  <2> QED
    BY <1>16, <2>1, <2>2, <2>3
<1>17. ASSUME NEW t \in Turn, Sweep(t) PROVE OwnerKeepsEdits'
  BY <1>17, <1>a, <1>b, <1>c, <1>z, Users, Records DEF Sweep, PullOk, PullFails, Reach,
     Resolve, Unreachable, Cut, Go, LetGo, Unpin, OwnerKeepsEdits, Torn, Settled, Boxed, Holding,
     Owning, Inside, Undisturbed
<1>18. CASE JobPlace
  BY <1>18, <1>a, <1>b, <1>c, <1>z, Users, Records DEF JobPlace, Go, OwnerKeepsEdits, Torn, Settled,
     Boxed, Holding, Owning, Inside, Undisturbed
<1>19. CASE Prime
  BY <1>19, <1>a, <1>b, <1>c, <1>z, Users, Records DEF Prime, PullFails, Reach, Resolve,
     Unreachable, Cut, Go, OwnerKeepsEdits, Torn, Settled, Boxed, Holding, Owning, Inside,
     Undisturbed
<1>20. CASE Leaf
  BY <1>20, <1>a, <1>b, <1>c, <1>z, Users, Records DEF Leaf, Resolve, Noticed, Put,
     OwnerKeepsEdits, Torn, Settled, Boxed, Holding, Owning, Inside, Undisturbed
<1>21. CASE Flush
  BY <1>21, <1>a, <1>b, <1>c, <1>z, Users, Records DEF Flush, PullOk, Reach, Resolve,
     OwnerKeepsEdits, Torn, Settled, Boxed, Holding, Owning, Inside, Undisturbed
<1>22. CASE JobEnd
  BY <1>22, <1>a, <1>b, <1>c, <1>z, Users, Records DEF JobEnd, Go, LetGo, Unpin,
     OwnerKeepsEdits, Torn, Settled, Boxed, Holding, Owning, Inside, Undisturbed
<1>23. CASE JobSweep
  BY <1>23, <1>a, <1>b, <1>c, <1>z, Users, Records DEF JobSweep, PullOk, PullFails, Reach,
     Resolve, Unreachable, Cut, Go, LetGo, Unpin, OwnerKeepsEdits, Torn, Settled, Boxed, Holding,
     Owning, Inside, Undisturbed
<1>24. CASE JobStop
  BY <1>24, <1>a, <1>b, <1>c, <1>z, Users, Records DEF JobStop, Go, OwnerKeepsEdits, Torn, Settled,
     Boxed, Holding, Owning, Inside, Undisturbed
<1>25. CASE Booted /\ UNCHANGED turnVars
  BY <1>25, <1>a, <1>b, <1>c, <1>z, Users, Records DEF Booted, turnVars, BootReady, Noticed,
     OwnerKeepsEdits, Torn, Settled, Boxed, Holding, Owning, Inside, Undisturbed
<1>26. CASE Scrub /\ UNCHANGED turnVars
  BY <1>26, <1>a, <1>b, <1>c, <1>z, Users, Records DEF Scrub, turnVars, Teardown, Starting,
     OwnerKeepsEdits, Torn, Settled, Boxed, Holding, Owning, Inside, Undisturbed
<1>27. CASE Nuke /\ UNCHANGED turnVars
  BY <1>27, <1>b, BoxAssumption DEF Nuke, turnVars, Teardown, Starting
<1>28. CASE Crashes /\ UNCHANGED turnVars
  BY <1>28, <1>b, BoxAssumption DEF Crashes, turnVars, Crash, Teardown, Starting
<1>29. CASE StopBox /\ UNCHANGED turnVars
  BY <1>29, <1>b, BoxAssumption DEF StopBox, turnVars, Teardown, Starting
<1>30. CASE DestroyBox /\ UNCHANGED turnVars
  BY <1>30, <1>b, BoxAssumption DEF DestroyBox, turnVars, DestroyBegin, Teardown, Starting
<1>31. CASE ReapIdle /\ UNCHANGED turnVars
  BY <1>31, <1>a, <1>b, <1>c, <1>z, Users, Records DEF ReapIdle, turnVars, DestroyBegin,
     Teardown, Starting, Unbound, OwnerKeepsEdits, Torn, Settled, Boxed, Holding, Owning, Inside,
     Undisturbed
<1>32. CASE DestroyEnd /\ UNCHANGED turnVars
  BY <1>32, <1>a, <1>b, <1>c, <1>z, Users, Records DEF DestroyEnd, turnVars, OwnerKeepsEdits, Torn,
     Settled, Boxed, Holding, Owning, Inside, Undisturbed
<1>33. CASE UNCHANGED vars
  BY <1>33, <1>a, <1>b, <1>c, <1>z, Users, Records DEF vars, boxVars, turnVars,
     OwnerKeepsEdits, Torn, Settled, Boxed, Holding, Owning, Inside, Undisturbed
<1>34. ASSUME NEW t \in Turn, Applied(t) PROVE OwnerKeepsEdits'
  BY <1>34, <1>f, <1>a, <1>b, <1>c, <1>z, Users, Records DEF Applied, Go, Say, Cut,
     OwnerKeepsEdits, Torn, Settled, Boxed, Holding, Owning, Inside, Undisturbed
<1> QED
  BY <1>1, <1>2, <1>3, <1>4, <1>5, <1>6, <1>7, <1>8, <1>9, <1>10, <1>11, <1>12, <1>13, <1>14,
     <1>15, <1>16, <1>17, <1>18, <1>19, <1>20, <1>21, <1>22, <1>23, <1>24, <1>25, <1>26,
     <1>27, <1>28, <1>29, <1>30, <1>31, <1>32, <1>33, <1>34
     DEF Next, Progress, JobProgress, Around, Done, User

LEMMA NoGhostStep ==
  ASSUME IInv, [Next]_vars
  PROVE  NoGhost'
<1> SUFFICES ASSUME cuts' = 0 PROVE NoGhost'
  BY DEF NoGhost
<1>z. cuts = 0 => Settled /\ NoGhost
  BY DEF IInv, Steady
<1>a. Boxed /\ Holding /\ Owning
  BY DEF IInv
<1>b. pc \in [User -> Point] /\ at \in [User -> 0..MaxRec] /\ pinned \subseteq User /\ bound \subseteq Turn /\ holders \subseteq User /\ guest \in [Rec -> {"down", "boot", "up"}] /\ registered \in 0..MaxRec /\ cuts \in 0..MaxCuts
  BY DEF IInv, TypeOK, BoxTypeOK
<1>c. \A v \in pinned : at[v] \in Rec /\ pins[at[v]] # 0
  BY PinIsCounted DEF IInv
<1>1. ASSUME NEW u \in User, Begin(u) PROVE NoGhost'
  <2>1. at[u] \in Rec /\ at[u] = registered
    BY <1>1, <1>a, <1>b, <1>z, Records, Users DEF Begin, AcquireBegin, Boxed, Settled, User
  <2> QED
    BY <1>1, <2>1, <1>b, <1>z DEF Begin, AcquireBegin, NoGhost
<1>2. ASSUME NEW u \in User, Pinned(u) PROVE NoGhost'
  BY <1>2, <1>a, <1>b, <1>c, <1>z, Users, Records DEF Pinned, AcquireEnd, Noticed, Go,
     NoGhost, Settled, Boxed, Holding, Inside
<1>3. ASSUME NEW u \in User, BootFails(u) PROVE NoGhost'
  BY <1>3, <1>a, <1>b, <1>c, <1>z, Users, Records DEF BootFails, AcquireFail, Go, NoGhost,
     Settled, Boxed, Holding, Inside
<1>4. ASSUME NEW u \in User, Restart(u) PROVE NoGhost'
  <2>1. at[u] \in Rec /\ at[u] = registered
    BY <1>4, <1>a, <1>b, <1>z, Records, Users DEF Restart, Boxed, Settled, User
  <2> QED
    BY <1>4, <2>1, <1>b, <1>z DEF Restart, Wedged, Teardown, NoGhost
<1>5. ASSUME NEW t \in Turn, Place(t) PROVE NoGhost'
  <2>1. CASE Go(t, "placed")
    BY <1>5, <2>1, <1>a, <1>b, <1>c, <1>z, Users, Records DEF Place, Go, Resolve, NoGhost,
       Settled, Boxed, Holding, Inside
  <2>2. CASE Go(t, "done")
    BY <1>5, <2>2, <1>a, <1>b, <1>c, <1>z, Users, Records DEF Place, Go, Resolve, NoGhost,
       Settled, Boxed, Holding, Inside
  <2> QED
    BY <1>5, <2>1, <2>2 DEF Place
<1>6. ASSUME NEW t \in Turn, Refused(t) PROVE NoGhost'
  BY <1>6, <1>a, <1>b, <1>c, <1>z, Users, Records DEF Refused, Go, boxVars, NoGhost, Settled,
     Boxed, Holding, Inside
<1>7. ASSUME NEW t \in Turn, Deliver(t) PROVE NoGhost'
  BY <1>7, <1>a, <1>b, <1>c, <1>z, Users, Records DEF Deliver, Go, NoGhost, Settled, Boxed,
     Holding, Inside
<1>8. ASSUME NEW t \in Turn, ConnectFails(t) PROVE NoGhost'
  BY <1>8, <1>a, <1>b, <1>c, <1>z, Users, Records DEF ConnectFails, Go, boxVars, NoGhost,
     Settled, Boxed, Holding, Inside
<1>9. ASSUME NEW t \in Turn, Write(t) PROVE NoGhost'
  BY <1>9, <1>a, <1>b, <1>c, <1>z, Users, Records DEF Write, Put, NoGhost, Settled, Boxed,
     Holding, Inside
<1>10. ASSUME NEW t \in Turn, Answer(t) PROVE NoGhost'
  <2>1. CASE t \in owners
    BY <1>10, <2>1, <1>a, <1>b, <1>c, <1>z, Users, Records DEF Answer, Go, boxVars, NoGhost,
       Settled, Boxed, Holding, Inside
  <2>2. CASE t \notin owners
    BY <1>10, <2>2, <1>a, <1>b, <1>c, <1>z, Users, Records DEF Answer, Go, boxVars, NoGhost,
       Settled, Boxed, Holding, Inside
  <2> QED
    BY <1>10, <2>1, <2>2
<1>11. ASSUME NEW t \in Turn, StreamLost(t) PROVE NoGhost'
  BY <1>11, <1>a, <1>b, <1>c, <1>z, Users, Records DEF StreamLost, Go, boxVars, NoGhost,
     Settled, Boxed, Holding, Inside
<1>12. ASSUME NEW t \in Turn, Staged(t) PROVE NoGhost'
  BY <1>12, <1>a, <1>b, <1>c, <1>z, Users, Records DEF Staged, Go, Say, boxVars, NoGhost,
     Settled, Boxed, Holding, Inside
<1>13. ASSUME NEW t \in Turn, Unstaged(t) PROVE NoGhost'
  BY <1>13, <1>a, <1>b, <1>c, <1>z, Users, Records DEF Unstaged, Go, Cut, NoGhost, Settled,
     Boxed, Holding, Inside
<1>14. ASSUME NEW t \in Turn, Rescue(t) PROVE NoGhost'
  BY <1>14, <1>a, <1>b, <1>c, <1>z, Users, Records DEF Rescue, PullOk, PullFails, Reach,
     Resolve, Unreachable, Cut, Say, Go, NoGhost, Settled, Boxed, Holding, Inside
<1>15. ASSUME NEW t \in Turn, Stop(t) PROVE NoGhost'
  BY <1>15, <1>a, <1>b, <1>c, <1>z, Users, Records DEF Stop, Go, NoGhost, Settled, Boxed,
     Holding, Inside
<1>16. ASSUME NEW t \in Turn, Unwind(t) PROVE NoGhost'
  <2>1. CASE t \in owners
    BY <1>16, <2>1, <1>a, <1>b, <1>c, <1>z, Users, Records DEF Unwind, PullOk, PullFails,
       Reach, Resolve, Unreachable, Cut, Go, LetGo, Unpin, NoGhost, Settled, Boxed, Holding,
       Inside
  <2>2. CASE t \notin owners /\ holders = {t}
    BY <1>16, <2>2, <1>a, <1>b, <1>c, <1>z, Users, Records DEF Unwind, PullOk, PullFails,
       Reach, Resolve, Unreachable, Cut, Go, LetGo, Unpin, NoGhost, Settled, Boxed, Holding,
       Inside
  <2>3. CASE t \notin owners /\ holders # {t}
    BY <1>16, <2>3, <1>a, <1>b, <1>c, <1>z, Users, Records DEF Unwind, PullOk, PullFails,
       Reach, Resolve, Unreachable, Cut, Go, LetGo, Unpin, NoGhost, Settled, Boxed, Holding,
       Inside
  <2> QED
    BY <1>16, <2>1, <2>2, <2>3
<1>17. ASSUME NEW t \in Turn, Sweep(t) PROVE NoGhost'
  BY <1>17, <1>a, <1>b, <1>c, <1>z, Users, Records DEF Sweep, PullOk, PullFails, Reach,
     Resolve, Unreachable, Cut, Go, LetGo, Unpin, NoGhost, Settled, Boxed, Holding, Inside
<1>18. CASE JobPlace
  BY <1>18, <1>a, <1>b, <1>c, <1>z, Users, Records DEF JobPlace, Go, NoGhost, Settled, Boxed,
     Holding, Inside
<1>19. CASE Prime
  BY <1>19, <1>a, <1>b, <1>c, <1>z, Users, Records DEF Prime, PullFails, Reach, Resolve,
     Unreachable, Cut, Go, NoGhost, Settled, Boxed, Holding, Inside
<1>20. CASE Leaf
  BY <1>20, <1>a, <1>b, <1>c, <1>z, Users, Records DEF Leaf, Resolve, Noticed, Put, NoGhost,
     Settled, Boxed, Holding, Inside
<1>21. CASE Flush
  BY <1>21, <1>a, <1>b, <1>c, <1>z, Users, Records DEF Flush, PullOk, Reach, Resolve, NoGhost,
     Settled, Boxed, Holding, Inside
<1>22. CASE JobEnd
  BY <1>22, <1>a, <1>b, <1>c, <1>z, Users, Records DEF JobEnd, Go, LetGo, Unpin, NoGhost,
     Settled, Boxed, Holding, Inside
<1>23. CASE JobSweep
  BY <1>23, <1>a, <1>b, <1>c, <1>z, Users, Records DEF JobSweep, PullOk, PullFails, Reach,
     Resolve, Unreachable, Cut, Go, LetGo, Unpin, NoGhost, Settled, Boxed, Holding, Inside
<1>24. CASE JobStop
  BY <1>24, <1>a, <1>b, <1>c, <1>z, Users, Records DEF JobStop, Go, NoGhost, Settled, Boxed,
     Holding, Inside
<1>25. CASE Booted /\ UNCHANGED turnVars
  BY <1>25, <1>a, <1>b, <1>c, <1>z, Users, Records DEF Booted, turnVars, BootReady, Noticed,
     NoGhost, Settled, Boxed, Holding, Inside
<1>26. CASE Scrub /\ UNCHANGED turnVars
  BY <1>26, <1>a, <1>b, <1>c, <1>z, Users, Records DEF Scrub, turnVars, Teardown, Starting,
     NoGhost, Settled, Boxed, Holding, Inside
<1>27. CASE Nuke /\ UNCHANGED turnVars
  BY <1>27, <1>b, BoxAssumption DEF Nuke, turnVars, Teardown, Starting
<1>28. CASE Crashes /\ UNCHANGED turnVars
  BY <1>28, <1>b, BoxAssumption DEF Crashes, turnVars, Crash, Teardown, Starting
<1>29. CASE StopBox /\ UNCHANGED turnVars
  BY <1>29, <1>b, BoxAssumption DEF StopBox, turnVars, Teardown, Starting
<1>30. CASE DestroyBox /\ UNCHANGED turnVars
  BY <1>30, <1>b, BoxAssumption DEF DestroyBox, turnVars, DestroyBegin, Teardown, Starting
<1>31. CASE ReapIdle /\ UNCHANGED turnVars
  BY <1>31, <1>a, <1>b, <1>c, <1>z, Users, Records DEF ReapIdle, turnVars, DestroyBegin,
     Teardown, Starting, Unbound, NoGhost, Settled, Boxed, Holding, Inside
<1>32. CASE DestroyEnd /\ UNCHANGED turnVars
  BY <1>32, <1>a, <1>b, <1>c, <1>z, Users, Records DEF DestroyEnd, turnVars, NoGhost, Settled,
     Boxed, Holding, Inside
<1>33. CASE UNCHANGED vars
  BY <1>33, <1>a, <1>b, <1>c, <1>z, Users, Records DEF vars, boxVars, turnVars, NoGhost,
     Settled, Boxed, Holding, Inside
<1>34. ASSUME NEW t \in Turn, Applied(t) PROVE NoGhost'
  BY <1>34, <1>a, <1>b, <1>c, <1>z, Users, Records DEF Applied, Go, Say, Cut, NoGhost, Settled,
     Boxed, Holding, Owning, Inside
<1> QED
  BY <1>1, <1>2, <1>3, <1>4, <1>5, <1>6, <1>7, <1>8, <1>9, <1>10, <1>11, <1>12, <1>13, <1>14,
     <1>15, <1>16, <1>17, <1>18, <1>19, <1>20, <1>21, <1>22, <1>23, <1>24, <1>25, <1>26,
     <1>27, <1>28, <1>29, <1>30, <1>31, <1>32, <1>33, <1>34
     DEF Next, Progress, JobProgress, Around, Done, User

-----------------------------------------------------------------------------
\* The inductive invariant, and what it gives.

LEMMA InitInv == Init => IInv
<1> SUFFICES ASSUME Init PROVE IInv
  OBVIOUS
<1> USE DEF Init, BoxInit
<1>1. TypeOK
  <2>1. /\ kind \in Kinds /\ registered \in 0..MaxRec /\ made \in 0..MaxRec
        /\ going \in 0..MaxRec /\ cuts \in 0..MaxCuts
    BY BoxAssumption
  <2> QED
    BY <2>1, Records DEF TypeOK, BoxTypeOK, Point, User
<1>2. Boxed /\ Holding
  BY Users DEF Boxed, Holding, Inside
<1>3. Counted
  BY FS_EmptySet DEF Counted
<1>4. Owning /\ Fetchable /\ Told
  BY Users DEF Owning, Fetchable, Told
<1>5. Steady /\ Undisturbed /\ OwnerKeepsEdits /\ NoGhost
  BY Users DEF Steady, Settled, Undisturbed, OwnerKeepsEdits, NoGhost
<1> QED
  BY <1>1, <1>2, <1>3, <1>4, <1>5 DEF IInv

LEMMA StepInv == IInv /\ [Next]_vars => IInv'
<1> SUFFICES ASSUME IInv, [Next]_vars PROVE IInv'
  OBVIOUS
<1>1. TypeOK' /\ Boxed' /\ Holding' /\ Counted'
  BY TypeStep, BoxedStep, HoldingStep, CountedStep
<1>2. Owning' /\ Fetchable' /\ Told'
  BY OwningStep, FetchableStep, ToldStep
<1>3. Steady' /\ Undisturbed' /\ OwnerKeepsEdits' /\ NoGhost'
  BY SteadyStep, UndisturbedStep, OwnerKeepsEditsStep, NoGhostStep
<1> QED
  BY <1>1, <1>2, <1>3 DEF IInv

\* Every reachable state has all the parts of the inductive invariant.
THEOREM Inductive == Spec => []IInv
<1>1. Init => IInv
  BY InitInv
<1>2. IInv /\ [Next]_vars => IInv'
  BY StepInv
<1> QED
  BY <1>1, <1>2, PTL DEF Spec

-----------------------------------------------------------------------------
\* The variables keep their types; a buffer that comes home holds only what was written in
\* the guest, and only an owner of the workspace stages.
THEOREM TypeCorrect == Spec => []TypeOK
<1>1. IInv => TypeOK
  BY DEF IInv
<1> QED
  BY <1>1, Inductive, PTL

\* However a turn ends (refused, failed to boot, stopped, cut off, done), its finally gives
\* back the pin, the hold and the binding it took, and no one else's.
THEOREM AllIsGivenBack == Spec => []NothingLeaks
<1>1. IInv => NothingLeaks
  BY DEF IInv, Holding, Counted, NothingLeaks
<1> QED
  BY <1>1, Inductive, PTL

\* The copy in the guest has one author at a time: two owners, or an owner and a job that
\* primes the copy, never meet, and an owner holds the workspace, and a pin, to its end.
OneOwner ==
  /\ \A t \in owners : pc[t] # "done" => t \in pinned \cap holders
  /\ \A t, o \in owners : pc[t] # "done" /\ pc[o] # "done" => t = o
  /\ pc[Job] = "priming" => \A t \in owners : pc[t] = "done"

\* One owner at a time, whatever goes wrong: whoever finds the workspace free takes it in the
\* tick it pins the guest, and gives it back in its finally.
THEOREM OneOwnerAtATime == Spec => []OneOwner
<1>1. IInv => OneOwner
  BY DEF IInv, Owning, OneOwner
<1> QED
  BY <1>1, Inductive, PTL

\* With nothing gone wrong, no scrub, reaper or restart takes the guest from a turn that is
\* in it: they look at the pins under the controller's lock.
THEOREM NobodyIsDisturbed == Spec => []Undisturbed
<1>1. IInv => Undisturbed
  BY DEF IInv
<1> QED
  BY <1>1, Inductive, PTL

\* With nothing gone wrong, what the workspace's owner wrote is in the buffer of the box it is
\* in until it is home: no other user ships a copy over it, no box is taken from under it.
THEOREM EditsAreKept == Spec => []OwnerKeepsEdits
<1>1. IInv => OwnerKeepsEdits
  BY DEF IInv
<1> QED
  BY <1>1, Inductive, PTL

\* On the shared guest, whatever goes wrong, an owner's answer is handed on with no note only
\* if its edits are in the host's files.
THEOREM OwnersTellTruly == Spec => []Told
<1>1. IInv => Told
  BY DEF IInv
<1> QED
  BY <1>1, Inductive, PTL

\* With nothing gone wrong, a guest runs only in the box that is registered: a reaped box
\* stays down, and whoever waits for it is refused.
THEOREM NoGhostRuns == Spec => []NoGhost
<1>1. IInv => NoGhost
  BY DEF IInv
<1> QED
  BY <1>1, Inductive, PTL
=============================================================================
