---------------------------- MODULE GitGateProofs ----------------------------
(***************************************************************************)
(* Theorems of GitGate, for any number of handlers, requests and edits,     *)
(* whatever fails, and whatever is done by hand in Gitea.                   *)
(***************************************************************************)
EXTENDS GitGate, FiniteSetTheorems, WellFoundedInduction, TLAPS

LEMMA Limits == MaxReq \in Nat /\ MaxCalls \in Nat /\ MaxFaults \in Nat
BY GitGateAssumption

\* The least of a set of numbers is in it.
LEMMA MinIsIn ==
  ASSUME NEW T \in SUBSET Nat, T # {}
  PROVE  Min(T) \in T
<1> DEFINE R == OpToRel(<, Nat)
<1>1. IsWellFoundedOn(R, Nat)
  BY NatLessThanWellFounded
<1>2. \A x, y \in Nat : x < y => <<x, y>> \in R
  BY DEF OpToRel
<1> HIDE DEF R
<1>3. PICK x \in T : \A y \in T : ~ (<<y, x>> \in R)
  BY <1>1, WFMin
<1>4. ASSUME NEW y \in T PROVE x <= y
  <2>1. x \in Nat /\ y \in Nat
    OBVIOUS
  <2>2. ~(y < x)
    BY <1>2, <1>3, <2>1, Zenon
  <2> QED
    BY <2>1, <2>2
<1> QED
  BY <1>4 DEF Min


-----------------------------------------------------------------------------
\* The types, and what a handler's step does to its record.

Point == {"idle", "file", "list", "reconcile", "pull", "drop", "finish", "look", "move", "stage",
          "commit", "send", "record", "merge", "close", "snap", "insert", "withdraw"}
Purpose == {"none", "file", "snap", "list", "commit", "merge", "refuse", "host"}

Call == [at : Point, op : Purpose, r : Rid \cup {0}, i : Rid \cup {0}, todo : SUBSET Rid,
         seen : (SUBSET Edit) \cup (SUBSET Commit), verdict : {"none", "approved", "rejected"}]

Row == [kind : {"none", "commit", "push"}, what : SUBSET Edit,
        status : {"none", "pending", "approved", "rejected"}]

Shape ==
  /\ row \in [Rid -> Row]
  /\ pr \in [Rid -> {"none", "open", "merged", "closed", "gone"}]
  /\ call \in [Handler -> Call]
  /\ on \in BOOLEAN /\ calls \in 0..MaxCalls /\ faults \in 0..MaxFaults
  /\ asked \subseteq Rid /\ landed \subseteq Rid /\ strayed \subseteq Rid

\* The other handlers are where they were.
Others(p) == \A q \in Handler : q # p => call'[q] = call[q]

LEMMA IdleIsCall == Idle \in Call
BY DEF Idle, Call, Point, Purpose

LEMMA GoIs ==
  ASSUME Shape, NEW p \in Handler, NEW w \in Point, Go(p, w)
  PROVE  /\ call' \in [Handler -> Call] /\ Others(p)
         /\ call'[p].at = w /\ call'[p].op = call[p].op /\ call'[p].r = call[p].r
         /\ call'[p].i = call[p].i /\ call'[p].todo = call[p].todo
         /\ call'[p].seen = call[p].seen /\ call'[p].verdict = call[p].verdict
BY DEF Shape, Go, Call, Others

LEMMA EndIs ==
  ASSUME Shape, NEW p \in Handler, End(p)
  PROVE  call' \in [Handler -> Call] /\ Others(p) /\ call'[p] = Idle
BY IdleIsCall DEF Shape, End, Others

\* On to the next row, of all that are left or of fewer.
LEMMA NextRowIs ==
  ASSUME Shape, NEW p \in Handler, NEW rest \in SUBSET Rid,
         \/ NextRow(p) /\ rest = call[p].todo
         \/ call' = [call EXCEPT ![p].at = "reconcile", ![p].i = 0, ![p].verdict = "none",
                                 ![p].todo = rest]
  PROVE  /\ call' \in [Handler -> Call] /\ Others(p)
         /\ call'[p].at = "reconcile" /\ call'[p].op = call[p].op /\ call'[p].r = call[p].r
         /\ call'[p].i = 0 /\ call'[p].todo = rest
BY DEF Shape, NextRow, Call, Point, Others

\* A verdict on the row in hand.
LEMMA VerdictIs ==
  ASSUME Shape, NEW p \in Handler, NEW v \in {"approved", "rejected"}, NEW w \in Point,
         call' = [call EXCEPT ![p].verdict = v, ![p].at = w]
  PROVE  /\ call' \in [Handler -> Call] /\ Others(p) /\ call'[p].at = w /\ call'[p].verdict = v
         /\ call'[p].i = call[p].i /\ call'[p].r = call[p].r /\ call'[p].op = call[p].op
         /\ call'[p].todo = call[p].todo
BY DEF Shape, Call, Others

LEMMA StartIs ==
  ASSUME Shape, NEW p \in Handler, NEW c \in Call, Start(p, c)
  PROVE  /\ call' \in [Handler -> Call] /\ Others(p) /\ call'[p] = c /\ call[p].at = "idle"
         /\ calls' \in 0..MaxCalls
         /\ UNCHANGED <<tree, index, main, gmain, row, pr, branch, on, landed, faults>>
BY Limits DEF Shape, Start, Others, repo, At

-----------------------------------------------------------------------------
\* The inductive invariant.

\* A row is in the table; the row of a push request is: what decisions work on.
Written(r) == row[r].status # "none"
Push(r) == row[r].kind = "push" /\ Written(r)

\* The pull request may be called rejected: it is not merged and cannot be, or it strayed.
Refusable(r) == pr[r] = "open" \/ r \in landed => r \in strayed

\* A row and its pull request.
Agreed(r) ==
  /\ row[r].kind = "none" => row[r].what = {} /\ ~Written(r)
  /\ row[r].kind = "push" <=> pr[r] # "none"
  /\ pr[r] = "merged" => r \in landed
  /\ r \in landed => pr[r] = "merged" \/ (pr[r] = "gone" /\ r \in strayed)
  /\ row[r].kind = "push" /\ row[r].status = "approved" => r \in landed
  /\ row[r].status = "rejected" => Refusable(r)

Rows == \A r \in Rid : Agreed(r)

\* Requests are numbered as they come.
Numbered == \E k \in 0..MaxReq : Used = 1..k

\* What a handler knows at each place is still so: a verdict it carries fits the pull
\* request, and an approval is one the operator gave.
Sound(p) ==
  LET c == call[p] IN
  /\ c.i # 0 => Written(c.i)
  /\ c.i # 0 /\ c.at # "finish" => Push(c.i)
  /\ c.at = "file" => c.seen \subseteq Edit /\ \A r \in c.todo : row[r].kind = "commit"
  /\ c.at # "file" => \A r \in c.todo : Push(r)
  /\ c.op = "commit" => c.r \in asked /\ row[c.r].kind = "commit" /\ Written(c.r)
  /\ c.op = "merge" => c.r \in asked
  /\ c.at \in {"stage", "commit", "record"} => c.op = "commit"
  /\ c.at = "list" => c.op \in {"commit", "snap"}
  /\ c.at = "snap" => c.op = "snap"
  /\ c.at \in {"reconcile", "list", "stage", "commit", "send", "snap"} => c.i = 0
  /\ c.at = "reconcile" => c.op \notin {"merge", "refuse"}
  /\ c.at = "pull" => c.i # 0 /\ (c.op \in {"merge", "refuse"} => c.i = c.r)
  /\ c.at = "merge" => c.op = "merge" /\ c.i # 0 /\ c.i = c.r /\ c.verdict = "approved"
  /\ c.at = "close" => c.op = "refuse" /\ c.i # 0 /\ c.i = c.r /\ c.verdict = "rejected"
  /\ c.at = "drop" => c.i # 0 /\ c.verdict = "rejected" /\ Refusable(c.i)
  /\ c.at \in {"look", "move"} /\ c.i # 0 => c.verdict = "approved" /\ c.i \in landed
  /\ c.at = "finish" => /\ c.i # 0
                        /\ \/ c.verdict = "approved" /\ c.i \in landed
                           \/ c.verdict = "rejected" /\ Refusable(c.i)

\* The pull requests whose rows are still to be written belong each to the handler that files
\* it, if they are open and did not stray.
Files(p, r) == call[p].at \in {"insert", "withdraw"} /\ call[p].r = r

Filing ==
  /\ \A p \in Handler : call[p].at \in {"insert", "withdraw"} =>
       call[p].r # 0 /\ row[call[p].r].kind = "push" /\ ~Written(call[p].r)
  /\ \A p, q \in Handler : p # q /\ call[p].at \in {"insert", "withdraw"} => ~Files(q, call[p].r)
  /\ \A r \in Rid : pr[r] = "open" /\ ~Written(r) /\ r \notin strayed => \E p \in Handler : Files(p, r)

\* The edits some approved request asked for.
Wanted == UNION {row[r].what : r \in asked}

\* What is staged, committed, pushed or on a branch was written, and asked for.
Contents ==
  /\ tree \subseteq Edit /\ index \subseteq tree
  /\ main \subseteq Commit /\ gmain \subseteq Commit
  /\ branch \in [Rid -> SUBSET Commit]
  /\ EditsIn(main) \subseteq index /\ index \subseteq Wanted
  /\ EditsIn(gmain) \subseteq tree \cap Wanted
  /\ \A p \in Handler : call[p].at = "move" =>
       call[p].seen \subseteq Commit /\ EditsIn(call[p].seen) \subseteq tree \cap Wanted
  /\ \A r \in Rid : EditsIn(branch[r]) \subseteq tree \cap (Wanted \cup row[r].what)

\* What no step takes back.
Evolves ==
  /\ asked \subseteq asked' /\ landed \subseteq landed' /\ strayed \subseteq strayed'
  /\ \A r \in Rid :
       /\ row[r].kind # "none" => row'[r].kind = row[r].kind
       /\ row[r].what \subseteq row'[r].what
       /\ Written(r) => Written(r)'
       /\ row[r].kind # "none" /\ Refusable(r) => Refusable(r)'

LEMMA SoundStays ==
  ASSUME Shape, Rows, NEW p \in Handler, Sound(p), Evolves, call'[p] = call[p]
  PROVE  Sound(p)'
<1>1. call[p].i \in Rid \cup {0} /\ call[p].r \in Rid \cup {0} /\ call[p].todo \subseteq Rid
  BY DEF Shape, Call
<1>2. asked \subseteq Rid /\ landed \subseteq Rid
  BY DEF Shape
<1>3. \A r \in Rid : /\ Push(r) => Push(r)'
                     /\ Written(r) => Written(r)' /\ row'[r].kind = row[r].kind
                     /\ Written(r) /\ Refusable(r) => Refusable(r)'
                     /\ row[r].kind = "commit" => row'[r].kind = "commit"
  BY DEF Evolves, Push, Rows, Agreed
<1> QED
  BY <1>1, <1>2, <1>3 DEF Sound, Evolves

LEMMA IdleIsSound ==
  ASSUME NEW p \in Handler, call'[p] = Idle
  PROVE  Sound(p)'
BY DEF Sound, Idle

\* A step that leaves the rows and the pull requests alone.
LEMMA QuietEvolves ==
  ASSUME UNCHANGED <<row, pr, landed>>, asked \subseteq asked', strayed \subseteq strayed'
  PROVE  Evolves /\ (Rows => Rows') /\ (Numbered => Numbered')
BY DEF Evolves, Rows, Agreed, Numbered, Used, Written, Refusable

-----------------------------------------------------------------------------
\* The steps of a handler that leave the rows and the pull requests alone.

\* A handler starts.
LEMMA Begins ==
  ASSUME Shape, NEW p \in Handler, NEW c \in Call, Start(p, c),
         asked' \subseteq Rid, strayed' \subseteq Rid
  PROVE  Shape' /\ Others(p) /\ call'[p] = c /\ UNCHANGED <<row, pr, landed>>
BY StartIs DEF Shape

LEMMA PendingIs ==
  ASSUME Shape, NEW kind
  PROVE  PendingOf(kind) \subseteq Rid
         /\ \A r \in PendingOf(kind) : row[r].kind = kind /\ row[r].status = "pending"
BY DEF PendingOf

LEMMA BeginSteps ==
  ASSUME Shape, NEW p \in Handler,
         \/ \E what \in SUBSET Edit \ {{}} : FileCommit(p, what)
         \/ FilePush(p) \/ List(p) \/ PushMain(p)
  PROVE  Shape' /\ Others(p) /\ Sound(p)' /\ UNCHANGED <<row, pr, history>>
<1> USE DEF Call, Point, Purpose
<1>1. asked \subseteq Rid /\ strayed \subseteq Rid
  BY DEF Shape
<1>2. ASSUME NEW what \in SUBSET Edit, FileCommit(p, what)
      PROVE  Shape' /\ Others(p) /\ Sound(p)' /\ UNCHANGED <<row, pr, history>>
  <2> DEFINE c == [Idle EXCEPT !.at = "file", !.op = "file", !.todo = PendingOf("commit"), !.seen = what]
  <2>1. c \in Call /\ c.at = "file" /\ c.op = "file" /\ c.i = 0 /\ c.todo = PendingOf("commit") /\ c.seen = what
    BY PendingIs DEF Idle
  <2> HIDE DEF c
  <2>2. Start(p, c) /\ UNCHANGED <<asked, strayed>>
    BY <1>2 DEF FileCommit, c
  <2>3. Shape' /\ Others(p) /\ call'[p] = c /\ UNCHANGED <<row, pr, landed>>
    BY <1>1, <2>1, <2>2, Begins
  <2>4. Sound(p)'
    BY <2>1, <2>3, PendingIs DEF Sound
  <2> QED
    BY <2>2, <2>3, <2>4 DEF history
<1>3. CASE List(p)
  <2> DEFINE c == [Idle EXCEPT !.at = "reconcile", !.op = "list", !.todo = Listed]
  <2>1. c \in Call /\ c.at = "reconcile" /\ c.op = "list" /\ c.i = 0 /\ c.todo = Listed
    BY PendingIs DEF Idle, Listed
  <2> HIDE DEF c
  <2>2. Start(p, c) /\ UNCHANGED <<asked, strayed>>
    BY <1>3 DEF List, c
  <2>3. Shape' /\ Others(p) /\ call'[p] = c /\ UNCHANGED <<row, pr, landed>>
    BY <1>1, <2>1, <2>2, Begins
  <2>4. Sound(p)'
    BY <2>1, <2>3, PendingIs DEF Sound, Push, Written, Listed
  <2> QED
    BY <2>2, <2>3, <2>4 DEF history
<1>4. CASE FilePush(p) \/ PushMain(p)
  <2>1. PICK op \in {"snap", "host"} :
          Start(p, [Idle EXCEPT !.at = "look", !.op = op]) /\ UNCHANGED <<asked, strayed>>
    BY <1>4 DEF FilePush, PushMain
  <2> DEFINE c == [Idle EXCEPT !.at = "look", !.op = op]
  <2>2. c \in Call /\ c.at = "look" /\ c.op = op /\ c.i = 0 /\ c.todo = {}
    BY DEF Idle
  <2> HIDE DEF c
  <2>3. Shape' /\ Others(p) /\ call'[p] = c /\ UNCHANGED <<row, pr, landed>>
    BY <1>1, <2>1, <2>2, Begins DEF c
  <2>4. Sound(p)'
    BY <2>2, <2>3 DEF Sound
  <2> QED
    BY <2>1, <2>3, <2>4 DEF history
<1> QED
  BY <1>2, <1>3, <1>4

LEMMA DecisionSteps ==
  ASSUME Shape, Rows, NEW p \in Handler, NEW r \in Rid, Approve(p, r) \/ Reject(p, r)
  PROVE  Shape' /\ Others(p) /\ Sound(p)' /\ UNCHANGED <<row, pr, landed>>
         /\ asked \subseteq asked' /\ strayed \subseteq strayed'
<1>0. row[r].status = "pending" /\ row[r].kind \in {"commit", "push"} /\ r # 0 /\ Written(r)
  BY DEF Approve, Reject, Shape, Row, Rows, Agreed, Written, Rid
<1>1. /\ asked \subseteq asked' /\ asked' \subseteq Rid
      /\ strayed \subseteq strayed' /\ strayed' \subseteq Rid
  BY DEF Approve, Reject, Shape, Stray
<1> USE DEF Call, Point, Purpose
<1>2. CASE Approve(p, r) /\ row[r].kind = "commit"
  <2> DEFINE c == [Idle EXCEPT !.at = "list", !.op = "commit", !.r = r]
  <2>1. c \in Call /\ c.at = "list" /\ c.op = "commit" /\ c.r = r /\ c.i = 0 /\ c.todo = {}
    BY DEF Idle
  <2> HIDE DEF c
  <2>2. Start(p, c) /\ r \in asked'
    BY <1>2 DEF Approve, c
  <2>3. Shape' /\ Others(p) /\ call'[p] = c /\ UNCHANGED <<row, pr, landed>>
    BY <1>1, <2>1, <2>2, Begins
  <2>4. Sound(p)'
    BY <1>0, <1>2, <2>1, <2>2, <2>3 DEF Sound, Written
  <2> QED
    BY <1>1, <2>3, <2>4
<1>3. CASE Approve(p, r) /\ row[r].kind = "push"
  <2> DEFINE c == [Idle EXCEPT !.at = "pull", !.op = "merge", !.r = r, !.i = r]
  <2>1. c \in Call /\ c.at = "pull" /\ c.op = "merge" /\ c.r = r /\ c.i = r /\ c.todo = {}
    BY DEF Idle
  <2> HIDE DEF c
  <2>2. Start(p, c) /\ r \in asked'
    BY <1>3 DEF Approve, c
  <2>3. Shape' /\ Others(p) /\ call'[p] = c /\ UNCHANGED <<row, pr, landed>>
    BY <1>1, <2>1, <2>2, Begins
  <2>4. Sound(p)'
    BY <1>0, <1>3, <2>1, <2>2, <2>3 DEF Sound, Push, Written
  <2> QED
    BY <1>1, <2>3, <2>4
<1>4. CASE Reject(p, r)
  <2>1. PICK where \in {"pull", "finish"} :
          /\ Start(p, [Idle EXCEPT !.at = where, !.op = "refuse", !.r = r, !.i = r, !.verdict = "rejected"])
          /\ where = "pull" => row[r].kind = "push"
          /\ where = "finish" => row[r].kind = "commit" \/ r \in strayed'
    <3>1. CASE row[r].kind = "commit"
      BY <1>4, <3>1 DEF Reject
    <3>2. CASE row[r].kind = "push" /\ on
      BY <1>4, <3>2 DEF Reject
    <3>3. CASE row[r].kind = "push" /\ ~on
      BY <1>4, <3>3 DEF Reject, Stray
    <3> QED
      BY <1>0, <3>1, <3>2, <3>3
  <2> DEFINE c == [Idle EXCEPT !.at = where, !.op = "refuse", !.r = r, !.i = r, !.verdict = "rejected"]
  <2>2. c \in Call /\ c.at = where /\ c.op = "refuse" /\ c.r = r /\ c.i = r /\ c.todo = {}
        /\ c.verdict = "rejected"
    BY DEF Idle
  <2> HIDE DEF c
  <2>3. Shape' /\ Others(p) /\ call'[p] = c /\ UNCHANGED <<row, pr, landed>>
    BY <1>1, <2>1, <2>2, Begins DEF c
  <2>4. where = "finish" => Refusable(r)'
    BY <2>1, <2>3 DEF Refusable, Rows, Agreed
  <2>5. Sound(p)'
    BY <1>0, <2>1, <2>2, <2>3, <2>4 DEF Sound, Push, Written
  <2> QED
    BY <1>1, <2>3, <2>5
<1> QED
  BY <1>0, <1>2, <1>3, <1>4

\* A handler that is under way goes on, ends, or takes the next row.
Goes(p) == \/ Lists(p) \/ Reconcile(p) \/ Pull(p) \/ CallFails(p)
           \/ SyncLooks(p) \/ SyncMoves(p) \/ SyncFails(p)
           \/ Stage(p) \/ CommitIndex(p) \/ CommitFails(p) \/ Send(p) \/ SendFails(p)

LEMMA GoesQuietly ==
  ASSUME Shape, NEW p \in Handler, Goes(p)
  PROVE  /\ UNCHANGED <<row, pr, history>> /\ call[p] \in Call
         /\ call' \in [Handler -> Call] => Shape'
<1>1. UNCHANGED <<row, pr, history, on, calls>> /\ (UNCHANGED faults \/ Fault)
  BY DEF Goes, Lists, Reconcile, Pull, CallFails, SyncLooks, SyncMoves, SyncFails, Stage,
         CommitIndex, CommitFails, Send, SendFails, requests, bounds
<1> QED
  BY <1>1, Limits DEF Shape, Fault, history

LEMMA EndsWell ==
  ASSUME Shape, NEW p \in Handler, Goes(p), End(p)
  PROVE  Shape' /\ Others(p) /\ Sound(p)'
BY GoesQuietly, EndIs, IdleIsSound

\* Soundness of a handler that moves to another place with the rows as they are.
LEMMA GoesWell ==
  ASSUME Shape, NEW p \in Handler, Goes(p), Sound(p), call[p].at \notin {"file", "finish"},
         NEW w \in {"list", "snap", "look", "stage", "send", "commit", "record", "finish"}, Go(p, w),
         w \in {"stage", "commit", "record"} => call[p].op = "commit",
         w \in {"list", "snap"} => call[p].op = "snap",
         w \in {"list", "stage", "commit", "send", "snap"} => call[p].i = 0,
         w = "look" /\ call[p].i # 0 => call[p].verdict = "approved" /\ call[p].i \in landed,
         w = "finish" => call[p].i # 0 /\ call[p].verdict = "approved" /\ call[p].i \in landed
  PROVE  Shape' /\ Others(p) /\ Sound(p)'
<1>1. UNCHANGED <<row, pr, history>> /\ (call' \in [Handler -> Call] => Shape')
  BY GoesQuietly
<1>2. /\ call' \in [Handler -> Call] /\ Others(p)
      /\ call'[p].at = w /\ call'[p].op = call[p].op /\ call'[p].r = call[p].r
      /\ call'[p].i = call[p].i /\ call'[p].todo = call[p].todo
      /\ call'[p].verdict = call[p].verdict
  BY GoIs DEF Point
<1>3. Sound(p)'
  BY <1>1, <1>2 DEF Sound, Push, Written, Refusable, history
<1> QED
  BY <1>1, <1>2, <1>3

\* ... and that takes the next row.
LEMMA NextWell ==
  ASSUME Shape, NEW p \in Handler, Goes(p), Sound(p), call[p].at # "file",
         call[p].op \notin {"merge", "refuse"},
         \E rest \in SUBSET call[p].todo :
           \/ NextRow(p) /\ rest = call[p].todo
           \/ call' = [call EXCEPT ![p].at = "reconcile", ![p].i = 0, ![p].verdict = "none",
                                   ![p].todo = rest]
  PROVE  Shape' /\ Others(p) /\ Sound(p)'
<1>1. UNCHANGED <<row, pr, history>> /\ (call' \in [Handler -> Call] => Shape') /\ call[p] \in Call
  BY GoesQuietly
<1>2. PICK rest \in SUBSET call[p].todo :
           \/ NextRow(p) /\ rest = call[p].todo
           \/ call' = [call EXCEPT ![p].at = "reconcile", ![p].i = 0, ![p].verdict = "none",
                                   ![p].todo = rest]
  OBVIOUS
<1>3. rest \in SUBSET Rid
  BY <1>1 DEF Call
<1>4. /\ call' \in [Handler -> Call] /\ Others(p)
      /\ call'[p].at = "reconcile" /\ call'[p].op = call[p].op /\ call'[p].r = call[p].r
      /\ call'[p].i = 0 /\ call'[p].todo = rest
  BY <1>2, <1>3, NextRowIs
<1>5. Sound(p)'
  BY <1>1, <1>4 DEF Sound, Push, Written, history
<1> QED
  BY <1>1, <1>4, <1>5

LEMMA ReconcileSteps ==
  ASSUME Shape, Rows, NEW p \in Handler, Sound(p),
         Lists(p) \/ Reconcile(p) \/ Pull(p) \/ CallFails(p)
  PROVE  Shape' /\ Others(p) /\ Sound(p)' /\ UNCHANGED <<row, pr, history>>
<1>0. /\ Goes(p) /\ call[p] \in Call /\ UNCHANGED <<row, pr, history>>
      /\ call' \in [Handler -> Call] => Shape'
  BY GoesQuietly DEF Goes
<1> SUFFICES Shape' /\ Others(p) /\ Sound(p)'
  BY <1>0
<1>1. CASE Lists(p)
  <2> DEFINE w == IF call[p].op = "commit" /\ ~on THEN "stage" ELSE "reconcile"
  <2>1. call' = [call EXCEPT ![p].todo = Listed, ![p].at = w] /\ call[p].at = "list"
    BY <1>1 DEF Lists, At
  <2>2. w \in {"stage", "reconcile"} /\ (w = "stage" => call[p].op = "commit") /\ w \in Point
    BY DEF Point
  <2> HIDE DEF w
  <2>3. Listed \subseteq Rid /\ \A r \in Listed : Push(r)
    BY PendingIs DEF Listed, Push, Written
  <2>4. /\ call' \in [Handler -> Call] /\ Others(p) /\ call'[p].at = w /\ call'[p].i = call[p].i
        /\ call'[p].todo = Listed /\ call'[p].op = call[p].op /\ call'[p].r = call[p].r
    BY <1>0, <2>1, <2>2, <2>3 DEF Shape, Others, Call
  <2>5. Sound(p)'
    BY <1>0, <2>1, <2>2, <2>3, <2>4 DEF Sound, Push, Written, history
  <2> QED
    BY <1>0, <2>4, <2>5
<1>2. CASE Reconcile(p)
  <2>1. CASE call[p].todo = {}
    <3>1. ASSUME NEW w \in {"snap", "look"}, Go(p, w), call[p].at = "reconcile",
                 w = "snap" => call[p].op = "snap"
          PROVE  Shape' /\ Others(p) /\ Sound(p)'
      BY <1>0, <3>1, GoesWell DEF Sound
    <3> QED
      BY <1>0, <1>2, <2>1, <3>1, EndsWell DEF Reconcile, At
  <2>2. CASE call[p].todo # {}
    <3> DEFINE m == Min(call[p].todo)
    <3>1. m \in call[p].todo /\ m \in Rid
      BY <1>0, <2>2, MinIsIn DEF Call, Rid
    <3>2. call' = [call EXCEPT ![p].at = "pull", ![p].i = m, ![p].todo = @ \ {m}] /\ call[p].at = "reconcile"
      BY <1>2, <2>2 DEF Reconcile, At
    <3>3. m # 0
      BY <3>1 DEF Rid
    <3> HIDE DEF m
    <3>4. call' \in [Handler -> Call] /\ Others(p) /\ call'[p].at = "pull" /\ call'[p].i = m
          /\ call'[p].todo = call[p].todo \ {m} /\ call'[p].op = call[p].op /\ call'[p].r = call[p].r
      BY <1>0, <3>1, <3>2 DEF Shape, Others, Call, Point
    <3>5. call[p].op \notin {"merge", "refuse"} /\ Push(m)
      BY <3>1, <3>2 DEF Sound
    <3>6. Sound(p)'
      BY <1>0, <3>1, <3>2, <3>3, <3>4, <3>5 DEF Sound, Push, Written, history
    <3> QED
      BY <1>0, <3>4, <3>6
  <2> QED
    BY <2>1, <2>2
<1>3. CASE Pull(p)
  <2> DEFINE i == call[p].i
             was == pr[i]
  <2>1. call[p].at = "pull" /\ i # 0 /\ i \in Rid /\ Push(i) /\ call[p].todo \subseteq Rid
        /\ (call[p].op \in {"merge", "refuse"} => i = call[p].r)
    BY <1>0, <1>3 DEF Pull, At, Sound, Call
  <2>2. /\ was \in {"open", "merged", "closed", "gone"}
        /\ was = "merged" => i \in landed
        /\ was \in {"closed", "gone"} => Refusable(i)
    BY <2>1 DEF Shape, Rows, Agreed, Push, Refusable
  <2>3. ASSUME NEW v \in {"approved", "rejected"}, NEW w \in {"close", "drop", "look", "finish", "merge"},
               call' = [call EXCEPT ![p].verdict = v, ![p].at = w],
               w = "close" => v = "rejected" /\ call[p].op = "refuse",
               w = "look" => v = "approved" /\ was = "merged",
               w \in {"drop", "finish"} => v = "rejected" /\ was \in {"closed", "gone"},
               w = "merge" => v = "approved" /\ call[p].op = "merge"
        PROVE  Shape' /\ Others(p) /\ Sound(p)'
    <3>1. /\ call' \in [Handler -> Call] /\ Others(p) /\ call'[p].at = w /\ call'[p].verdict = v
          /\ call'[p].i = call[p].i /\ call'[p].r = call[p].r /\ call'[p].op = call[p].op
          /\ call'[p].todo = call[p].todo
      BY <2>3, VerdictIs DEF Point
    <3>2. Sound(p)'
      BY <1>0, <2>1, <2>2, <2>3, <3>1 DEF Sound, Push, Written, Refusable, history
    <3> QED
      BY <1>0, <3>1, <3>2
  <2>4. CASE call[p].op = "refuse" /\ was = "merged"
    BY <1>0, <1>3, <2>4, EndsWell DEF Pull
  <2>5. CASE call[p].op = "refuse" /\ was = "open"
    <3>1. call' = [call EXCEPT ![p].verdict = "rejected", ![p].at = "close"]
      BY <1>3, <2>5 DEF Pull
    <3> QED
      BY <2>3, <2>5, <3>1
  <2>6. CASE call[p].op # "refuse" /\ was = "merged"
    <3>1. call' = [call EXCEPT ![p].verdict = "approved", ![p].at = "look"]
      BY <1>3, <2>6 DEF Pull
    <3> QED
      BY <2>3, <2>6, <3>1
  <2>7. CASE was \in {"closed", "gone"}
    <3>1. \E w \in {"drop", "finish"} : call' = [call EXCEPT ![p].verdict = "rejected", ![p].at = w]
      BY <1>3, <2>7 DEF Pull
    <3> QED
      BY <2>3, <2>7, <3>1
  <2>8. CASE was = "open" /\ call[p].op = "merge"
    <3>1. call' = [call EXCEPT ![p].verdict = "approved", ![p].at = "merge"]
      BY <1>3, <2>8 DEF Pull
    <3> QED
      BY <2>3, <2>8, <3>1
  <2>9. CASE was = "open" /\ call[p].op \notin {"merge", "refuse"}
    <3>1. NextRow(p)
      BY <1>3, <2>9 DEF Pull
    <3> QED
      BY <1>0, <2>1, <2>9, <3>1, NextWell
  <2> HIDE DEF was, i
  <2> QED
    BY <2>2, <2>4, <2>5, <2>6, <2>7, <2>8, <2>9
<1>4. CASE CallFails(p)
  <2>1. CASE call[p].op \in {"refuse", "merge"}
    BY <1>0, <1>4, <2>1, EndsWell DEF CallFails
  <2>2. CASE call[p].op \notin {"refuse", "merge"}
    <3>1. \E rest \in {{}, call[p].todo} :
            call' = [call EXCEPT ![p].at = "reconcile", ![p].i = 0, ![p].verdict = "none", ![p].todo = rest]
      BY <1>4, <2>2 DEF CallFails
    <3>2. call[p].at # "file"
      BY <1>4 DEF CallFails
    <3> QED
      BY <1>0, <2>2, <3>1, <3>2, NextWell
  <2> QED
    BY <2>1, <2>2
<1> QED
  BY <1>0, <1>1, <1>2, <1>3, <1>4

LEMMA SyncSteps ==
  ASSUME Shape, NEW p \in Handler, Sound(p), main \subseteq Commit, gmain \subseteq Commit,
         SyncLooks(p) \/ SyncMoves(p) \/ SyncFails(p)
  PROVE  Shape' /\ Others(p) /\ Sound(p)' /\ UNCHANGED <<row, pr, history>>
<1>0. /\ Goes(p) /\ call[p] \in Call /\ UNCHANGED <<row, pr, history>>
      /\ call' \in [Handler -> Call] => Shape'
      /\ call[p].at \in {"look", "move"}
  BY GoesQuietly DEF Goes, SyncLooks, SyncMoves, SyncFails, At
<1> SUFFICES Shape' /\ Others(p) /\ Sound(p)'
  BY <1>0
<1> DEFINE w == AfterSync(p)
<1>1. /\ w \in {"finish", "stage", "send"} /\ (w = "finish" <=> call[p].i # 0)
      /\ w = "stage" => call[p].op = "commit"
  BY DEF AfterSync
<1> HIDE DEF w
<1>2. ASSUME Go(p, w) PROVE Shape' /\ Others(p) /\ Sound(p)'
  BY <1>0, <1>1, <1>2, GoesWell DEF Sound
<1>3. CASE SyncLooks(p) /\ ~Go(p, w)
  <2>1. call' = [call EXCEPT ![p].at = "move", ![p].seen = gmain] /\ call[p].at = "look"
    BY <1>3 DEF SyncLooks, At, w
  <2>2. gmain \in (SUBSET Edit) \cup (SUBSET Commit)
    OBVIOUS
  <2>3. /\ call' \in [Handler -> Call] /\ Others(p) /\ call'[p].at = "move"
        /\ call'[p].i = call[p].i /\ call'[p].r = call[p].r /\ call'[p].op = call[p].op
        /\ call'[p].todo = call[p].todo /\ call'[p].verdict = call[p].verdict
    BY <1>0, <2>1, <2>2 DEF Shape, Others, Call, Point
  <2>4. Sound(p)'
    BY <1>0, <2>1, <2>3 DEF Sound, Push, Written, history
  <2> QED
    BY <1>0, <2>3, <2>4
<1>4. CASE SyncMoves(p)
  <2>1. call' = [call EXCEPT ![p].at = w, ![p].seen = {}]
    BY <1>4 DEF SyncMoves, w
  <2>2. /\ call' \in [Handler -> Call] /\ Others(p) /\ call'[p].at = w
        /\ call'[p].i = call[p].i /\ call'[p].r = call[p].r /\ call'[p].op = call[p].op
        /\ call'[p].todo = call[p].todo /\ call'[p].verdict = call[p].verdict
    BY <1>0, <1>1, <2>1 DEF Shape, Others, Call, Point
  <2>3. Sound(p)'
    BY <1>0, <1>1, <2>2 DEF Sound, Push, Written, history
  <2> QED
    BY <1>0, <2>2, <2>3
<1>5. CASE SyncFails(p)
  BY <1>0, <1>2, <1>5, EndsWell DEF SyncFails, w
<1> QED
  BY <1>0, <1>2, <1>3, <1>4, <1>5

LEMMA CommitSteps ==
  ASSUME Shape, NEW p \in Handler, Sound(p),
         Stage(p) \/ CommitIndex(p) \/ CommitFails(p) \/ Send(p) \/ SendFails(p)
  PROVE  Shape' /\ Others(p) /\ Sound(p)' /\ UNCHANGED <<row, pr, history>>
<1>0. /\ Goes(p) /\ UNCHANGED <<row, pr, history>>
      /\ call[p].at \in {"stage", "commit", "send"} /\ call[p].i = 0
  BY GoesQuietly DEF Goes, Stage, CommitIndex, CommitFails, Send, SendFails, At, Sound
<1>1. ASSUME NEW w \in {"commit", "record", "send", "list"}, Go(p, w),
             w \in {"commit", "record"} => call[p].op = "commit",
             w = "list" => call[p].op = "snap"
      PROVE  Shape' /\ Others(p) /\ Sound(p)'
  BY <1>0, <1>1, GoesWell
<1>2. CASE End(p)
  BY <1>0, <1>2, EndsWell
<1>3. CASE Stage(p) \/ CommitIndex(p)
  BY <1>0, <1>1, <1>3 DEF Stage, CommitIndex, At, Sound
<1>4. CASE Send(p) \/ SendFails(p)
  <2>1. \/ Go(p, "record") /\ call[p].op = "commit"
        \/ Go(p, "list") /\ call[p].op = "snap"
        \/ End(p)
    <3>1. ASSUME NEW well \in BOOLEAN, AfterSend(p, well)
          PROVE  \/ Go(p, "record") /\ call[p].op = "commit"
                 \/ Go(p, "list") /\ call[p].op = "snap"
                 \/ End(p)
      BY <3>1 DEF AfterSend
    <3> DEFINE fits == gmain \subseteq main
    <3>2. AfterSend(p, fits) \/ AfterSend(p, FALSE)
      BY <1>4, Zenon DEF Send, SendFails
    <3>3. fits \in BOOLEAN
      OBVIOUS
    <3> HIDE DEF fits
    <3>4. CASE AfterSend(p, fits)
      BY <3>1, <3>3, <3>4
    <3>5. CASE AfterSend(p, FALSE)
      BY <3>1, <3>5
    <3> QED
      BY <3>2, <3>4, <3>5
  <2> QED
    BY <1>0, <1>1, <1>2, <2>1
<1> QED
  BY <1>0, <1>2, <1>3, <1>4 DEF CommitFails

-----------------------------------------------------------------------------
\* The steps that change a row or a pull request.  In each lemma: the types, that the rows
\* still agree with their pull requests, that nothing is taken back, and the handler's own
\* soundness.

\* A request that is not filed yet, and the numbering with it filed.
LEMMA NextIsFree ==
  ASSUME Shape, Numbered, NextRid \in Rid
  PROVE  /\ row[NextRid].kind = "none"
         /\ \A f : (\A r \in Rid : r \in f <=> r \in Used \/ r = NextRid) /\ f \subseteq Rid
                     => \E k \in 0..MaxReq : f = 1..k
<1>1. PICK k \in 0..MaxReq : Used = 1..k
  BY DEF Numbered
<1>2. k \in Nat
  BY Limits
<1>3. Cardinality(1..k) = k
  BY <1>2, FS_Interval
<1>4. NextRid = k + 1 /\ k + 1 <= MaxReq
  BY <1>1, <1>2, <1>3, Limits DEF NextRid, Rid
<1>5. NextRid \notin Used
  BY <1>1, <1>2, <1>4
<1>6. ASSUME NEW f, \A r \in Rid : r \in f <=> r \in Used \/ r = NextRid, f \subseteq Rid
      PROVE  f = 1..(k + 1)
  <2>1. \A r \in Rid : r \in f <=> r \in 1..k \/ r = k + 1
    BY <1>1, <1>4, <1>6
  <2>2. \A r \in 1..(k + 1) : r \in Rid
    BY <1>2, <1>4, Limits DEF Rid
  <2>3. \A r : r \in f <=> r \in 1..(k + 1)
    BY <1>2, <1>6, <2>1, <2>2
  <2> QED
    BY <2>3
<1>7. k + 1 \in 0..MaxReq
  BY <1>2, <1>4, Limits
<1> QED
  BY <1>5, <1>6, <1>7, Zenon DEF Used

LEMMA RowUpdate ==
  ASSUME Shape, Rows, Numbered, NEW r \in Rid, NEW s \in {"pending", "approved", "rejected"},
         Decide(r, s)
  PROVE  /\ row' \in [Rid -> Row]
         /\ row'[r].status = s /\ row'[r].kind = row[r].kind /\ row'[r].what = row[r].what
         /\ \A z \in Rid : z # r => row'[z] = row[z]
         /\ Numbered'
<1>1. row'[r].status = s /\ row'[r].kind = row[r].kind /\ row'[r].what = row[r].what
      /\ \A z \in Rid : z # r => row'[z] = row[z]
  BY DEF Decide, Shape, Row
<1>2. row' \in [Rid -> Row]
  BY DEF Decide, Shape, Row
<1>3. Used' = Used
  BY <1>1 DEF Used
<1> QED
  BY <1>1, <1>2, <1>3 DEF Numbered

\* A row is written or decided, as its pull request has it.
LEMMA DecideAgrees ==
  ASSUME Shape, Rows, Numbered, NEW r \in Rid, NEW s \in {"pending", "approved", "rejected"},
         Decide(r, s), UNCHANGED <<pr, history>>, row[r].kind # "none",
         s = "approved" => row[r].kind = "commit" \/ r \in landed,
         s = "rejected" => Refusable(r)
  PROVE  Rows' /\ Numbered' /\ Evolves /\ row' \in [Rid -> Row]
<1>1. \A z \in Rid : Refusable(z)' = Refusable(z)
  BY DEF Refusable, history
<1>2. ASSUME NEW z \in Rid PROVE Agreed(z)'
  <2>1. CASE z = r
    BY <1>1, <2>1, RowUpdate DEF Rows, Agreed, Written, history
  <2>2. CASE z # r
    BY <1>1, <2>2, RowUpdate DEF Rows, Agreed, Written, history
  <2> QED
    BY <2>1, <2>2
<1>3. Evolves
  BY <1>1, RowUpdate DEF Evolves, Written, history
<1> QED
  BY <1>2, <1>3, RowUpdate DEF Rows

LEMMA DecidingSteps ==
  ASSUME Shape, Rows, Numbered, NEW p \in Handler, Sound(p), Finish(p) \/ Record(p)
  PROVE  /\ Shape' /\ Others(p) /\ Sound(p)' /\ Rows' /\ Numbered' /\ Evolves
         /\ UNCHANGED <<pr, history>>
         /\ \A r \in Rid : ~Written(r) => row'[r] = row[r]
<1>0. call[p] \in Call /\ UNCHANGED <<pr, history, on, calls, faults>>
  BY DEF Shape, Finish, Record, bounds
<1>1. call' \in [Handler -> Call] /\ row' \in [Rid -> Row] => Shape'
  BY <1>0 DEF Shape, history
<1>2. ASSUME NEW r \in Rid, NEW s, Decide(r, s), Written(r)
      PROVE  \A z \in Rid : ~Written(z) => row'[z] = row[z]
  BY <1>2 DEF Decide, Shape
<1>3. CASE Finish(p)
  <2> DEFINE i == call[p].i
  <2>1. /\ call[p].at = "finish" /\ i \in Rid /\ Written(i) /\ call[p].verdict \in {"approved", "rejected"}
        /\ call[p].verdict = "approved" => i \in landed
        /\ call[p].verdict = "rejected" => Refusable(i)
        /\ call[p].todo \subseteq Rid /\ Decide(i, call[p].verdict)
    BY <1>0, <1>3 DEF Finish, At, Sound, Call
  <2>2. row[i].kind # "none"
    BY <2>1 DEF Rows, Agreed
  <2>3. Rows' /\ Numbered' /\ Evolves /\ row' \in [Rid -> Row]
    BY <1>0, <2>1, <2>2, DecideAgrees
  <2>4. CASE End(p)
    BY <1>0, <1>1, <1>2, <2>1, <2>3, <2>4, EndIs, IdleIsSound
  <2>5. CASE call[p].op \notin {"refuse", "merge"}
    <3>1. NextRow(p)
      BY <1>3, <2>5 DEF Finish
    <3>2. /\ call' \in [Handler -> Call] /\ Others(p) /\ call'[p].at = "reconcile"
          /\ call'[p].i = 0 /\ call'[p].r = call[p].r /\ call'[p].op = call[p].op
          /\ call'[p].todo = call[p].todo
      BY <2>1, <3>1, NextRowIs
    <3>3. \A z \in call[p].todo : Push(z)'
      BY <2>1, <2>3 DEF Sound, Push, Evolves
    <3>4. call[p].op = "commit" => call[p].r \in asked /\ call[p].r \in Rid
                                   /\ row'[call[p].r].kind = "commit" /\ Written(call[p].r)'
      <4>1. CASE call[p].op = "commit"
        <5>1. call[p].r \in asked /\ row[call[p].r].kind = "commit" /\ Written(call[p].r)
          BY <4>1 DEF Sound
        <5> QED
          BY <5>1, <2>3, <3>2 DEF Evolves, Shape, Written
      <4> QED
        BY <4>1
    <3>5. Sound(p)'
      BY <1>0, <2>1, <2>5, <3>2, <3>3, <3>4 DEF Sound, history, Written
    <3> QED
      BY <1>0, <1>1, <1>2, <2>1, <2>3, <3>2, <3>5
  <2> QED
    BY <1>3, <2>4, <2>5 DEF Finish
<1>4. CASE Record(p)
  <2> DEFINE r == call[p].r
  <2>1. r \in Rid /\ row[r].kind = "commit" /\ Written(r) /\ Decide(r, "approved") /\ End(p)
    BY <1>0, <1>4 DEF Record, At, Sound, Shape, Call
  <2>2. Rows' /\ Numbered' /\ Evolves /\ row' \in [Rid -> Row]
    BY <1>0, <2>1, DecideAgrees
  <2> QED
    BY <1>0, <1>1, <1>2, <2>1, <2>2, EndIs, IdleIsSound
<1> QED
  BY <1>3, <1>4

LEMMA FileCommitWritesStep ==
  ASSUME Shape, Rows, Numbered, NEW p \in Handler, Sound(p), FileCommitWrites(p)
  PROVE  /\ Shape' /\ Others(p) /\ Sound(p)' /\ Rows' /\ Numbered' /\ Evolves
         /\ UNCHANGED <<pr, history>>
         /\ \A r \in Rid : row[r].kind = "push" => row'[r] = row[r]
<1> DEFINE new == [kind |-> "commit", what |-> call[p].seen, status |-> "pending"]
<1>0. /\ call[p] \in Call /\ UNCHANGED <<pr, history, on, calls, faults>> /\ NextRid \in Rid
      /\ End(p) /\ call[p].at = "file"
  BY DEF Shape, FileCommitWrites, bounds, At
<1>1. row[NextRid].kind = "none"
  BY <1>0, NextIsFree
<1>2. \A r \in call[p].todo : row[r].kind = "commit"
  BY <1>0 DEF Sound
<1>3. \A r \in Rid :
        row'[r] = IF r = NextRid THEN new
                  ELSE IF r \in call[p].todo /\ row[r].status = "pending"
                       THEN [row[r] EXCEPT !.status = "rejected"] ELSE row[r]
  BY DEF FileCommitWrites
<1>4. new \in Row /\ new.kind = "commit" /\ new.status = "pending"
  BY <1>0 DEF Sound, Row
<1> HIDE DEF new
<1>5. ASSUME NEW r \in Rid
      PROVE  /\ row'[r] \in Row /\ Agreed(r)'
             /\ row[r].kind # "none" => row'[r].kind = row[r].kind
             /\ row[r].what \subseteq row'[r].what
             /\ Written(r) => Written(r)'
             /\ row[r].kind = "push" => row'[r] = row[r]
             /\ row'[r].kind # "none" <=> row[r].kind # "none" \/ r = NextRid
  <2>0. row[r] \in Row /\ Agreed(r) /\ pr'[r] = pr[r] /\ UNCHANGED <<landed, strayed>>
    BY <1>0 DEF Shape, Rows, history
  <2>1. CASE r = NextRid
    <3>1. row[r].kind = "none" /\ pr[r] = "none" /\ row[r].what = {} /\ ~Written(r)
      BY <1>1, <2>0, <2>1 DEF Agreed, Shape
    <3>2. row'[r] = new
      BY <1>3, <2>1
    <3> QED
      BY <1>4, <2>0, <2>1, <3>1, <3>2 DEF Agreed, Written
  <2>2. CASE r # NextRid /\ r \in call[p].todo /\ row[r].status = "pending"
    <3>1. row'[r] = [row[r] EXCEPT !.status = "rejected"] /\ row[r].kind = "commit"
      BY <1>2, <1>3, <2>2
    <3>2. row'[r] \in Row /\ row'[r].kind = "commit" /\ row'[r].status = "rejected" /\ row'[r].what = row[r].what
      BY <2>0, <3>1 DEF Row
    <3> QED
      BY <2>0, <2>2, <3>1, <3>2 DEF Agreed, Written, Refusable
  <2>3. CASE r # NextRid /\ ~(r \in call[p].todo /\ row[r].status = "pending")
    <3>1. row'[r] = row[r]
      BY <1>3, <2>3
    <3> QED
      BY <2>0, <2>3, <3>1 DEF Agreed, Written, Refusable
  <2> QED
    BY <2>1, <2>2, <2>3
<1>6. row' \in [Rid -> Row]
  BY <1>5 DEF FileCommitWrites
<1>7. Shape' /\ Others(p) /\ Sound(p)'
  BY <1>0, <1>6, EndIs, IdleIsSound DEF Shape, history
<1>8. Rows'
  BY <1>5 DEF Rows
<1>9. Numbered'
  <2>1. \A r \in Rid : r \in Used' <=> r \in Used \/ r = NextRid
    BY <1>5 DEF Used
  <2>2. Used' \subseteq Rid
    BY DEF Used
  <2> QED
    BY <1>0, <2>1, <2>2, NextIsFree DEF Numbered
<1>10. Evolves
  BY <1>0, <1>5 DEF Evolves, Refusable, history
<1> QED
  BY <1>0, <1>5, <1>7, <1>8, <1>9, <1>10

LEMMA SnapStep ==
  ASSUME Shape, Rows, Numbered, NEW p \in Handler, Sound(p), Snap(p), tree \subseteq Edit
  PROVE  Shape' /\ Others(p) /\ Sound(p)' /\ Rows' /\ Numbered' /\ Evolves /\ UNCHANGED history
         /\ \/ End(p) /\ UNCHANGED <<row, pr, branch>>
            \/ /\ NextRid \in Rid /\ row[NextRid].kind = "none"
               /\ call'[p].at = "insert" /\ call'[p].r = NextRid
               /\ row'[NextRid] = [kind |-> "push", what |-> tree, status |-> "none"]
               /\ branch' = [branch EXCEPT ![NextRid] =
                               main \cup {[req |-> NextRid, edits |-> tree \ EditsIn(main)]}]
               /\ \A r \in Rid : r # NextRid => row'[r] = row[r] /\ pr'[r] = pr[r]
<1>0. call[p] \in Call /\ UNCHANGED <<history, on, calls, faults>> /\ NextRid \in Rid
      /\ call[p].at = "snap"
  BY DEF Shape, Snap, bounds, At
<1>1. CASE End(p) /\ UNCHANGED <<row, pr, branch>>
  <2>1. Shape' /\ Others(p) /\ Sound(p)'
    BY <1>0, <1>1, EndIs, IdleIsSound DEF Shape, history
  <2> QED
    BY <1>0, <1>1, <2>1, QuietEvolves DEF history
<1>2. CASE ~(End(p) /\ UNCHANGED <<row, pr, branch>>)
  <2> DEFINE n == NextRid
             new == [kind |-> "push", what |-> tree, status |-> "none"]
  <2>1. /\ row' = [row EXCEPT ![n] = new] /\ pr' = [pr EXCEPT ![n] = "open"]
        /\ call' = [call EXCEPT ![p].at = "insert", ![p].r = n]
        /\ branch' = [branch EXCEPT ![n] = main \cup {[req |-> n, edits |-> tree \ EditsIn(main)]}]
    BY <1>2 DEF Snap
  <2>2. row[n].kind = "none" /\ n \in Rid
    BY <1>0, NextIsFree
  <2> HIDE DEF n
  <2>3. /\ call' \in [Handler -> Call] /\ Others(p) /\ call'[p].at = "insert" /\ call'[p].r = n
        /\ call'[p].i = call[p].i /\ call'[p].op = call[p].op /\ call'[p].todo = call[p].todo
    BY <1>0, <2>1, <2>2 DEF Shape, Others, Call, Point
  <2>4. new \in Row /\ new.kind = "push" /\ new.status = "none"
    BY DEF Row
  <2> HIDE DEF new
  <2>5. /\ row' \in [Rid -> Row] /\ row'[n] = new /\ pr'[n] = "open"
        /\ \A r \in Rid : r # n => row'[r] = row[r] /\ pr'[r] = pr[r]
        /\ pr' \in [Rid -> {"none", "open", "merged", "closed", "gone"}]
    BY <2>1, <2>2, <2>4 DEF Shape
  <2>6. Shape'
    BY <1>0, <2>3, <2>5 DEF Shape, history
  <2>7. row[n].kind = "none" /\ pr[n] = "none" /\ row[n].what = {} /\ ~Written(n) /\ n \notin landed
    BY <2>2 DEF Rows, Agreed, Shape
  <2>8. ASSUME NEW r \in Rid PROVE Agreed(r)'
    <3>1. CASE r = n
      BY <1>0, <2>4, <2>5, <2>7, <3>1 DEF Agreed, Written, history
    <3>2. CASE r # n
      BY <1>0, <2>5, <3>2 DEF Agreed, Rows, Written, Refusable, history
    <3> QED
      BY <3>1, <3>2
  <2>9. Evolves
    BY <1>0, <2>5, <2>7 DEF Evolves, Written, Refusable, history
  <2>10. Sound(p)'
    <3>1. \A z \in Rid : Push(z) => Push(z)'
      BY <2>9 DEF Evolves, Push
    <3>2. call[p].op # "commit" /\ call[p].op # "merge" /\ call[p].todo \subseteq Rid /\ call[p].i = 0
      BY <1>0 DEF Sound, Call
    <3> QED
      BY <1>0, <2>3, <3>1, <3>2 DEF Sound
  <2>11. Numbered'
    <3>1. \A r \in Rid : r \in Used' <=> r \in Used \/ r = n
      BY <2>4, <2>5 DEF Used
    <3>2. Used' \subseteq Rid
      BY DEF Used
    <3> QED
      BY <1>0, <3>1, <3>2, NextIsFree DEF Numbered, n
  <2> QED
    BY <1>0, <2>1, <2>2, <2>3, <2>4, <2>5, <2>6, <2>8, <2>9, <2>10, <2>11 DEF Rows, n, new
<1> QED
  BY <1>1, <1>2

\* Filing outlives a step after which p files nothing: what it filed is in the table by then,
\* closed again, or strayed.
LEMMA FilingStays ==
  ASSUME Shape, Filing, Evolves, NEW p \in Handler, Others(p),
         call'[p].at \notin {"insert", "withdraw"},
         \A r \in Rid : row[r].kind = "push" /\ ~Written(r) /\ ~Files(p, r) => ~Written(r)',
         \A r \in Rid : pr'[r] = "open" => row[r].kind # "none" /\ (pr[r] = "open" \/ r \in strayed'),
         \A r \in Rid : Files(p, r) => Written(r)' \/ pr'[r] # "open" \/ r \in strayed'
  PROVE  Filing'
<1>1. \A q \in Handler : call[q] \in Call
  BY DEF Shape
<1>2. \A q \in Handler : call'[q].at \in {"insert", "withdraw"} => q # p /\ call'[q] = call[q]
  BY DEF Others
<1>3. ASSUME NEW q \in Handler, call'[q].at \in {"insert", "withdraw"}
      PROVE  call'[q].r # 0 /\ row'[call'[q].r].kind = "push" /\ ~Written(call[q].r)'
  <2>1. /\ call'[q] = call[q] /\ q # p /\ call[q].r # 0 /\ call[q].r \in Rid
        /\ row[call[q].r].kind = "push" /\ ~Written(call[q].r)
    BY <1>1, <1>2, <1>3 DEF Filing, Call
  <2>2. ~Files(p, call[q].r)
    BY <1>2, <1>3 DEF Filing
  <2>3. row'[call[q].r].kind = "push" /\ row'[call[q].r].status = "none"
    BY <2>1, <2>2 DEF Evolves, Written
  <2> QED
    BY <2>1, <2>3 DEF Written
<1>4. ASSUME NEW q \in Handler, NEW z \in Handler, q # z, call'[q].at \in {"insert", "withdraw"}
      PROVE  ~Files(z, call[q].r)'
  BY <1>2, <1>4 DEF Filing, Files
<1>5. ASSUME NEW r \in Rid, pr'[r] = "open", ~Written(r)', r \notin strayed'
      PROVE  \E q \in Handler : Files(q, r)'
  <2>1. pr[r] = "open" /\ ~Written(r) /\ r \notin strayed /\ ~Files(p, r)
    BY <1>5 DEF Evolves
  <2>2. PICK q \in Handler : Files(q, r)
    BY <2>1 DEF Filing
  <2>3. q # p /\ call'[q] = call[q]
    BY <2>1, <2>2 DEF Others
  <2> QED
    BY <2>2, <2>3 DEF Files
<1> QED
  BY <1>3, <1>4, <1>5 DEF Filing

\* The end of a filing: the row is written, or it is withdrawn, or its handler goes.
LEMMA InsertSteps ==
  ASSUME Shape, Rows, Numbered, Filing, NEW p \in Handler, Sound(p),
         InsertRow(p) \/ Withdraw(p) \/ Cancelled(p)
  PROVE  Shape' /\ Others(p) /\ Sound(p)' /\ Rows' /\ Numbered' /\ Evolves /\ Filing'
<1> DEFINE r == call[p].r
<1>0. /\ call[p] \in Call /\ r \in Rid \cup {0} /\ r = call[p].r /\ End(p)
      /\ call' \in [Handler -> Call] /\ Others(p) /\ call'[p] = Idle /\ Sound(p)'
  BY EndIs, IdleIsSound DEF Shape, Call, InsertRow, Withdraw, Cancelled
<1>1. call[p].at \in {"insert", "withdraw"} =>
        r \in Rid /\ row[r].kind = "push" /\ ~Written(r) /\ pr[r] # "none"
  BY <1>0 DEF Filing, Rows, Agreed
<1>2. \A z \in Rid : pr[z] = "open" => row[z].kind # "none"
  BY DEF Rows, Agreed
<1>3. \A z \in Rid : Files(p, z) <=> call[p].at \in {"insert", "withdraw"} /\ z = r
  BY DEF Files
<1> HIDE DEF r
<1>4. call'[p].at \notin {"insert", "withdraw"}
  BY <1>0 DEF Idle
<1>5. CASE InsertRow(p)
  <2>1. Decide(r, "pending") /\ UNCHANGED <<pr, history, on, calls, faults>> /\ call[p].at = "insert"
    BY <1>0, <1>5 DEF InsertRow, bounds, At
  <2>2. Rows' /\ Numbered' /\ Evolves /\ row' \in [Rid -> Row]
    BY <1>1, <2>1, DecideAgrees
  <2>3. Shape'
    BY <1>0, <2>1, <2>2 DEF Shape, history
  <2>4. /\ \A z \in Rid : z # r => row'[z] = row[z]
        /\ row'[r].status = "pending"
    BY <1>1, <2>1, RowUpdate
  <2>5. Filing'
    BY <1>0, <1>2, <1>3, <1>4, <2>1, <2>2, <2>4, FilingStays DEF Written
  <2> QED
    BY <1>0, <2>2, <2>3, <2>5
<1>6. CASE (Withdraw(p) \/ Cancelled(p)) /\ UNCHANGED pr
  <2>1. /\ UNCHANGED <<row, asked, landed, on, calls>> /\ strayed \subseteq strayed' /\ strayed' \subseteq Rid
        /\ faults' \in 0..MaxFaults
    BY <1>0, <1>1, <1>6, Limits DEF Withdraw, Cancelled, At, Stray, Fault, Shape
  <2>2. Rows' /\ Numbered' /\ Evolves
    BY <1>6, <2>1, QuietEvolves
  <2>3. Shape'
    BY <1>0, <1>6, <2>1 DEF Shape
  <2>4. ASSUME NEW z \in Rid, Files(p, z) PROVE pr'[z] # "open" \/ z \in strayed'
    <3>1. z = r /\ call[p].at \in {"insert", "withdraw"}
      BY <1>3, <2>4
    <3>2. CASE Withdraw(p)
      <4>1. CASE pr' = [pr EXCEPT ![r] = IF @ = "open" THEN "closed" ELSE @]
        BY <1>1, <3>1, <4>1 DEF Shape
      <4>2. CASE Stray(r)
        BY <3>1, <4>2 DEF Stray
      <4> QED
        BY <1>0, <3>2, <4>1, <4>2 DEF Withdraw
    <3>3. CASE Cancelled(p)
      BY <1>0, <3>1, <3>3 DEF Cancelled, Stray
    <3> QED
      BY <1>6, <3>2, <3>3
  <2>5. Filing'
    BY <1>0, <1>2, <1>4, <1>6, <2>1, <2>2, <2>4, FilingStays DEF Written
  <2> QED
    BY <1>0, <2>2, <2>3, <2>5
<1>7. CASE Withdraw(p) /\ ~UNCHANGED pr
  <2>1. /\ pr' = [pr EXCEPT ![r] = IF @ = "open" THEN "closed" ELSE @]
        /\ UNCHANGED <<row, history, on, calls, faults>> /\ r \in Rid /\ call[p].at = "withdraw"
    BY <1>0, <1>1, <1>7 DEF Withdraw, At, history
  <2>2. pr[r] = "open" /\ pr' = [pr EXCEPT ![r] = "closed"]
    BY <1>7, <2>1 DEF Shape
  <2>3. /\ pr' \in [Rid -> {"none", "open", "merged", "closed", "gone"}] /\ pr'[r] = "closed"
        /\ \A z \in Rid : z # r => pr'[z] = pr[z]
    BY <2>1, <2>2 DEF Shape
  <2>4. ASSUME NEW z \in Rid PROVE Agreed(z)'
    BY <2>1, <2>2, <2>3 DEF Agreed, Rows, Written, Refusable, history
  <2>5. Evolves
    BY <2>1, <2>2, <2>3 DEF Evolves, Written, Refusable, history
  <2>6. Shape'
    BY <1>0, <2>1, <2>3 DEF Shape, history
  <2>7. Filing'
    BY <1>0, <1>2, <1>3, <1>4, <2>1, <2>3, <2>5, FilingStays DEF Written
  <2>8. Numbered'
    BY <2>1 DEF Numbered, Used
  <2> QED
    BY <1>0, <2>4, <2>5, <2>6, <2>7, <2>8 DEF Rows
<1> QED
  BY <1>5, <1>6, <1>7 DEF Cancelled

\* The row could not be written; its handler has the pull request in hand still.
LEMMA InsertFailsStep ==
  ASSUME Shape, Rows, Numbered, Filing, NEW p \in Handler, Sound(p), InsertFails(p)
  PROVE  Shape' /\ Others(p) /\ Sound(p)' /\ Rows' /\ Numbered' /\ Evolves /\ Filing'
<1>1. /\ UNCHANGED <<row, pr, history, on, calls>> /\ faults' \in 0..MaxFaults
      /\ Go(p, "withdraw") /\ call[p].at = "insert" /\ call[p] \in Call
  BY Limits DEF InsertFails, requests, At, Fault, Shape
<1>2. /\ call' \in [Handler -> Call] /\ Others(p) /\ call'[p].at = "withdraw"
      /\ call'[p].op = call[p].op /\ call'[p].r = call[p].r
      /\ call'[p].i = call[p].i /\ call'[p].todo = call[p].todo
  BY <1>1, GoIs DEF Point
<1>3. Shape' /\ Rows' /\ Numbered' /\ Evolves
  BY <1>1, <1>2, QuietEvolves DEF Shape, history
<1>4. Sound(p)'
  BY <1>1, <1>2 DEF Sound, Push, Written, history
<1>5. \A q \in Handler : \A r \in Rid \cup {0} : Files(q, r)' <=> Files(q, r)
  BY <1>1, <1>2 DEF Files, Others
<1>6. \A q \in Handler : /\ call'[q].at \in {"insert", "withdraw"} <=> call[q].at \in {"insert", "withdraw"}
                         /\ call'[q].r = call[q].r
  BY <1>1, <1>2 DEF Others
<1>7. \A q \in Handler : call[q].r \in Rid \cup {0}
  BY DEF Shape, Call
<1>8. Filing'
  BY <1>1, <1>5, <1>6, <1>7 DEF Filing, Written, history, Files
<1> QED
  BY <1>2, <1>3, <1>4, <1>8

\* A pull request is merged, closed, reopened or deleted.
LEMMA PullRequestStep ==
  ASSUME Shape, Rows, NEW r \in Rid, NEW s \in {"open", "merged", "closed", "gone"},
         pr' = [pr EXCEPT ![r] = s], UNCHANGED row,
         landed' = IF s = "merged" THEN landed \cup {r} ELSE landed,
         asked \subseteq asked', strayed \subseteq strayed',
         \/ s = "merged" /\ pr[r] = "open"
         \/ s = "closed" /\ pr[r] \in {"open", "closed"}
         \/ s = "open" /\ pr[r] = "closed" /\ r \in strayed'
         \/ s = "gone" /\ pr[r] \in {"open", "closed", "merged"} /\ (pr[r] = "merged" => r \in strayed')
  PROVE  /\ pr' \in [Rid -> {"none", "open", "merged", "closed", "gone"}] /\ landed' \subseteq Rid
         /\ Rows' /\ (Numbered => Numbered') /\ Evolves /\ pr'[r] = s
         /\ \A z \in Rid : pr'[z] = "open" => row[z].kind # "none" /\ (pr[z] = "open" \/ z \in strayed')
<1>1. /\ pr' \in [Rid -> {"none", "open", "merged", "closed", "gone"}] /\ pr'[r] = s
      /\ \A z \in Rid : z # r => pr'[z] = pr[z]
      /\ landed' \subseteq Rid
      /\ \A z \in Rid : z # r => (z \in landed' <=> z \in landed)
      /\ landed \subseteq landed'
  BY DEF Shape
<1>2. ASSUME NEW z \in Rid PROVE Agreed(z)' /\ (row[z].kind # "none" /\ Refusable(z) => Refusable(z)')
  <2>1. CASE z = r
    BY <1>1, <2>1 DEF Agreed, Rows, Written, Refusable
  <2>2. CASE z # r
    BY <1>1, <2>2 DEF Agreed, Rows, Written, Refusable
  <2> QED
    BY <2>1, <2>2
<1>3. Evolves
  BY <1>1, <1>2 DEF Evolves, Written
<1>4. \A z \in Rid : pr'[z] = "open" => row[z].kind # "none" /\ (pr[z] = "open" \/ z \in strayed')
  BY <1>1 DEF Rows, Agreed
<1> QED
  BY <1>1, <1>2, <1>3, <1>4 DEF Rows, Numbered, Used

\* The same, by a handler that files nothing.
LEMMA GiteaSteps ==
  ASSUME Shape, Rows, Numbered, Filing, NEW p \in Handler, Sound(p),
         Merge(p) \/ MergeUnanswered(p) \/ Close(p) \/ Drop(p)
  PROVE  Shape' /\ Others(p) /\ Sound(p)' /\ Rows' /\ Numbered' /\ Evolves /\ Filing'
<1>r. PICK r : r = call[p].r
  OBVIOUS
<1>0. /\ call[p] \in Call /\ UNCHANGED <<row, asked, strayed, on, calls>> /\ faults' \in 0..MaxFaults
      /\ call[p].at \in {"merge", "close", "drop"} /\ call[p].todo \subseteq Rid
      /\ call[p].i \in Rid \cup {0} /\ r = call[p].r
  BY <1>r, Limits DEF Shape, Merge, MergeUnanswered, Close, Drop, bounds, At, Fault, Call, history
<1>1. /\ call[p].at \in {"merge", "close"} => call[p].i = r /\ r \in Rid /\ Push(r)
      /\ call[p].at = "merge" => call[p].op = "merge" /\ call[p].verdict = "approved" /\ r \in asked
      /\ call[p].at = "close" => call[p].op = "refuse" /\ call[p].verdict = "rejected"
      /\ call[p].at = "drop" => /\ call[p].i \in Rid /\ call[p].verdict = "rejected"
                                /\ Push(call[p].i) /\ Refusable(call[p].i)
  BY <1>0 DEF Sound
<1>2. ASSUME Evolves, Others(p), call'[p].at \notin {"insert", "withdraw"},
             \A z \in Rid : pr'[z] = "open" => row[z].kind # "none" /\ (pr[z] = "open" \/ z \in strayed')
      PROVE  Filing'
  <2>1. \A z \in Rid : ~Files(p, z) /\ (Written(z)' <=> Written(z))
    BY <1>0 DEF Files, Written
  <2> QED
    BY <1>2, <2>1, FilingStays
<1>3. pr' \in [Rid -> {"none", "open", "merged", "closed", "gone"}] /\ landed' \subseteq Rid
      /\ call' \in [Handler -> Call] => Shape'
  BY <1>0 DEF Shape
<1>4. \A z \in Rid : pr[z] = "open" => row[z].kind # "none"
  BY DEF Rows, Agreed
<1>5. CASE End(p) /\ UNCHANGED <<pr, landed>>
  <2>1. call' \in [Handler -> Call] /\ Others(p) /\ call'[p] = Idle /\ Sound(p)'
    BY <1>5, EndIs, IdleIsSound
  <2>2. Shape' /\ Rows' /\ Numbered' /\ Evolves
    BY <1>0, <1>3, <1>5, <2>1, QuietEvolves DEF Shape
  <2> QED
    BY <1>2, <1>4, <1>5, <2>1, <2>2 DEF Idle
<1>6. CASE /\ Mergeable(r) /\ MergeIn(r) /\ (Go(p, "look") \/ End(p))
           /\ call[p].at = "merge"
  <2>1. /\ pr' = [pr EXCEPT ![r] = "merged"] /\ pr[r] = "open" /\ landed' = landed \cup {r}
        /\ r \in Rid
    BY <1>1, <1>6 DEF Mergeable, MergeIn
  <2>2. /\ pr' \in [Rid -> {"none", "open", "merged", "closed", "gone"}] /\ landed' \subseteq Rid
        /\ Rows' /\ Numbered' /\ Evolves
        /\ \A z \in Rid : pr'[z] = "open" => row[z].kind # "none" /\ (pr[z] = "open" \/ z \in strayed')
    BY <1>0, <2>1, PullRequestStep
  <2>3. CASE End(p)
    <3>1. call' \in [Handler -> Call] /\ Others(p) /\ call'[p] = Idle /\ Sound(p)'
      BY <2>3, EndIs, IdleIsSound
    <3> QED
      BY <1>2, <1>3, <2>2, <3>1 DEF Idle
  <2>4. CASE Go(p, "look")
    <3>1. /\ call' \in [Handler -> Call] /\ Others(p)
          /\ call'[p].at = "look" /\ call'[p].op = call[p].op /\ call'[p].r = r
          /\ call'[p].i = r /\ call'[p].todo = call[p].todo /\ call'[p].verdict = "approved"
      BY <1>0, <1>1, <1>6, <2>4, GoIs DEF Point
    <3>2. \A z \in Rid : Push(z)' <=> Push(z)
      BY <1>0 DEF Push, Written
    <3>3. \A z \in call[p].todo : Push(z)
      BY <1>0 DEF Sound
    <3>4. r \in landed'
      BY <2>1
    <3>5. Push(r)' /\ Written(r)'
      BY <1>1, <1>6, <3>2 DEF Push
    <3>6. Sound(p)'
      BY <1>0, <1>1, <1>6, <3>1, <3>2, <3>3, <3>4, <3>5 DEF Sound
    <3> QED
      BY <1>2, <1>3, <2>2, <3>1, <3>6
  <2> QED
    BY <1>6, <2>3, <2>4
<1>7. CASE Close(p) /\ pr[r] \in {"open", "closed"}
  <2>1. pr' = [pr EXCEPT ![r] = "closed"] /\ Go(p, "drop") /\ call[p].at = "close" /\ landed' = landed
        /\ r \in Rid
    BY <1>0, <1>1, <1>7 DEF Close, At, history
  <2>2. /\ pr' \in [Rid -> {"none", "open", "merged", "closed", "gone"}] /\ landed' \subseteq Rid
        /\ Rows' /\ Numbered' /\ Evolves /\ pr'[r] = "closed"
        /\ \A z \in Rid : pr'[z] = "open" => row[z].kind # "none" /\ (pr[z] = "open" \/ z \in strayed')
    BY <1>0, <1>7, <2>1, PullRequestStep
  <2>3. /\ call' \in [Handler -> Call] /\ Others(p)
        /\ call'[p].at = "drop" /\ call'[p].op = "refuse" /\ call'[p].r = r
        /\ call'[p].i = r /\ call'[p].todo = call[p].todo /\ call'[p].verdict = "rejected"
    BY <1>0, <1>1, <2>1, GoIs DEF Point
  <2>4. Refusable(r)'
    BY <2>1, <2>2 DEF Rows, Agreed, Refusable
  <2>5. \A z \in Rid : Push(z)' <=> Push(z)
    BY <1>0 DEF Push, Written
  <2>6. Push(r)' /\ Written(r)' /\ r # 0
    BY <1>1, <2>1, <2>5 DEF Push, Rid
  <2>7. \A z \in call[p].todo : Push(z)'
    BY <1>0, <2>1, <2>5 DEF Sound
  <2>8. Sound(p)'
    BY <2>3, <2>4, <2>6, <2>7 DEF Sound
  <2> QED
    BY <1>2, <1>3, <2>2, <2>3, <2>8
<1>8. CASE Close(p) /\ pr[r] \notin {"open", "closed"}
  <2>1. End(p) /\ landed' = landed /\ pr' = [pr EXCEPT ![r] = pr[r]]
    BY <1>0, <1>8 DEF Close, history
  <2>2. pr' = pr
    BY <2>1 DEF Shape
  <2> QED
    BY <1>5, <2>1, <2>2
<1>9. CASE Drop(p)
  <2>1. UNCHANGED <<pr, landed>> /\ Go(p, "finish") /\ call[p].at = "drop"
    BY <1>9 DEF Drop, At, history
  <2>2. /\ call' \in [Handler -> Call] /\ Others(p)
        /\ call'[p].at = "finish" /\ call'[p].op = call[p].op /\ call'[p].r = call[p].r
        /\ call'[p].i = call[p].i /\ call'[p].todo = call[p].todo /\ call'[p].verdict = call[p].verdict
    BY <2>1, GoIs DEF Point
  <2>3. Shape' /\ Rows' /\ Numbered' /\ Evolves
    BY <1>0, <1>3, <2>1, <2>2, QuietEvolves DEF Shape
  <2>4. Sound(p)'
    BY <1>0, <2>1, <2>2 DEF Sound, Push, Written, Refusable
  <2> QED
    BY <1>2, <1>4, <2>1, <2>2, <2>3, <2>4
<1>10. CASE Merge(p)
  BY <1>0, <1>5, <1>6, <1>10 DEF Merge, At
<1>11. CASE MergeUnanswered(p)
  BY <1>0, <1>5, <1>6, <1>11 DEF MergeUnanswered, At
<1> QED
  BY <1>7, <1>8, <1>9, <1>10, <1>11

\* By hand in Gitea.
LEMMA HandSteps ==
  ASSUME Shape, Rows, Numbered, Filing, NEW r \in Rid,
         HandMerge(r) \/ HandClose(r) \/ HandReopen(r) \/ HandDelete(r)
  PROVE  Shape' /\ Rows' /\ Numbered' /\ Evolves /\ Filing' /\ UNCHANGED <<row, call>>
<1>1. /\ UNCHANGED <<row, call, on, calls, faults>>
      /\ asked \subseteq asked' /\ asked' \subseteq Rid /\ strayed \subseteq strayed' /\ strayed' \subseteq Rid
  BY DEF HandMerge, HandClose, HandReopen, HandDelete, Shape, bounds, history, Stray
<1>2. ASSUME Evolves,
             \A z \in Rid : pr'[z] = "open" => row[z].kind # "none" /\ (pr[z] = "open" \/ z \in strayed')
      PROVE  Filing'
  <2>1. \A q \in Handler, z \in Rid : Files(q, z)' <=> Files(q, z)
    BY <1>1 DEF Files
  <2>2. \A q, z \in Handler : Files(q, call[z].r)' <=> Files(q, call[z].r)
    BY <1>1 DEF Files
  <2> QED
    BY <1>1, <1>2, <2>1, <2>2 DEF Filing, Written
<1>4. ASSUME NEW s \in {"open", "merged", "closed", "gone"},
             pr' = [pr EXCEPT ![r] = s], landed' = IF s = "merged" THEN landed \cup {r} ELSE landed,
             \/ s = "merged" /\ pr[r] = "open"
             \/ s = "closed" /\ pr[r] \in {"open", "closed"}
             \/ s = "open" /\ pr[r] = "closed" /\ r \in strayed'
             \/ s = "gone" /\ pr[r] \in {"open", "closed", "merged"} /\ (pr[r] = "merged" => r \in strayed')
      PROVE  Shape' /\ Rows' /\ Numbered' /\ Evolves /\ Filing'
  <2>1. /\ pr' \in [Rid -> {"none", "open", "merged", "closed", "gone"}] /\ landed' \subseteq Rid
        /\ Rows' /\ Numbered' /\ Evolves
        /\ \A z \in Rid : pr'[z] = "open" => row[z].kind # "none" /\ (pr[z] = "open" \/ z \in strayed')
    BY <1>1, <1>4, PullRequestStep
  <2> QED
    BY <1>1, <1>2, <2>1 DEF Shape
<1>5. CASE HandMerge(r)
  BY <1>1, <1>4, <1>5 DEF HandMerge, Mergeable, MergeIn
<1>6. CASE HandClose(r)
  BY <1>1, <1>4, <1>6 DEF HandClose, history
<1>7. CASE HandReopen(r)
  BY <1>1, <1>4, <1>7 DEF HandReopen, Stray
<1>8. CASE HandDelete(r)
  BY <1>1, <1>4, <1>8 DEF HandDelete, Stray
<1> QED
  BY <1>1, <1>5, <1>6, <1>7, <1>8

-----------------------------------------------------------------------------
\* Where the steps of a handler end that neither file a pull request nor take Gitea's main
\* to move to.
Rest == Point \ {"insert", "withdraw", "move"}

LEMMA Lands ==
  ASSUME call \in [Handler -> Call], NEW p \in Handler,
         \/ \E what \in SUBSET Edit \ {{}} : FileCommit(p, what)
         \/ FileCommitWrites(p) \/ FilePush(p) \/ InsertRow(p) \/ Withdraw(p) \/ Cancelled(p)
         \/ List(p) \/ Lists(p) \/ Reconcile(p) \/ Pull(p) \/ Drop(p) \/ CallFails(p) \/ Finish(p)
         \/ SyncMoves(p)
         \/ \E r \in Rid : Approve(p, r) \/ Reject(p, r)
         \/ Stage(p) \/ CommitIndex(p) \/ CommitFails(p) \/ Send(p) \/ SendFails(p) \/ Record(p)
         \/ Merge(p) \/ MergeUnanswered(p) \/ Close(p) \/ PushMain(p)
         \/ SyncFails(p)
  PROVE  call'[p].at \in Rest
<1>1. ASSUME End(p) PROVE call'[p].at \in Rest
  BY <1>1 DEF End, Idle, Rest, Point
<1>2. ASSUME NEW w \in Rest, Go(p, w) PROVE call'[p].at \in Rest
  BY <1>2 DEF Go, Call, Rest, Point
<1>4. ASSUME NextRow(p) PROVE call'[p].at \in Rest
  BY <1>4 DEF NextRow, Call, Rest, Point
<1>5. ASSUME NEW what \in SUBSET Edit \ {{}}, FileCommit(p, what) PROVE call'[p].at = "file"
  BY <1>5 DEF FileCommit, Start, Idle
<1>6. CASE FilePush(p) \/ List(p) \/ PushMain(p)
  <2>1. call'[p].at \in {"look", "reconcile"}
    BY <1>6 DEF FilePush, List, PushMain, Start, Idle
  <2> QED
    BY <2>1 DEF Rest, Point
<1>7. CASE \E r \in Rid : Approve(p, r)
  <2>1. call'[p].at \in {"list", "pull"}
    BY <1>7 DEF Approve, Start, Idle
  <2> QED
    BY <2>1 DEF Rest, Point
<1>8. CASE \E r \in Rid : Reject(p, r)
  <2>1. PICK r \in Rid : Reject(p, r)
    BY <1>8
  <2>2. PICK where \in {"pull", "finish"} :
          Start(p, [Idle EXCEPT !.at = where, !.op = "refuse", !.r = r, !.i = r, !.verdict = "rejected"])
    BY <2>1 DEF Reject
  <2>3. call'[p].at = where
    BY <2>2 DEF Start, Idle
  <2> QED
    BY <2>3 DEF Rest, Point
<1> USE DEF Rest, Point
<1>9. CASE \/ FileCommitWrites(p) \/ InsertRow(p) \/ Withdraw(p) \/ Cancelled(p) \/ CommitFails(p)
           \/ Record(p)
  BY <1>1, <1>9 DEF FileCommitWrites, InsertRow, Withdraw, Cancelled, CommitFails, Record
<1>10. CASE Lists(p) \/ Reconcile(p)
  BY <1>1, <1>10 DEF Lists, Reconcile, Go, Call
<1>11. CASE Pull(p)
  BY <1>1, <1>4, <1>11 DEF Pull, Call
<1>12. CASE CallFails(p) \/ Finish(p)
  BY <1>1, <1>4, <1>12 DEF CallFails, Finish, Call
<1>13. AfterSync(p) \in {"finish", "stage", "send"}
  BY DEF AfterSync
<1>14. CASE SyncMoves(p) \/ SyncFails(p)
  BY <1>1, <1>13, <1>14 DEF SyncMoves, SyncFails, Go, Call
<1>15. CASE Stage(p) \/ CommitIndex(p) \/ Merge(p) \/ MergeUnanswered(p) \/ Close(p) \/ Drop(p)
  BY <1>1, <1>2, <1>15 DEF Stage, CommitIndex, Merge, MergeUnanswered, Close, Drop
<1>16. CASE Send(p) \/ SendFails(p)
  <2>1. ASSUME NEW well \in BOOLEAN, AfterSend(p, well) PROVE call'[p].at \in Rest
    BY <1>1, <1>2, <2>1 DEF AfterSend
  <2> DEFINE fits == gmain \subseteq main
  <2>2. AfterSend(p, fits) \/ AfterSend(p, FALSE)
    BY <1>16, Zenon DEF Send, SendFails
  <2>3. fits \in BOOLEAN
    OBVIOUS
  <2> HIDE DEF fits
  <2>4. CASE AfterSend(p, fits)
    BY <2>1, <2>3, <2>4
  <2>5. CASE AfterSend(p, FALSE)
    BY <2>1, <2>5
  <2> QED
    BY <2>2, <2>4, <2>5
<1> QED
  BY <1>5, <1>6, <1>7, <1>8, <1>9, <1>10, <1>11, <1>12, <1>14, <1>15, <1>16, Zenon

\* Filing outlives a step of a handler that files nothing, before or after.
LEMMA FilingRests ==
  ASSUME Shape, Rows, Filing, Evolves, NEW p \in Handler, Others(p),
         call[p].at \notin {"insert", "withdraw"}, call'[p].at \notin {"insert", "withdraw"},
         \A r \in Rid : row[r].kind = "push" /\ ~Written(r) => row'[r] = row[r], UNCHANGED pr
  PROVE  Filing'
<1>1. \A r \in Rid : ~Files(p, r)
  BY DEF Files
<1>2. \A r \in Rid : pr[r] = "open" => row[r].kind # "none"
  BY DEF Rows, Agreed
<1> QED
  BY <1>1, <1>2, FilingStays DEF Written

-----------------------------------------------------------------------------
\* What a branch holds.

LEMMA EditIn ==
  ASSUME NEW h, NEW x
  PROVE  x \in EditsIn(h) <=> \E c \in h : x \in c.edits
BY DEF EditsIn

LEMMA EditsOfMore ==
  ASSUME NEW h, NEW g
  PROVE  EditsIn(h \cup g) = EditsIn(h) \cup EditsIn(g)
BY EditIn

LEMMA EditsOfOne ==
  ASSUME NEW r, NEW e
  PROVE  EditsIn({[req |-> r, edits |-> e]}) = e
<1> DEFINE c == [req |-> r, edits |-> e]
<1>1. c.edits = e
  OBVIOUS
<1> HIDE DEF c
<1>2. \A x : x \in EditsIn({c}) <=> x \in c.edits
  BY EditIn
<1> QED
  BY <1>1, <1>2 DEF c

\* A commit on top of a branch.
LEMMA EditsOnTop ==
  ASSUME NEW h \in SUBSET Commit, NEW r \in Rid, NEW all \in SUBSET Edit
  PROVE  LET g == h \cup {[req |-> r, edits |-> all \ EditsIn(h)]}
         IN  g \subseteq Commit /\ EditsIn(g) = EditsIn(h) \cup all
<1> DEFINE c == [req |-> r, edits |-> all \ EditsIn(h)]
<1>1. c \in Commit
  BY DEF Commit
<1>2. EditsIn({c}) = all \ EditsIn(h)
  BY EditsOfOne
<1> HIDE DEF c
<1>3. EditsIn(h \cup {c}) = EditsIn(h) \cup EditsIn({c})
  BY EditsOfMore
<1> QED
  BY <1>1, <1>2, <1>3 DEF c

LEMMA WantedIs ==
  ASSUME NEW x
  PROVE  x \in Wanted <=> \E r \in asked : x \in row[r].what
BY DEF Wanted

LEMMA WantedGrows ==
  ASSUME Evolves, asked \subseteq Rid
  PROVE  Wanted \subseteq Wanted'
<1>1. \A x : x \in Wanted => x \in Wanted'
  BY DEF Wanted, Evolves
<1> QED
  BY <1>1

\* A request that is asked for is wanted.
LEMMA AskedIsWanted ==
  ASSUME NEW r \in asked
  PROVE  row[r].what \subseteq Wanted
BY DEF Wanted

\* A handler that does not take Gitea's main to move to leaves what is seen as it was.
LEMMA ContentsStay ==
  ASSUME Shape, Contents, Evolves,
         \A q \in Handler : call'[q].at = "move" => call'[q] = call[q],
         tree \subseteq tree' /\ tree' \subseteq Edit,
         index' \subseteq tree' /\ index' \subseteq Wanted',
         main' \subseteq Commit /\ EditsIn(main') \subseteq index',
         gmain' \subseteq Commit /\ EditsIn(gmain') \subseteq tree' \cap Wanted',
         branch' \in [Rid -> SUBSET Commit] /\ \A r \in Rid : branch'[r] \subseteq branch[r]
  PROVE  Contents'
<1>1. Wanted \subseteq Wanted'
  BY WantedGrows DEF Shape
<1>2. EditsIn(main)' = EditsIn(main') /\ EditsIn(gmain)' = EditsIn(gmain')
  BY DEF EditsIn
<1>3. ASSUME NEW q \in Handler, call'[q].at = "move"
      PROVE  call'[q].seen \subseteq Commit /\ EditsIn(call[q].seen)' \subseteq tree' \cap Wanted'
  <2>1. call'[q] = call[q] /\ EditsIn(call[q].seen)' = EditsIn(call[q].seen)
    BY <1>3 DEF EditsIn
  <2> QED
    BY <1>1, <1>3, <2>1 DEF Contents
<1>4. ASSUME NEW r \in Rid
      PROVE  EditsIn(branch[r])' \subseteq tree' \cap (Wanted' \cup row'[r].what)
  <2>1. EditsIn(branch[r])' = EditsIn(branch'[r])
    BY DEF EditsIn
  <2>2. EditsIn(branch'[r]) \subseteq EditsIn(branch[r])
    BY EditIn
  <2>3. row[r].what \subseteq row'[r].what
    BY DEF Evolves
  <2>4. EditsIn(branch[r]) \subseteq tree \cap (Wanted \cup row[r].what)
    BY DEF Contents
  <2> QED
    BY <1>1, <2>1, <2>2, <2>3, <2>4
<1> QED
  BY <1>2, <1>3, <1>4 DEF Contents

-----------------------------------------------------------------------------
\* Every step keeps it.

IInv == Shape /\ Rows /\ Numbered /\ (\A p \in Handler : Sound(p)) /\ Filing /\ Contents

LEMMA InitInv == Init => IInv
<1> SUFFICES ASSUME Init PROVE IInv
  OBVIOUS
<1>1. Shape
  BY IdleIsCall, Limits DEF Init, Shape, Row, NoRow
<1>2. Rows
  BY DEF Init, Rows, Agreed, NoRow, Written
<1>3. Numbered
  <2>1. Used = 1..0
    BY DEF Init, Used, NoRow
  <2> QED
    BY <2>1, Limits DEF Numbered
<1>4. \A p \in Handler : Sound(p)
  BY DEF Init, Sound, Idle
<1>5. Filing
  BY DEF Init, Filing, Idle, Files
<1>6. Contents
  BY DEF Init, Contents, EditsIn, Idle
<1> QED
  BY <1>1, <1>2, <1>3, <1>4, <1>5, <1>6 DEF IInv

\* A handler's step, when what it does to the rows and to the branches is known.
LEMMA HandlerKeeps ==
  ASSUME IInv, NEW p \in Handler, Shape', Others(p), Sound(p)', Rows', Numbered', Evolves,
         Filing', Contents'
  PROVE  IInv'
<1>1. \A q \in Handler : q # p => Sound(q)'
  BY SoundStays DEF IInv, Others
<1> QED
  BY <1>1 DEF IInv

\* ... and when it leaves the branches alone, or deletes some.
LEMMA BranchesStay ==
  ASSUME IInv, NEW p \in Handler, Others(p), Evolves, call'[p].at # "move", UNCHANGED repo,
         branch' \in [Rid -> SUBSET Commit] /\ \A r \in Rid : branch'[r] \subseteq branch[r]
  PROVE  Contents'
<1>1. \A q \in Handler : call'[q].at = "move" => call'[q] = call[q]
  BY DEF Others
<1>2. Wanted \subseteq Wanted'
  BY WantedGrows DEF IInv, Shape
<1> QED
  BY <1>1, <1>2, ContentsStay DEF IInv, Contents, repo

LEMMA QuietKeeps ==
  ASSUME IInv, NEW p \in Handler, Shape', Others(p), Sound(p)', UNCHANGED <<row, pr, landed>>,
         asked \subseteq asked', strayed \subseteq strayed',
         call[p].at \notin {"insert", "withdraw"}, call'[p].at \notin {"insert", "withdraw"}, Contents'
  PROVE  IInv'
<1>1. Rows' /\ Numbered' /\ Evolves
  BY QuietEvolves DEF IInv
<1>2. Filing'
  BY <1>1, FilingRests DEF IInv
<1> QED
  BY <1>1, <1>2, HandlerKeeps

LEMMA TalkKeeps ==
  ASSUME IInv, NEW p \in Handler,
         \/ \E what \in SUBSET Edit \ {{}} : FileCommit(p, what)
         \/ FilePush(p) \/ List(p) \/ PushMain(p) \/ Lists(p) \/ Reconcile(p) \/ Pull(p)
         \/ CallFails(p) \/ SyncFails(p) \/ \E r \in Rid : Approve(p, r) \/ Reject(p, r)
         \/ CommitFails(p) \/ SendFails(p)
  PROVE  IInv'
<1>1. /\ Shape' /\ Others(p) /\ Sound(p)' /\ UNCHANGED <<row, pr, landed>>
      /\ asked \subseteq asked' /\ strayed \subseteq strayed'
  <2>1. CASE UNCHANGED history /\ Shape' /\ Others(p) /\ Sound(p)' /\ UNCHANGED <<row, pr>>
    BY <2>1 DEF history
  <2>2. CASE \E r \in Rid : Approve(p, r) \/ Reject(p, r)
    BY <2>2, DecisionSteps DEF IInv
  <2> QED
    BY <2>1, <2>2, BeginSteps, ReconcileSteps, SyncSteps, CommitSteps DEF IInv, Contents
<1>2. call'[p].at \in Rest
  BY Lands DEF IInv, Shape
<1>3. UNCHANGED <<repo, branch>> /\ call[p].at \notin {"insert", "withdraw"}
  <2>1. ASSUME NEW c, Start(p, c) PROVE UNCHANGED <<repo, branch>> /\ call[p].at \notin {"insert", "withdraw"}
    BY <2>1 DEF Start, At
  <2>2. CASE \/ \E what \in SUBSET Edit \ {{}} : FileCommit(p, what)
             \/ FilePush(p) \/ List(p) \/ PushMain(p)
    BY <2>1, <2>2 DEF FileCommit, FilePush, List, PushMain
  <2>3. CASE \E r \in Rid : Approve(p, r) \/ Reject(p, r)
    BY <2>1, <2>3 DEF Approve, Reject
  <2>4. CASE \/ Lists(p) \/ Reconcile(p) \/ Pull(p) \/ CallFails(p) \/ SyncFails(p) \/ CommitFails(p)
             \/ SendFails(p)
    BY <2>4 DEF Lists, Reconcile, Pull, CallFails, SyncFails, CommitFails, SendFails, requests, At
  <2> QED
    BY <2>2, <2>3, <2>4
<1>4. Evolves
  BY <1>1, QuietEvolves
<1>5. Contents'
  BY <1>1, <1>2, <1>3, <1>4, BranchesStay DEF Rest, IInv, Contents
<1> QED
  BY <1>1, <1>2, <1>3, <1>5, QuietKeeps DEF Rest

LEMMA RowKeeps ==
  ASSUME IInv, NEW p \in Handler, FileCommitWrites(p) \/ Finish(p) \/ Record(p)
  PROVE  IInv'
<1>1. call'[p].at \in Rest
  BY Lands DEF IInv, Shape
<1>2. UNCHANGED <<repo, branch>> /\ call[p].at \notin {"insert", "withdraw"}
  BY DEF FileCommitWrites, Finish, Record, At
<1>3. /\ Shape' /\ Others(p) /\ Sound(p)' /\ Rows' /\ Numbered' /\ Evolves /\ UNCHANGED pr
      /\ \A r \in Rid : row[r].kind = "push" /\ ~Written(r) => row'[r] = row[r]
  BY FileCommitWritesStep, DecidingSteps DEF IInv
<1>4. Filing'
  BY <1>1, <1>2, <1>3, FilingRests DEF IInv, Rest
<1>5. Contents'
  BY <1>1, <1>2, <1>3, BranchesStay DEF IInv, Contents, Rest
<1> QED
  BY <1>3, <1>4, <1>5, HandlerKeeps

\* The end of a filing, a close, and a branch deleted.
LEMMA CloseKeeps ==
  ASSUME IInv, NEW p \in Handler,
         InsertRow(p) \/ InsertFails(p) \/ Withdraw(p) \/ Cancelled(p) \/ Close(p) \/ Drop(p)
  PROVE  IInv'
<1>1. Shape' /\ Others(p) /\ Sound(p)' /\ Rows' /\ Numbered' /\ Evolves /\ Filing'
  BY InsertSteps, InsertFailsStep, GiteaSteps DEF IInv
<1>2. call'[p].at # "move"
  <2>1. CASE InsertFails(p)
    BY <2>1 DEF InsertFails, Go, IInv, Shape, Call
  <2> QED
    BY <2>1, Lands DEF IInv, Shape, Rest
<1>3. UNCHANGED repo
  BY DEF InsertRow, InsertFails, Withdraw, Cancelled, Close, Drop
<1>4. branch' \in [Rid -> SUBSET Commit] /\ \A r \in Rid : branch'[r] \subseteq branch[r]
  <2>1. \A r : [branch EXCEPT ![r] = {}] \in [Rid -> SUBSET Commit]
               /\ \A z \in Rid : [branch EXCEPT ![r] = {}][z] \subseteq branch[z]
    BY DEF IInv, Contents
  <2>2. branch' = branch \/ \E r : branch' = [branch EXCEPT ![r] = {}]
    BY DEF InsertRow, InsertFails, Withdraw, Cancelled, Close, Drop, requests
  <2> QED
    BY <2>1, <2>2 DEF IInv, Contents
<1>5. Contents'
  BY <1>1, <1>2, <1>3, <1>4, BranchesStay
<1> QED
  BY <1>1, <1>5, HandlerKeeps

\* A pull request is filed: its commit is on top of main, its row asks for the whole tree.
LEMMA SnapKeeps ==
  ASSUME IInv, NEW p \in Handler, Snap(p)
  PROVE  IInv'
<1> DEFINE n == NextRid
           new == main \cup {[req |-> n, edits |-> tree \ EditsIn(main)]}
<1>1. /\ Shape' /\ Others(p) /\ Sound(p)' /\ Rows' /\ Numbered' /\ Evolves /\ UNCHANGED history
      /\ \/ End(p) /\ UNCHANGED <<row, pr, branch>>
         \/ /\ n \in Rid /\ row[n].kind = "none"
            /\ call'[p].at = "insert" /\ call'[p].r = n
            /\ row'[n] = [kind |-> "push", what |-> tree, status |-> "none"]
            /\ branch' = [branch EXCEPT ![n] = new]
            /\ \A r \in Rid : r # n => row'[r] = row[r] /\ pr'[r] = pr[r]
  BY SnapStep DEF IInv, Contents
<1>2. UNCHANGED repo /\ call[p].at = "snap"
  BY DEF Snap, At
<1> HIDE DEF n, new
<1>3. CASE End(p) /\ UNCHANGED <<row, pr, branch>>
  <2>1. call'[p].at = "idle"
    BY <1>3, EndIs DEF Idle, IInv
  <2>2. Contents'
    BY <1>1, <1>2, <1>3, <2>1, BranchesStay DEF IInv, Contents
  <2> QED
    BY <1>1, <1>2, <1>3, <2>1, <2>2, QuietKeeps DEF history
<1>4. CASE /\ n \in Rid /\ row[n].kind = "none"
           /\ call'[p].at = "insert" /\ call'[p].r = n
           /\ row'[n] = [kind |-> "push", what |-> tree, status |-> "none"]
           /\ branch' = [branch EXCEPT ![n] = new]
           /\ \A r \in Rid : r # n => row'[r] = row[r] /\ pr'[r] = pr[r]
  <2>1. \A q \in Handler : q # p => call'[q] = call[q]
    BY <1>1 DEF Others
  <2>2. \A q \in Handler : q # p /\ call[q].at \in {"insert", "withdraw"} =>
          call[q].r \in Rid /\ row[call[q].r].kind = "push" /\ ~Written(call[q].r) /\ call[q].r # n
    BY <1>4 DEF IInv, Filing, Shape, Call
  <2>3. Filing'
    <3>1. n # 0 /\ row'[n].kind = "push" /\ row'[n].status = "none"
      BY <1>4 DEF Rid
    <3>2. ASSUME NEW q \in Handler, call'[q].at \in {"insert", "withdraw"}
          PROVE  call'[q].r # 0 /\ row'[call'[q].r].kind = "push" /\ row'[call'[q].r].status = "none"
      <4>1. CASE q = p
        BY <1>4, <3>1, <4>1
      <4>2. CASE q # p
        BY <1>4, <2>1, <2>2, <3>2, <4>2 DEF IInv, Filing, Written
      <4> QED
        BY <4>1, <4>2
    <3>3. ASSUME NEW q \in Handler, NEW z \in Handler, q # z, call'[q].at \in {"insert", "withdraw"}
          PROVE  ~(call'[z].at \in {"insert", "withdraw"} /\ call'[z].r = call'[q].r)
      <4>1. CASE q = p
        BY <1>4, <2>1, <2>2, <3>3, <4>1
      <4>2. CASE z = p
        BY <1>4, <2>1, <2>2, <3>3, <4>2
      <4>3. CASE q # p /\ z # p
        BY <2>1, <3>3, <4>3 DEF IInv, Filing, Files
      <4> QED
        BY <4>1, <4>2, <4>3
    <3>4. ASSUME NEW r \in Rid, pr'[r] = "open", row'[r].status = "none", r \notin strayed'
          PROVE  \E q \in Handler : call'[q].at \in {"insert", "withdraw"} /\ call'[q].r = r
      <4>1. CASE r = n
        BY <1>4, <4>1
      <4>2. CASE r # n
        <5>1. pr[r] = "open" /\ ~Written(r) /\ r \notin strayed
          BY <1>1, <1>4, <3>4, <4>2 DEF Written, history
        <5>2. PICK q \in Handler : Files(q, r)
          BY <5>1 DEF IInv, Filing
        <5>3. q # p
          BY <1>2, <5>2 DEF Files
        <5> QED
          BY <2>1, <5>2, <5>3 DEF Files
      <4> QED
        BY <4>1, <4>2
    <3> QED
      BY <3>2, <3>3, <3>4 DEF Filing, Files, Written
  <2>4. Contents'
    <3>1. new \subseteq Commit /\ EditsIn(new) = EditsIn(main) \cup tree
      <4>1. main \in SUBSET Commit /\ tree \in SUBSET Edit /\ n \in Rid
        BY <1>4 DEF IInv, Contents
      <4> QED
        BY <4>1, EditsOnTop DEF new
    <3>2. EditsIn(new) = tree
      BY <3>1 DEF IInv, Contents
    <3>3. /\ row'[n].what = tree /\ branch'[n] = new /\ branch' \in [Rid -> SUBSET Commit]
          /\ \A r \in Rid : r # n => branch'[r] = branch[r] /\ row'[r] = row[r]
      BY <1>4, <3>1 DEF IInv, Contents
    <3>4. Wanted \subseteq Wanted'
      BY <1>1, WantedGrows DEF IInv, Shape
    <3>5. ASSUME NEW r \in Rid
          PROVE  EditsIn(branch'[r]) \subseteq tree \cap (Wanted' \cup row'[r].what)
      <4>1. CASE r = n
        BY <3>2, <3>3, <4>1
      <4>2. CASE r # n
        BY <3>3, <3>4, <4>2 DEF IInv, Contents
      <4> QED
        BY <4>1, <4>2
    <3>6. UNCHANGED <<tree, index, main, gmain>> /\ EditsIn(main)' = EditsIn(main) /\ EditsIn(gmain)' = EditsIn(gmain)
      BY <1>2 DEF repo, EditsIn
    <3>7. \A q \in Handler : call'[q].at = "move" => call'[q] = call[q]
      BY <1>4, <2>1
    <3>8. \A r \in Rid : EditsIn(branch[r])' = EditsIn(branch'[r])
      BY DEF EditsIn
    <3>9. \A q \in Handler : EditsIn(call[q].seen)' = EditsIn(call'[q].seen)
      BY DEF EditsIn
    <3> QED
      BY <3>3, <3>4, <3>5, <3>6, <3>7, <3>8, <3>9 DEF IInv, Contents
  <2> QED
    BY <1>1, <2>3, <2>4, HandlerKeeps
<1> QED
  BY <1>1, <1>3, <1>4

LEMMA SyncKeeps ==
  ASSUME IInv, NEW p \in Handler, SyncLooks(p) \/ SyncMoves(p)
  PROVE  IInv'
<1>1. /\ Shape' /\ Others(p) /\ Sound(p)' /\ UNCHANGED <<row, pr, history>>
      /\ call[p].at \in {"look", "move"}
  BY SyncSteps DEF IInv, Contents, SyncLooks, SyncMoves, At
<1>2. Evolves /\ Wanted' = Wanted
  BY <1>1, QuietEvolves DEF history, Wanted
<1>3. CASE SyncLooks(p)
  <2>1. UNCHANGED <<repo, branch>>
    BY <1>3 DEF SyncLooks, requests
  <2>2. call'[p].at \notin {"insert", "withdraw"} /\ (call'[p].at = "move" => call'[p].seen = gmain)
    <3>1. CASE call' = [call EXCEPT ![p].at = "move", ![p].seen = gmain]
      BY <3>1 DEF IInv, Shape, Call
    <3>2. CASE Go(p, AfterSync(p))
      <4>1. AfterSync(p) \in {"finish", "stage", "send"}
        BY DEF AfterSync
      <4> QED
        BY <3>2, <4>1 DEF Go, IInv, Shape, Call
    <3> QED
      BY <1>3, <3>1, <3>2 DEF SyncLooks
  <2>3. Contents'
    <3>1. /\ UNCHANGED <<tree, index, main, gmain, branch>>
          /\ EditsIn(main)' = EditsIn(main) /\ EditsIn(gmain)' = EditsIn(gmain)
          /\ \A r \in Rid : EditsIn(branch[r])' = EditsIn(branch[r])
          /\ \A q \in Handler : EditsIn(call[q].seen)' = EditsIn(call'[q].seen)
      BY <2>1 DEF repo, EditsIn
    <3>2. ASSUME NEW q \in Handler, call'[q].at = "move"
          PROVE  call'[q].seen \subseteq Commit /\ EditsIn(call'[q].seen) \subseteq tree \cap Wanted
      <4>1. CASE q = p
        BY <2>2, <3>2, <4>1 DEF IInv, Contents
      <4>2. CASE q # p
        BY <1>1, <3>2, <4>2 DEF Others, IInv, Contents
      <4> QED
        BY <4>1, <4>2
    <3> QED
      BY <1>1, <1>2, <3>1, <3>2 DEF IInv, Contents
  <2> QED
    BY <1>1, <2>2, <2>3, QuietKeeps DEF history
<1>4. CASE SyncMoves(p)
  <2>1. call'[p].at \in Rest
    BY <1>4, Lands DEF IInv, Shape
  <2>2. /\ At(p, "move") /\ main' = call[p].seen /\ index' = EditsIn(call[p].seen)
        /\ UNCHANGED <<tree, gmain, branch>>
    BY <1>4 DEF SyncMoves, requests
  <2>3. \A q \in Handler : call'[q].at = "move" => call'[q] = call[q]
    BY <1>1, <2>1 DEF Others, Rest
  <2>4. call[p].seen \subseteq Commit /\ EditsIn(call[p].seen) \subseteq tree \cap Wanted
    BY <2>2 DEF At, IInv, Contents
  <2>5. Contents'
    BY <1>2, <2>2, <2>3, <2>4, ContentsStay DEF IInv, Contents
  <2> QED
    BY <1>1, <2>1, <2>5, QuietKeeps DEF history, Rest
<1> QED
  BY <1>3, <1>4

\* What is staged was asked for, and so is what is committed from it and sent.
LEMMA CommitKeeps ==
  ASSUME IInv, NEW p \in Handler, Stage(p) \/ CommitIndex(p) \/ Send(p)
  PROVE  IInv'
<1>1. Shape' /\ Others(p) /\ Sound(p)' /\ UNCHANGED <<row, pr, history>>
  BY CommitSteps DEF IInv
<1>2. Evolves /\ Wanted' = Wanted
  BY <1>1, QuietEvolves DEF history, Wanted
<1>3. call'[p].at \in Rest /\ call[p].at \notin {"insert", "withdraw"}
  BY Lands DEF IInv, Shape, Stage, CommitIndex, Send, At
<1>4. \A q \in Handler : call'[q].at = "move" => call'[q] = call[q]
  BY <1>1, <1>3 DEF Others, Rest
<1>5. call[p].at \in {"stage", "commit"} => call[p].r \in asked /\ call[p].r \in Rid
  BY DEF IInv, Sound, Shape
<1>6. Contents'
  <2>1. CASE Stage(p)
    <3>1. index' = index \cup (row[call[p].r].what \cap tree) /\ UNCHANGED <<tree, main, gmain, branch>>
          /\ call[p].r \in asked
      BY <1>5, <2>1 DEF Stage, requests, At
    <3>2. row[call[p].r].what \subseteq Wanted
      BY <3>1, AskedIsWanted
    <3> QED
      BY <1>2, <1>4, <3>1, <3>2, ContentsStay DEF IInv, Contents
  <2>2. CASE CommitIndex(p)
    <3> DEFINE new == main \cup {[req |-> call[p].r, edits |-> index \ EditsIn(main)]}
    <3>1. (main' = new \/ main' = main) /\ UNCHANGED <<tree, index, gmain, branch>> /\ call[p].r \in Rid
      BY <1>5, <2>2 DEF CommitIndex, requests, At
    <3>2. new \subseteq Commit /\ EditsIn(new) = EditsIn(main) \cup index
      BY <3>1, EditsOnTop DEF IInv, Contents
    <3> HIDE DEF new
    <3>3. main' \subseteq Commit /\ EditsIn(main') \subseteq index
      BY <3>1, <3>2 DEF IInv, Contents
    <3> QED
      BY <1>2, <1>4, <3>1, <3>3, ContentsStay DEF IInv, Contents
  <2>3. CASE Send(p)
    <3>1. gmain' \in {main, gmain} /\ UNCHANGED <<tree, index, main, branch>>
      BY <2>3 DEF Send, requests
    <3>2. gmain' \subseteq Commit /\ EditsIn(gmain') \subseteq tree \cap Wanted
      BY <3>1 DEF IInv, Contents
    <3> QED
      BY <1>2, <1>4, <3>1, <3>2, ContentsStay DEF IInv, Contents
  <2> QED
    BY <2>1, <2>2, <2>3
<1> QED
  BY <1>1, <1>3, <1>6, QuietKeeps DEF history, Rest

\* A branch that is merged was asked for.
LEMMA MergeIsWanted ==
  ASSUME IInv, NEW r \in Rid, r \in asked', Evolves, UNCHANGED <<row, tree, index, main, branch>>,
         gmain' \in {gmain, gmain \cup branch[r]},
         \A q \in Handler : call'[q].at = "move" => call'[q] = call[q]
  PROVE  Contents'
<1>1. Wanted \subseteq Wanted'
  BY WantedGrows DEF IInv, Shape
<1>2. row[r].what \subseteq Wanted'
  BY DEF Wanted
<1>3. EditsIn(gmain \cup branch[r]) = EditsIn(gmain) \cup EditsIn(branch[r])
  BY EditsOfMore
<1>4. EditsIn(branch[r]) \subseteq tree \cap (Wanted \cup row[r].what) /\ branch[r] \subseteq Commit
  BY DEF IInv, Contents
<1>5. gmain' \subseteq Commit /\ EditsIn(gmain') \subseteq tree \cap Wanted'
  BY <1>1, <1>2, <1>3, <1>4 DEF IInv, Contents
<1> QED
  BY <1>1, <1>5, ContentsStay DEF IInv, Contents

LEMMA MergeKeeps ==
  ASSUME IInv, NEW p \in Handler, Merge(p) \/ MergeUnanswered(p)
  PROVE  IInv'
<1>1. Shape' /\ Others(p) /\ Sound(p)' /\ Rows' /\ Numbered' /\ Evolves /\ Filing'
  BY GiteaSteps DEF IInv
<1>2. call'[p].at \in Rest
  BY Lands DEF IInv, Shape
<1>3. call[p].r \in Rid /\ call[p].r \in asked
  BY DEF Merge, MergeUnanswered, At, IInv, Sound, Shape
<1>4. UNCHANGED <<row, tree, index, main, branch, asked>> /\ gmain' \in {gmain, gmain \cup branch[call[p].r]}
  BY DEF Merge, MergeUnanswered, MergeIn
<1>5. \A q \in Handler : call'[q].at = "move" => call'[q] = call[q]
  BY <1>1, <1>2 DEF Others, Rest
<1>6. Contents'
  BY <1>1, <1>3, <1>4, <1>5, MergeIsWanted
<1> QED
  BY <1>1, <1>6, HandlerKeeps

LEMMA HandKeeps ==
  ASSUME IInv, NEW r \in Rid,
         HandMerge(r) \/ HandClose(r) \/ HandReopen(r) \/ HandDelete(r)
  PROVE  IInv'
<1>1. Shape' /\ Rows' /\ Numbered' /\ Evolves /\ Filing' /\ UNCHANGED <<row, call>>
  BY HandSteps DEF IInv
<1>2. \A p \in Handler : Sound(p)'
  BY <1>1, SoundStays DEF IInv
<1>3. Contents'
  <2>1. CASE HandMerge(r)
    <3>1. UNCHANGED <<tree, index, main, branch>> /\ gmain' = gmain \cup branch[r] /\ r \in asked'
      BY <2>1 DEF HandMerge, MergeIn
    <3> QED
      BY <1>1, <3>1, MergeIsWanted
  <2>2. CASE HandClose(r) \/ HandReopen(r) \/ HandDelete(r)
    <3>1. UNCHANGED <<tree, index, main, gmain, branch>>
      BY <2>2 DEF HandClose, HandReopen, HandDelete, repo
    <3>2. Wanted \subseteq Wanted'
      BY <1>1, WantedGrows DEF IInv, Shape
    <3> QED
      BY <1>1, <3>1, <3>2, ContentsStay DEF IInv, Contents
  <2> QED
    BY <2>1, <2>2
<1> QED
  BY <1>1, <1>2, <1>3 DEF IInv

LEMMA OutsideKeeps ==
  ASSUME IInv, Restart \/ SwitchOff \/ SwitchOn \/ \E e \in Edit : Write(e)
  PROVE  IInv'
<1>1. CASE Restart
  <2> DEFINE cut == {call[p].r : p \in {q \in Handler : call[q].at \in {"insert", "withdraw"}}}
  <2>1. /\ call' = [p \in Handler |-> Idle]
        /\ UNCHANGED <<tree, index, main, gmain, row, pr, branch, asked, landed, on, calls>>
        /\ faults' \in 0..MaxFaults /\ strayed' = strayed \cup cut
    BY <1>1, Limits DEF Restart, Fault, repo, IInv, Shape
  <2>2. cut \subseteq Rid
    <3>1. \A p \in Handler : call[p].at \in {"insert", "withdraw"} => call[p].r \in Rid
      BY DEF IInv, Filing, Shape, Call
    <3> QED
      BY <3>1
  <2>3. \A p \in Handler, r \in Rid : Files(p, r) => r \in cut
    BY DEF Files
  <2> HIDE DEF cut
  <2>4. Shape'
    BY <2>1, <2>2, IdleIsCall DEF IInv, Shape
  <2>5. Rows' /\ Numbered' /\ Evolves
    BY <2>1, QuietEvolves DEF IInv
  <2>6. \A p \in Handler : Sound(p)'
    BY <2>1, IdleIsSound
  <2>7. Filing'
    <3>1. \A p \in Handler : call'[p].at = "idle"
      BY <2>1 DEF Idle
    <3>2. ASSUME NEW r \in Rid, pr'[r] = "open", ~Written(r)' PROVE r \in strayed'
      <4>1. pr[r] = "open" /\ ~Written(r)
        BY <2>1, <3>2 DEF Written
      <4> QED
        BY <2>1, <2>3, <4>1 DEF IInv, Filing
    <3> QED
      BY <3>1, <3>2 DEF Filing
  <2>8. Wanted \subseteq Wanted'
    BY <2>5, WantedGrows DEF IInv, Shape
  <2>9. Contents'
    BY <2>1, <2>5, <2>8, ContentsStay DEF IInv, Contents, Idle
  <2> QED
    BY <2>4, <2>5, <2>6, <2>7, <2>9 DEF IInv
<1>2. CASE \E e \in Edit : Write(e)
  <2>1. PICK e \in Edit : Write(e)
    BY <1>2
  <2>2. /\ tree' = tree \cup {e}
        /\ UNCHANGED <<index, main, gmain, row, pr, branch, history, call, on, calls, faults>>
    BY <2>1 DEF Write, requests, bounds
  <2>3. Shape'
    BY <2>2 DEF IInv, Shape, history
  <2>4. Rows' /\ Numbered' /\ Evolves
    BY <2>2, QuietEvolves DEF IInv, history
  <2>5. \A p \in Handler : Sound(p)'
    BY <2>2, <2>4, SoundStays DEF IInv
  <2>6. Filing'
    BY <2>2 DEF IInv, Filing, Files, Written, history
  <2>7. Wanted \subseteq Wanted'
    BY <2>4, WantedGrows DEF IInv, Shape
  <2>8. Contents'
    BY <2>2, <2>4, <2>7, ContentsStay DEF IInv, Contents
  <2> QED
    BY <2>3, <2>4, <2>5, <2>6, <2>8 DEF IInv
<1>3. CASE SwitchOff \/ SwitchOn
  <2>1. /\ UNCHANGED <<tree, index, main, gmain, row, pr, branch, history, call, calls>>
        /\ on' \in BOOLEAN /\ (UNCHANGED faults \/ Fault)
    BY <1>3, Zenon DEF SwitchOff, SwitchOn, repo, requests
  <2>2. faults' \in 0..MaxFaults
    BY <2>1, Limits DEF IInv, Shape, Fault
  <2>3. Shape'
    BY <2>1, <2>2 DEF IInv, Shape, history
  <2>4. Rows' /\ Numbered' /\ Evolves
    BY <2>1, QuietEvolves DEF IInv, history
  <2>5. \A p \in Handler : Sound(p)'
    BY <2>1, <2>4, SoundStays DEF IInv
  <2>6. Filing'
    BY <2>1 DEF IInv, Filing, Files, Written, history
  <2>7. Contents'
    BY <2>1 DEF IInv, Contents, Wanted, EditsIn, history
  <2> QED
    BY <2>3, <2>4, <2>5, <2>6, <2>7 DEF IInv
<1> QED
  BY <1>1, <1>2, <1>3

LEMMA StutterKeeps ==
  ASSUME IInv, UNCHANGED vars
  PROVE  IInv'
<1> USE DEF vars
<1>1. Shape' /\ Rows' /\ Numbered' /\ Filing'
  BY DEF IInv, Shape, Rows, Agreed, Numbered, Used, Filing, Files, Written, Refusable
<1>2. \A p \in Handler : Sound(p)'
  BY DEF IInv, Sound, Push, Written, Refusable
<1>3. Contents'
  BY DEF IInv, Contents, Wanted, EditsIn
<1> QED
  BY <1>1, <1>2, <1>3 DEF IInv

LEMMA NextInv == IInv /\ [Next]_vars => IInv'
<1> SUFFICES ASSUME IInv, [Next]_vars PROVE IInv'
  OBVIOUS
<1>1. CASE Restart \/ SwitchOff \/ SwitchOn \/ \E e \in Edit : Write(e)
  BY <1>1, OutsideKeeps
<1>2. CASE \E r \in Rid : HandMerge(r) \/ HandClose(r) \/ HandReopen(r) \/ HandDelete(r)
  BY <1>2, HandKeeps
<1>4. ASSUME NEW p \in Handler,
         \/ \E what \in SUBSET Edit \ {{}} : FileCommit(p, what)
         \/ FileCommitWrites(p) \/ FilePush(p) \/ Snap(p) \/ InsertRow(p) \/ InsertFails(p)
         \/ Withdraw(p) \/ Cancelled(p)
         \/ List(p) \/ Lists(p) \/ Reconcile(p) \/ Pull(p) \/ Drop(p) \/ CallFails(p) \/ Finish(p)
         \/ SyncLooks(p) \/ SyncMoves(p) \/ SyncFails(p)
         \/ \E r \in Rid : Approve(p, r) \/ Reject(p, r)
         \/ Stage(p) \/ CommitIndex(p) \/ CommitFails(p) \/ Send(p) \/ SendFails(p) \/ Record(p)
         \/ Merge(p) \/ MergeUnanswered(p) \/ Close(p) \/ PushMain(p)
      PROVE  IInv'
  BY <1>4, TalkKeeps, RowKeeps, CloseKeeps, SnapKeeps, SyncKeeps, CommitKeeps, MergeKeeps
<1>5. CASE UNCHANGED vars
  BY <1>5, StutterKeeps
<1> QED
  BY <1>1, <1>2, <1>4, <1>5 DEF Next

LEMMA Invariant == Spec => []IInv
BY InitInv, NextInv, PTL DEF Spec

-----------------------------------------------------------------------------
\* Every variable keeps its type, however the handlers interleave and whatever fails.
THEOREM TypeCorrect == Spec => []TypeOK
<1>1. IInv => TypeOK
  BY DEF IInv, Shape, Contents, Row, Call, TypeOK
<1> QED
  BY <1>1, Invariant, PTL

\* A push request is approved only if its pull request was merged, and never rejected when it
\* was: reconciles, approvals, rejections and the hand in Gitea may meet in any order.  But for
\* a rejection with Gitea off, a pull request reopened by hand, and a merged one deleted.
THEOREM PushesAgree == Spec => []PushAgrees
<1>1. IInv => PushAgrees
  BY DEF IInv, Rows, Agreed, Refusable, PushAgrees
<1> QED
  BY <1>1, Invariant, PTL

\* No pull request stays open that the operator does not see on the list and no handler has in
\* hand, but for those that a restart, a stop or a failed close left behind, that were rejected
\* with Gitea off, or reopened by hand.
THEOREM NoneIsHidden == Spec => []OpenIsListed
<1>1. ASSUME IInv, NEW r \in Rid, pr[r] = "open"
      PROVE  \/ row[r].status = "pending" \/ r \in strayed
             \/ \E p \in Handler : call[p].at \in {"insert", "withdraw"} /\ call[p].r = r
  <2>1. row[r].status \in {"none", "pending", "approved", "rejected"} /\ row[r].kind = "push"
    BY <1>1 DEF IInv, Shape, Row, Rows, Agreed
  <2>2. CASE row[r].status = "none"
    BY <1>1, <2>2 DEF IInv, Filing, Files, Written
  <2>3. CASE row[r].status \in {"approved", "rejected"}
    BY <1>1, <2>1, <2>3 DEF IInv, Rows, Agreed, Refusable
  <2> QED
    BY <2>1, <2>2, <2>3
<1>2. IInv => OpenIsListed
  BY <1>1 DEF OpenIsListed
<1> QED
  BY <1>2, Invariant, PTL

\* Both mains hold only edits of requests that were approved or merged by hand.
THEOREM OnlyWhatWasAsked == Spec => []NothingUnasked
<1>1. IInv => NothingUnasked
  BY DEF IInv, Contents, Wanted, NothingUnasked
<1> QED
  BY <1>1, Invariant, PTL
=============================================================================
