------------------------------ MODULE GitGate ------------------------------
(***************************************************************************)
(* The git gate: gitgate.py and gitea.py.  The agent files commit requests  *)
(* and push requests (pull requests in Gitea); the operator approves or     *)
(* rejects them.  Handlers run side by side: every git command, every call  *)
(* to Gitea and every database statement is an await.                       *)
(*                                                                          *)
(* One project.  The files only gain edits, so a tree is the set of edits   *)
(* in it.  A branch is the set of the commits it reaches: A is an ancestor  *)
(* of B iff A \subseteq B, and {} stands for a base commit that both mains  *)
(* have.  Gitea's merge commit is left out, and so are the GitHub remote    *)
(* and its requests.  A step is a call to Gitea, a database statement, or   *)
(* the git commands of one purpose: Snap joins those that build and push a  *)
(* commit and the POST, CommitIndex the look at the index and the commit.   *)
(*                                                                          *)
(* A request is known by one number, its row's and its pull request's.      *)
(* Gitea may be off (enabled(): a switch, an owner, two token files); that  *)
(* is looked at when a handler starts and before a reconcile or a push, and *)
(* Gitea itself may be running all the same.                                *)
(***************************************************************************)
EXTENDS Naturals, FiniteSets, FiniteSetsExt

CONSTANTS
  Handler,    \* handlers (HTTP requests, tool calls) that may be in flight at once
  Edit,       \* edits the agent may make to the files
  MaxReq,     \* bound: requests filed
  MaxCalls,   \* bound: handlers started
  MaxFaults   \* bound: failures, restarts, stops of the agent's turn, times Gitea is switched off

ASSUME GitGateAssumption == {MaxReq, MaxCalls, MaxFaults} \subseteq Nat

Rid == 1..MaxReq
Commit == [req : Rid, edits : SUBSET Edit]

VARIABLES
  tree, index,  \* the live files, and what is staged
  main,         \* the host's main (HEAD)
  gmain,        \* Gitea's main
  row,          \* the requests: [kind, what, status]; with status "none" there is no row
  pr, branch,   \* the pull request of a push request, and its branch
  on,           \* Gitea is set up (enabled)
  call,         \* the handlers
  calls, faults,
  asked,        \* history: requests the operator approved or merged by hand
  landed,       \* history: pull requests that were merged
  strayed       \* history: pull requests that left their request's way: opened by a handler
                \* that did not live to write the row or could not close it again, rejected
                \* with Gitea off, reopened by hand, or deleted by hand once merged

vars == <<tree, index, main, gmain, row, pr, branch, on, call, calls, faults, asked, landed,
          strayed>>

EditsIn(h) == UNION {c.edits : c \in h}
NoRow == [kind |-> "none", what |-> {}, status |-> "none"]
Idle == [at |-> "idle", op |-> "none", r |-> 0, i |-> 0, todo |-> {}, seen |-> {}, verdict |-> "none"]
Used == {r \in Rid : row[r].kind # "none"}
NextRid == Cardinality(Used) + 1
PendingOf(kind) == {r \in Rid : row[r].kind = kind /\ row[r].status = "pending"}

TypeOK ==
  /\ tree \subseteq Edit /\ index \subseteq tree
  /\ main \subseteq Commit /\ gmain \subseteq Commit /\ EditsIn(main) \subseteq index
  /\ row \in [Rid -> [kind : {"none", "commit", "push"}, what : SUBSET Edit,
                      status : {"none", "pending", "approved", "rejected"}]]
  /\ pr \in [Rid -> {"none", "open", "merged", "closed", "gone"}]
  /\ branch \in [Rid -> SUBSET Commit]
  /\ \A p \in Handler : call[p].at # "idle" => call[p].i \in Rid \cup {0}
  /\ on \in BOOLEAN /\ calls \in 0..MaxCalls /\ faults \in 0..MaxFaults
  /\ asked \subseteq Rid /\ landed \subseteq Rid /\ strayed \subseteq Rid

Init ==
  /\ tree = {} /\ index = {} /\ main = {} /\ gmain = {}
  /\ row = [r \in Rid |-> NoRow]
  /\ pr = [r \in Rid |-> "none"] /\ branch = [r \in Rid |-> {}]
  /\ on = TRUE /\ call = [p \in Handler |-> Idle] /\ calls = 0 /\ faults = 0
  /\ asked = {} /\ landed = {} /\ strayed = {}

-----------------------------------------------------------------------------
repo == <<tree, index, main, gmain>>
history == <<asked, landed, strayed>>
requests == <<row, pr, branch, history>>
bounds == <<on, calls, faults>>

At(p, where) == call[p].at = where
Go(p, where) == call' = [call EXCEPT ![p].at = where]
NextRow(p) == call' = [call EXCEPT ![p].at = "reconcile", ![p].i = 0, ![p].verdict = "none"]
End(p) == call' = [call EXCEPT ![p] = Idle]
Decide(r, status) == row' = [row EXCEPT ![r].status = status]
Stray(r) == strayed' = strayed \cup {r}
Fault == faults < MaxFaults /\ faults' = faults + 1

Start(p, c) ==
  /\ At(p, "idle") /\ calls < MaxCalls /\ calls' = calls + 1
  /\ call' = [call EXCEPT ![p] = c]
  /\ UNCHANGED <<repo, row, pr, branch, on, landed, faults>>

\* Where a handler goes from a synchronised main.
AfterSync(p) ==
  CASE call[p].i # 0 -> "finish"
    [] call[p].i = 0 /\ call[p].op = "commit" -> "stage"
    [] OTHER -> "send"

-----------------------------------------------------------------------------
\* The agent.

Write(e) ==
  /\ e \notin tree /\ tree' = tree \cup {e}
  /\ UNCHANGED <<index, main, gmain, requests, call, bounds>>

\* create_request: some paths, or all there is; the pending requests it replaces are read ...
FileCommit(p, what) ==
  /\ tree # EditsIn(main) /\ NextRid \in Rid
  /\ Start(p, [Idle EXCEPT !.at = "file", !.op = "file", !.todo = PendingOf("commit"), !.seen = what])
  /\ UNCHANGED <<asked, strayed>>

\* ... and rejected as it is written.
FileCommitWrites(p) ==
  /\ At(p, "file") /\ NextRid \in Rid
  /\ row' = [r \in Rid |->
               IF r = NextRid THEN [kind |-> "commit", what |-> call[p].seen, status |-> "pending"]
               ELSE IF r \in call[p].todo /\ row[r].status = "pending"
                    THEN [row[r] EXCEPT !.status = "rejected"] ELSE row[r]]
  /\ End(p)
  /\ UNCHANGED <<repo, pr, branch, history, bounds>>

\* create_push_request: the two mains are brought together, then a reconcile, then a
\* snapshot of the live files.
FilePush(p) ==
  /\ on /\ NextRid \in Rid
  /\ Start(p, [Idle EXCEPT !.at = "look", !.op = "snap"])
  /\ UNCHANGED <<asked, strayed>>

\* One commit on top of main, pushed to its branch, and its pull request.
Snap(p) ==
  /\ At(p, "snap") /\ NextRid \in Rid
  /\ IF tree = EditsIn(main) \/ \E r \in PendingOf("push") : row[r].what = tree
     THEN End(p) /\ UNCHANGED <<row, pr, branch>>
     ELSE LET r == NextRid IN
          /\ row' = [row EXCEPT ![r] = [kind |-> "push", what |-> tree, status |-> "none"]]
          /\ pr' = [pr EXCEPT ![r] = "open"]
          /\ branch' = [branch EXCEPT ![r] = main \cup {[req |-> r, edits |-> tree \ EditsIn(main)]}]
          /\ call' = [call EXCEPT ![p].at = "insert", ![p].r = r]
  /\ UNCHANGED <<repo, history, bounds>>

InsertRow(p) ==
  /\ At(p, "insert") /\ Decide(call[p].r, "pending") /\ End(p)
  /\ UNCHANGED <<repo, pr, branch, history, bounds>>

\* Mutant: a row that could not be written leaves its pull request open.
InsertFailsQuietly(p) ==
  /\ At(p, "insert") /\ Fault /\ End(p)
  /\ UNCHANGED <<repo, requests, on, calls>>

\* No row: the pull request is to be closed again ...
InsertFails(p) ==
  /\ At(p, "insert") /\ Fault /\ Go(p, "withdraw")
  /\ UNCHANGED <<repo, requests, on, calls>>

\* ... as best it can: a failure is logged and passed over, of the branch's deletion too.
Withdraw(p) ==
  LET r == call[p].r IN
  /\ At(p, "withdraw") /\ End(p)
  /\ \/ /\ pr' = [pr EXCEPT ![r] = IF @ = "open" THEN "closed" ELSE @]
        /\ branch' \in {branch, [branch EXCEPT ![r] = {}]}
        /\ UNCHANGED <<strayed, faults>>
     \/ Fault /\ Stray(r) /\ UNCHANGED <<pr, branch>>
  /\ UNCHANGED <<repo, row, asked, landed, on, calls>>

\* The agent's turn is stopped: its tool call goes where it stands (a cancellation is no
\* `Exception`).
Cancelled(p) ==
  /\ call[p].op \in {"file", "snap"} /\ Fault /\ End(p)
  /\ IF call[p].at \in {"insert", "withdraw"} THEN Stray(call[p].r) ELSE UNCHANGED strayed
  /\ UNCHANGED <<repo, row, pr, branch, asked, landed, on, calls>>

-----------------------------------------------------------------------------
\* reconcile: pending push requests follow what was done in Gitea.

Listed == IF on THEN PendingOf("push") ELSE {}

List(p) ==
  /\ Start(p, [Idle EXCEPT !.at = "reconcile", !.op = "list", !.todo = Listed])
  /\ UNCHANGED <<asked, strayed>>

\* In the middle of a filing or of an approval; with Gitea off, a commit is not held up.
Lists(p) ==
  /\ At(p, "list")
  /\ call' = [call EXCEPT ![p].todo = Listed,
                          ![p].at = IF call[p].op = "commit" /\ ~on THEN "stage" ELSE "reconcile"]
  /\ UNCHANGED <<repo, requests, bounds>>

\* The next row, or what the handler is here for.
Reconcile(p) ==
  /\ At(p, "reconcile")
  /\ IF call[p].todo = {}
     THEN CASE call[p].op = "snap" -> Go(p, "snap")
            [] call[p].op = "commit" -> Go(p, "look")
            [] OTHER -> End(p)
     ELSE LET i == Min(call[p].todo)
          IN  call' = [call EXCEPT ![p].at = "pull", ![p].i = i, ![p].todo = @ \ {i}]
  /\ UNCHANGED <<repo, requests, bounds>>

\* Gitea is asked for the pull request of the row in hand.  Of one that is closed a reject
\* and a reconcile delete the branch first; an approve keeps it.
Pull(p) ==
  LET was == pr[call[p].i]
      Verdict(v, where) == call' = [call EXCEPT ![p].verdict = v, ![p].at = where]
  IN
  /\ At(p, "pull")
  /\ CASE call[p].op = "refuse" /\ was = "merged" -> End(p)
       [] call[p].op = "refuse" /\ was = "open" -> Verdict("rejected", "close")
       [] call[p].op # "refuse" /\ was = "merged" -> Verdict("approved", "look")
       [] was = "closed" -> Verdict("rejected", IF call[p].op = "merge" THEN "finish" ELSE "drop")
       [] was = "gone" -> Verdict("rejected", "finish")
       [] was = "open" /\ call[p].op = "merge" -> Verdict("approved", "merge")
       [] OTHER -> NextRow(p)
  /\ UNCHANGED <<repo, requests, bounds>>

\* _delete_branch; one that is gone already will do.
Drop(p) ==
  /\ At(p, "drop") /\ Go(p, "finish")
  /\ branch' = [branch EXCEPT ![call[p].i] = {}]
  /\ UNCHANGED <<repo, row, pr, history, bounds>>

\* A call fails, and an approve or a reject with it; a reconcile stops there if Gitea did
\* not answer, and goes on to the next row if it refused.
CallFails(p) ==
  /\ call[p].at \in {"pull", "close", "drop"} /\ Fault
  /\ IF call[p].op \in {"refuse", "merge"} THEN End(p)
     ELSE \E rest \in {{}, call[p].todo} :
            call' = [call EXCEPT ![p].at = "reconcile", ![p].i = 0, ![p].verdict = "none",
                                ![p].todo = rest]
  /\ UNCHANGED <<repo, requests, on, calls>>

\* _finish.
Finish(p) ==
  /\ At(p, "finish") /\ Decide(call[p].i, call[p].verdict)
  /\ IF call[p].op \in {"refuse", "merge"} THEN End(p) ELSE NextRow(p)
  /\ UNCHANGED <<repo, pr, branch, history, bounds>>

-----------------------------------------------------------------------------
\* sync_main: the host's main follows Gitea's, by a fast-forward.

\* The same, ahead, or diverged: nothing to do.
SyncLooks(p) ==
  /\ At(p, "look")
  /\ IF main # gmain /\ main \subseteq gmain
     THEN call' = [call EXCEPT ![p].at = "move", ![p].seen = gmain]
     ELSE Go(p, AfterSync(p))
  /\ UNCHANGED <<repo, requests, bounds>>

\* Mutant: reset --soft.
SyncMovesHead(p) ==
  /\ At(p, "move") /\ main' = call[p].seen /\ Go(p, AfterSync(p))
  /\ UNCHANGED <<tree, index, gmain, requests, bounds>>

\* reset --mixed: HEAD and the index.
SyncMoves(p) ==
  /\ At(p, "move")
  /\ main' = call[p].seen /\ index' = EditsIn(call[p].seen)
  /\ call' = [call EXCEPT ![p].at = AfterSync(p), ![p].seen = {}]
  /\ UNCHANGED <<tree, gmain, requests, bounds>>

\* A network or git error is recorded or passed over, and the handler goes on; but for the
\* operator's push of main, and the agent's filing if it is raised.
SyncFails(p) ==
  /\ call[p].at \in {"look", "move"} /\ Fault
  /\ \/ call[p].op # "host" /\ Go(p, AfterSync(p))
     \/ call[p].op \in {"host", "snap"} /\ call[p].i = 0 /\ End(p)
  /\ UNCHANGED <<repo, requests, on, calls>>

-----------------------------------------------------------------------------
\* approve_request.

\* With Gitea off, a push request cannot be approved.
Approve(p, r) ==
  /\ row[r].status = "pending" /\ asked' = asked \cup {r}
  /\ IF row[r].kind = "commit"
     THEN Start(p, [Idle EXCEPT !.at = "list", !.op = "commit", !.r = r])
     ELSE on /\ Start(p, [Idle EXCEPT !.at = "pull", !.op = "merge", !.r = r, !.i = r])
  /\ UNCHANGED strayed

\* Mutant: a request with paths stages everything.
StageAll(p) ==
  /\ At(p, "stage") /\ index' = tree /\ Go(p, "commit")
  /\ UNCHANGED <<tree, main, gmain, requests, bounds>>

Stage(p) ==
  /\ At(p, "stage")
  /\ index' = index \cup (row[call[p].r].what \cap tree)
  /\ Go(p, "commit")
  /\ UNCHANGED <<tree, main, gmain, requests, bounds>>

\* What is staged by now, if anything, on top of what main is by now.
CommitIndex(p) ==
  /\ At(p, "commit")
  /\ IF index = EditsIn(main) THEN Go(p, "record") /\ UNCHANGED main
     ELSE /\ main' = main \cup {[req |-> call[p].r, edits |-> index \ EditsIn(main)]}
          /\ Go(p, "send")
  /\ UNCHANGED <<tree, index, gmain, requests, bounds>>

\* A git error before the commit leaves the request pending and what is staged staged.
CommitFails(p) ==
  /\ call[p].at \in {"stage", "commit"} /\ Fault /\ End(p)
  /\ UNCHANGED <<repo, requests, on, calls>>

\* Where a push of main leaves its handler: an approval goes on, a filing if it went well.
AfterSend(p, well) ==
  CASE call[p].op = "commit" -> Go(p, "record")
    [] call[p].op = "snap" /\ well -> Go(p, "list")
    [] OTHER -> End(p)

\* push_main: Gitea takes a fast-forward only.  An approval with Gitea off has none to do.
Send(p) ==
  LET off == call[p].op = "commit" /\ ~on
      well == gmain \subseteq main
  IN
  /\ At(p, "send")
  /\ gmain' = IF well /\ ~off THEN main ELSE gmain
  /\ AfterSend(p, well)
  /\ UNCHANGED <<tree, index, main, requests, bounds>>

SendFails(p) ==
  /\ At(p, "send") /\ Fault /\ AfterSend(p, FALSE)
  /\ UNCHANGED <<repo, requests, on, calls>>

Record(p) ==
  /\ At(p, "record") /\ Decide(call[p].r, "approved") /\ End(p)
  /\ UNCHANGED <<repo, pr, branch, history, bounds>>

Mergeable(r) == pr[r] = "open" /\ branch[r] # {}
MergeIn(r) ==
  /\ pr' = [pr EXCEPT ![r] = "merged"] /\ landed' = landed \cup {r}
  /\ gmain' = gmain \cup branch[r]

\* Mutant: a merge that Gitea refused is recorded all the same.
MergeAnyway(p) ==
  /\ At(p, "merge") /\ Go(p, "look")
  /\ IF Mergeable(call[p].r) THEN MergeIn(call[p].r) ELSE UNCHANGED <<pr, landed, gmain>>
  /\ UNCHANGED <<tree, index, main, row, branch, asked, strayed, bounds>>

\* approve_push: Gitea merges, or refuses: a conflict, or a pull request that is not open.
Merge(p) ==
  /\ At(p, "merge")
  /\ \/ Mergeable(call[p].r) /\ MergeIn(call[p].r) /\ Go(p, "look")
     \/ End(p) /\ UNCHANGED <<pr, landed, gmain>>
  /\ UNCHANGED <<tree, index, main, row, branch, asked, strayed, bounds>>

\* Merged, and the answer is lost.
MergeUnanswered(p) ==
  /\ At(p, "merge") /\ Mergeable(call[p].r) /\ Fault
  /\ MergeIn(call[p].r) /\ End(p)
  /\ UNCHANGED <<tree, index, main, row, branch, asked, strayed, on, calls>>

-----------------------------------------------------------------------------
\* reject_request.

\* With Gitea off, a push request is rejected with Gitea not asked.
Reject(p, r) ==
  /\ row[r].status = "pending" /\ UNCHANGED asked
  /\ LET Refuse(where) == Start(p, [Idle EXCEPT !.at = where, !.op = "refuse", !.r = r, !.i = r,
                                                !.verdict = "rejected"])
     IN IF row[r].kind = "commit" \/ on
        THEN Refuse(IF row[r].kind = "commit" THEN "finish" ELSE "pull") /\ UNCHANGED strayed
        ELSE Refuse("finish") /\ Stray(r)

\* reject_push: Gitea closes what is open or closed; a merged one it refuses, one that is
\* gone it does not know.
Close(p) ==
  LET was == pr[call[p].r] IN
  /\ At(p, "close")
  /\ IF was \in {"open", "closed"} THEN Go(p, "drop") ELSE End(p)
  /\ pr' = [pr EXCEPT ![call[p].r] = IF was = "open" THEN "closed" ELSE was]
  /\ UNCHANGED <<repo, row, branch, history, bounds>>

\* The Git page's Push main.
PushMain(p) ==
  /\ on /\ Start(p, [Idle EXCEPT !.at = "look", !.op = "host"])
  /\ UNCHANGED <<asked, strayed>>

-----------------------------------------------------------------------------
\* By hand in Gitea, and restarts.

HandMerge(r) ==
  /\ Mergeable(r) /\ MergeIn(r) /\ asked' = asked \cup {r}
  /\ UNCHANGED <<tree, index, main, row, branch, strayed, call, bounds>>

HandClose(r) ==
  /\ pr[r] = "open" /\ pr' = [pr EXCEPT ![r] = "closed"]
  /\ UNCHANGED <<repo, row, branch, call, bounds, history>>

HandReopen(r) ==
  /\ pr[r] = "closed" /\ branch[r] # {} /\ pr' = [pr EXCEPT ![r] = "open"] /\ Stray(r)
  /\ UNCHANGED <<repo, row, branch, call, bounds, asked, landed>>

HandDelete(r) ==
  /\ pr[r] \in {"open", "closed", "merged"} /\ pr' = [pr EXCEPT ![r] = "gone"]
  /\ IF pr[r] = "merged" THEN Stray(r) ELSE UNCHANGED strayed
  /\ UNCHANGED <<repo, row, branch, call, bounds, asked, landed>>

\* Gitea is switched off, or loses a token, at any time; and is set up again.
SwitchOff ==
  /\ on /\ on' = FALSE /\ Fault
  /\ UNCHANGED <<repo, requests, call, calls>>

SwitchOn ==
  /\ ~on /\ on' = TRUE
  /\ UNCHANGED <<repo, requests, call, calls, faults>>

\* Pull requests whose rows are still to be written have none.
Restart ==
  /\ Fault /\ call' = [p \in Handler |-> Idle]
  /\ strayed' = strayed \cup {call[p].r : p \in {q \in Handler : call[q].at \in {"insert", "withdraw"}}}
  /\ UNCHANGED <<repo, row, pr, branch, asked, landed, on, calls>>

Next ==
  \/ \E e \in Edit : Write(e)
  \/ \E p \in Handler :
       \/ \E what \in SUBSET Edit \ {{}} : FileCommit(p, what)
       \/ FileCommitWrites(p) \/ FilePush(p) \/ Snap(p) \/ InsertRow(p) \/ InsertFails(p)
       \/ Withdraw(p) \/ Cancelled(p)
       \/ List(p) \/ Lists(p) \/ Reconcile(p) \/ Pull(p) \/ Drop(p) \/ CallFails(p) \/ Finish(p)
       \/ SyncLooks(p) \/ SyncMoves(p) \/ SyncFails(p)
       \/ \E r \in Rid : Approve(p, r) \/ Reject(p, r)
       \/ Stage(p) \/ CommitIndex(p) \/ CommitFails(p) \/ Send(p) \/ SendFails(p) \/ Record(p)
       \/ Merge(p) \/ MergeUnanswered(p) \/ Close(p) \/ PushMain(p)
  \/ \E r \in Rid : HandMerge(r) \/ HandClose(r) \/ HandReopen(r) \/ HandDelete(r)
  \/ SwitchOff \/ SwitchOn \/ Restart

Spec == Init /\ [][Next]_vars

-----------------------------------------------------------------------------
\* However approvals, rejections, reconciles, lost answers and the hand in Gitea meet, a push
\* request that says approved was merged, and one that says rejected was not - unless it was
\* rejected with Gitea off, reopened by hand, or deleted by hand after it was merged.
PushAgrees ==
  \A r \in Rid : row[r].kind = "push" =>
    /\ row[r].status = "approved" => r \in landed
    /\ row[r].status = "rejected" /\ r \in landed => r \in strayed

\* A pull request that is open is on the operator's list, or is being filed or withdrawn by
\* a handler in flight - unless it was left behind by a restart, a stop or a failed close,
\* rejected with Gitea off, or reopened by hand.
OpenIsListed ==
  \A r \in Rid : pr[r] = "open" =>
    \/ row[r].status = "pending" \/ r \in strayed
    \/ \E p \in Handler : call[p].at \in {"insert", "withdraw"} /\ call[p].r = r

\* Neither main holds an edit that no approved request asked for, whatever other requests
\* were staged, failed or rejected before.
NothingUnasked ==
  EditsIn(main) \cup EditsIn(gmain) \subseteq UNION {row[r].what : r \in asked}

\* Claimed of sync_main ("Only a fast-forward"): main loses no commit.
MainKeeps == [][main \subseteq main']_main
=============================================================================
