------------------------------ MODULE PlanDeps ------------------------------
(***************************************************************************)
(* The dependency rules of a plan's checklist (src/backend/plan.py, the     *)
(* section "dependency resolution (pure)"): which items may start, which    *)
(* are blocked behind a failure, and which blocks are lifted again.         *)
(*                                                                         *)
(* st is the status of every item, hard and soft its two kinds of           *)
(* dependency.  The two cascades of the code (a `while moved` loop over the *)
(* list) are stated as the least set they reach, so that no order of the    *)
(* list enters and no recursion is needed.                                  *)
(***************************************************************************)

CONSTANT Item

\* "absent" is an item that is not in the file: not added yet, or deleted.
Status == {"absent", "todo", "running", "blocked", "done", "failed", "skipped"}
Settled == {"done", "skipped"}
SoftSettled == Settled \cup {"failed", "blocked"}
Bad == {"failed", "blocked"}

(***************************************************************************)
(* An item may start once each hard dependency is done or skipped and each  *)
(* soft one has settled in any way.                                         *)
(***************************************************************************)
Ready(st, hard, soft) ==
  {i \in Item : /\ st[i] = "todo"
                /\ \A d \in hard[i] : st[d] \in Settled
                /\ \A d \in soft[i] : st[d] \in SoftSettled}

(***************************************************************************)
(* propagate_blocked: the least set of todo items that holds every todo     *)
(* item with a hard dependency that is failed, blocked or in the set.       *)
(***************************************************************************)
BlockClosed(S, st, hard) ==
  \A i \in Item : st[i] = "todo" /\ (\E d \in hard[i] : st[d] \in Bad \/ d \in S) => i \in S

NewlyBlocked(st, hard) ==
  {i \in Item : \A S \in SUBSET Item : BlockClosed(S, st, hard) => i \in S}

(***************************************************************************)
(* release_blocked: of the items whose block carries the runner's mark, the *)
(* least set that holds each one none of whose hard dependencies is failed  *)
(* or blocked, counting the released ones as todo.                          *)
(***************************************************************************)
ReleaseClosed(S, st, marked, hard) ==
  \A i \in marked : (\A d \in hard[i] : st[d] \notin Bad \/ d \in S) => i \in S

Released(st, marked, hard) ==
  {i \in marked : \A S \in SUBSET Item : ReleaseClosed(S, st, marked, hard) => i \in S}

\* Nothing may start and nothing is running.
Finished(st, hard, soft) ==
  Ready(st, hard, soft) = {} /\ \A i \in Item : st[i] # "running"

\* A cycle is a nonempty set of items each of which depends on one of the set.
Acyclic(dep) ==
  \A S \in SUBSET Item : S # {} => \E i \in S : dep[i] \cap S = {}
=============================================================================
