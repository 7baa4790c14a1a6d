----------------------------- MODULE Checklist ------------------------------
(***************************************************************************)
(* What a plan promises to whoever reads and edits it, with no word about   *)
(* tasks, conversations or ticks: whose hand may move an item from which    *)
(* status to which.  The runner starts an item only when its dependencies   *)
(* allow it and only in a live run, never touches an item that is done,     *)
(* skipped or failed, blocks an item only behind a failure or on the        *)
(* item's own word, and hands back what an interrupted run left running.    *)
(* Everything else takes an edit, and an edit never starts an item.         *)
(*                                                                         *)
(* PlanRun is shown to implement it (src/backend/plan.py and its docstring).*)
(***************************************************************************)
CONSTANTS Item, Dep
VARIABLES st,     \* the status of each item
          soft,   \* the items whose dependencies are soft
          live    \* a drive is walking the checklist

vars == <<st, soft, live>>

Gone == {"absent"}
Over == {"done", "skipped"} \cup Gone
Out == Over \cup {"failed", "blocked"}

\* The dependencies of i allow it to start, by the statuses s.
MayStart(i, s) == \A d \in Dep[i] : s[d] \in (IF i \in soft THEN Out ELSE Over)

\* Some dependency of i has failed it, by the statuses s.
Failed(i, s) == i \notin soft /\ \E d \in Dep[i] : s[d] \in {"failed", "blocked"}

\* Where one step of a live runner may take an item of each status.
Moves(s) ==
  CASE s = "todo"    -> {"todo", "running", "blocked", "failed"}
    [] s = "running" -> {"running", "todo", "blocked", "failed", "done"}
    [] s = "blocked" -> {"blocked", "todo", "running", "failed"}
    [] OTHER         -> {s}

\* A block of the runner's own making is lifted, by whoever reads the file.
Lifted(i) == st'[i] = st[i] \/ (st[i] = "blocked" /\ st'[i] = "todo")
HandedBack(i) == IF st[i] = "running" THEN st'[i] = "todo" ELSE Lifted(i)

Init ==
  /\ st \in [Item -> {"todo", "absent"}]
  /\ soft \subseteq Item
  /\ live = FALSE

Begin ==
  /\ ~live /\ live'
  /\ \A i \in Item : HandedBack(i)
  /\ UNCHANGED soft

Advance ==
  /\ live /\ live' \in BOOLEAN
  /\ st' \in [Item -> UNION {Moves(st[i]) : i \in Item}]
  /\ \A i \in Item :
       /\ st'[i] \in Moves(st[i])
       /\ st'[i] = "running" /\ st[i] # "running" => live' /\ MayStart(i, st')
       /\ st'[i] = "running" => live'
       /\ st'[i] = "blocked" /\ st[i] = "todo" => Failed(i, st')
  /\ UNCHANGED soft

Interrupt == live /\ ~live' /\ UNCHANGED <<st, soft>>

\* The teardown of an interrupted run.
HandBack == ~live /\ ~live' /\ (\A i \in Item : HandedBack(i)) /\ UNCHANGED soft

Lift == (\A i \in Item : Lifted(i)) /\ UNCHANGED <<soft, live>>

Edit(i) ==
  /\ st'[i] # "running" \/ st[i] = "running"
  /\ \A j \in Item \ {i} : Lifted(j)
  /\ soft' \ {i} = soft \ {i}
  /\ UNCHANGED live

Next ==
  \/ Begin \/ Advance \/ Interrupt \/ HandBack \/ Lift
  \/ \E i \in Item : Edit(i)

\* st' ranges over functions on Item throughout.
Spec == Init /\ [][Next /\ st' \in [Item -> {"absent", "todo", "running", "blocked", "done",
                                             "failed", "skipped"}]]_vars
=============================================================================
