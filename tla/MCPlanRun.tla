------------------------------ MODULE MCPlanRun -----------------------------
(* Small plans for TLC. *)
EXTENDS PlanRun

\* 1 <- 2, the least plan with a dependency.
MCPair == [i \in 1..2 |-> IF i = 2 THEN {1} ELSE {}]
\* 3 behind both 1 and 2, which run side by side.
MCJoin == [i \in 1..3 |-> IF i = 3 THEN {1, 2} ELSE {}]
\* Nothing waits for anything: three items for two slots.
MCFree == [i \in 1..3 |-> {}]

Says(how, s, text) == [how |-> how, s |-> s, text |-> text]
MCEndings ==
  {Says("cap", "failed", "other"), Says("error", "failed", "other"),
   Says("budget", "failed", "other"), Says("final", "done", "other")}
MCFewEndings == {Says("prose", "failed", "other"), Says("final", "done", "other")}
=============================================================================
