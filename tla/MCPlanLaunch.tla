---------------------------- MODULE MCPlanLaunch ----------------------------
(* One operator and two orchestrators for TLC; as many runs as callers. *)
EXTENDS PlanLaunch

CONSTANTS op, ann, bob, r1, r2, r3
=============================================================================
