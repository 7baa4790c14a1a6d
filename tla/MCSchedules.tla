----------------------------- MODULE MCSchedules -----------------------------
(* One schedule, a daily and an interval cadence, one run-now, one window. *)
EXTENDS Schedules

CONSTANTS q1, o1

Cadences == {[kind |-> "daily", n |-> 1], [kind |-> "interval", n |-> 1]}
=============================================================================
