----------------------------- MODULE MCGuestTurn -----------------------------
(* Two turns and a job of one project, in the shared guest or in a box of its own. *)
EXTENDS GuestTurn
=============================================================================
