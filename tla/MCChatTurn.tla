------------------------------ MODULE MCChatTurn ------------------------------
(* Two turns and a message of one conversation. *)
EXTENDS ChatTurn

CONSTANTS m1
=============================================================================
