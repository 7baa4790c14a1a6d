------------------------------ MODULE MCGitGate ------------------------------
(* Two handlers at once over two requests. *)
EXTENDS GitGate, TLC

CONSTANTS p1, p2, a, b

\* Handlers are alike, and so are edits.
Alike == Permutations(Handler) \cup Permutations(Edit)
=============================================================================
