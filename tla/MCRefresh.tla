----------------------------- MODULE MCRefresh -----------------------------
(* Two requests at a time; a goroutine takes the next one when it is done. *)
EXTENDS RefreshFamily, TLC

CONSTANTS r1, r2

MCRequests == {r1, r2}
Symmetry == Permutations(MCRequests)
=============================================================================
