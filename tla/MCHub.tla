------------------------------- MODULE MCHub -------------------------------
(* A small hub: buffers of one message, so that they fill at once. *)
EXTENDS Hub, TLC

CONSTANTS c1, c2, b1, b2

MCConns == {c1, c2}
MCBoards == {b1, b2}
MCOneConn == {c1}
MCOneBoard == {b1}

Symmetry == Permutations(MCConns) \cup Permutations(MCBoards)
=============================================================================
