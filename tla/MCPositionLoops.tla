-------------------------- MODULE MCPositionLoops --------------------------
(* Every pair of keys of at most MaxLen digits, open bounds included. *)
EXTENDS PositionLoops

MCBounds == {Open} \cup
    {k \in UNION {[1..n -> Digits] : n \in 1..MaxLen} : k[Len(k)] # 0}
=============================================================================
