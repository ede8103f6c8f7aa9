---------------------------- MODULE MCCardOrder ----------------------------
EXTENDS CardOrder, TLC

CONSTANTS c1, c2, c3, A, B

Column(k1, k2, k3) ==
    (c1 :> k1) @@ (c2 :> k2) @@ (c3 :> k3)

InA(key) == [column |-> A, position |-> key]

(* Prepending exhausts the key; appending gives a key that renormalizing   *)
(* the two cards gives as well.                                            *)
Low == Column(InA(<<0, 0, 2>>), InA(<<2, 1>>), NoRow)

(* Appending exhausts the key; moving c3 between the others gives it the   *)
(* key that renormalizing the column gives to c1.                          *)
High == Column(InA(<<1>>), InA(<<1, 2>>), InA(<<3, 3, 3>>))

Req(kind, c, col, i) == [kind |-> kind, card |-> c, column |-> col, index |-> i]

MCMenu ==
    {Req("create", c3, A, 3), Req("delete", c1, NoColumn, 0)}
    \cup {Req("move", c1, col, 3) : col \in {A, B, NoColumn}}
    \cup {Req("move", c2, A, 0), Req("move", c3, A, 1), 
             Req("move", c2, B, 3), Req("move", c3, B, 3)}

MCLayouts == {Low, High}
=============================================================================
