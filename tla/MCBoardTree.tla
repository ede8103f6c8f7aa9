---------------------------- MODULE MCBoardTree ----------------------------
EXTENDS BoardTree, TLC

CONSTANTS owner, guest,    \* guest is a plain member of b1
          b1, b2, b3,      \* b1 and b2 are the owner's, b3 is to be created
          k1, k2, k3,      \* k1 is on b1, k3 on b2, k2 is to be created
          c1, c2,          \* c1 is in k1, c2 is to be created
          x, y,
          r1, r2, r3

Symmetry == Permutations({r1, r2, r3})

Body(op, user) == [NoRequest EXCEPT !.op = op, !.user = user]

OnBoard(op, user, b) == [Body(op, user) EXCEPT !.board = b, !.title = x]
OnColumn(op, user, k) == [Body(op, user) EXCEPT !.column = k, !.title = x]
OnCard(user, title, description, k) ==
    [Body("UpdateCard", user) EXCEPT !.card = c1, !.title = title,
        !.description = description, !.column = k, !.place = k # None]

MCMenu ==
    {OnBoard("CreateBoard", guest, b3), OnBoard("GetBoard", guest, b1),
     OnBoard("RenameBoard", guest, b1), OnBoard("DeleteBoard", owner, b1),
     OnBoard("DeleteBoard", guest, b1),
     [OnBoard("RenameBoard", guest, b1) EXCEPT !.title = Blank],
     [OnBoard("CreateColumn", owner, b1) EXCEPT !.column = k2],
     OnColumn("DeleteColumn", owner, k1),
     [OnColumn("UpdateColumn", guest, k1) EXCEPT !.place = TRUE],
     [Body("DeleteCard", guest) EXCEPT !.card = c1],
     OnCard(owner, x, None, None), OnCard(guest, None, y, None),
     OnCard(guest, Blank, None, k2), OnCard(guest, y, None, k2),
     OnCard(owner, None, None, k2), OnCard(owner, None, None, k3), OnCard(guest, None, None, k3),
     [OnCard(owner, None, None, None) EXCEPT !.place = TRUE]}
    \cup {[OnColumn("CreateCard", guest, k) EXCEPT !.card = c2] : k \in {k1, k2}}

MCDatabases ==
    {[boards |-> (b1 :> owner) @@ (b2 :> owner) @@ (b3 :> None),
      members |-> (b1 :> (owner :> "owner" @@ guest :> "member"))
                  @@ (b2 :> (owner :> "owner" @@ guest :> "none"))
                  @@ (b3 :> Nobody),
      columns |-> (k1 :> b1) @@ (k2 :> None) @@ (k3 :> b2),
      cards |-> (c1 :> [column |-> k1, title |-> y, description |-> x])
                @@ (c2 :> NoCard)]}
=============================================================================
