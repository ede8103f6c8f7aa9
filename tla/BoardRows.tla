----------------------------- MODULE BoardRows -----------------------------
(***************************************************************************)
(* The tables of the board (server/migrations/0003_kanban.up.sql) and the  *)
(* statements that server/internal/adapter/postgres runs on them.          *)
(*                                                                         *)
(* A table holds the committed rows.  A statement outside a transaction    *)
(* commits at once, and so, in effect, does a transaction that ends with   *)
(* its only visible write.  Positions, titles of boards and columns, and   *)
(* time stamps are left out; CardOrder models the positions.               *)
(***************************************************************************)
EXTENDS FiniteSets, Sequences

CONSTANTS Users,
          Boards, Columns, Cards,   \* ids, those not created yet included
          Texts,                    \* titles and descriptions
          None                      \* SQL's missing row, JSON's absent field

ASSUME RowsAssumption ==
    /\ None \notin Users \cup Boards \cup Columns \cup Texts
    /\ Boards \cap Columns = {}    \* they are UUIDs
    /\ (Boards \cup Columns) \cap Cards = {}

VARIABLES boards,    \* the owner of each board, or None
          members,   \* each user's role on each board
          columns,   \* the board of each column, or None
          cards      \* the row of each card, or NoCard

tables == <<boards, members, columns, cards>>

CardRow == [column : Columns, title : Texts, description : Texts]
NoCard == [column |-> None, title |-> None, description |-> None]

Roles == {"owner", "member", "none"}

Database == [boards : [Boards -> Users \cup {None}],
             members : [Boards -> [Users -> Roles]],
             columns : [Columns -> Boards \cup {None}],
             cards : [Cards -> CardRow \cup {NoCard}]]

rows == [boards |-> boards, members |-> members, columns |-> columns,
         cards |-> cards]

RowsTypeOK == rows \in Database

Nobody == [u \in Users |-> "none"]
-----------------------------------------------------------------------------
(* Queries *)

NotFound == [board |-> None, role |-> "none"]

MembershipByBoard(b, u) ==
    IF members[b][u] = "none" THEN NotFound
                              ELSE [board |-> b, role |-> members[b][u]]

SlipMembershipByColumn(k, u) == [board |-> columns[k], role |-> "member"]

(* The joins along the foreign keys, from the leaf to the board. *)
MembershipByColumn(k, u) ==
    IF columns[k] = None THEN NotFound ELSE MembershipByBoard(columns[k], u)

MembershipByCard(c, u) ==
    IF cards[c] = NoCard THEN NotFound
                         ELSE MembershipByColumn(cards[c].column, u)

GetBoard(b) == boards[b]
GetCard(c) == cards[c]

ListBoardsForUser(u) ==
    {b \in Boards : boards[b] # None /\ members[b][u] # "none"}

ListColumns(b) == {k \in Columns : columns[k] = b}

ListCardsByColumn(k) == {c \in Cards : cards[c].column = k}

ListCardsByBoard(b) ==
    {c \in Cards : cards[c] # NoCard /\ columns[cards[c].column] = b}
-----------------------------------------------------------------------------
(* Inserts and updates; an UPDATE of a missing row changes nothing. *)

InsertBoard(b, u) == boards' = [boards EXCEPT ![b] = u]

InsertMember(b, u, role) == members' = [members EXCEPT ![b][u] = role]

InsertColumn(k, b) ==
    /\ columns' = [columns EXCEPT ![k] = b]
    /\ UNCHANGED <<boards, members, cards>>

UpdateCardContent(c, title, description) ==
    /\ cards' = [cards EXCEPT ![c] =
          IF @ = NoCard THEN @
          ELSE [@ EXCEPT !.title = title, !.description = description]]
    /\ UNCHANGED <<boards, members, columns>>

(* The single-row updates of a transaction, all to one column. *)
Repositioned(moved, k) ==
    [c \in Cards |-> IF c \in moved /\ cards[c] # NoCard
                     THEN [cards[c] EXCEPT !.column = k] ELSE cards[c]]

UpdateCardPosition(moved, k) ==
    /\ cards' = Repositioned(moved, k)
    /\ UNCHANGED <<boards, members, columns>>

(* The insert that ends the transaction of those updates. *)
InsertCard(c, row, moved) ==
    /\ cards' = [Repositioned(moved, row.column) EXCEPT ![c] = row]
    /\ UNCHANGED <<boards, members, columns>>
-----------------------------------------------------------------------------
(* Deletes, with ON DELETE CASCADE *)

WithoutColumns(lost) ==
    [c \in Cards |-> IF cards[c].column \in lost THEN NoCard ELSE cards[c]]

SlipDeleteBoard(b) ==
    /\ boards' = [boards EXCEPT ![b] = None]
    /\ members' = [members EXCEPT ![b] = Nobody]
    /\ columns' = [k \in Columns |-> IF columns[k] = b THEN None
                                                       ELSE columns[k]]
    /\ UNCHANGED cards

DeleteBoard(b) ==
    /\ boards' = [boards EXCEPT ![b] = None]
    /\ members' = [members EXCEPT ![b] = Nobody]
    /\ columns' = [k \in Columns |-> IF columns[k] = b THEN None
                                                       ELSE columns[k]]
    /\ cards' = WithoutColumns(ListColumns(b))

DeleteColumn(k) ==
    /\ columns' = [columns EXCEPT ![k] = None]
    /\ cards' = WithoutColumns({k})
    /\ UNCHANGED <<boards, members>>

DeleteCard(c) ==
    /\ cards' = [cards EXCEPT ![c] = NoCard]
    /\ UNCHANGED <<boards, members, columns>>
=============================================================================
