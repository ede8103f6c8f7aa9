----------------------------- MODULE CardTable -----------------------------
(***************************************************************************)
(* The cards table as the transactions of the board repository see it      *)
(* (server/internal/adapter/postgres/board_repository.go over              *)
(* server/migrations/0003_kanban.up.sql).                                  *)
(*                                                                         *)
(* PostgreSQL is external: what is modelled is READ COMMITTED (a statement *)
(* sees the committed rows and its own transaction's writes), row locks    *)
(* held to the end of the transaction, and the DEFERRABLE INITIALLY        *)
(* IMMEDIATE constraint UNIQUE (column_id, position).  PostgreSQL looks    *)
(* for a clash when it writes the index entry; only a row that met one is  *)
(* checked again, at the end of the statement or, deferred, at commit.     *)
(* That second check waits for the transactions that own the clashing      *)
(* entries, and fails if one of them is there to stay.                     *)
(***************************************************************************)
EXTENDS Position, FiniteSets, Functions

CONSTANTS Cards,      \* card ids, those not created yet included
          Columns,
          Requests    \* request goroutines; each runs at most one transaction

ASSUME TableAssumption == IsFiniteSet(Cards) /\ "none" \notin Columns

VARIABLES cards,      \* the committed rows
          writes,     \* per request, the rows its open transaction has written
          rechecks,   \* per request, the written rows that met a clash
          deferred    \* per request, whether SET CONSTRAINTS ALL DEFERRED ran

table == <<cards, writes, rechecks, deferred>>

Row == [column : Columns, position : Key]

(* Not a row, or a row that this transaction has not written. *)
NoRow == [column |-> "none", position |-> Open]

TableTypeOK ==
    /\ cards \in [Cards -> Row \cup {NoRow}]
    /\ writes \in [Requests -> [Cards -> Row \cup {NoRow}]]
    /\ rechecks \in [Requests -> SUBSET Cards]
    /\ deferred \in [Requests -> BOOLEAN]

NoWrites == [c \in Cards |-> NoRow]

TableInit(layout) ==
    /\ cards = layout
    /\ writes = [t \in Requests |-> NoWrites]
    /\ rechecks = [t \in Requests |-> {}]
    /\ deferred = [t \in Requests |-> FALSE]
-----------------------------------------------------------------------------
(* Reading *)

View(t) == [c \in Cards |-> IF writes[t][c] # NoRow THEN writes[t][c]
                                                    ELSE cards[c]]

InColumn(t, col) == {c \in Cards : View(t)[c].column = col}

SlipListings(t, members) == Injection(1..Cardinality(members), members)

(* What ORDER BY position may return: rows of equal position come in any   *)
(* order.                                                                  *)
Listings(t, members) ==
    {l \in Injection(1..Cardinality(members), members) :
        \A i, j \in DOMAIN l : i < j =>
            ~Precedes(View(t)[l[j]].position, View(t)[l[i]].position)}

ListCardsByColumn(t, col) == Listings(t, InColumn(t, col))
-----------------------------------------------------------------------------
(* Writing *)

LockedByOther(t, c) == \E u \in Requests \ {t} : writes[u][c] # NoRow

SlipNoConstraint(t, c, row) == FALSE

(* The index already holds this entry: in the table, unless t itself moved *)
(* the row away, or among the rows written by an open transaction.         *)
MeetsClash(t, c, row) ==
    \E d \in Cards \ {c} :
        \/ cards[d] = row /\ writes[t][d] = NoRow
        \/ \E u \in Requests : writes[u][d] = row

PutRow(t, c, row) ==
    /\ writes' = [writes EXCEPT ![t][c] = row]
    /\ rechecks' = [rechecks EXCEPT
          ![t] = IF MeetsClash(t, c, row) THEN @ \cup {c} ELSE @ \ {c}]
    /\ UNCHANGED cards

(* INSERT of a row whose id no other transaction knows. *)
InsertCard(t, c, row) == PutRow(t, c, row)

(* UPDATE ... SET column_id, position WHERE id = c: waits for the row's    *)
(* lock, then writes the row as it is by now; no row, no write.            *)
UpdateCardPosition(t, c, row) ==
    /\ ~LockedByOther(t, c)
    /\ IF View(t)[c] = NoRow THEN UNCHANGED <<cards, writes, rechecks>>
       ELSE PutRow(t, c, row)

(* DELETE outside a transaction: one statement that commits at once. *)
DeleteCard(t, c) ==
    /\ ~LockedByOther(t, c)
    /\ cards' = [cards EXCEPT ![c] = NoRow]
    /\ UNCHANGED <<writes, rechecks, deferred>>
-----------------------------------------------------------------------------
(* The second look at a row that met a clash *)

(* The open transactions whose outcome decides whether the clash stays. *)
Undecided(t, c) ==
    {u \in Requests \ {t} :
        \E d \in Cards \ {c} :
            \/ writes[u][d] = writes[t][c]
            \/ cards[d] = writes[t][c] /\ writes[u][d] # NoRow}

(* A clash that no other transaction can take away. *)
Violated(t, c) ==
    \E d \in Cards \ {c} :
        \/ writes[t][d] = writes[t][c]
        \/ /\ cards[d] = writes[t][c]
           /\ \A u \in Requests : writes[u][d] = NoRow

RecheckPasses(t, c) == ~Violated(t, c) /\ Undecided(t, c) = {}

Recheck(t) ==
    \E c \in rechecks[t] :
        /\ RecheckPasses(t, c)
        /\ rechecks' = [rechecks EXCEPT ![t] = @ \ {c}]
        /\ UNCHANGED <<cards, writes, deferred>>

RecheckFails(t) == \E c \in rechecks[t] : Violated(t, c)

EndTransaction(t) ==
    /\ writes' = [writes EXCEPT ![t] = NoWrites]
    /\ rechecks' = [rechecks EXCEPT ![t] = {}]
    /\ deferred' = [deferred EXCEPT ![t] = FALSE]

CommitTransaction(t) ==
    /\ rechecks[t] = {}
    /\ cards' = View(t)
    /\ EndTransaction(t)

SlipRollback(t) == UNCHANGED table
Rollback(t) == EndTransaction(t) /\ UNCHANGED cards
-----------------------------------------------------------------------------
(* The constraint itself. *)
UniquePositions ==
    \A c, d \in Cards : c # d /\ cards[c] # NoRow => cards[c] # cards[d]
=============================================================================
