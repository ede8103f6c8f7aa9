-------------------------- MODULE CardOrderProofs --------------------------
(***************************************************************************)
(* Proof that no interleaving of CreateCard, MoveCard and DeleteCard       *)
(* requests, with their retries, renormalizations, cancellations and       *)
(* deadlocks, leaves two cards of a column at the same position; and that  *)
(* an attempt which nobody has overtaken puts its card where it was asked  *)
(* to, leaves the other cards in their order and does not lose: for any    *)
(* number of cards, columns and requests, any radix and any length cap.    *)
(***************************************************************************)
EXTENDS CardOrder, PositionProofs, FiniteSetTheorems, TLAPS

Owns(t, c) == writes[t][c] # NoRow

(* Written, and with no recheck outstanding. *)
Settled(t, c) == Owns(t, c) /\ c \notin rechecks[t]

(* A row is locked by one transaction. *)
Exclusive ==
    \A t, u \in Requests, c \in Cards : Owns(t, c) /\ Owns(u, c) => t = u

(* The heart of the argument.  A settled row is found again only in        *)
(* committed rows that its own transaction has moved away, and in written  *)
(* rows that still have to be rechecked.                                   *)
NoHiddenClash ==
    \A t \in Requests, c \in Cards : Settled(t, c) =>
        \A d \in Cards \ {c} :
            /\ cards[d] = writes[t][c] => Owns(t, d)
            /\ \A u \in Requests :
                  writes[u][d] = writes[t][c] => d \in rechecks[u]

Clashfree == UniquePositions /\ Exclusive /\ NoHiddenClash

Proper(row) == row = NoRow \/ row.column \in Columns

TableShape ==
    /\ DOMAIN cards = Cards /\ \A c \in Cards : Proper(cards[c])
    /\ DOMAIN writes = Requests
    /\ \A t \in Requests :
          DOMAIN writes[t] = Cards /\ \A c \in Cards : Proper(writes[t][c])
    /\ rechecks \in [Requests -> SUBSET Cards]
-----------------------------------------------------------------------------
(* The statements that change the table *)

LEMMA ProperRow ==
    ASSUME NEW row, row.column \in Columns
    PROVE  row # NoRow /\ Proper(row)
  BY TableAssumption DEF NoRow, Proper

(* An UPDATE or INSERT of a row that nobody else has locked. *)
LEMMA PutRowKeeps ==
    ASSUME TableShape, Clashfree,
           NEW t \in Requests, NEW c \in Cards, NEW row,
           row.column \in Columns, ~LockedByOther(t, c), PutRow(t, c, row)
    PROVE  TableShape' /\ Clashfree'
<1>1. row # NoRow /\ Proper(row)
  BY ProperRow
<1>2. /\ \A u \in Requests, d \in Cards :
            writes'[u][d] = IF u = t /\ d = c THEN row ELSE writes[u][d]
      /\ DOMAIN writes' = Requests
      /\ \A u \in Requests : DOMAIN writes'[u] = Cards
  BY DEF PutRow, TableShape
<1>3. /\ rechecks' \in [Requests -> SUBSET Cards]
      /\ \A u \in Requests \ {t} : rechecks'[u] = rechecks[u]
      /\ rechecks'[t] \ {c} = rechecks[t] \ {c}
      /\ c \in rechecks'[t] <=> MeetsClash(t, c, row)
  BY DEF PutRow, TableShape
<1>4. cards' = cards
  BY DEF PutRow
<1>5. TableShape'
  BY <1>1, <1>2, <1>3, <1>4 DEF TableShape, Proper, NoRow
<1>6. UniquePositions'
  BY <1>4 DEF Clashfree, UniquePositions
<1>7. Exclusive'
  BY <1>2 DEF Clashfree, Exclusive, Owns, LockedByOther
<1>8. NoHiddenClash'
  <2> SUFFICES ASSUME NEW u \in Requests, NEW i \in Cards, Settled(u, i)',
                      NEW d \in Cards \ {i}
               PROVE  /\ cards[d] = writes'[u][i] => Owns(u, d)'
                      /\ \A v \in Requests :
                            writes'[v][d] = writes'[u][i] => d \in rechecks'[v]
    BY <1>4 DEF NoHiddenClash
  <2>1. CASE u = t /\ i = c
    <3>1. ~MeetsClash(t, c, row)
      BY <2>1, <1>3 DEF Settled
    <3>2. /\ cards[d] = row => writes[t][d] # NoRow
          /\ \A v \in Requests : writes[v][d] # row
      BY <2>1, <3>1 DEF MeetsClash
    <3> QED
      BY <2>1, <3>2, <1>2 DEF Owns
  <2>2. CASE ~(u = t /\ i = c)
    <3>1. Settled(u, i) /\ writes'[u][i] = writes[u][i]
      BY <2>2, <1>2, <1>3 DEF Settled, Owns
    <3>2. /\ cards[d] = writes[u][i] => Owns(u, d)
          /\ \A v \in Requests :
                writes[v][d] = writes[u][i] => d \in rechecks[v]
      BY <3>1 DEF Clashfree, NoHiddenClash
    <3>3. Owns(u, d) => Owns(u, d)'
      BY <1>1, <1>2 DEF Owns
    <3>4. ASSUME NEW v \in Requests, writes'[v][d] = writes'[u][i]
          PROVE  d \in rechecks'[v]
      <4>1. CASE v = t /\ d = c
        <5>1. writes[u][i] = row /\ i \in Cards \ {c}
          BY <4>1, <3>4, <3>1, <1>2
        <5>2. MeetsClash(t, c, row)
          BY <5>1 DEF MeetsClash
        <5> QED
          BY <4>1, <5>2, <1>3
      <4>2. CASE ~(v = t /\ d = c)
        BY <4>2, <3>4, <3>1, <3>2, <1>2, <1>3
      <4> QED
        BY <4>1, <4>2
    <3> QED
      BY <3>1, <3>2, <3>3, <3>4
  <2> QED
    BY <2>1, <2>2
<1> QED
  BY <1>5, <1>6, <1>7, <1>8 DEF Clashfree

(* A row whose recheck passes is in nobody's way. *)
LEMMA RecheckKeeps ==
    ASSUME TableShape, Clashfree, NEW t \in Requests, Recheck(t)
    PROVE  TableShape' /\ Clashfree'
<1>1. PICK c \in rechecks[t] :
          /\ RecheckPasses(t, c)
          /\ rechecks' = [rechecks EXCEPT ![t] = @ \ {c}]
          /\ UNCHANGED <<cards, writes, deferred>>
  BY DEF Recheck
<1>2. c \in Cards
  BY DEF TableShape
<1>3. TableShape'
  BY <1>1 DEF TableShape
<1>4. UniquePositions' /\ Exclusive'
  BY <1>1 DEF Clashfree, UniquePositions, Exclusive, Owns
<1>5. \A d \in Cards \ {c}, u \in Requests : writes[u][d] # writes[t][c]
  BY <1>1 DEF RecheckPasses, Violated, Undecided
<1>6. \A d \in Cards \ {c} : cards[d] = writes[t][c] => Owns(t, d)
  BY <1>1 DEF RecheckPasses, Violated, Undecided, Owns
<1>7. \A u \in Requests, d \in Cards :
          d \in rechecks'[u] <=> d \in rechecks[u] /\ ~(u = t /\ d = c)
  BY <1>1 DEF TableShape
<1>8. NoHiddenClash'
  <2> SUFFICES ASSUME NEW u \in Requests, NEW i \in Cards, Settled(u, i)',
                      NEW d \in Cards \ {i}
               PROVE  /\ cards[d] = writes[u][i] => Owns(u, d)
                      /\ \A v \in Requests :
                            writes[v][d] = writes[u][i] => d \in rechecks'[v]
    BY <1>1 DEF NoHiddenClash, Owns
  <2>1. CASE u = t /\ i = c
    BY <2>1, <1>5, <1>6
  <2>2. CASE ~(u = t /\ i = c)
    <3>1. Settled(u, i)
      BY <2>2, <1>1, <1>7 DEF Settled, Owns
    <3>2. /\ cards[d] = writes[u][i] => Owns(u, d)
          /\ \A v \in Requests :
                writes[v][d] = writes[u][i] => d \in rechecks[v]
      BY <3>1 DEF Clashfree, NoHiddenClash
    <3>3. d = c => writes[t][d] # writes[u][i]
      BY <1>5
    <3> QED
      BY <3>2, <3>3, <1>7
  <2> QED
    BY <2>1, <2>2
<1> QED
  BY <1>3, <1>4, <1>8 DEF Clashfree

(* What both ends of a transaction do. *)
LEMMA EndOfTransaction ==
    ASSUME TableShape, NEW t \in Requests, EndTransaction(t)
    PROVE  /\ DOMAIN writes' = Requests
           /\ \A u \in Requests : DOMAIN writes'[u] = Cards
           /\ \A u \in Requests, c \in Cards :
                 writes'[u][c] = IF u = t THEN NoRow ELSE writes[u][c]
           /\ rechecks' \in [Requests -> SUBSET Cards]
           /\ \A u \in Requests \ {t} : rechecks'[u] = rechecks[u]
  BY DEF TableShape, EndTransaction, NoWrites

LEMMA RollbackKeeps ==
    ASSUME TableShape, Clashfree, NEW t \in Requests, Rollback(t)
    PROVE  TableShape' /\ Clashfree'
<1>1. EndTransaction(t) /\ cards' = cards
  BY DEF Rollback
<1>2. TableShape'
  BY <1>1, EndOfTransaction DEF TableShape, Proper
<1>3. UniquePositions' /\ Exclusive'
  BY <1>1, EndOfTransaction DEF Clashfree, UniquePositions, Exclusive, Owns
<1>4. NoHiddenClash'
  BY <1>1, EndOfTransaction DEF Clashfree, NoHiddenClash, Settled, Owns
<1> QED
  BY <1>2, <1>3, <1>4 DEF Clashfree

(* A commit with no recheck outstanding: what t wrote is settled. *)
LEMMA CommitKeeps ==
    ASSUME TableShape, Clashfree, NEW t \in Requests, CommitTransaction(t)
    PROVE  TableShape' /\ Clashfree'
<1>1. EndTransaction(t) /\ rechecks[t] = {}
  BY DEF CommitTransaction
<1>2. /\ DOMAIN cards' = Cards
      /\ \A c \in Cards : cards'[c] = IF Owns(t, c) THEN writes[t][c]
                                                    ELSE cards[c]
  BY DEF CommitTransaction, View, Owns
<1>3. TableShape'
  BY <1>1, <1>2, EndOfTransaction DEF TableShape, Proper
<1>4. Exclusive'
  BY <1>1, EndOfTransaction DEF Clashfree, Exclusive, Owns
<1>5. \A c \in Cards : Owns(t, c) =>
          \A d \in Cards \ {c} :
             /\ cards[d] = writes[t][c] => Owns(t, d)
             /\ writes[t][d] # writes[t][c]
  BY <1>1 DEF Clashfree, NoHiddenClash, Settled
<1>6. UniquePositions'
  <2> SUFFICES ASSUME NEW c \in Cards, NEW d \in Cards \ {c},
                      cards'[c] # NoRow
               PROVE  cards'[c] # cards'[d]
    BY DEF UniquePositions
  <2>1. CASE Owns(t, c) /\ Owns(t, d)
    BY <2>1, <1>2, <1>5
  <2>2. CASE Owns(t, c) /\ ~Owns(t, d)
    BY <2>2, <1>2, <1>5
  <2>3. CASE ~Owns(t, c) /\ Owns(t, d)
    <3>1. c \in Cards \ {d} /\ cards[c] # writes[t][d]
      BY <2>3, <1>5
    <3> QED
      BY <2>3, <3>1, <1>2
  <2>4. CASE ~Owns(t, c) /\ ~Owns(t, d)
    BY <2>4, <1>2 DEF Clashfree, UniquePositions
  <2> QED
    BY <2>1, <2>2, <2>3, <2>4
<1>7. NoHiddenClash'
  <2> SUFFICES ASSUME NEW u \in Requests, NEW i \in Cards, Settled(u, i)',
                      NEW d \in Cards \ {i}
               PROVE  /\ cards'[d] = writes'[u][i] => Owns(u, d)'
                      /\ \A v \in Requests :
                            writes'[v][d] = writes'[u][i] => d \in rechecks'[v]
    BY DEF NoHiddenClash
  <2>1. u # t /\ Settled(u, i) /\ writes'[u][i] = writes[u][i]
    BY <1>1, EndOfTransaction DEF Settled, Owns
  <2>2. /\ cards[d] = writes[u][i] => Owns(u, d)
        /\ \A v \in Requests :
              writes[v][d] = writes[u][i] => d \in rechecks[v]
    BY <2>1 DEF Clashfree, NoHiddenClash
  <2>3. writes[t][d] # writes[u][i]
    BY <2>2, <1>1
  <2>4. Owns(u, d) => Owns(u, d)'
    BY <2>1, <1>1, EndOfTransaction DEF Owns
  <2>5. writes'[u][i] # NoRow
    BY DEF Settled, Owns
  <2>6. ASSUME NEW v \in Requests, writes'[v][d] = writes'[u][i]
        PROVE  d \in rechecks'[v]
    BY <2>6, <2>1, <2>2, <2>5, <1>1, EndOfTransaction
  <2> QED
    BY <2>1, <2>2, <2>3, <2>4, <2>6, <1>2
<1> QED
  BY <1>3, <1>4, <1>6, <1>7 DEF Clashfree

LEMMA DeleteKeeps ==
    ASSUME TableShape, Clashfree, NEW t \in Requests, NEW c \in Cards,
           DeleteCard(t, c)
    PROVE  TableShape' /\ Clashfree'
<1>1. /\ DOMAIN cards' = Cards
      /\ \A d \in Cards : cards'[d] = IF d = c THEN NoRow ELSE cards[d]
      /\ writes' = writes /\ rechecks' = rechecks
  BY DEF DeleteCard, TableShape
<1>2. TableShape'
  BY <1>1 DEF TableShape, Proper
<1>3. UniquePositions' /\ Exclusive'
  BY <1>1 DEF Clashfree, UniquePositions, Exclusive, Owns
<1>4. NoHiddenClash'
  BY <1>1 DEF Clashfree, NoHiddenClash, Settled, Owns
<1> QED
  BY <1>2, <1>3, <1>4 DEF Clashfree
-----------------------------------------------------------------------------
(* The requests *)

Creating(t) == pc[t] \in InTransaction /\ request[t].kind = "create"

Rewrites(S) == [card : Cards, row : [column : Columns, position : S]]

RequestShape ==
    /\ pc \in [Requests -> InTransaction \cup {"idle", "load", "delete", "done"}]
    /\ request \in [Requests -> RequestType \cup {NoRequest}]
    /\ known \in SUBSET Cards
    /\ DOMAIN place = Requests
    /\ DOMAIN todo = Requests
    /\ \A t \in Requests :
          /\ pc[t] \notin {"idle", "done"} => request[t] \in RequestType
          /\ pc[t] = "load" => request[t].kind # "create"
          /\ pc[t] \in InTransaction => request[t].column \in Columns
          /\ pc[t] = "write" => place[t].column \in Columns
          /\ \E S : todo[t] \in Seq(Rewrites(S))

(* Ids in use are known, and the id of a card being created is used by     *)
(* nobody else: an INSERT needs no lock.                                   *)
KnownIds ==
    /\ \A c \in Cards : cards[c] # NoRow => c \in known
    /\ \A t \in Requests, c \in Cards : Owns(t, c) => c \in known
    /\ \A t \in Requests : Creating(t) => request[t].card \in known

FreshIds ==
    \A t \in Requests : Creating(t) =>
        /\ cards[request[t].card] = NoRow
        /\ \A u \in Requests \ {t} :
              /\ ~Owns(u, request[t].card)
              /\ Creating(u) => request[u].card # request[t].card

Ids == KnownIds /\ FreshIds

IndInv == TableShape /\ Clashfree /\ RequestShape /\ Ids

LEMMA TableUnchanged ==
    ASSUME TableShape, Clashfree, UNCHANGED <<cards, writes, rechecks>>
    PROVE  TableShape' /\ Clashfree'
<1>1. TableShape'
  BY DEF TableShape
<1>2. UniquePositions' /\ Exclusive'
  BY DEF Clashfree, UniquePositions, Exclusive, Owns
<1>3. NoHiddenClash'
  BY DEF Clashfree, NoHiddenClash, Settled, Owns
<1> QED
  BY <1>1, <1>2, <1>3 DEF Clashfree

(* A step of t that starts no creation: it writes rows that are there, or  *)
(* the row it creates, and commits nothing but what it wrote.              *)
LEMMA IdsKept ==
    ASSUME Ids, RequestShape, NEW t \in Requests, known' = known,
           \A c \in Cards : cards'[c] # NoRow => cards[c] # NoRow \/ Owns(t, c),
           \A u \in Requests, c \in Cards : Owns(u, c)' =>
              \/ Owns(u, c)
              \/ u = t /\ cards[c] # NoRow
              \/ u = t /\ Creating(t) /\ c = request[t].card,
           \A u \in Requests : Creating(u)' =>
              Creating(u) /\ request'[u].card = request[u].card,
           Creating(t)' => \A c \in Cards : cards'[c] # NoRow => cards[c] # NoRow
    PROVE  Ids'
<1>1. \A u \in Requests : Creating(u) => request[u].card \in Cards
  BY DEF RequestShape, Creating, InTransaction, RequestType
<1>2. KnownIds'
  BY <1>1 DEF Ids, KnownIds
<1>3. FreshIds'
  <2> SUFFICES ASSUME NEW u \in Requests, Creating(u)'
               PROVE  /\ cards'[request'[u].card] = NoRow
                      /\ \A v \in Requests \ {u} :
                            /\ ~Owns(v, request[u].card)'
                            /\ Creating(v)' =>
                                  request'[v].card # request[u].card
    BY DEF FreshIds, Owns
  <2>1. /\ Creating(u) /\ request'[u].card = request[u].card
        /\ request[u].card \in Cards /\ cards[request[u].card] = NoRow
        /\ \A v \in Requests \ {u} :
              /\ ~Owns(v, request[u].card)
              /\ Creating(v) => request[v].card # request[u].card
    BY <1>1 DEF Ids, FreshIds
  <2>2. cards'[request'[u].card] = NoRow
    BY <2>1
  <2>3. ASSUME NEW v \in Requests \ {u} PROVE ~Owns(v, request[u].card)'
    BY <2>1
  <2> QED
    BY <2>1, <2>2, <2>3
<1> QED
  BY <1>2, <1>3 DEF Ids

Labels == InTransaction \cup {"idle", "load", "delete", "done"}

(* A step of t that goes on with the same request, or ends it. *)
LEMMA ShapeKept ==
    ASSUME RequestShape, NEW t \in Requests, NEW label \in Labels,
           pc' = [pc EXCEPT ![t] = label],
           request' = request, known' = known,
           label \in InTransaction => pc[t] \in InTransaction,
           label \notin {"load", "delete"},
           DOMAIN place' = Requests, DOMAIN todo' = Requests,
           \A u \in Requests \ {t} : place'[u] = place[u] /\ todo'[u] = todo[u],
           label = "write" => place'[t].column \in Columns,
           \E S : todo'[t] \in Seq(Rewrites(S))
    PROVE  /\ RequestShape'
           /\ \A u \in Requests : Creating(u)' =>
                 Creating(u) /\ request'[u].card = request[u].card
<1>1. \A u \in Requests : pc'[u] = IF u = t THEN label ELSE pc[u]
  BY DEF RequestShape
<1>2. ASSUME NEW u \in Requests
      PROVE  /\ pc'[u] \notin {"idle", "done"} => request[u] \in RequestType
             /\ pc'[u] = "load" => request[u].kind # "create"
             /\ pc'[u] \in InTransaction => request[u].column \in Columns
             /\ pc'[u] = "write" => place'[u].column \in Columns
  BY <1>1 DEF RequestShape, InTransaction, Labels
<1>3. ASSUME NEW u \in Requests PROVE \E S : todo'[u] \in Seq(Rewrites(S))
  BY DEF RequestShape
<1>4. pc' \in [Requests -> Labels]
  BY DEF RequestShape, Labels
<1>5. RequestShape'
  BY <1>2, <1>3, <1>4 DEF RequestShape, Labels
<1> QED
  BY <1>1, <1>5 DEF Creating

LEMMA AnswerShape ==
    ASSUME RequestShape, NEW t \in Requests, NEW reply, Answer(t, reply),
           request' = request, known' = known
    PROVE  /\ RequestShape'
           /\ \A u \in Requests : Creating(u)' =>
                 Creating(u) /\ request'[u].card = request[u].card
           /\ ~Creating(t)'
<1>1. /\ pc' = [pc EXCEPT ![t] = "done"]
      /\ DOMAIN place' = Requests /\ DOMAIN todo' = Requests
      /\ \A u \in Requests \ {t} : place'[u] = place[u] /\ todo'[u] = todo[u]
      /\ todo'[t] = <<>>
  BY DEF Answer, Goto, RequestShape
<1>2. \E S : todo'[t] \in Seq(Rewrites(S))
  <2>1. <<>> \in Seq(Rewrites({}))
    OBVIOUS
  <2> QED
    BY <2>1, <1>1
<1>3. "done" \in Labels /\ "done" \notin InTransaction
  BY DEF Labels, InTransaction
<1>4. /\ RequestShape'
      /\ \A u \in Requests : Creating(u)' =>
            Creating(u) /\ request'[u].card = request[u].card
  BY <1>1, <1>2, <1>3, ShapeKept
<1> QED
  BY <1>1, <1>3, <1>4 DEF Creating, RequestShape

(* Nothing is written, and no creation starts. *)
LEMMA QuietStep ==
    ASSUME IndInv, NEW t \in Requests,
           UNCHANGED <<cards, writes, rechecks>>, known' = known,
           RequestShape',
           \A u \in Requests : Creating(u)' =>
              Creating(u) /\ request'[u].card = request[u].card
    PROVE  IndInv'
<1>1. TableShape' /\ Clashfree'
  BY TableUnchanged DEF IndInv
<1>2. \A u \in Requests, c \in Cards : Owns(u, c)' => Owns(u, c)
  BY DEF Owns
<1>3. Ids'
  BY <1>2, IdsKept DEF IndInv
<1> QED
  BY <1>1, <1>3 DEF IndInv

(* A transaction is given up. *)
LEMMA RollbackStep ==
    ASSUME IndInv, NEW t \in Requests, Rollback(t), known' = known,
           RequestShape',
           \A u \in Requests : Creating(u)' =>
              Creating(u) /\ request'[u].card = request[u].card
    PROVE  IndInv'
<1>1. TableShape' /\ Clashfree'
  BY RollbackKeeps DEF IndInv
<1>2. cards' = cards /\ \A u \in Requests, c \in Cards : Owns(u, c)' => Owns(u, c)
  BY EndOfTransaction DEF Rollback, IndInv, Owns
<1>3. Ids'
  BY <1>2, IdsKept DEF IndInv
<1> QED
  BY <1>1, <1>3 DEF IndInv

(* An UPDATE of a row that may be gone by now. *)
LEMMA UpdateStep ==
    ASSUME IndInv, NEW t \in Requests, NEW c \in Cards, NEW row,
           row.column \in Columns, UpdateCardPosition(t, c, row),
           known' = known, RequestShape',
           \A u \in Requests : Creating(u)' =>
              Creating(u) /\ request'[u].card = request[u].card
    PROVE  IndInv'
<1>1. CASE View(t)[c] = NoRow
  BY <1>1, QuietStep DEF UpdateCardPosition
<1>2. CASE View(t)[c] # NoRow
  <2>1. ~LockedByOther(t, c) /\ PutRow(t, c, row)
    BY <1>2 DEF UpdateCardPosition
  <2>2. TableShape' /\ Clashfree'
    BY <2>1, PutRowKeeps DEF IndInv
  <2>3. cards[c] # NoRow \/ Owns(t, c)
    BY <1>2 DEF View, Owns
  <2>4. cards' = cards
    BY <2>1 DEF PutRow
  <2>5. ASSUME NEW u \in Requests, NEW d \in Cards, Owns(u, d)'
        PROVE  Owns(u, d) \/ (u = t /\ cards[d] # NoRow)
    <3>1. writes'[u][d] = IF u = t /\ d = c THEN row ELSE writes[u][d]
      BY <2>1 DEF PutRow, IndInv, TableShape
    <3> QED
      BY <2>3, <2>5, <3>1 DEF Owns
  <2>6. Ids'
    BY <2>4, <2>5, IdsKept DEF IndInv
  <2> QED
    BY <2>2, <2>6 DEF IndInv
<1> QED
  BY <1>1, <1>2
-----------------------------------------------------------------------------
(* The steps, one lemma for each action that needs more than a line *)

LEMMA InitEstablishes == Init => IndInv
<1> SUFFICES ASSUME Init PROVE IndInv
  OBVIOUS
<1>1. PICK layout \in Layouts :
          TableInit(layout) /\ known = {c \in Cards : layout[c] # NoRow}
  BY DEF Init
<1>2. /\ cards = layout /\ layout \in [Cards -> Row \cup {NoRow}]
      /\ \A c, d \in Cards : c # d /\ layout[c] # NoRow => layout[c] # layout[d]
  BY <1>1, CardOrderAssumption DEF TableInit
<1>3. /\ DOMAIN writes = Requests
      /\ \A t \in Requests :
            /\ DOMAIN writes[t] = Cards
            /\ \A c \in Cards : writes[t][c] = NoRow
      /\ rechecks \in [Requests -> SUBSET Cards]
  BY <1>1 DEF TableInit, NoWrites
<1>4. TableShape
  BY <1>2, <1>3 DEF TableShape, Proper, Row
<1>5. UniquePositions
  BY <1>2 DEF UniquePositions
<1>6. Exclusive /\ NoHiddenClash
  BY <1>3 DEF Exclusive, NoHiddenClash, Settled, Owns
<1>7. \A t \in Requests : pc[t] = "idle" /\ todo[t] = <<>>
  BY DEF Init
<1>8. \A t \in Requests : \E S : todo[t] \in Seq(Rewrites(S))
  <2>1. <<>> \in Seq(Rewrites({}))
    OBVIOUS
  <2> QED
    BY <2>1, <1>7
<1>9. RequestShape
  BY <1>1, <1>7, <1>8 DEF RequestShape, Init, InTransaction
<1>10. Ids
  BY <1>1, <1>2, <1>3, <1>7
     DEF Ids, KnownIds, FreshIds, Creating, InTransaction, Owns
<1> QED
  BY <1>4, <1>5, <1>6, <1>9, <1>10 DEF IndInv, Clashfree

(* A step that sets the arguments of a request as it begins or goes on. *)
LEMMA BeginShape ==
    ASSUME RequestShape, NEW t \in Requests, NEW label \in Labels,
           NEW r \in RequestType,
           pc' = [pc EXCEPT ![t] = label],
           request' = [request EXCEPT ![t] = r],
           known' \in SUBSET Cards, UNCHANGED <<place, todo>>,
           label # "write", label = "load" => r.kind # "create",
           label \in InTransaction => r.column \in Columns
    PROVE  RequestShape'
<1>1. \A u \in Requests : /\ pc'[u] = IF u = t THEN label ELSE pc[u]
                         /\ request'[u] = IF u = t THEN r ELSE request[u]
  BY DEF RequestShape
<1>2. pc' \in [Requests -> Labels]
  BY DEF RequestShape, Labels
<1>3. request' \in [Requests -> RequestType \cup {NoRequest}]
  BY DEF RequestShape
<1>4. ASSUME NEW u \in Requests
      PROVE  /\ pc'[u] \notin {"idle", "done"} => request'[u] \in RequestType
             /\ pc'[u] = "load" => request'[u].kind # "create"
             /\ pc'[u] \in InTransaction => request'[u].column \in Columns
             /\ pc'[u] = "write" => place'[u].column \in Columns
             /\ \E S : todo'[u] \in Seq(Rewrites(S))
  BY <1>1 DEF RequestShape
<1> QED
  BY <1>2, <1>3, <1>4 DEF RequestShape, Labels

LEMMA StartCreateKeeps ==
    ASSUME IndInv, NEW t \in Requests, StartCreate(t)
    PROVE  IndInv'
<1>1. PICK r \in Menu :
          /\ pc[t] = "idle" /\ r.kind = "create" /\ r.card \notin known
          /\ request' = [request EXCEPT ![t] = r]
          /\ known' = known \cup {r.card}
          /\ pc' = [pc EXCEPT ![t] = "list"]
          /\ UNCHANGED <<table, place, todo>>
  BY DEF StartCreate, Goto
<1>2. r \in RequestType /\ r.column \in Columns /\ r.card \in Cards
  BY <1>1, CardOrderAssumption DEF RequestType
<1>3. "list" \in Labels
  BY DEF Labels, InTransaction
<1>4. known' \in SUBSET Cards
  BY <1>1, <1>2 DEF IndInv, RequestShape
<1>5. RequestShape'
  BY <1>1, <1>2, <1>3, <1>4, BeginShape DEF IndInv
<1>6. TableShape' /\ Clashfree'
  BY <1>1, TableUnchanged DEF IndInv, table
<1>7. cards' = cards /\ \A u \in Requests, c \in Cards : Owns(u, c)' = Owns(u, c)
  BY <1>1 DEF table, Owns
<1>8. \A u \in Requests :
          IF u = t THEN Creating(u)' /\ request'[u] = r
                   ELSE Creating(u)' = Creating(u) /\ request'[u] = request[u]
  BY <1>1 DEF Creating, IndInv, RequestShape, InTransaction
<1>9. KnownIds'
  BY <1>1, <1>7, <1>8 DEF IndInv, Ids, KnownIds
<1>10. FreshIds'
  <2> SUFFICES ASSUME NEW u \in Requests, Creating(u)'
               PROVE  /\ cards'[request'[u].card] = NoRow
                      /\ \A v \in Requests \ {u} :
                            /\ ~Owns(v, request[u].card)'
                            /\ Creating(v)' =>
                                  request'[v].card # request'[u].card
    BY DEF FreshIds
  <2>1. request'[u].card \in Cards
    BY <1>2, <1>8 DEF IndInv, RequestShape, Creating, InTransaction, RequestType
  <2>2. CASE u = t
    <3>1. cards[r.card] = NoRow /\ \A v \in Requests : ~Owns(v, r.card)
      BY <1>1, <1>2 DEF IndInv, Ids, KnownIds
    <3>2. \A v \in Requests : Creating(v) => request[v].card # r.card
      BY <1>1 DEF IndInv, Ids, KnownIds
    <3> QED
      BY <2>2, <3>1, <3>2, <1>2, <1>7, <1>8 DEF Owns
  <2>3. CASE u # t
    <3>1. Creating(u) /\ request'[u] = request[u]
      BY <2>3, <1>8
    <3>2. request[u].card # r.card
      BY <3>1, <1>1 DEF IndInv, Ids, KnownIds
    <3> QED
      BY <2>1, <3>1, <3>2, <1>7, <1>8 DEF IndInv, Ids, FreshIds, Owns
  <2> QED
    BY <2>2, <2>3
<1> QED
  BY <1>5, <1>6, <1>9, <1>10 DEF IndInv, Ids

(* StartMove and StartDelete. *)
LEMMA StartOtherKeeps ==
    ASSUME IndInv, NEW t \in Requests, StartMove(t) \/ StartDelete(t)
    PROVE  IndInv'
<1>1. PICK r \in Menu, label \in {"load", "delete"} :
          /\ request' = [request EXCEPT ![t] = r]
          /\ pc' = [pc EXCEPT ![t] = label]
          /\ r.kind # "create"
          /\ UNCHANGED <<table, known, place, todo>>
  BY DEF StartMove, StartDelete, Goto
<1>2. r \in RequestType /\ label \in Labels /\ label \notin InTransaction
  BY CardOrderAssumption DEF Labels, InTransaction
<1>3. RequestShape'
  <2>1. known' \in SUBSET Cards
    BY <1>1 DEF IndInv, RequestShape
  <2> QED
    BY <1>1, <1>2, <2>1, BeginShape DEF IndInv
<1>4. \A u \in Requests : Creating(u)' =>
          Creating(u) /\ request'[u].card = request[u].card
  BY <1>1, <1>2 DEF Creating, IndInv, RequestShape
<1> QED
  BY <1>1, <1>3, <1>4, QuietStep DEF table

LEMMA LoadKeeps ==
    ASSUME IndInv, NEW t \in Requests, Load(t)
    PROVE  IndInv'
<1> DEFINE row == cards[request[t].card]
<1>1. pc[t] = "load" /\ UNCHANGED <<table, known>>
  BY DEF Load
<1>2. request[t] \in RequestType
  BY <1>1 DEF IndInv, RequestShape
<1>3. CASE row = NoRow
  <2>1. Answer(t, "not_found") /\ request' = request
    BY <1>3 DEF Load
  <2> QED
    BY <1>1, <2>1, AnswerShape, QuietStep DEF table, IndInv
<1>4. CASE row # NoRow
  <2> DEFINE r == [request[t] EXCEPT !.column = Destination(t, row)]
  <2>1. row.column \in Columns
    BY <1>2, <1>4 DEF IndInv, TableShape, Proper, RequestType
  <2>2. Destination(t, row) \in Columns
    BY <1>2, <2>1 DEF Destination, RequestType
  <2>3. r \in RequestType /\ r.column \in Columns
        /\ r.kind = request[t].kind /\ r.card = request[t].card
    BY <1>2, <2>2 DEF RequestType
  <2>4. /\ request' = [request EXCEPT ![t] = r]
        /\ pc' = [pc EXCEPT ![t] = "list"]
        /\ UNCHANGED <<place, todo>>
    BY <1>4 DEF Load, Goto, IndInv, RequestShape
  <2>5. RequestShape'
    <3>1. known' \in SUBSET Cards /\ "list" \in Labels
      BY <1>1 DEF IndInv, RequestShape, Labels, InTransaction
    <3> QED
      BY <2>3, <2>4, <3>1, BeginShape DEF IndInv
  <2>6. \A u \in Requests : Creating(u)' =>
            Creating(u) /\ request'[u].card = request[u].card
    <3>1. request[t].kind # "create"
      BY <1>1 DEF IndInv, RequestShape
    <3>2. \A u \in Requests : /\ pc'[u] = IF u = t THEN "list" ELSE pc[u]
                             /\ request'[u] = IF u = t THEN r ELSE request[u]
      BY <2>4 DEF IndInv, RequestShape
    <3> QED
      BY <2>3, <3>1, <3>2 DEF Creating
  <2> QED
    BY <1>1, <2>5, <2>6, QuietStep DEF table
<1> QED
  BY <1>3, <1>4

(* Inside a transaction, going on to a statement that places nothing. *)
LEMMA GotoShape ==
    ASSUME IndInv, NEW t \in Requests, NEW label \in InTransaction \ {"write"},
           pc[t] \in InTransaction, pc' = [pc EXCEPT ![t] = label],
           UNCHANGED <<request, place, todo, known>>
    PROVE  /\ RequestShape'
           /\ \A u \in Requests : Creating(u)' =>
                 Creating(u) /\ request'[u].card = request[u].card
<1>1. label \in Labels /\ label \notin {"load", "delete"} /\ label # "write"
  BY DEF Labels, InTransaction
<1>2. /\ DOMAIN place' = Requests /\ DOMAIN todo' = Requests
      /\ \E S : todo'[t] \in Seq(Rewrites(S))
  BY DEF IndInv, RequestShape
<1> QED
  BY <1>1, <1>2, ShapeKept DEF IndInv

(* A placement, with whatever key. *)
LEMMA PlaceShape ==
    ASSUME IndInv, NEW t \in Requests, NEW key, Place(t, key),
           pc[t] \in InTransaction, UNCHANGED <<request, todo, known>>
    PROVE  /\ RequestShape'
           /\ \A u \in Requests : Creating(u)' =>
                 Creating(u) /\ request'[u].card = request[u].card
<1>1. request[t].column \in Columns
  BY DEF IndInv, RequestShape
<1>2. "write" \in Labels /\ "write" \in InTransaction
  BY DEF Labels, InTransaction
<1>3. /\ pc' = [pc EXCEPT ![t] = "write"]
      /\ DOMAIN place' = Requests /\ DOMAIN todo' = Requests
      /\ \A u \in Requests \ {t} : place'[u] = place[u]
      /\ place'[t].column = request[t].column
      /\ \E S : todo'[t] \in Seq(Rewrites(S))
  BY DEF Place, Goto, IndInv, RequestShape
<1> QED
  BY <1>1, <1>2, <1>3, ShapeKept DEF IndInv

LEMMA ListKeeps ==
    ASSUME IndInv, NEW t \in Requests, List(t)
    PROVE  IndInv'
<1>1. /\ pc[t] \in InTransaction
      /\ UNCHANGED <<table, request, todo, known>>
  BY DEF List, InTransaction
<1>2. CASE \E key : Place(t, key)
  BY <1>1, <1>2, PlaceShape, QuietStep DEF table
<1>3. CASE Goto(t, "renormalize") /\ UNCHANGED place
  <2>1. "renormalize" \in InTransaction \ {"write"}
    BY DEF InTransaction
  <2> QED
    BY <1>1, <1>3, <2>1, GotoShape, QuietStep DEF table, Goto
<1> QED
  BY <1>2, <1>3 DEF List

(* The rewrites are well formed whatever keys Renormalize gives. *)
LEMMA RenormalizeKeeps ==
    ASSUME IndInv, NEW t \in Requests, RenormalizeCards(t)
    PROVE  IndInv'
<1> DEFINE col == request[t].column
           members == InColumn(t, col)
<1>1. PICK listing \in ListCardsByColumn(t, col) :
          todo' = [todo EXCEPT ![t] = [i \in 1..Len(listing) |->
             [card |-> listing[i],
              row |-> [column |-> col,
                       position |-> Renormalize(Len(listing))[i]]]]]
  BY DEF RenormalizeCards
<1>2. members \subseteq Cards /\ Cardinality(members) \in Nat
  BY TableAssumption, FS_Subset, FS_CardinalityType DEF InColumn
<1>3. listing \in [1..Cardinality(members) -> members]
  BY <1>1 DEF ListCardsByColumn, Listings, Injection, IsInjective
<1>4. Len(listing) \in Nat /\ 1..Len(listing) = 1..Cardinality(members)
  BY <1>2, <1>3
<1> DEFINE S == {Renormalize(Len(listing))[i] : i \in 1..Len(listing)}
<1>5. /\ pc[t] = "renormalize" /\ pc' = [pc EXCEPT ![t] = "rewrite"]
      /\ UNCHANGED <<cards, writes, rechecks, request, place, known>>
  BY DEF RenormalizeCards, Goto
<1>6. col \in Columns
  BY <1>5 DEF IndInv, RequestShape, InTransaction
<1>7. \A i \in 1..Len(listing) : listing[i] \in Cards
  BY <1>2, <1>3, <1>4
<1>8. todo'[t] \in Seq(Rewrites(S))
  <2>1. todo'[t] = [i \in 1..Len(listing) |->
           [card |-> listing[i],
            row |-> [column |-> col,
                     position |-> Renormalize(Len(listing))[i]]]]
    BY <1>1 DEF IndInv, RequestShape
  <2>2. \A i \in 1..Len(listing) :
           [card |-> listing[i],
            row |-> [column |-> col,
                     position |-> Renormalize(Len(listing))[i]]] \in Rewrites(S)
    BY <1>6, <1>7 DEF Rewrites
  <2> HIDE DEF S
  <2> QED
    BY <1>4, <2>1, <2>2
<1>9. "rewrite" \in Labels /\ "rewrite" # "write"
      /\ "rewrite" \notin {"load", "delete"} /\ pc[t] \in InTransaction
  BY <1>5 DEF Labels, InTransaction
<1>10. /\ DOMAIN place' = Requests /\ DOMAIN todo' = Requests
       /\ \A u \in Requests \ {t} : place'[u] = place[u] /\ todo'[u] = todo[u]
  BY <1>1, <1>5 DEF IndInv, RequestShape
<1>11. /\ RequestShape'
       /\ \A u \in Requests : Creating(u)' =>
             Creating(u) /\ request'[u].card = request[u].card
  <2>1. \E Q : todo'[t] \in Seq(Rewrites(Q))
    BY <1>8
  <2> QED
    BY <1>5, <1>9, <1>10, <2>1, ShapeKept DEF IndInv
<1> QED
  BY <1>5, <1>11, QuietStep

LEMMA RewriteKeeps ==
    ASSUME IndInv, NEW t \in Requests, Rewrite(t)
    PROVE  IndInv'
<1>1. pc[t] = "rewrite" /\ UNCHANGED <<request, place, known>>
  BY DEF Rewrite
<1>2. pc[t] \in InTransaction
  BY <1>1 DEF InTransaction
<1>3. CASE todo[t] = <<>>
  <2>1. Goto(t, "relist") /\ UNCHANGED <<table, todo>>
    BY <1>3 DEF Rewrite
  <2>2. "relist" \in InTransaction \ {"write"}
    BY DEF InTransaction
  <2> QED
    BY <1>1, <1>2, <2>1, <2>2, GotoShape, QuietStep DEF table, Goto
<1>4. CASE todo[t] # <<>>
  <2>1. PICK S : todo[t] \in Seq(Rewrites(S))
    BY DEF IndInv, RequestShape
  <2>2. Head(todo[t]) \in Rewrites(S) /\ Tail(todo[t]) \in Seq(Rewrites(S))
    BY <1>4, <2>1
  <2>3. Head(todo[t]).card \in Cards /\ Head(todo[t]).row.column \in Columns
    BY <2>2 DEF Rewrites
  <2>4. /\ UpdateCardPosition(t, Head(todo[t]).card, Head(todo[t]).row)
        /\ todo' = [todo EXCEPT ![t] = Tail(@)]
        /\ pc' = pc
    BY <1>4 DEF Rewrite
  <2>5. /\ DOMAIN todo' = Requests
        /\ \A u \in Requests : todo'[u] = IF u = t THEN Tail(todo[t]) ELSE todo[u]
    BY <2>4 DEF IndInv, RequestShape
  <2>6. \A u \in Requests : \E Q : todo'[u] \in Seq(Rewrites(Q))
    BY <2>2, <2>5 DEF IndInv, RequestShape
  <2>7. RequestShape'
    BY <1>1, <2>4, <2>5, <2>6 DEF IndInv, RequestShape
  <2>8. \A u \in Requests : Creating(u)' =>
            Creating(u) /\ request'[u].card = request[u].card
    BY <1>1, <2>4 DEF Creating
  <2> QED
    BY <1>1, <2>3, <2>4, <2>7, <2>8, UpdateStep
<1> QED
  BY <1>3, <1>4

(* A transaction that is rolled back and whose client is told why. *)
LEMMA GiveUpKeeps ==
    ASSUME IndInv, NEW t \in Requests, NEW reply,
           Rollback(t), Answer(t, reply), UNCHANGED <<request, known>>
    PROVE  IndInv'
  BY AnswerShape, RollbackStep DEF IndInv

LEMMA RelistKeeps ==
    ASSUME IndInv, NEW t \in Requests, Relist(t)
    PROVE  IndInv'
<1>1. pc[t] \in InTransaction /\ UNCHANGED <<request, known>>
  BY DEF Relist, InTransaction
<1>2. CASE (\E key : Place(t, key)) /\ UNCHANGED <<table, todo>>
  BY <1>1, <1>2, PlaceShape, QuietStep DEF table
<1>3. CASE \E err : Rollback(t) /\ Answer(t, err)
  BY <1>1, <1>3, GiveUpKeeps
<1> QED
  BY <1>2, <1>3 DEF Relist

LEMMA WriteKeeps ==
    ASSUME IndInv, NEW t \in Requests, Write(t)
    PROVE  IndInv'
<1> DEFINE c == request[t].card
<1>1. pc[t] = "write" /\ Goto(t, "settle")
      /\ UNCHANGED <<request, place, todo, known>>
  BY DEF Write
<1>2. /\ pc[t] \in InTransaction /\ "settle" \in InTransaction \ {"write"}
      /\ c \in Cards /\ place[t].column \in Columns
  BY <1>1 DEF InTransaction, IndInv, RequestShape, RequestType
<1>3. /\ RequestShape'
      /\ \A u \in Requests : Creating(u)' =>
            Creating(u) /\ request'[u].card = request[u].card
  BY <1>1, <1>2, GotoShape DEF Goto
<1>4. CASE request[t].kind = "create"
  <2>1. PutRow(t, c, place[t])
    BY <1>4 DEF Write, InsertCard
  <2>2. Creating(t)
    BY <1>2, <1>4 DEF Creating
  <2>3. ~LockedByOther(t, c)
    BY <2>2 DEF IndInv, Ids, FreshIds, LockedByOther, Owns
  <2>4. TableShape' /\ Clashfree'
    BY <1>2, <2>1, <2>3, PutRowKeeps DEF IndInv
  <2>5. cards' = cards
    BY <2>1 DEF PutRow
  <2>6. ASSUME NEW u \in Requests, NEW d \in Cards, Owns(u, d)'
        PROVE  Owns(u, d) \/ (u = t /\ d = c)
    <3>1. writes'[u][d] = IF u = t /\ d = c THEN place[t] ELSE writes[u][d]
      BY <2>1 DEF PutRow, IndInv, TableShape
    <3> QED
      BY <2>6, <3>1 DEF Owns
  <2>7. Ids'
    BY <1>1, <1>3, <2>2, <2>5, <2>6, IdsKept DEF IndInv
  <2> QED
    BY <1>3, <2>4, <2>7 DEF IndInv
<1>5. CASE request[t].kind # "create"
  <2>1. UpdateCardPosition(t, c, place[t])
    BY <1>5 DEF Write
  <2> QED
    BY <1>1, <1>2, <1>3, <2>1, UpdateStep
<1> QED
  BY <1>4, <1>5

LEMMA SettleKeeps ==
    ASSUME IndInv, NEW t \in Requests, Settle(t)
    PROVE  IndInv'
<1>1. Recheck(t) /\ UNCHANGED <<pc, request, place, todo, known>>
  BY DEF Settle
<1>2. UNCHANGED <<cards, writes>>
  BY <1>1 DEF Recheck
<1>3. TableShape' /\ Clashfree'
  BY <1>1, RecheckKeeps DEF IndInv
<1>4. RequestShape'
  BY <1>1 DEF IndInv, RequestShape
<1>5. Ids'
  BY <1>1, <1>2 DEF IndInv, Ids, KnownIds, FreshIds, Creating, Owns
<1> QED
  BY <1>3, <1>4, <1>5 DEF IndInv

LEMMA LoseConflictKeeps ==
    ASSUME IndInv, NEW t \in Requests, LoseConflict(t)
    PROVE  IndInv'
<1>1. /\ pc[t] \in InTransaction /\ Rollback(t)
      /\ UNCHANGED <<request, known>>
  BY DEF LoseConflict, InTransaction
<1>2. CASE Goto(t, "list") /\ UNCHANGED <<place, todo>>
  <2>1. "list" \in InTransaction \ {"write"}
    BY DEF InTransaction
  <2> QED
    BY <1>1, <1>2, <2>1, GotoShape, RollbackStep DEF Goto
<1>3. CASE \E reply : Answer(t, reply)
  BY <1>1, <1>3, GiveUpKeeps
<1> QED
  BY <1>2, <1>3 DEF LoseConflict

LEMMA CommitStepKeeps ==
    ASSUME IndInv, NEW t \in Requests, Commit(t)
    PROVE  IndInv'
<1>1. /\ CommitTransaction(t) /\ Answer(t, "ok")
      /\ UNCHANGED <<request, known>>
  BY DEF Commit
<1>2. /\ RequestShape'
      /\ \A u \in Requests : Creating(u)' =>
            Creating(u) /\ request'[u].card = request[u].card
      /\ ~Creating(t)'
  BY <1>1, AnswerShape DEF IndInv
<1>3. TableShape' /\ Clashfree'
  BY <1>1, CommitKeeps DEF IndInv
<1>4. \A c \in Cards : cards'[c] # NoRow => cards[c] # NoRow \/ Owns(t, c)
  BY <1>1 DEF CommitTransaction, View, Owns
<1>5. \A u \in Requests, c \in Cards : Owns(u, c)' => Owns(u, c)
  BY <1>1, EndOfTransaction DEF CommitTransaction, Owns, IndInv
<1>6. Ids'
  BY <1>1, <1>2, <1>4, <1>5, IdsKept DEF IndInv
<1> QED
  BY <1>2, <1>3, <1>6 DEF IndInv

LEMMA DeleteStepKeeps ==
    ASSUME IndInv, NEW t \in Requests, Delete(t)
    PROVE  IndInv'
<1> DEFINE c == request[t].card
<1>1. /\ pc[t] = "delete" /\ DeleteCard(t, c) /\ Answer(t, "ok")
      /\ UNCHANGED <<request, known>>
  BY DEF Delete
<1>2. c \in Cards
  BY <1>1 DEF IndInv, RequestShape, RequestType
<1>3. /\ RequestShape'
      /\ \A u \in Requests : Creating(u)' =>
            Creating(u) /\ request'[u].card = request[u].card
      /\ ~Creating(t)'
  BY <1>1, AnswerShape DEF IndInv
<1>4. TableShape' /\ Clashfree'
  BY <1>1, <1>2, DeleteKeeps DEF IndInv
<1>5. /\ \A d \in Cards : cards'[d] # NoRow => cards[d] # NoRow
      /\ writes' = writes
  BY <1>1 DEF DeleteCard, IndInv, TableShape
<1>6. Ids'
  BY <1>1, <1>3, <1>5, IdsKept DEF IndInv, Owns
<1> QED
  BY <1>3, <1>4, <1>6 DEF IndInv
-----------------------------------------------------------------------------
LEMMA NextKeeps == IndInv /\ [Next]_vars => IndInv'
<1> SUFFICES ASSUME IndInv, [Next]_vars PROVE IndInv'
  OBVIOUS
<1>1. ASSUME NEW t \in Requests, StartCreate(t) PROVE IndInv'
  BY <1>1, StartCreateKeeps
<1>2. ASSUME NEW t \in Requests, StartMove(t) \/ StartDelete(t) PROVE IndInv'
  BY <1>2, StartOtherKeeps
<1>3. ASSUME NEW t \in Requests, Statement(t) PROVE IndInv'
  BY <1>3, LoadKeeps, ListKeeps, RenormalizeKeeps, RewriteKeeps, RelistKeeps,
     WriteKeeps, SettleKeeps, LoseConflictKeeps, CommitStepKeeps,
     DeleteStepKeeps DEF Statement
<1>4. ASSUME NEW t \in Requests, Cancel(t) \/ DeadlockVictim(t) PROVE IndInv'
  BY <1>4, GiveUpKeeps DEF Cancel, DeadlockVictim
<1>5. CASE UNCHANGED vars
  <2>1. TableShape' /\ Clashfree'
    BY <1>5, TableUnchanged DEF vars, table, IndInv
  <2>2. RequestShape'
    BY <1>5 DEF vars, IndInv, RequestShape
  <2>3. Ids'
    BY <1>5 DEF vars, table, IndInv, Ids, KnownIds, FreshIds, Creating, Owns
  <2> QED
    BY <2>1, <2>2, <2>3 DEF IndInv
<1> QED
  BY <1>1, <1>2, <1>3, <1>4, <1>5 DEF Next

(* The invariant that carries the others: rows are locked by one           *)
(* transaction, and a written row that passed its check is found again     *)
(* only where that is harmless.                                            *)
THEOREM Inductive == Spec => []IndInv
<1> QED
  BY InitEstablishes, NextKeeps, PTL DEF Spec

(* No interleaving of requests commits two cards of a column at one        *)
(* position: the write-time clash test plus the recheck of the rows that   *)
(* met one is enough, deferred or not, whatever keys the requests compute  *)
(* (server/migrations/0003_kanban.up.sql:47, board_repository.go).         *)
THEOREM PositionsStayUnique == Spec => []UniquePositions
<1>1. IndInv => UniquePositions
  BY DEF IndInv, Clashfree
<1> QED
  BY <1>1, Inductive, PTL
-----------------------------------------------------------------------------
(* The types of the state, positions included *)

(* A request that is not answered yet has an attempt left, and what it is  *)
(* about to write is a row.                                                *)
TypeInv ==
    /\ TypeOK
    /\ \A t \in Requests : pc[t] # "done" => tries[t] < MaxConflictRetries
    /\ \A t \in Requests : pc[t] = "write" => place[t] \in Row

Replies == {"none", "ok", "not_found", "conflict", "unique_violation",
            "deadlock", "exhausted", "invalid", "cancelled"}

LEMMA ViewType ==
    ASSUME TableTypeOK, NEW t \in Requests
    PROVE  /\ View(t) \in [Cards -> Row \cup {NoRow}]
           /\ \A c \in Cards : View(t)[c].column \in Columns => View(t)[c] \in Row
<1>1. View(t) \in [Cards -> Row \cup {NoRow}]
  BY DEF TableTypeOK, View
<1>2. NoRow.column \notin Columns
  BY TableAssumption DEF NoRow
<1> QED
  BY <1>1, <1>2

(* What a transaction lists is a sequence of cards, each with a key.       *)
LEMMA ListingType ==
    ASSUME TableTypeOK, NEW t \in Requests, NEW members \in SUBSET Cards,
           \A c \in members : View(t)[c].column \in Columns,
           NEW listing \in Listings(t, members)
    PROVE  /\ listing \in Seq(members) /\ DOMAIN listing = 1..Len(listing)
           /\ [i \in DOMAIN listing |-> View(t)[listing[i]].position] \in Seq(Key)
<1> DEFINE n == Cardinality(members)
           positions == [i \in DOMAIN listing |-> View(t)[listing[i]].position]
<1>1. n \in Nat
  BY TableAssumption, FS_Subset, FS_CardinalityType
<1>2. listing \in [1..n -> members]
  BY DEF Listings, Injection, IsInjective
<1> HIDE DEF n
<1>3. listing \in Seq(members) /\ Len(listing) = n /\ DOMAIN listing = 1..n
  BY <1>1, <1>2, FunctionsAreSequences
<1>4. \A c \in members : View(t)[c].position \in Key
  <2> SUFFICES ASSUME NEW c \in members PROVE View(t)[c].position \in Key
    OBVIOUS
  <2>1. View(t)[c] \in Row
    BY ViewType
  <2> QED
    BY <2>1 DEF Row
<1>5. positions \in [1..n -> Key]
  BY <1>2, <1>3, <1>4
<1> HIDE DEF positions
<1>6. positions \in Seq(Key)
  BY <1>1, <1>5, FunctionsAreSequences
<1> QED
  BY <1>3, <1>6 DEF positions

(* The bounds of a placement are keys of the table or open.                *)
LEMMA NeighborsType ==
    ASSUME NEW siblings \in Seq(Key), NEW i \in Nat
    PROVE  /\ Neighbors(siblings, i).prev \in Key \cup {Open}
           /\ Neighbors(siblings, i).next \in Key \cup {Open}
<1>1. Len(siblings) \in Nat /\ \A j \in 1..Len(siblings) : siblings[j] \in Key
  OBVIOUS
<1>2. CASE i >= Len(siblings)
  <2>1. siblings # <<>> => Len(siblings) \in 1..Len(siblings)
    OBVIOUS
  <2> QED
    BY <1>1, <1>2, <2>1 DEF Neighbors
<1>3. CASE ~(i >= Len(siblings))
  <2>1. i + 1 \in 1..Len(siblings) /\ (i # 0 => i \in 1..Len(siblings))
    BY <1>1, <1>3
  <2> QED
    BY <1>1, <1>3, <2>1 DEF Neighbors
<1> QED
  BY <1>2, <1>3

(* A placement inside a transaction: a key, or one of Between's errors.    *)
LEMMA PlacementType ==
    ASSUME IndInv, TypeOK, NEW t \in Requests, pc[t] \in InTransaction,
           NEW siblings \in CardPositions(t)
    PROVE  LET pair == PositionAmong(t, siblings) IN
           /\ pair.err \in {"none", "exhausted", "invalid"}
           /\ pair.err = "none" => pair.key \in Key
<1> DEFINE col == request[t].column
           members == InColumn(t, col) \ {request[t].card}
           bounds == Neighbors(siblings, request[t].index)
<1>1. col \in Columns /\ request[t] \in RequestType
  BY DEF IndInv, RequestShape, InTransaction
<1>2. /\ members \in SUBSET Cards
      /\ \A c \in members : View(t)[c].column \in Columns
  BY <1>1 DEF InColumn
<1>3. siblings \in Seq(Key)
  <2>1. PICK l \in Listings(t, members) :
            siblings = [i \in DOMAIN l |-> View(t)[l[i]].position]
    BY DEF CardPositions
  <2> HIDE DEF members
  <2> QED
    BY <1>2, <2>1, ListingType DEF TypeOK
<1>4. request[t].index \in Nat
  BY <1>1 DEF RequestType
<1>5. bounds.prev \in Key \cup {Open} /\ bounds.next \in Key \cup {Open}
  BY <1>3, <1>4, NeighborsType
<1>6. PositionAmong(t, siblings) = Between(bounds.prev, bounds.next)
  BY DEF PositionAmong
<1> HIDE DEF bounds
<1> QED
  BY <1>5, <1>6, BetweenIsStrict, BetweenOutcome, ErrorsDiffer

(* The rewrites of a renormalization are rows.                             *)
LEMMA RewritesType ==
    ASSUME IndInv, TypeOK, NEW t \in Requests, pc[t] \in InTransaction,
           NEW listing \in ListCardsByColumn(t, request[t].column)
    PROVE  [i \in 1..Len(listing) |->
              [card |-> listing[i],
               row |-> [column |-> request[t].column,
                        position |-> Renormalize(Len(listing))[i]]]]
             \in Seq([card : Cards, row : Row])
<1> DEFINE col == request[t].column
           members == InColumn(t, col)
           n == Len(listing)
           keys == Renormalize(n)
<1>1. col \in Columns
  BY DEF IndInv, RequestShape, InTransaction
<1>2. /\ members \in SUBSET Cards
      /\ \A c \in members : View(t)[c].column \in Columns
  BY <1>1 DEF InColumn
<1>3. listing \in Seq(members)
  <2>1. listing \in Listings(t, members)
    BY DEF ListCardsByColumn
  <2> HIDE DEF members
  <2> QED
    BY <1>2, <2>1, ListingType DEF TypeOK
<1>4. n \in Nat /\ \A i \in 1..n : listing[i] \in Cards
  BY <1>2, <1>3
<1> HIDE DEF n
<1>5. keys \in Seq(Key) /\ Len(keys) = n
  BY <1>4, RenormalizedKeysAscend
<1> HIDE DEF keys
<1>6. \A i \in 1..n : keys[i] \in Key
  BY <1>5
<1> DEFINE rewrites == [i \in 1..n |->
              [card |-> listing[i], row |-> [column |-> col, position |-> keys[i]]]]
<1>7. rewrites \in [1..n -> [card : Cards, row : Row]]
  BY <1>1, <1>4, <1>6 DEF Row
<1> HIDE DEF rewrites
<1>8. rewrites \in Seq([card : Cards, row : Row])
  BY <1>4, <1>7, FunctionsAreSequences
<1> QED
  BY <1>8 DEF rewrites, n, keys

LEMMA PutRowTypes ==
    ASSUME TableTypeOK, NEW t \in Requests, NEW c \in Cards, NEW row \in Row,
           PutRow(t, c, row), UNCHANGED deferred
    PROVE  TableTypeOK'
  BY DEF TableTypeOK, PutRow

LEMMA UpdateTypes ==
    ASSUME TableTypeOK, NEW t \in Requests, NEW c \in Cards, NEW row \in Row,
           UpdateCardPosition(t, c, row), UNCHANGED deferred
    PROVE  TableTypeOK'
<1>1. CASE UNCHANGED <<cards, writes, rechecks>>
  BY <1>1 DEF TableTypeOK
<1>2. CASE PutRow(t, c, row)
  BY <1>2, PutRowTypes
<1> QED
  BY <1>1, <1>2 DEF UpdateCardPosition

LEMMA RollbackTypes ==
    ASSUME TableTypeOK, NEW t \in Requests, Rollback(t)
    PROVE  TableTypeOK'
  BY DEF TableTypeOK, Rollback, EndTransaction, NoWrites

LEMMA CommitTypes ==
    ASSUME TableTypeOK, NEW t \in Requests, CommitTransaction(t)
    PROVE  TableTypeOK'
  BY ViewType DEF TableTypeOK, CommitTransaction, EndTransaction, NoWrites

LEMMA TableStutters ==
    ASSUME TableTypeOK, UNCHANGED table
    PROVE  TableTypeOK'
  BY DEF TableTypeOK, table

(* Going on to another statement of the same request.                      *)
LEMMA GotoTypes ==
    ASSUME TypeInv, TableTypeOK', NEW t \in Requests,
           NEW label \in InTransaction, Goto(t, label), pc[t] # "done",
           place' \in [Requests -> Row \cup {NoRow}],
           \A u \in Requests \ {t} : place'[u] = place[u],
           label = "write" => place'[t] \in Row,
           todo' \in [Requests -> Seq([card : Cards, row : Row])],
           overtaken' \in [Requests -> BOOLEAN],
           UNCHANGED <<request, tries, answer, known>>
    PROVE  TypeInv'
<1>1. /\ pc' \in [Requests -> InTransaction \cup {"idle", "load", "delete", "done"}]
      /\ \A u \in Requests : pc'[u] = IF u = t THEN label ELSE pc[u]
  BY DEF TypeInv, TypeOK, Goto
<1>2. TypeOK'
  BY <1>1 DEF TypeInv, TypeOK
<1> QED
  BY <1>1, <1>2 DEF TypeInv

LEMMA AnswerTypes ==
    ASSUME TypeInv, TableTypeOK', NEW t \in Requests,
           NEW reply \in Replies, Answer(t, reply),
           tries' \in [Requests -> 0..MaxConflictRetries],
           \A u \in Requests \ {t} : tries'[u] = tries[u],
           overtaken' \in [Requests -> BOOLEAN],
           UNCHANGED <<request, known>>
    PROVE  TypeInv'
<1>1. /\ pc' \in [Requests -> InTransaction \cup {"idle", "load", "delete", "done"}]
      /\ \A u \in Requests : pc'[u] = IF u = t THEN "done" ELSE pc[u]
  BY DEF TypeInv, TypeOK, Answer, Goto
<1>2. answer' \in [Requests -> Replies]
  BY DEF TypeInv, TypeOK, Answer, Replies
<1>3. /\ place' \in [Requests -> Row \cup {NoRow}]
      /\ \A u \in Requests \ {t} : place'[u] = place[u]
  BY DEF TypeInv, TypeOK, Answer
<1>4. todo' \in [Requests -> Seq([card : Cards, row : Row])]
  <2>1. <<>> \in Seq([card : Cards, row : Row])
    OBVIOUS
  <2> QED
    BY <2>1 DEF TypeInv, TypeOK, Answer
<1>5. TypeOK'
  BY <1>1, <1>2, <1>3, <1>4 DEF TypeInv, TypeOK, Replies
<1> QED
  BY <1>1, <1>3, <1>5 DEF TypeInv

(* A request is accepted. *)
LEMMA StartTypes ==
    ASSUME TypeInv, NEW t \in Requests, StartCreate(t) \/ StartMove(t) \/ StartDelete(t)
    PROVE  TypeInv'
<1>1. PICK r \in Menu, label \in {"list", "load", "delete"} :
          /\ pc[t] = "idle"
          /\ request' = [request EXCEPT ![t] = r]
          /\ known' = known \/ known' = known \cup {r.card}
          /\ pc' = [pc EXCEPT ![t] = label]
          /\ UNCHANGED <<table, tries, place, todo, answer, overtaken>>
  BY DEF StartCreate, StartMove, StartDelete, Goto
<1>2. r \in RequestType /\ r.card \in Cards
  BY CardOrderAssumption DEF RequestType
<1>3. label \in InTransaction \cup {"idle", "load", "delete", "done"} /\ label # "write"
  BY DEF InTransaction
<1>4. TableTypeOK'
  BY <1>1, TableStutters DEF TypeInv, TypeOK
<1>5. TypeOK'
  BY <1>1, <1>2, <1>3, <1>4 DEF TypeInv, TypeOK
<1> QED
  BY <1>1, <1>3, <1>5 DEF TypeInv, TypeOK

LEMMA LoadTypes ==
    ASSUME IndInv, TypeInv, NEW t \in Requests, Load(t)
    PROVE  TypeInv'
<1> DEFINE row == cards[request[t].card]
<1>1. pc[t] = "load" /\ UNCHANGED <<table, tries, known, overtaken>>
  BY DEF Load
<1>2. request[t] \in RequestType
  BY <1>1 DEF IndInv, RequestShape
<1>3. TableTypeOK'
  BY <1>1, TableStutters DEF TypeInv, TypeOK
<1>4. CASE row = NoRow
  <2>1. Answer(t, "not_found") /\ request' = request /\ "not_found" \in Replies
    BY <1>4 DEF Load, Replies
  <2>2. /\ tries' \in [Requests -> 0..MaxConflictRetries]
        /\ overtaken' \in [Requests -> BOOLEAN]
    BY <1>1 DEF TypeInv, TypeOK
  <2> QED
    BY <1>1, <1>3, <2>1, <2>2, AnswerTypes
<1>5. CASE row # NoRow
  <2> DEFINE r == [request[t] EXCEPT !.column = Destination(t, row)]
  <2>1. row \in Row
    BY <1>2, <1>5 DEF TypeInv, TypeOK, TableTypeOK, RequestType
  <2>2. Destination(t, row) \in Columns
    BY <1>2, <2>1 DEF Destination, RequestType, Row
  <2>3. r \in RequestType
    BY <1>2, <2>2 DEF RequestType
  <2>4. /\ request' = [request EXCEPT ![t] = r]
        /\ pc' = [pc EXCEPT ![t] = "list"]
        /\ UNCHANGED <<answer, place, todo>>
    BY <1>5 DEF Load, Goto, TypeInv, TypeOK
  <2> HIDE DEF r
  <2>5. "list" \in InTransaction
    BY DEF InTransaction
  <2>6. TypeOK'
    BY <1>1, <1>3, <2>3, <2>4, <2>5 DEF TypeInv, TypeOK
  <2> QED
    BY <1>1, <2>4, <2>6 DEF TypeInv, TypeOK
<1> QED
  BY <1>4, <1>5

LEMMA PlaceTypes ==
    ASSUME TypeInv, NEW t \in Requests, pc[t] \in InTransaction,
           request[t].column \in Columns, NEW key \in Key, Place(t, key),
           overtaken' \in [Requests -> BOOLEAN],
           UNCHANGED <<table, request, tries, todo, answer, known>>
    PROVE  TypeInv'
<1>1. [column |-> request[t].column, position |-> key] \in Row
  BY DEF Row
<1>2. /\ place' \in [Requests -> Row \cup {NoRow}]
      /\ \A u \in Requests \ {t} : place'[u] = place[u]
      /\ place'[t] \in Row
  BY <1>1 DEF TypeInv, TypeOK, Place
<1>3. TableTypeOK' /\ todo' \in [Requests -> Seq([card : Cards, row : Row])]
  BY TableStutters DEF TypeInv, TypeOK
<1>4. Goto(t, "write") /\ "write" \in InTransaction /\ pc[t] # "done"
  BY DEF Place, InTransaction
<1> QED
  BY <1>2, <1>3, <1>4, GotoTypes

LEMMA ListTypes ==
    ASSUME IndInv, TypeInv, NEW t \in Requests, List(t)
    PROVE  TypeInv'
<1>1. /\ pc[t] \in InTransaction /\ pc[t] # "done"
      /\ UNCHANGED <<table, request, tries, todo, answer, known>>
  BY DEF List, InTransaction
<1>2. request[t].column \in Columns
  BY <1>1 DEF IndInv, RequestShape
<1>3. overtaken' \in [Requests -> BOOLEAN]
  BY DEF List, TypeInv, TypeOK
<1>4. CASE \E key \in Key : Place(t, key)
  BY <1>1, <1>2, <1>3, <1>4, PlaceTypes
<1>5. CASE Goto(t, "renormalize") /\ UNCHANGED place
  <2>1. "renormalize" \in InTransaction
    BY DEF InTransaction
  <2>2. TableTypeOK'
    BY <1>1, TableStutters DEF TypeInv, TypeOK
  <2>3. /\ place' \in [Requests -> Row \cup {NoRow}]
        /\ todo' \in [Requests -> Seq([card : Cards, row : Row])]
    BY <1>1, <1>5 DEF TypeInv, TypeOK
  <2> QED
    BY <1>1, <1>3, <1>5, <2>1, <2>2, <2>3, GotoTypes
<1>6. \A siblings \in CardPositions(t) :
          PositionAmong(t, siblings).err = "none"
             => PositionAmong(t, siblings).key \in Key
  BY <1>1, PlacementType DEF TypeInv
<1> QED
  BY <1>4, <1>5, <1>6 DEF List

LEMMA RenormalizeTypes ==
    ASSUME IndInv, TypeInv, NEW t \in Requests, RenormalizeCards(t)
    PROVE  TypeInv'
<1>1. /\ pc[t] = "renormalize" /\ Goto(t, "rewrite")
      /\ deferred' = [deferred EXCEPT ![t] = TRUE]
      /\ UNCHANGED <<cards, writes, rechecks, request, tries, place, answer,
                     known, overtaken>>
  BY DEF RenormalizeCards
<1>2. pc[t] \in InTransaction /\ pc[t] # "done" /\ "rewrite" \in InTransaction
  BY <1>1 DEF InTransaction
<1>3. PICK listing \in ListCardsByColumn(t, request[t].column) :
          todo' = [todo EXCEPT ![t] = [i \in 1..Len(listing) |->
             [card |-> listing[i],
              row |-> [column |-> request[t].column,
                       position |-> Renormalize(Len(listing))[i]]]]]
  BY DEF RenormalizeCards
<1>4. todo' \in [Requests -> Seq([card : Cards, row : Row])]
  BY <1>2, <1>3, RewritesType DEF TypeInv, TypeOK
<1>5. TableTypeOK'
  BY <1>1 DEF TypeInv, TypeOK, TableTypeOK
<1>6. /\ place' \in [Requests -> Row \cup {NoRow}]
      /\ overtaken' \in [Requests -> BOOLEAN]
  BY <1>1 DEF TypeInv, TypeOK
<1> QED
  BY <1>1, <1>2, <1>4, <1>5, <1>6, GotoTypes

LEMMA RewriteTypes ==
    ASSUME TypeInv, NEW t \in Requests, Rewrite(t)
    PROVE  TypeInv'
<1>1. pc[t] = "rewrite" /\ UNCHANGED <<request, tries, place, answer, known, overtaken>>
  BY DEF Rewrite
<1>2. /\ place' \in [Requests -> Row \cup {NoRow}]
      /\ overtaken' \in [Requests -> BOOLEAN]
      /\ todo[t] \in Seq([card : Cards, row : Row])
  BY <1>1 DEF TypeInv, TypeOK
<1>3. CASE todo[t] = <<>>
  <2>1. Goto(t, "relist") /\ UNCHANGED <<table, todo>> /\ "relist" \in InTransaction
    BY <1>3 DEF Rewrite, InTransaction
  <2>2. TableTypeOK' /\ todo' \in [Requests -> Seq([card : Cards, row : Row])]
    BY <2>1, TableStutters DEF TypeInv, TypeOK
  <2> QED
    BY <1>1, <1>2, <2>1, <2>2, GotoTypes
<1>4. CASE todo[t] # <<>>
  <2>1. /\ UpdateCardPosition(t, Head(todo[t]).card, Head(todo[t]).row)
        /\ todo' = [todo EXCEPT ![t] = Tail(@)]
        /\ UNCHANGED <<deferred, pc>>
    BY <1>4 DEF Rewrite
  <2>2. /\ Head(todo[t]) \in [card : Cards, row : Row]
        /\ Tail(todo[t]) \in Seq([card : Cards, row : Row])
    <3> DEFINE S == [card : Cards, row : Row]
    <3>1. todo[t] \in Seq(S)
      BY <1>2
    <3> HIDE DEF S
    <3>2. Head(todo[t]) \in S /\ Tail(todo[t]) \in Seq(S)
      BY <1>4, <3>1
    <3> QED
      BY <3>2 DEF S
  <2>3. TableTypeOK'
    BY <2>1, <2>2, UpdateTypes DEF TypeInv, TypeOK
  <2>4. todo' \in [Requests -> Seq([card : Cards, row : Row])]
    BY <2>1, <2>2 DEF TypeInv, TypeOK
  <2>5. TypeOK'
    BY <1>1, <2>1, <2>3, <2>4 DEF TypeInv, TypeOK
  <2> QED
    BY <1>1, <2>1, <2>5 DEF TypeInv
<1> QED
  BY <1>3, <1>4

LEMMA GiveUpTypes ==
    ASSUME TypeInv, NEW t \in Requests, NEW reply \in Replies,
           Rollback(t), Answer(t, reply), UNCHANGED <<request, tries, known, overtaken>>
    PROVE  TypeInv'
<1>1. TableTypeOK'
  BY RollbackTypes DEF TypeInv, TypeOK
<1>2. /\ tries' \in [Requests -> 0..MaxConflictRetries]
      /\ overtaken' \in [Requests -> BOOLEAN]
  BY DEF TypeInv, TypeOK
<1> QED
  BY <1>1, <1>2, AnswerTypes

LEMMA RelistTypes ==
    ASSUME IndInv, TypeInv, NEW t \in Requests, Relist(t)
    PROVE  TypeInv'
<1>1. pc[t] \in InTransaction /\ UNCHANGED <<request, tries, known, overtaken>>
  BY DEF Relist, InTransaction
<1>2. request[t].column \in Columns /\ overtaken' \in [Requests -> BOOLEAN]
  BY <1>1 DEF IndInv, RequestShape, TypeInv, TypeOK
<1>3. PICK siblings \in CardPositions(t) :
          LET pair == PositionAmong(t, siblings) IN
          \/ /\ pair.err = "none"
             /\ Place(t, pair.key)
             /\ UNCHANGED <<table, todo, answer>>
          \/ /\ pair.err # "none"
             /\ Rollback(t)
             /\ Answer(t, pair.err)
  BY DEF Relist
<1> DEFINE pair == PositionAmong(t, siblings)
<1>4. /\ pair.err \in {"none", "exhausted", "invalid"}
      /\ pair.err = "none" => pair.key \in Key
  BY <1>1, PlacementType DEF TypeInv
<1> HIDE DEF pair
<1>5. CASE pair.err = "none" /\ Place(t, pair.key) /\ UNCHANGED <<table, todo, answer>>
  BY <1>1, <1>2, <1>4, <1>5, PlaceTypes
<1>6. CASE pair.err # "none" /\ Rollback(t) /\ Answer(t, pair.err)
  <2>1. pair.err \in Replies
    BY <1>4 DEF Replies
  <2> QED
    BY <1>1, <1>6, <2>1, GiveUpTypes
<1> QED
  BY <1>3, <1>5, <1>6 DEF pair

LEMMA WriteTypes ==
    ASSUME IndInv, TypeInv, NEW t \in Requests, Write(t)
    PROVE  TypeInv'
<1> DEFINE c == request[t].card
<1>1. pc[t] = "write" /\ Goto(t, "settle")
      /\ UNCHANGED <<deferred, request, tries, place, todo, answer, known, overtaken>>
  BY DEF Write
<1>2. c \in Cards /\ place[t] \in Row
  BY <1>1 DEF IndInv, RequestShape, RequestType, TypeInv
<1>3. TableTypeOK'
  <2>1. CASE InsertCard(t, c, place[t])
    BY <1>1, <1>2, <2>1, PutRowTypes DEF InsertCard, TypeInv, TypeOK
  <2>2. CASE UpdateCardPosition(t, c, place[t])
    BY <1>1, <1>2, <2>2, UpdateTypes DEF TypeInv, TypeOK
  <2> QED
    BY <2>1, <2>2 DEF Write
<1>4. /\ place' \in [Requests -> Row \cup {NoRow}]
      /\ todo' \in [Requests -> Seq([card : Cards, row : Row])]
      /\ overtaken' \in [Requests -> BOOLEAN]
  BY <1>1 DEF TypeInv, TypeOK
<1>5. "settle" \in InTransaction
  BY DEF InTransaction
<1> QED
  BY <1>1, <1>3, <1>4, <1>5, GotoTypes

LEMMA SettleTypes ==
    ASSUME TypeInv, NEW t \in Requests, Settle(t)
    PROVE  TypeInv'
<1>1. /\ UNCHANGED <<pc, request, tries, place, todo, answer, known, overtaken>>
      /\ UNCHANGED <<cards, writes, deferred>>
      /\ \E c : rechecks' = [rechecks EXCEPT ![t] = @ \ {c}]
  BY DEF Settle, Recheck
<1>2. TableTypeOK'
  BY <1>1 DEF TypeInv, TypeOK, TableTypeOK
<1> QED
  BY <1>1, <1>2 DEF TypeInv, TypeOK

LEMMA LoseConflictTypes ==
    ASSUME TypeInv, NEW t \in Requests, LoseConflict(t)
    PROVE  TypeInv'
<1>1. /\ pc[t] = "settle" /\ Rollback(t) /\ UNCHANGED <<request, known, overtaken>>
  BY DEF LoseConflict
<1>2. TableTypeOK'
  BY <1>1, RollbackTypes DEF TypeInv, TypeOK
<1>3. /\ tries[t] \in Nat /\ tries[t] < MaxConflictRetries /\ MaxConflictRetries \in Nat
      /\ overtaken' \in [Requests -> BOOLEAN]
  BY <1>1, CardOrderAssumption DEF TypeInv, TypeOK
<1>4. CASE RetriesLeft(t) /\ tries' = [tries EXCEPT ![t] = @ + 1]
           /\ Goto(t, "list") /\ UNCHANGED <<place, todo, answer>>
  <2>1. tries[t] + 1 < MaxConflictRetries /\ tries[t] + 1 \in 0..MaxConflictRetries
    BY <1>3, <1>4 DEF RetriesLeft
  <2>2. /\ tries' \in [Requests -> 0..MaxConflictRetries]
        /\ \A u \in Requests : tries'[u] = IF u = t THEN tries[t] + 1 ELSE tries[u]
    BY <1>4, <2>1 DEF TypeInv, TypeOK
  <2>3. /\ pc' \in [Requests -> InTransaction \cup {"idle", "load", "delete", "done"}]
        /\ \A u \in Requests : pc'[u] = IF u = t THEN "list" ELSE pc[u]
    BY <1>4 DEF TypeInv, TypeOK, Goto, InTransaction
  <2>4. TypeOK'
    BY <1>1, <1>2, <1>4, <2>2, <2>3 DEF TypeInv, TypeOK
  <2> QED
    BY <1>4, <2>1, <2>2, <2>3, <2>4 DEF TypeInv
<1>5. CASE tries' = [tries EXCEPT ![t] = @ + 1] /\ Answer(t, "conflict")
  <2>1. tries[t] + 1 \in 0..MaxConflictRetries /\ "conflict" \in Replies
    BY <1>3 DEF Replies
  <2>2. /\ tries' \in [Requests -> 0..MaxConflictRetries]
        /\ \A u \in Requests \ {t} : tries'[u] = tries[u]
    BY <1>5, <2>1 DEF TypeInv, TypeOK
  <2> QED
    BY <1>1, <1>2, <1>3, <1>5, <2>1, <2>2, AnswerTypes
<1>6. CASE Answer(t, "unique_violation") /\ UNCHANGED tries
  <2>1. "unique_violation" \in Replies
    BY DEF Replies
  <2> QED
    BY <1>1, <1>6, <2>1, GiveUpTypes
<1> QED
  BY <1>4, <1>5, <1>6 DEF LoseConflict

LEMMA EndedTypes ==
    ASSUME TypeInv, NEW t \in Requests,
           CommitTransaction(t) \/ DeleteCard(t, request[t].card),
           Answer(t, "ok"), OvertakeOthers(t), UNCHANGED <<request, tries, known>>
    PROVE  TypeInv'
<1>1. TableTypeOK'
  <2>1. CASE CommitTransaction(t)
    BY <2>1, CommitTypes DEF TypeInv, TypeOK
  <2>2. CASE DeleteCard(t, request[t].card)
    BY <2>2 DEF TypeInv, TypeOK, TableTypeOK, DeleteCard
  <2> QED
    BY <2>1, <2>2
<1>2. overtaken' \in [Requests -> BOOLEAN]
  BY DEF OvertakeOthers, TypeInv, TypeOK
<1>3. "ok" \in Replies /\ tries' \in [Requests -> 0..MaxConflictRetries]
  BY DEF Replies, TypeInv, TypeOK
<1> QED
  BY <1>1, <1>2, <1>3, AnswerTypes

LEMMA TypesKept == IndInv /\ TypeInv /\ [Next]_vars => TypeInv'
<1> SUFFICES ASSUME IndInv, TypeInv, [Next]_vars PROVE TypeInv'
  OBVIOUS
<1>1. ASSUME NEW t \in Requests, StartCreate(t) \/ StartMove(t) \/ StartDelete(t)
      PROVE  TypeInv'
  BY <1>1, StartTypes
<1>2. ASSUME NEW t \in Requests, Statement(t) PROVE TypeInv'
  BY <1>2, LoadTypes, ListTypes, RenormalizeTypes, RewriteTypes, RelistTypes,
     WriteTypes, SettleTypes, LoseConflictTypes, EndedTypes
     DEF Statement, Commit, Delete
<1>3. ASSUME NEW t \in Requests, Cancel(t) \/ DeadlockVictim(t) PROVE TypeInv'
  <2>1. "cancelled" \in Replies /\ "deadlock" \in Replies
    BY DEF Replies
  <2> QED
    BY <1>3, <2>1, GiveUpTypes DEF Cancel, DeadlockVictim
<1>4. CASE UNCHANGED vars
  <2>1. TableTypeOK'
    BY <1>4, TableStutters DEF vars, TypeInv, TypeOK
  <2> QED
    BY <1>4, <2>1 DEF vars, TypeInv, TypeOK
<1> QED
  BY <1>1, <1>2, <1>3, <1>4 DEF Next

LEMMA TypesAtFirst == Init => TypeInv
<1> SUFFICES ASSUME Init PROVE TypeInv
  OBVIOUS
<1>1. PICK layout \in Layouts :
          TableInit(layout) /\ known = {c \in Cards : layout[c] # NoRow}
  BY DEF Init
<1>2. layout \in [Cards -> Row \cup {NoRow}]
  BY CardOrderAssumption
<1>3. TableTypeOK
  BY <1>1, <1>2 DEF TableTypeOK, TableInit, NoWrites
<1>4. 0 \in 0..MaxConflictRetries /\ 0 < MaxConflictRetries
  BY CardOrderAssumption
<1>5. <<>> \in Seq([card : Cards, row : Row])
  OBVIOUS
<1>6. TypeOK
  BY <1>1, <1>3, <1>4, <1>5 DEF Init, TypeOK
<1> QED
  BY <1>4, <1>6 DEF Init, TypeInv

(* Rows hold keys in columns, whatever a request computed from what it     *)
(* read; a request makes no more attempts than retryOnConflict allows, and *)
(* is answered with one of the errors the service knows                    *)
(* (service.go:66-121, :209-228).                                          *)
THEOREM CardTypes == Spec => []TypeOK
<1>1. TypeInv => TypeOK
  BY DEF TypeInv
<1>2. Spec => []TypeInv
  BY TypesAtFirst, TypesKept, Inductive, PTL DEF Spec
<1> QED
  BY <1>1, <1>2, PTL
-----------------------------------------------------------------------------
(* Where a placement lands among the cards that were listed *)

LEMMA PrefixesAreCounted ==
    ASSUME NEW n \in Nat, NEW S, NEW l \in Injection(1..n, S), NEW m \in 0..n
    PROVE  Cardinality({l[j] : j \in 1..m}) = m
<1> DEFINE T == {l[j] : j \in 1..m}
           f == [j \in 1..m |-> l[j]]
<1>1. l \in [1..n -> S] /\ \A i, j \in 1..n : l[i] = l[j] => i = j
  BY DEF Injection, IsInjective
<1>2. f \in Bijection(1..m, T)
  <2>1. f \in Injection(1..m, T)
    BY <1>1 DEF Injection, IsInjective
  <2>2. f \in Surjection(1..m, T)
    BY <2>1 DEF Surjection, Injection
  <2> QED
    BY <2>1, <2>2 DEF Bijection
<1>3. ExistsBijection(1..m, T)
  BY <1>2 DEF ExistsBijection
<1>4. IsFiniteSet(1..m) /\ Cardinality(1..m) = m
  BY FS_Interval
<1> HIDE DEF T, f
<1>5. Cardinality(T) = m
  BY <1>3, <1>4, FS_Bijection
<1> QED
  BY <1>5 DEF T

(* l lists the members of S by their positions, which are the siblings.    *)
Listed(S, position, l, siblings) ==
    /\ IsFiniteSet(S) /\ position \in [S -> Key]
    /\ \A c, d \in S : c # d => position[c] # position[d]
    /\ l \in Injection(1..Cardinality(S), S)
    /\ \A i, j \in 1..Cardinality(S) :
          i < j => ~Precedes(position[l[j]], position[l[i]])
    /\ siblings \in Seq(Key) /\ Len(siblings) = Cardinality(S)
    /\ \A i \in 1..Cardinality(S) : siblings[i] = position[l[i]]

(* The key of a placement at the index has as many listed cards before it  *)
(* as the index says, or all of them, and is the key of none.              *)
LEMMA PlacementLands ==
    ASSUME NEW S, NEW position, NEW l, NEW siblings, Listed(S, position, l, siblings),
           NEW index \in Nat, NEW key,
           Between(Neighbors(siblings, index).prev, Neighbors(siblings, index).next)
              = Found(key)
    PROVE  /\ \A c \in S : Precedes(position[c], key) \/ Precedes(key, position[c])
           /\ Cardinality({c \in S : Precedes(position[c], key)}) =
                 IF index < Cardinality(S) THEN index ELSE Cardinality(S)
<1> DEFINE n == Cardinality(S)
           m == IF index < n THEN index ELSE n
           prev == Neighbors(siblings, index).prev
           next == Neighbors(siblings, index).next
<1>0. Listed(S, position, l, siblings)
  OBVIOUS
<1>1. n \in Nat /\ m \in 0..n /\ Len(siblings) = n
  BY <1>0, FS_CardinalityType DEF Listed
<1>2. /\ l \in [1..n -> S] /\ \A i, j \in 1..n : l[i] = l[j] => i = j
      /\ \A c \in S : \E i \in 1..n : c = l[i]
  <2>1. IsFiniteSet(1..n) /\ Cardinality(1..n) = n
    BY <1>1, FS_Interval
  <2>2. l \in Injection(1..n, S) /\ IsFiniteSet(S)
    BY <1>0 DEF Listed
  <2>3. l \in Surjection(1..n, S)
    BY <2>1, <2>2, FS_Injection
  <2> QED
    BY <2>2, <2>3 DEF Injection, IsInjective, Surjection
<1> HIDE DEF n
<1>3. \A i, j \in 1..n : i < j => Precedes(position[l[i]], position[l[j]])
  <2> SUFFICES ASSUME NEW i \in 1..n, NEW j \in 1..n, i < j
               PROVE  Precedes(position[l[i]], position[l[j]])
    OBVIOUS
  <2>1. l[i] # l[j] /\ l[i] \in S /\ l[j] \in S
    BY <1>1, <1>2
  <2>2. /\ position[l[i]] # position[l[j]]
        /\ position[l[i]] \in Key /\ position[l[j]] \in Key
    BY <1>0, <2>1 DEF Listed
  <2>3. ~Precedes(position[l[j]], position[l[i]])
    BY <1>0 DEF Listed, n
  <2> QED
    BY <2>2, <2>3, PrecedesIsTotal
<1>4. /\ prev \in Key \cup {Open} /\ next \in Key \cup {Open}
      /\ key \in Key
      /\ prev # Open => Precedes(prev, key)
      /\ next # Open => Precedes(key, next)
  <2>1. prev \in Key \cup {Open} /\ next \in Key \cup {Open}
    BY <1>0, NeighborsType DEF Listed
  <2>2. Between(prev, next).err = "none" /\ Between(prev, next).key = key
    BY ErrorsDiffer
  <2> HIDE DEF prev, next
  <2> QED
    BY <2>1, <2>2, BetweenIsStrict
<1>5. \A i \in 1..n : siblings[i] = position[l[i]]
  BY <1>0 DEF Listed, n
<1>6. /\ m > 0 => prev = position[l[m]]
      /\ m < n => next = position[l[m + 1]]
  <2>1. CASE index >= n
    <3>1. m = n /\ (n > 0 => n \in 1..n /\ siblings # <<>>)
      BY <1>1, <2>1
    <3> QED
      BY <1>1, <1>5, <2>1, <3>1 DEF Neighbors
  <2>2. CASE index < n
    <3>1. m = index /\ m + 1 \in 1..n /\ (m > 0 => m \in 1..n)
      BY <1>1, <2>2
    <3> QED
      BY <1>1, <1>5, <2>2, <3>1 DEF Neighbors
  <2> QED
    BY <1>1, <2>1, <2>2
<1> HIDE DEF m, prev, next
<1>7. \A c \in S : position[c] \in Key /\ position[c] # Open
  BY <1>0 DEF Listed, Key, Valid
<1>8. \A i \in 1..n : i <= m => Precedes(position[l[i]], key)
  <2> SUFFICES ASSUME NEW i \in 1..n, i <= m
               PROVE  Precedes(position[l[i]], key)
    OBVIOUS
  <2>1. m \in 1..n /\ m > 0
    BY <1>1
  <2>2. l[i] \in S /\ l[m] \in S
    BY <1>2, <2>1
  <2>3. Precedes(position[l[m]], key)
    BY <1>4, <1>6, <1>7, <2>1, <2>2
  <2>4. CASE i = m
    BY <2>3, <2>4
  <2>5. CASE i < m
    BY <1>3, <1>4, <1>7, <2>1, <2>2, <2>3, <2>5, PrecedesIsTransitive
  <2> QED
    BY <1>1, <2>4, <2>5
<1>9. \A i \in 1..n : i > m => Precedes(key, position[l[i]])
  <2> SUFFICES ASSUME NEW i \in 1..n, i > m
               PROVE  Precedes(key, position[l[i]])
    OBVIOUS
  <2>1. m + 1 \in 1..n /\ m < n /\ m + 1 <= i
    BY <1>1
  <2>2. l[i] \in S /\ l[m + 1] \in S
    BY <1>2, <2>1
  <2>3. Precedes(key, position[l[m + 1]])
    BY <1>4, <1>6, <1>7, <2>1, <2>2
  <2>4. CASE i = m + 1
    BY <2>3, <2>4
  <2>5. CASE m + 1 < i
    BY <1>3, <1>4, <1>7, <2>1, <2>2, <2>3, <2>5, PrecedesIsTransitive
  <2> QED
    BY <1>1, <2>1, <2>4, <2>5
<1>10. {c \in S : Precedes(position[c], key)} = {l[j] : j \in 1..m}
  <2>1. ASSUME NEW c \in S, Precedes(position[c], key)
        PROVE  \E j \in 1..m : c = l[j]
    <3>1. PICK i \in 1..n : c = l[i]
      BY <1>2
    <3>2. ~(i > m)
      BY <1>4, <1>7, <1>9, <2>1, <3>1, PrecedesIsAsymmetric
    <3> QED
      BY <1>1, <3>1, <3>2
  <2>2. ASSUME NEW j \in 1..m
        PROVE  l[j] \in S /\ Precedes(position[l[j]], key)
    <3>1. j \in 1..n /\ j <= m
      BY <1>1
    <3> QED
      BY <1>2, <1>8, <3>1
  <2> QED
    BY <2>1, <2>2
<1>11. Cardinality({c \in S : Precedes(position[c], key)}) = m
  <2>1. l \in Injection(1..n, S)
    BY <1>0 DEF Listed, n
  <2> QED
    BY <1>1, <1>10, <2>1, PrefixesAreCounted
<1>12. \A c \in S : Precedes(position[c], key) \/ Precedes(key, position[c])
  BY <1>1, <1>2, <1>8, <1>9
<1> QED
  BY <1>11, <1>12 DEF m, n
-----------------------------------------------------------------------------
(* What an attempt that nobody has overtaken knows about the column it     *)
(* places a card in.                                                       *)

Others(t) == Cards \ {request[t].card}

(* A transaction that has not written yet owns nothing. *)
Bare(t) ==
    /\ pc[t] \notin {"rewrite", "relist", "write", "settle"} =>
          \A c \in Cards : ~Owns(t, c)
    /\ \A c \in rechecks[t] : Owns(t, c)

(* In the middle of a renormalization: the column is split into the cards  *)
(* that are rewritten and those that are still to be, in the same order.   *)
Rewriting(t) ==
    /\ \A i \in DOMAIN todo[t] :
          /\ ~Owns(t, todo[t][i].card)
          /\ cards[todo[t][i].card].column = request[t].column
          /\ todo[t][i].row.column = request[t].column
    /\ \A c \in Cards : Owns(t, c) =>
          /\ cards[c].column = request[t].column
          /\ writes[t][c].column = request[t].column
    /\ \A c \in Cards : cards[c].column = request[t].column =>
          Owns(t, c) \/ \E i \in DOMAIN todo[t] : todo[t][i].card = c
    /\ \A i, j \in DOMAIN todo[t] : i < j =>
          /\ todo[t][i].card # todo[t][j].card
          /\ ~Before(cards, todo[t][j].card, todo[t][i].card)
          /\ Precedes(todo[t][i].row.position, todo[t][j].row.position)
    /\ \A c \in Cards, i \in DOMAIN todo[t] : Owns(t, c) =>
          /\ ~Before(cards, todo[t][i].card, c)
          /\ Precedes(writes[t][c].position, todo[t][i].row.position)
    /\ \A c, d \in Cards : Owns(t, c) /\ Owns(t, d) /\ Before(cards, c, d) =>
          Precedes(writes[t][c].position, writes[t][d].position)

(* The other cards are where they were, in the order they were in. *)
Arranged(t) ==
    /\ \A c \in Others(t) : View(t)[c].column = cards[c].column
    /\ \A c, d \in Others(t) : Before(cards, c, d) => Before(View(t), c, d)

InPlace(t) == {d \in Others(t) : View(t)[d].column = request[t].column}

Lower(t, key) == {d \in InPlace(t) : Precedes(View(t)[d].position, key)}

Lands(t, key) ==
    /\ \A d \in InPlace(t) : \/ Precedes(View(t)[d].position, key)
                             \/ Precedes(key, View(t)[d].position)
    /\ Cardinality(Lower(t, key)) =
          IF request[t].index < Cardinality(InPlace(t))
          THEN request[t].index ELSE Cardinality(InPlace(t))

Placed(t) ==
    place[t].column = request[t].column /\ Lands(t, place[t].position)

Tidy(t) ==
    /\ pc[t] = "rewrite" => Rewriting(t)
    /\ pc[t] \in {"relist", "write", "settle"} => Arranged(t)
    /\ pc[t] \in {"write", "settle"} => Placed(t)
    /\ pc[t] = "settle" => View(t)[request[t].card] \in {NoRow, place[t]}

Undisturbed == \A t \in Requests : Bare(t) /\ (~overtaken[t] => Tidy(t))

Full == IndInv /\ TypeInv

LEMMA ViewIs ==
    ASSUME NEW t \in Requests, NEW c \in Cards
    PROVE  View(t)[c] = IF Owns(t, c) THEN writes[t][c] ELSE cards[c]
  BY DEF View, Owns

LEMMA ColumnsAreColumns ==
    ASSUME Full, NEW t \in Requests, pc[t] \in InTransaction
    PROVE  /\ request[t].column \in Columns /\ request[t] \in RequestType
           /\ request[t].card \in Cards /\ request[t].index \in Nat
  BY DEF Full, IndInv, RequestShape, InTransaction, RequestType

LEMMA RowsHaveKeys ==
    ASSUME Full, NEW t \in Requests, NEW c \in Cards
    PROVE  /\ cards[c].column \in Columns => cards[c] \in Row /\ cards[c] # NoRow
           /\ View(t)[c].column \in Columns => View(t)[c] \in Row /\ View(t)[c] # NoRow
           /\ cards[c] # NoRow => cards[c] \in Row
           /\ Owns(t, c) => writes[t][c] \in Row
<1>1. NoRow.column \notin Columns
  BY TableAssumption DEF NoRow
<1> QED
  BY <1>1, ViewType DEF Full, TypeInv, TypeOK, TableTypeOK, Owns

(* Two other cards of a column are at different positions. *)
LEMMA OthersDiffer ==
    ASSUME Full, NEW t \in Requests, Arranged(t),
           NEW c \in Others(t), NEW d \in Others(t), c # d,
           View(t)[c].column \in Columns, View(t)[d].column = View(t)[c].column
    PROVE  View(t)[c].position # View(t)[d].position
<1>1. c \in Cards /\ d \in Cards
  BY DEF Others
<1>2. cards[c].column = cards[d].column /\ cards[c].column \in Columns
  BY DEF Arranged
<1>3. cards[c] \in Row /\ cards[d] \in Row /\ cards[c] # cards[d] /\ cards[c] # NoRow
      /\ cards[d] # NoRow
  BY <1>1, <1>2, RowsHaveKeys DEF Full, IndInv, Clashfree, UniquePositions
<1>4. cards[c].position \in Key /\ cards[d].position \in Key
      /\ cards[c].position # cards[d].position
  BY <1>2, <1>3 DEF Row
<1>5. Before(cards, c, d) \/ Before(cards, d, c)
  BY <1>2, <1>3, <1>4, PrecedesIsTotal DEF Before
<1>6. Before(View(t), c, d) \/ Before(View(t), d, c)
  BY <1>5 DEF Arranged
<1>7. View(t)[c].position \in Key
  BY <1>1, RowsHaveKeys DEF Row
<1> QED
  BY <1>6, <1>7, PrecedesIsIrreflexive DEF Before

(* A placement among the listed cards lands where it was asked to. *)
LEMMA PlacementIsGood ==
    ASSUME Full, NEW t \in Requests, pc[t] \in InTransaction, Arranged(t),
           NEW siblings \in CardPositions(t), PositionAmong(t, siblings).err = "none"
    PROVE  Lands(t, PositionAmong(t, siblings).key)
<1> DEFINE S == InPlace(t)
           position == [c \in S |-> View(t)[c].position]
           index == request[t].index
           key == PositionAmong(t, siblings).key
<1>1. /\ request[t].column \in Columns /\ request[t].index \in Nat
  BY ColumnsAreColumns
<1>2. S = InColumn(t, request[t].column) \ {request[t].card}
  BY DEF InPlace, Others, InColumn
<1>3. S \in SUBSET Cards /\ \A c \in S : View(t)[c].column = request[t].column
  BY DEF InPlace, Others
<1>4. IsFiniteSet(S)
  BY <1>3, TableAssumption, FS_Subset
<1>5. position \in [S -> Key]
  BY <1>1, <1>3, RowsHaveKeys DEF Row
<1>6. \A c, d \in S : c # d => position[c] # position[d]
  BY <1>1, OthersDiffer DEF InPlace
<1>7. PICK l \in Listings(t, S) :
          siblings = [i \in DOMAIN l |-> View(t)[l[i]].position]
  BY <1>2 DEF CardPositions
<1> HIDE DEF S
<1>8. /\ l \in Injection(1..Cardinality(S), S) /\ l \in [1..Cardinality(S) -> S]
      /\ DOMAIN l = 1..Cardinality(S)
      /\ \A i, j \in 1..Cardinality(S) : i < j =>
            ~Precedes(View(t)[l[j]].position, View(t)[l[i]].position)
  BY <1>7 DEF Listings, Injection
<1>9. \A i \in 1..Cardinality(S) : position[l[i]] = View(t)[l[i]].position
  BY <1>8
<1>10. siblings \in Seq(Key) /\ Len(siblings) = Cardinality(S)
       /\ \A i \in 1..Cardinality(S) : siblings[i] = position[l[i]]
  <2>1. Cardinality(S) \in Nat
    BY <1>4, FS_CardinalityType
  <2>2. siblings \in [1..Cardinality(S) -> Key]
    BY <1>5, <1>7, <1>8, <1>9
  <2> QED
    BY <1>7, <1>8, <1>9, <2>1, <2>2, FunctionsAreSequences
<1>11. \A i, j \in 1..Cardinality(S) : i < j =>
          ~Precedes(position[l[j]], position[l[i]])
  BY <1>8, <1>9
<1>12. Listed(S, position, l, siblings)
  BY <1>4, <1>5, <1>6, <1>8, <1>10, <1>11 DEF Listed
<1>13. \A c \in S : position[c] = View(t)[c].position
  OBVIOUS
<1>14. /\ \A c \in S : Precedes(position[c], key) \/ Precedes(key, position[c])
       /\ Cardinality({c \in S : Precedes(position[c], key)}) =
             IF index < Cardinality(S) THEN index ELSE Cardinality(S)
  <2>1. /\ Neighbors(siblings, index).prev \in Key \cup {Open}
        /\ Neighbors(siblings, index).next \in Key \cup {Open}
    BY <1>1, <1>10, NeighborsType
  <2>2. PositionAmong(t, siblings) =
           Between(Neighbors(siblings, index).prev, Neighbors(siblings, index).next)
    BY DEF PositionAmong
  <2>3. Between(Neighbors(siblings, index).prev, Neighbors(siblings, index).next)
           = Found(key)
    BY <2>1, <2>2, BetweenOutcome, ErrorsDiffer
  <2>4. index \in Nat
    BY <1>1
  <2> HIDE DEF position, index, key
  <2> QED
    BY <1>12, <2>3, <2>4, PlacementLands
<1> HIDE DEF position, index
<1>15. Lower(t, key) = {c \in S : Precedes(position[c], key)}
  BY <1>13 DEF Lower, S
<1> HIDE DEF key
<1>16. \A d \in S : Precedes(View(t)[d].position, key) \/ Precedes(key, View(t)[d].position)
  BY <1>13, <1>14
<1>17. Lands(t, key)
  BY <1>14, <1>15, <1>16 DEF Lands, S, index
<1> QED
  BY <1>17 DEF key
-----------------------------------------------------------------------------
(* Keeping it *)

(* A step of another request leaves the attempt alone, or overtakes it.    *)
LEMMA UndisturbedElsewhere ==
    ASSUME NEW u \in Requests, Bare(u), ~overtaken[u] => Tidy(u),
           pc'[u] = pc[u], request'[u] = request[u], todo'[u] = todo[u],
           place'[u] = place[u], writes'[u] = writes[u], rechecks'[u] = rechecks[u],
           \/ cards' = cards /\ overtaken'[u] = overtaken[u]
           \/ overtaken'[u] \/ pc[u] \notin InTransaction
    PROVE  Bare(u)' /\ (~overtaken'[u] => Tidy(u)')
<1>1. Bare(u)'
  BY DEF Bare, Owns
<1>2. CASE cards' = cards /\ overtaken'[u] = overtaken[u]
  <2>1. View(u)' = View(u)
    BY <1>2 DEF View
  <2>2. Arranged(u) => Arranged(u)'
    BY <1>2, <2>1 DEF Arranged, Others, Before
  <2>3. Placed(u) => Placed(u)'
    BY <2>1 DEF Placed, Lands, Lower, InPlace, Others
  <2>4. Rewriting(u) => Rewriting(u)'
    BY <1>2 DEF Rewriting, Owns, Before
  <2> QED
    BY <1>1, <1>2, <2>1, <2>2, <2>3, <2>4 DEF Tidy
<1>3. CASE overtaken'[u]
  BY <1>1, <1>3
<1>4. CASE pc[u] \notin InTransaction
  BY <1>1, <1>4 DEF Tidy, InTransaction
<1> QED
  BY <1>2, <1>3, <1>4

(* Outside its writes and at its end, a transaction has nothing to show.   *)
LEMMA NothingToShow ==
    ASSUME NEW t \in Requests,
           pc'[t] \notin {"rewrite", "relist", "write", "settle"},
           \A c \in Cards : writes'[t][c] = NoRow, rechecks'[t] = {}
    PROVE  Bare(t)' /\ Tidy(t)'
  BY DEF Bare, Tidy, Owns

LEMMA BareUnwritten ==
    ASSUME Full, NEW t \in Requests, Bare(t),
           pc[t] \notin {"rewrite", "relist", "write", "settle"}
    PROVE  /\ \A c \in Cards : ~Owns(t, c)
           /\ rechecks[t] = {}
           /\ View(t) = cards
           /\ Arranged(t)
<1>1. \A c \in Cards : ~Owns(t, c)
  BY DEF Bare
<1>2. rechecks[t] = {}
  BY <1>1 DEF Bare, Full, IndInv, TableShape
<1>3. View(t) = cards
  BY <1>1 DEF View, Owns, Full, TypeInv, TypeOK, TableTypeOK
<1> QED
  BY <1>1, <1>2, <1>3 DEF Arranged

(* What a step of t may touch. *)
StepOf(t) ==
    \/ StartCreate(t) \/ StartMove(t) \/ StartDelete(t)
    \/ Statement(t) \/ Cancel(t) \/ DeadlockVictim(t)

Alone(t) ==
    /\ \A u \in Requests \ {t} :
          /\ pc'[u] = pc[u] /\ request'[u] = request[u] /\ todo'[u] = todo[u]
          /\ place'[u] = place[u] /\ writes'[u] = writes[u]
          /\ rechecks'[u] = rechecks[u]
    /\ \/ cards' = cards /\ \A u \in Requests \ {t} : overtaken'[u] = overtaken[u]
       \/ \A u \in Requests \ {t} : overtaken'[u] \/ pc[u] \notin InTransaction

LEMMA PutRowAlone ==
    ASSUME Full, NEW t \in Requests, NEW c \in Cards, NEW row,
           PutRow(t, c, row) \/ UpdateCardPosition(t, c, row)
    PROVE  /\ cards' = cards
           /\ \A u \in Requests \ {t} :
                 writes'[u] = writes[u] /\ rechecks'[u] = rechecks[u]
  BY DEF Full, TypeInv, TypeOK, TableTypeOK, PutRow, UpdateCardPosition

LEMMA RollbackAlone ==
    ASSUME Full, NEW t \in Requests, EndTransaction(t)
    PROVE  /\ \A u \in Requests \ {t} :
                 writes'[u] = writes[u] /\ rechecks'[u] = rechecks[u]
           /\ \A c \in Cards : writes'[t][c] = NoRow
           /\ rechecks'[t] = {}
  BY DEF Full, TypeInv, TypeOK, TableTypeOK, EndTransaction, NoWrites

LEMMA AnswerAlone ==
    ASSUME Full, NEW t \in Requests, NEW reply, Answer(t, reply)
    PROVE  /\ \A u \in Requests \ {t} :
                 pc'[u] = pc[u] /\ todo'[u] = todo[u] /\ place'[u] = place[u]
           /\ pc'[t] = "done" /\ answer'[t] = reply
           /\ \A u \in Requests \ {t} : answer'[u] = answer[u]
  BY DEF Full, TypeInv, TypeOK, Answer, Goto

LEMMA StepsAreAlone ==
    ASSUME Full, NEW t \in Requests, StepOf(t)
    PROVE  Alone(t)
<1>0. /\ pc \in [Requests -> Labels] /\ DOMAIN request = Requests
      /\ DOMAIN todo = Requests /\ DOMAIN place = Requests
      /\ DOMAIN overtaken = Requests /\ DOMAIN rechecks = Requests
      /\ DOMAIN writes = Requests
  BY DEF Full, TypeInv, TypeOK, TableTypeOK, Labels
<1>1. CASE StartCreate(t)
  BY <1>0, <1>1 DEF StartCreate, Goto, Alone, table
<1>2. CASE StartMove(t) \/ StartDelete(t)
  BY <1>0, <1>2 DEF StartMove, StartDelete, Goto, Alone, table
<1>3. CASE Load(t)
  <2>1. CASE cards[request[t].card] = NoRow
    BY <1>0, <1>3, <2>1, AnswerAlone DEF Load, Alone, table
  <2>2. CASE cards[request[t].card] # NoRow
    BY <1>0, <1>3, <2>2 DEF Load, Goto, Alone, table
  <2> QED
    BY <2>1, <2>2
<1>4. CASE List(t)
  <2>1. /\ \A u \in Requests \ {t} : pc'[u] = pc[u] /\ place'[u] = place[u]
        /\ UNCHANGED <<table, request, tries, todo, answer, known>>
        /\ \A u \in Requests \ {t} : overtaken'[u] = overtaken[u]
    BY <1>0, <1>4 DEF List, Place, Goto
  <2> QED
    BY <2>1 DEF Alone, table
<1>5. CASE RenormalizeCards(t)
  <2>1. /\ \A u \in Requests \ {t} : pc'[u] = pc[u] /\ todo'[u] = todo[u]
        /\ UNCHANGED <<cards, writes, rechecks, request, place, overtaken>>
    BY <1>0, <1>5 DEF RenormalizeCards, Goto
  <2> QED
    BY <2>1 DEF Alone
<1>6. CASE Rewrite(t)
  <2>1. CASE todo[t] = <<>>
    BY <1>0, <1>6, <2>1 DEF Rewrite, Goto, Alone, table
  <2>2. CASE todo[t] # <<>>
    <3>1. /\ UpdateCardPosition(t, Head(todo[t]).card, Head(todo[t]).row)
          /\ todo' = [todo EXCEPT ![t] = Tail(@)]
          /\ UNCHANGED <<pc, request, place, overtaken>>
      BY <1>6, <2>2 DEF Rewrite
    <3>2. Head(todo[t]).card \in Cards
      <4> DEFINE S == [card : Cards, row : Row]
      <4>1. todo[t] \in Seq(S)
        BY DEF Full, TypeInv, TypeOK
      <4> HIDE DEF S
      <4>2. Head(todo[t]) \in S
        BY <2>2, <4>1
      <4> QED
        BY <4>2 DEF S
    <3> QED
      BY <1>0, <3>1, <3>2, PutRowAlone DEF Alone
  <2> QED
    BY <2>1, <2>2
<1>7. CASE Relist(t)
  <2>1. CASE UNCHANGED <<table, todo>>
             /\ \A u \in Requests \ {t} : pc'[u] = pc[u] /\ place'[u] = place[u]
    BY <1>7, <2>1 DEF Relist, Alone, table
  <2>2. CASE \E error : Rollback(t) /\ Answer(t, error)
    BY <1>7, <2>2, RollbackAlone, AnswerAlone DEF Relist, Rollback, Alone
  <2> QED
    BY <1>0, <1>7, <2>1, <2>2 DEF Relist, Place, Goto
<1>8. CASE Write(t)
  <2>1. request[t].card \in Cards
    BY <1>8, ColumnsAreColumns DEF Write, InTransaction
  <2>2. PutRow(t, request[t].card, place[t])
           \/ UpdateCardPosition(t, request[t].card, place[t])
    BY <1>8 DEF Write, InsertCard
  <2>3. /\ \A u \in Requests \ {t} : pc'[u] = pc[u]
        /\ UNCHANGED <<request, place, todo, overtaken>>
    BY <1>0, <1>8 DEF Write, Goto
  <2> QED
    BY <2>1, <2>2, <2>3, PutRowAlone DEF Alone
<1>9. CASE Settle(t)
  BY <1>0, <1>9 DEF Settle, Recheck, Alone
<1>10. CASE LoseConflict(t)
  <2>1. /\ cards' = cards /\ UNCHANGED <<request, overtaken>>
        /\ EndTransaction(t)
    BY <1>10 DEF LoseConflict, Rollback
  <2>2. \A u \in Requests \ {t} :
           pc'[u] = pc[u] /\ todo'[u] = todo[u] /\ place'[u] = place[u]
    BY <1>0, <1>10, AnswerAlone DEF LoseConflict, Goto
  <2> QED
    BY <2>1, <2>2, RollbackAlone DEF Alone
<1>11. CASE Commit(t)
  <2>1. EndTransaction(t) /\ UNCHANGED request /\ Answer(t, "ok")
    BY <1>11 DEF Commit, CommitTransaction
  <2>2. \A u \in Requests \ {t} : overtaken'[u] \/ pc[u] \notin InTransaction
    BY <1>11 DEF Commit, OvertakeOthers
  <2> QED
    BY <2>1, <2>2, RollbackAlone, AnswerAlone DEF Alone
<1>12. CASE Delete(t)
  <2>1. Answer(t, "ok") /\ UNCHANGED <<request, writes, rechecks>>
    BY <1>12 DEF Delete, DeleteCard
  <2>2. \A u \in Requests \ {t} : overtaken'[u] \/ pc[u] \notin InTransaction
    BY <1>12 DEF Delete, OvertakeOthers
  <2> QED
    BY <2>1, <2>2, AnswerAlone DEF Alone
<1>13. CASE Cancel(t) \/ DeadlockVictim(t)
  <2>1. PICK reply : /\ EndTransaction(t) /\ cards' = cards /\ Answer(t, reply)
                     /\ UNCHANGED <<request, overtaken>>
    BY <1>13 DEF Cancel, DeadlockVictim, Rollback
  <2> QED
    BY <2>1, RollbackAlone, AnswerAlone DEF Alone
<1> QED
  BY <1>1, <1>2, <1>3, <1>4, <1>5, <1>6, <1>7, <1>8, <1>9, <1>10, <1>11, <1>12,
     <1>13 DEF StepOf, Statement
-----------------------------------------------------------------------------
(* The steps of the attempt itself *)

LEMMA BeginUndisturbed ==
    ASSUME Full, NEW t \in Requests, Bare(t),
           StartCreate(t) \/ StartMove(t) \/ StartDelete(t) \/ Load(t)
    PROVE  Bare(t)' /\ Tidy(t)'
<1>1. /\ pc[t] \in {"idle", "load"} /\ UNCHANGED <<writes, rechecks>>
      /\ pc'[t] \in {"list", "load", "delete", "done"}
  BY DEF StartCreate, StartMove, StartDelete, Load, Answer, Goto, table, Full,
     TypeInv, TypeOK
<1> QED
  BY <1>1, BareUnwritten, NothingToShow DEF Owns

(* The first placement of an attempt sees the table as it is.              *)
LEMMA ListUndisturbed ==
    ASSUME Full, NEW t \in Requests, Bare(t), List(t)
    PROVE  Bare(t)' /\ Tidy(t)'
<1>1. pc[t] = "list" /\ pc[t] \in InTransaction
  BY DEF List, InTransaction
<1>2. /\ \A c \in Cards : ~Owns(t, c)
      /\ rechecks[t] = {} /\ View(t) = cards /\ Arranged(t)
  BY <1>1, BareUnwritten
<1>3. /\ UNCHANGED <<cards, writes, rechecks, request>>
      /\ View(t)' = View(t)
  BY DEF List, table, View
<1>4. Bare(t)' /\ Arranged(t)'
  BY <1>2, <1>3 DEF Bare, Owns, Arranged, Others, Before
<1>5. CASE pc'[t] = "renormalize"
  BY <1>4, <1>5 DEF Tidy
<1>6. CASE pc'[t] # "renormalize"
  <2>1. PICK siblings \in CardPositions(t) :
           /\ PositionAmong(t, siblings).err = "none"
           /\ Place(t, PositionAmong(t, siblings).key)
    BY <1>1, <1>6 DEF List, Goto, Full, TypeInv, TypeOK
  <2> DEFINE key == PositionAmong(t, siblings).key
  <2>2. Lands(t, key)
    BY <1>1, <1>2, <2>1, PlacementIsGood
  <2>3. place'[t] = [column |-> request[t].column, position |-> key]
        /\ pc'[t] = "write"
    BY <2>1 DEF Place, Goto, Full, TypeInv, TypeOK
  <2> HIDE DEF key
  <2>4. place'[t].column = request[t].column /\ place'[t].position = key
    BY <2>3
  <2>5. Placed(t)'
    BY <1>3, <2>2, <2>4 DEF Placed, Lands, Lower, InPlace, Others
  <2> QED
    BY <1>4, <2>3, <2>5 DEF Tidy
<1> QED
  BY <1>5, <1>6

(* The rewrites are the whole column, in its order, with ascending keys.   *)
LEMMA RenormalizeUndisturbed ==
    ASSUME Full, NEW t \in Requests, Bare(t), RenormalizeCards(t)
    PROVE  Bare(t)' /\ Tidy(t)'
<1> DEFINE col == request[t].column
           S == InColumn(t, col)
<1>1. pc[t] = "renormalize" /\ pc[t] \in InTransaction
  BY DEF RenormalizeCards, InTransaction
<1>2. /\ \A c \in Cards : ~Owns(t, c)
      /\ rechecks[t] = {} /\ View(t) = cards
  BY <1>1, BareUnwritten
<1>3. /\ UNCHANGED <<cards, writes, rechecks, request>>
      /\ pc'[t] = "rewrite"
  BY DEF RenormalizeCards, Goto, Full, TypeInv, TypeOK
<1>4. Bare(t)'
  BY <1>2, <1>3 DEF Bare
<1>5. PICK l \in Listings(t, S) :
         todo'[t] = [i \in 1..Len(l) |->
            [card |-> l[i],
             row |-> [column |-> col, position |-> Renormalize(Len(l))[i]]]]
  BY DEF RenormalizeCards, ListCardsByColumn, Full, TypeInv, TypeOK
<1>6. /\ S \in SUBSET Cards /\ IsFiniteSet(S)
      /\ \A c \in Cards : c \in S <=> cards[c].column = col
  BY <1>2, TableAssumption, FS_Subset DEF InColumn
<1> DEFINE n == Cardinality(S)
<1>7. /\ l \in Injection(1..n, S) /\ l \in [1..n -> S]
      /\ \A i, j \in 1..n : l[i] = l[j] => i = j
      /\ \A i, j \in 1..n : i < j => ~Precedes(cards[l[j]].position, cards[l[i]].position)
  BY <1>2 DEF Listings, Injection, IsInjective
<1>8. n \in Nat
  BY <1>6, FS_CardinalityType
<1>9. \A c \in S : \E i \in 1..n : c = l[i]
  <2>1. IsFiniteSet(1..n) /\ Cardinality(1..n) = n
    BY <1>8, FS_Interval
  <2> HIDE DEF S
  <2>2. l \in Surjection(1..n, S)
    BY <1>6, <1>7, <2>1, FS_Injection
  <2> QED
    BY <2>2 DEF Surjection
<1> HIDE DEF S, n
<1>10. Len(l) = n
  BY <1>7, <1>8, FunctionsAreSequences
<1> DEFINE keys == Renormalize(n)
<1>11. keys \in Seq(Key) /\ Len(keys) = n
       /\ \A i, j \in 1..n : i < j => Precedes(keys[i], keys[j])
  <2>1. keys \in Seq(Key) /\ Len(keys) = n
        /\ \A i \in 1..(n - 1) : Precedes(keys[i], keys[i + 1])
    BY <1>8, RenormalizedKeysAscend
  <2> HIDE DEF keys
  <2> QED
    BY <1>8, <2>1, KeysAscend
<1> HIDE DEF keys
<1>12. /\ DOMAIN todo'[t] = 1..n
       /\ \A i \in 1..n : /\ todo'[t][i].card = l[i]
                          /\ todo'[t][i].row.column = col
                          /\ todo'[t][i].row.position = keys[i]
  BY <1>5, <1>10 DEF keys
<1>13. \A i \in 1..n : l[i] \in Cards /\ cards[l[i]].column = col
  BY <1>6, <1>7
<1>14. Rewriting(t)'
  <2>1. \A i \in DOMAIN todo'[t] :
          /\ ~Owns(t, todo[t][i].card)'
          /\ cards'[todo'[t][i].card].column = request'[t].column
          /\ todo'[t][i].row.column = request'[t].column
    BY <1>2, <1>3, <1>12, <1>13 DEF Owns
  <2>2. \A c \in Cards : ~Owns(t, c)'
    BY <1>2, <1>3 DEF Owns
  <2>3. \A c \in Cards : cards'[c].column = request'[t].column =>
           \E i \in DOMAIN todo'[t] : todo'[t][i].card = c
    BY <1>3, <1>6, <1>9, <1>12
  <2>4. \A i, j \in DOMAIN todo'[t] : i < j =>
          /\ todo'[t][i].card # todo'[t][j].card
          /\ ~Before(cards, todo[t][j].card, todo[t][i].card)'
          /\ Precedes(todo'[t][i].row.position, todo'[t][j].row.position)
    <3> SUFFICES ASSUME NEW i \in 1..n, NEW j \in 1..n, i < j
                 PROVE  /\ todo'[t][i].card # todo'[t][j].card
                        /\ ~Before(cards, todo[t][j].card, todo[t][i].card)'
                        /\ Precedes(todo'[t][i].row.position, todo'[t][j].row.position)
      BY <1>12
    <3>1. l[i] # l[j] /\ ~Precedes(cards[l[j]].position, cards[l[i]].position)
      BY <1>7, <1>8
    <3>2. Precedes(keys[i], keys[j])
      BY <1>11
    <3> QED
      BY <1>3, <1>12, <3>1, <3>2 DEF Before
  <2> QED
    BY <2>1, <2>2, <2>3, <2>4 DEF Rewriting
<1> QED
  BY <1>3, <1>4, <1>14 DEF Tidy

LEMMA PutRowEffect ==
    ASSUME Full, NEW t \in Requests, NEW c \in Cards, NEW row \in Row, PutRow(t, c, row)
    PROVE  /\ row # NoRow /\ cards' = cards
           /\ \A d \in Cards : writes'[t][d] = IF d = c THEN row ELSE writes[t][d]
           /\ \A d \in Cards : Owns(t, d)' <=> Owns(t, d) \/ d = c
           /\ View(t)'[c] = row
           /\ \A d \in Cards \ {c} : View(t)'[d] = View(t)[d]
           /\ (\A d \in rechecks[t] : Owns(t, d)) => \A d \in rechecks'[t] : Owns(t, d)'
<1>1. row # NoRow
  BY ProperRow DEF Row
<1>2. /\ cards' = cards
      /\ \A d \in Cards : writes'[t][d] = IF d = c THEN row ELSE writes[t][d]
      /\ rechecks'[t] \subseteq rechecks[t] \cup {c} /\ rechecks[t] \subseteq Cards
  BY DEF PutRow, Full, TypeInv, TypeOK, TableTypeOK
<1>3. \A d \in Cards : Owns(t, d)' <=> Owns(t, d) \/ d = c
  BY <1>1, <1>2 DEF Owns
<1>4. \A d \in Cards : View(t)'[d] = IF writes'[t][d] # NoRow THEN writes'[t][d]
                                                              ELSE cards'[d]
  BY DEF View
<1>5. \A d \in Cards : View(t)[d] = IF writes[t][d] # NoRow THEN writes[t][d]
                                                            ELSE cards[d]
  BY DEF View
<1> QED
  BY <1>1, <1>2, <1>3, <1>4, <1>5

(* One rewrite: the head of the rest of the column is written. *)
LEMMA RewriteOne ==
    ASSUME Full, NEW t \in Requests, Rewriting(t), pc[t] = "rewrite",
           request'[t] = request[t],
           todo[t] # <<>>, todo'[t] = Tail(todo[t]), NEW c, NEW row,
           c = Head(todo[t]).card, row = Head(todo[t]).row,
           c \in Cards, row \in Row, PutRow(t, c, row)
    PROVE  Rewriting(t)'
<1>1. /\ Len(todo[t]) \in Nat /\ Len(todo[t]) >= 1
      /\ DOMAIN todo[t] = 1..Len(todo[t]) /\ 1 \in DOMAIN todo[t]
      /\ DOMAIN todo'[t] = 1..(Len(todo[t]) - 1)
      /\ \A i \in DOMAIN todo'[t] :
            todo'[t][i] = todo[t][i + 1] /\ i + 1 \in DOMAIN todo[t] /\ 1 < i + 1
      /\ c = todo[t][1].card /\ row = todo[t][1].row
  <2> DEFINE S == [card : Cards, row : Row]
  <2>1. todo[t] \in Seq(S)
    BY DEF Full, TypeInv, TypeOK
  <2> HIDE DEF S
  <2> QED
    BY <2>1
<1>2. /\ ~Owns(t, c) /\ cards[c].column = request[t].column
      /\ row.column = request[t].column
  BY <1>1 DEF Rewriting
<1>3. /\ cards' = cards
      /\ \A d \in Cards : writes'[t][d] = IF d = c THEN row ELSE writes[t][d]
      /\ \A d \in Cards : Owns(t, d)' <=> Owns(t, d) \/ d = c
  BY PutRowEffect
<1>4. \A i \in DOMAIN todo'[t] :
         /\ todo'[t][i].card # c
         /\ ~Before(cards, todo'[t][i].card, c)
         /\ Precedes(row.position, todo'[t][i].row.position)
  BY <1>1 DEF Rewriting
<1>5. \A i \in DOMAIN todo'[t] : todo'[t][i].card \in Cards
  <2> DEFINE S == [card : Cards, row : Row]
  <2>1. todo[t] \in Seq(S)
    BY DEF Full, TypeInv, TypeOK
  <2> HIDE DEF S
  <2>2. \A i \in DOMAIN todo[t] : todo[t][i] \in S
    BY <2>1
  <2> QED
    BY <1>1, <2>2 DEF S
<1>6. \A i \in DOMAIN todo'[t] :
          /\ ~Owns(t, todo'[t][i].card)
          /\ cards[todo'[t][i].card].column = request[t].column
          /\ todo'[t][i].row.column = request[t].column
  BY <1>1 DEF Rewriting
<1>7. \A d \in Cards : Owns(t, d) =>
          /\ cards[d].column = request[t].column
          /\ writes[t][d].column = request[t].column
          /\ ~Before(cards, c, d) /\ Precedes(writes[t][d].position, row.position)
          /\ \A i \in DOMAIN todo'[t] :
                /\ ~Before(cards, todo'[t][i].card, d)
                /\ Precedes(writes[t][d].position, todo'[t][i].row.position)
  BY <1>1 DEF Rewriting
<1>8. ~Before(cards, c, c)
  <2>1. cards[c] # NoRow => cards[c].position \in Key
    BY RowsHaveKeys DEF Row
  <2> QED
    BY <2>1, PrecedesIsIrreflexive DEF Before
<1>9. \A d \in Cards : cards[d].column = request[t].column =>
          \/ Owns(t, d) \/ d = c \/ \E i \in DOMAIN todo'[t] : todo'[t][i].card = d
  <2> SUFFICES ASSUME NEW d \in Cards, cards[d].column = request[t].column,
                      ~Owns(t, d), d # c
               PROVE  \E i \in DOMAIN todo'[t] : todo'[t][i].card = d
    OBVIOUS
  <2>1. PICK i \in DOMAIN todo[t] : todo[t][i].card = d
    BY DEF Rewriting
  <2>2. i \in 1..Len(todo[t]) /\ i # 1
    BY <1>1, <2>1
  <2>3. i - 1 \in 1..(Len(todo[t]) - 1) /\ (i - 1) + 1 = i
    BY <1>1, <2>2
  <2> QED
    BY <1>1, <2>1, <2>3
<1>10. \A i, j \in DOMAIN todo'[t] : i < j =>
          /\ todo'[t][i].card # todo'[t][j].card
          /\ ~Before(cards, todo'[t][j].card, todo'[t][i].card)
          /\ Precedes(todo'[t][i].row.position, todo'[t][j].row.position)
  <2> SUFFICES ASSUME NEW i \in DOMAIN todo'[t], NEW j \in DOMAIN todo'[t], i < j
               PROVE  /\ todo'[t][i].card # todo'[t][j].card
                      /\ ~Before(cards, todo'[t][j].card, todo'[t][i].card)
                      /\ Precedes(todo'[t][i].row.position, todo'[t][j].row.position)
    OBVIOUS
  <2>1. i + 1 < j + 1
    BY <1>1
  <2> QED
    BY <1>1, <2>1 DEF Rewriting
<1>11. \A d, e \in Cards : Owns(t, d) /\ Owns(t, e) /\ Before(cards, d, e) =>
          Precedes(writes[t][d].position, writes[t][e].position)
  BY DEF Rewriting
<1>12. \A d, e : Before(cards, d, e)' <=> Before(cards, d, e)
  BY <1>3 DEF Before
<1>13. /\ \A i \in DOMAIN todo'[t] :
             /\ ~Owns(t, todo[t][i].card)'
             /\ cards'[todo'[t][i].card].column = request'[t].column
             /\ todo'[t][i].row.column = request'[t].column
       /\ \A d \in Cards : Owns(t, d)' =>
             /\ cards'[d].column = request'[t].column
             /\ writes'[t][d].column = request'[t].column
  <2>1. \A i \in DOMAIN todo'[t] : Owns(t, todo[t][i].card)' <=>
           Owns(t, todo'[t][i].card) \/ todo'[t][i].card = c
    BY <1>3, <1>5
  <2> QED
    BY <1>2, <1>3, <1>4, <1>6, <1>7, <2>1
<1>14. \A d \in Cards : cards'[d].column = request'[t].column =>
          Owns(t, d)' \/ \E i \in DOMAIN todo'[t] : todo'[t][i].card = d
  BY <1>3, <1>9
<1>15. \A i, j \in DOMAIN todo'[t] : i < j =>
          /\ todo'[t][i].card # todo'[t][j].card
          /\ ~Before(cards, todo[t][j].card, todo[t][i].card)'
          /\ Precedes(todo'[t][i].row.position, todo'[t][j].row.position)
  BY <1>3, <1>10 DEF Before
<1>16. \A d \in Cards, i \in DOMAIN todo'[t] : Owns(t, d)' =>
          /\ ~Before(cards, todo[t][i].card, d)'
          /\ Precedes(writes'[t][d].position, todo'[t][i].row.position)
  BY <1>3, <1>4, <1>7 DEF Before
<1>17. \A d, e \in Cards : Owns(t, d)' /\ Owns(t, e)' /\ Before(cards, d, e)' =>
          Precedes(writes'[t][d].position, writes'[t][e].position)
  BY <1>3, <1>7, <1>8, <1>11, <1>12
<1> QED
  BY <1>13, <1>14, <1>15, <1>16, <1>17 DEF Rewriting

(* When every card is rewritten, the column is as it was but for the keys. *)
LEMMA RewrittenIsArranged ==
    ASSUME Full, NEW t \in Requests, pc[t] \in InTransaction, Rewriting(t), todo[t] = <<>>
    PROVE  Arranged(t)
<1>1. DOMAIN todo[t] = {}
  OBVIOUS
<1>2. \A c \in Cards : Owns(t, c) <=> cards[c].column = request[t].column
  BY <1>1 DEF Rewriting
<1>3. \A c \in Cards : View(t)[c] = IF Owns(t, c) THEN writes[t][c] ELSE cards[c]
  BY ViewIs
<1>4. \A c \in Cards : View(t)[c].column = cards[c].column
  BY <1>2, <1>3 DEF Rewriting
<1>5. ASSUME NEW c \in Cards, NEW d \in Cards, Before(cards, c, d)
      PROVE  Before(View(t), c, d)
  <2>1. CASE Owns(t, c)
    <3>1. Owns(t, d)
      BY <1>2, <1>5, <2>1 DEF Before
    <3>2. Precedes(writes[t][c].position, writes[t][d].position)
      BY <1>5, <2>1, <3>1 DEF Rewriting
    <3> QED
      BY <1>3, <1>4, <1>5, <2>1, <3>1, <3>2 DEF Before, Owns
  <2>2. CASE ~Owns(t, c)
    <3>1. ~Owns(t, d)
      BY <1>2, <1>5, <2>2 DEF Before
    <3> QED
      BY <1>3, <1>5, <2>2, <3>1 DEF Before
  <2> QED
    BY <2>1, <2>2
<1> QED
  BY <1>4, <1>5 DEF Arranged, Others

LEMMA RewriteUndisturbed ==
    ASSUME Full, NEW t \in Requests, Bare(t), ~overtaken[t] => Tidy(t), Rewrite(t)
    PROVE  Bare(t)' /\ (~overtaken'[t] => Tidy(t)')
<1>1. /\ pc[t] = "rewrite" /\ pc[t] \in InTransaction
      /\ request' = request /\ overtaken' = overtaken
  BY DEF Rewrite, InTransaction
<1>2. CASE todo[t] = <<>>
  <2>1. /\ pc'[t] = "relist" /\ UNCHANGED <<cards, writes, rechecks>>
        /\ View(t)' = View(t)
    BY <1>1, <1>2 DEF Rewrite, Goto, table, View, Full, TypeInv, TypeOK
  <2>2. Bare(t)'
    BY <2>1 DEF Bare, Owns
  <2>3. ~overtaken[t] => Arranged(t)'
    BY <1>1, <1>2, <2>1, RewrittenIsArranged DEF Tidy, Arranged, Others, Before
  <2> QED
    BY <1>1, <2>1, <2>2, <2>3 DEF Tidy
<1>3. CASE todo[t] # <<>>
  <2>1. PICK c, row : c = Head(todo[t]).card /\ row = Head(todo[t]).row
    OBVIOUS
  <2>2. c \in Cards /\ row \in Row
    <3> DEFINE S == [card : Cards, row : Row]
    <3>1. todo[t] \in Seq(S)
      BY DEF Full, TypeInv, TypeOK
    <3> HIDE DEF S
    <3>2. Head(todo[t]) \in S
      BY <1>3, <3>1
    <3> QED
      BY <2>1, <3>2 DEF S
  <2>3. /\ UpdateCardPosition(t, c, row) /\ pc' = pc /\ todo'[t] = Tail(todo[t])
    BY <1>1, <1>3, <2>1 DEF Rewrite, Full, TypeInv, TypeOK
  <2>4. CASE PutRow(t, c, row)
    <3>1. Bare(t)'
      BY <1>1, <2>2, <2>3, <2>4, PutRowEffect DEF Bare
    <3>2. ASSUME ~overtaken[t]
          PROVE  Rewriting(t)'
      BY <1>1, <1>3, <2>1, <2>2, <2>3, <2>4, <3>2, RewriteOne DEF Tidy
    <3> QED
      BY <1>1, <2>3, <3>1, <3>2 DEF Tidy
  <2>5. CASE ~PutRow(t, c, row)
    <3>1. View(t)[c] = NoRow /\ UNCHANGED <<cards, writes, rechecks>>
      BY <2>3, <2>5 DEF UpdateCardPosition
    <3>2. Bare(t)'
      BY <1>1, <2>3, <3>1 DEF Bare, Owns
    <3>3. ASSUME ~overtaken[t]
          PROVE  FALSE
      <4>1. Rewriting(t)
        BY <1>1, <3>3 DEF Tidy
      <4>2. 1 \in DOMAIN todo[t] /\ todo[t][1].card = c
        <5> DEFINE S == [card : Cards, row : Row]
        <5>1. todo[t] \in Seq(S)
          BY DEF Full, TypeInv, TypeOK
        <5> HIDE DEF S
        <5> QED
          BY <1>3, <2>1, <5>1
      <4>3. ~Owns(t, c) /\ cards[c].column \in Columns
        BY <1>1, <4>1, <4>2, ColumnsAreColumns DEF Rewriting
      <4> QED
        BY <2>2, <3>1, <4>3, ViewIs, RowsHaveKeys
    <3> QED
      BY <1>1, <3>2, <3>3
  <2> QED
    BY <2>4, <2>5
<1> QED
  BY <1>2, <1>3

(* Whatever happens to the card that is placed, the others stay put.       *)
LEMMA OthersStay ==
    ASSUME NEW t \in Requests, cards' = cards, request'[t] = request[t],
           \A d \in Others(t) : View(t)'[d] = View(t)[d]
    PROVE  /\ Arranged(t) => Arranged(t)'
           /\ place'[t] = place[t] /\ Placed(t) => Placed(t)'
<1>1. Others(t)' = Others(t)
  BY DEF Others
<1>2. ASSUME Arranged(t) PROVE Arranged(t)'
  BY <1>1, <1>2 DEF Arranged, Before
<1>3. InPlace(t)' = InPlace(t)
  BY <1>1 DEF InPlace
<1>4. \A d \in InPlace(t) : View(t)'[d] = View(t)[d]
  BY DEF InPlace
<1>5. ASSUME place'[t] = place[t], Placed(t) PROVE Placed(t)'
  <2>1. PICK key : key = place[t].position
    OBVIOUS
  <2>2. Lower(t, key)' = Lower(t, key)
    BY <1>3, <1>4 DEF Lower
  <2>3. Lands(t, key) => Lands(t, key)'
    BY <1>3, <1>4, <2>2 DEF Lands
  <2>4. place'[t].position = key /\ place[t].position = key
    BY <1>5, <2>1
  <2>5. Lands(t, place[t].position)'
    <3>1. Lands(t, key)'
      BY <1>5, <2>3, <2>4 DEF Placed
    <3> QED
      BY <2>4, <3>1
  <2> QED
    BY <1>5, <2>5 DEF Placed
<1> QED
  BY <1>2, <1>5

LEMMA RelistUndisturbed ==
    ASSUME Full, NEW t \in Requests, Bare(t), ~overtaken[t] => Tidy(t), Relist(t)
    PROVE  Bare(t)' /\ (~overtaken'[t] => Tidy(t)')
<1>1. /\ pc[t] = "relist" /\ pc[t] \in InTransaction
      /\ request' = request /\ overtaken' = overtaken
  BY DEF Relist, InTransaction
<1>2. CASE \E error : Rollback(t) /\ Answer(t, error)
  <2>1. pc'[t] = "done" /\ EndTransaction(t)
    BY <1>2, AnswerAlone DEF Rollback
  <2> QED
    BY <2>1, RollbackAlone, NothingToShow
<1>3. CASE ~\E error : Rollback(t) /\ Answer(t, error)
  <2>1. PICK siblings \in CardPositions(t) :
           /\ PositionAmong(t, siblings).err = "none"
           /\ Place(t, PositionAmong(t, siblings).key)
           /\ UNCHANGED table
    BY <1>3 DEF Relist
  <2> DEFINE key == PositionAmong(t, siblings).key
  <2>2. Arranged(t) => Lands(t, key)
    BY <1>1, <2>1, PlacementIsGood
  <2>3. place'[t] = [column |-> request[t].column, position |-> key]
        /\ pc'[t] = "write"
    BY <2>1 DEF Place, Goto, Full, TypeInv, TypeOK
  <2> HIDE DEF key
  <2>4. place'[t].column = request[t].column /\ place'[t].position = key
    BY <2>3
  <2>5. /\ UNCHANGED <<cards, writes, rechecks>>
        /\ View(t)' = View(t)
    BY <2>1 DEF table, View
  <2>6. Bare(t)'
    BY <1>1, <2>3, <2>5 DEF Bare, Owns
  <2>7. Arranged(t) => Arranged(t)'
    BY <1>1, <2>5, OthersStay
  <2>8. Lands(t, key) => Placed(t)'
    BY <1>1, <2>4, <2>5 DEF Placed, Lands, Lower, InPlace, Others
  <2> QED
    BY <1>1, <2>2, <2>3, <2>6, <2>7, <2>8 DEF Tidy
<1> QED
  BY <1>2, <1>3

LEMMA WriteUndisturbed ==
    ASSUME Full, NEW t \in Requests, Bare(t), ~overtaken[t] => Tidy(t), Write(t)
    PROVE  Bare(t)' /\ (~overtaken'[t] => Tidy(t)')
<1>1. /\ pc[t] = "write" /\ pc[t] \in InTransaction /\ pc'[t] = "settle"
      /\ request' = request /\ overtaken' = overtaken /\ place' = place
  BY DEF Write, InTransaction, Goto, Full, TypeInv, TypeOK
<1>2. PICK c, row : c = request[t].card /\ row = place[t]
  OBVIOUS
<1>3. c \in Cards /\ row \in Row
  BY <1>1, <1>2, ColumnsAreColumns DEF Full, TypeInv
<1>4. PutRow(t, c, row) \/ UpdateCardPosition(t, c, row)
  BY <1>2 DEF Write, InsertCard
<1>5. CASE PutRow(t, c, row)
  <2>1. /\ cards' = cards /\ View(t)'[c] = row
        /\ \A d \in Cards \ {c} : View(t)'[d] = View(t)[d]
        /\ (\A d \in rechecks[t] : Owns(t, d)) => \A d \in rechecks'[t] : Owns(t, d)'
    BY <1>3, <1>5, PutRowEffect
  <2>2. Bare(t)'
    BY <1>1, <2>1 DEF Bare
  <2>3. (Arranged(t) => Arranged(t)') /\ (Placed(t) => Placed(t)')
    BY <1>1, <1>2, <2>1, OthersStay DEF Others
  <2> QED
    BY <1>1, <1>2, <2>1, <2>2, <2>3 DEF Tidy
<1>6. CASE ~PutRow(t, c, row)
  <2>1. /\ View(t)[c] = NoRow /\ UNCHANGED <<cards, writes, rechecks>>
        /\ View(t)' = View(t)
    BY <1>4, <1>6 DEF UpdateCardPosition, View
  <2>2. Bare(t)'
    BY <1>1, <2>1 DEF Bare, Owns
  <2>3. (Arranged(t) => Arranged(t)') /\ (Placed(t) => Placed(t)')
    BY <1>1, <2>1, OthersStay
  <2> QED
    BY <1>1, <1>2, <2>1, <2>2, <2>3 DEF Tidy
<1> QED
  BY <1>5, <1>6

LEMMA SettleUndisturbed ==
    ASSUME Full, NEW t \in Requests, Bare(t), ~overtaken[t] => Tidy(t), Settle(t)
    PROVE  Bare(t)' /\ (~overtaken'[t] => Tidy(t)')
<1>1. /\ pc[t] = "settle" /\ pc' = pc /\ request' = request
      /\ overtaken' = overtaken /\ place' = place
      /\ cards' = cards /\ writes' = writes /\ View(t)' = View(t)
  BY DEF Settle, Recheck, View
<1>2. rechecks'[t] \subseteq rechecks[t]
  BY DEF Settle, Recheck, Full, TypeInv, TypeOK, TableTypeOK
<1>3. Bare(t)'
  BY <1>1, <1>2 DEF Bare, Owns
<1>4. (Arranged(t) => Arranged(t)') /\ (Placed(t) => Placed(t)')
  BY <1>1, OthersStay
<1> QED
  BY <1>1, <1>3, <1>4 DEF Tidy

(* A commit, a rollback or a DELETE leaves the request without writes.     *)
LEMMA EndUndisturbed ==
    ASSUME Full, NEW t \in Requests, Bare(t),
           LoseConflict(t) \/ Commit(t) \/ Delete(t) \/ Cancel(t) \/ DeadlockVictim(t)
    PROVE  Bare(t)' /\ Tidy(t)'
<1>1. CASE Delete(t)
  <2>1. /\ pc[t] = "delete" /\ pc'[t] = "done" /\ UNCHANGED <<writes, rechecks>>
    BY <1>1, AnswerAlone DEF Delete, DeleteCard
  <2> QED
    BY <2>1, BareUnwritten, NothingToShow DEF Owns
<1>2. CASE ~Delete(t)
  <2>1. EndTransaction(t)
    BY <1>2 DEF LoseConflict, Commit, CommitTransaction, Cancel, DeadlockVictim, Rollback
  <2>2. pc'[t] \in {"done", "list"}
    <3>1. CASE LoseConflict(t)
      BY <3>1, AnswerAlone DEF LoseConflict, Goto, Full, TypeInv, TypeOK
    <3>2. CASE Commit(t) \/ Cancel(t) \/ DeadlockVictim(t)
      BY <3>2, AnswerAlone DEF Commit, Cancel, DeadlockVictim
    <3> QED
      BY <1>2, <3>1, <3>2
  <2> QED
    BY <2>1, <2>2, RollbackAlone, NothingToShow
<1> QED
  BY <1>1, <1>2

LEMMA StepUndisturbed ==
    ASSUME Full, Undisturbed, NEW t \in Requests, StepOf(t)
    PROVE  Undisturbed'
<1>1. Alone(t)
  BY StepsAreAlone
<1>2. ASSUME NEW u \in Requests \ {t}
      PROVE  Bare(u)' /\ (~overtaken'[u] => Tidy(u)')
  BY <1>1, UndisturbedElsewhere DEF Alone, Undisturbed
<1>3. Bare(t) /\ (~overtaken[t] => Tidy(t))
  BY DEF Undisturbed
<1>4. Bare(t)' /\ (~overtaken'[t] => Tidy(t)')
  BY <1>3, BeginUndisturbed, ListUndisturbed, RenormalizeUndisturbed,
     RewriteUndisturbed, RelistUndisturbed, WriteUndisturbed, SettleUndisturbed,
     EndUndisturbed DEF StepOf, Statement
<1> QED
  BY <1>2, <1>4 DEF Undisturbed

LEMMA NextUndisturbed == Full /\ Undisturbed /\ [Next]_vars => Undisturbed'
<1>1. ASSUME Full, Undisturbed, NEW t \in Requests, StepOf(t)
      PROVE  Undisturbed'
  BY <1>1, StepUndisturbed
<1>2. ASSUME Undisturbed, UNCHANGED vars
      PROVE  Undisturbed'
  <2>1. ASSUME NEW u \in Requests
        PROVE  Bare(u)' /\ (~overtaken'[u] => Tidy(u)')
    <3>1. Bare(u) /\ (~overtaken[u] => Tidy(u))
      BY <1>2 DEF Undisturbed
    <3> QED
      BY <1>2, <3>1, UndisturbedElsewhere DEF vars, table
  <2> QED
    BY <2>1 DEF Undisturbed
<1> QED
  BY <1>1, <1>2 DEF Next, StepOf

LEMMA Settles == Spec => [](Full /\ Undisturbed)
<1>1. Init => Undisturbed
  BY DEF Init, TableInit, NoWrites, Undisturbed, Bare, Tidy, Owns
<1> QED
  BY <1>1, InitEstablishes, NextKeeps, TypesAtFirst, TypesKept, NextUndisturbed, PTL
     DEF Spec, Full
-----------------------------------------------------------------------------
(* What it says of the table *)

(* A request is answered "ok" out of a transaction only by its commit.     *)
LEMMA CommitsIsCommit ==
    ASSUME Full, [Next]_vars, NEW t \in Requests, Commits(t)
    PROVE  Commit(t)
<1>1. pc[t] = "settle" /\ answer[t] = "none" /\ answer'[t] = "ok"
  BY DEF Commits, Answered
<1>2. ~UNCHANGED vars
  BY <1>1 DEF vars
<1>3. PICK u \in Requests : StepOf(u)
  BY <1>2 DEF Next, StepOf
<1>4. u = t
  <2> SUFFICES ASSUME u # t PROVE FALSE
    OBVIOUS
  <2>1. \/ UNCHANGED answer
        \/ \E reply : Answer(u, reply)
    BY <1>3 DEF StepOf, Statement, StartCreate, StartMove, StartDelete, Load, List,
       RenormalizeCards, Rewrite, Relist, Write, Settle, LoseConflict, Commit, Delete,
       Cancel, DeadlockVictim
  <2> QED
    BY <1>1, <2>1, AnswerAlone
<1> QED
  BY <1>1, <1>3, <1>4, AnswerAlone DEF StepOf, Statement, StartCreate, StartMove,
     StartDelete, Load, List, RenormalizeCards, Rewrite, Relist, Write, Settle,
     LoseConflict, Delete, Cancel, DeadlockVictim

(* Only LoseConflict costs an attempt, or reports the bare violation.      *)
LEMMA LosesIsLoseConflict ==
    ASSUME Full, [Next]_vars, NEW t \in Requests,
           tries'[t] > tries[t] \/ Answered(t, "unique_violation")
    PROVE  LoseConflict(t)
<1>0. tries[t] \in Nat /\ tries \in [Requests -> 0..MaxConflictRetries]
  BY DEF Full, TypeInv, TypeOK
<1>1. tries'[t] # tries[t] \/ (answer[t] = "none" /\ answer'[t] = "unique_violation")
  BY <1>0 DEF Answered
<1>2. PICK u \in Requests : StepOf(u)
  BY <1>1 DEF Next, StepOf, vars
<1>3. \/ LoseConflict(u)
      \/ UNCHANGED <<tries, answer>>
      \/ /\ UNCHANGED tries
         /\ \E reply : reply # "unique_violation" /\ Answer(u, reply)
  <2>1. CASE Relist(u)
    <3>1. CASE \E siblings \in CardPositions(u) :
                  PositionAmong(u, siblings).err # "none" /\
                  Answer(u, PositionAmong(u, siblings).err)
      <4>1. pc[u] \in InTransaction
        BY <2>1 DEF Relist, InTransaction
      <4>2. PICK siblings \in CardPositions(u) :
                    PositionAmong(u, siblings).err # "none" /\
                    Answer(u, PositionAmong(u, siblings).err)
        BY <3>1
      <4>3. PositionAmong(u, siblings).err # "unique_violation"
        BY <4>1, <4>2, PlacementType DEF Full, TypeInv
      <4> QED
        BY <2>1, <4>2, <4>3 DEF Relist
    <3> QED
      BY <2>1, <3>1 DEF Relist
  <2>2. CASE ~Relist(u)
    BY <1>2, <2>2 DEF StepOf, Statement, StartCreate, StartMove, StartDelete, Load,
       List, RenormalizeCards, Rewrite, Write, Settle, Commit, Delete, Cancel,
       DeadlockVictim
  <2> QED
    BY <2>1, <2>2
<1>4. LoseConflict(u) => u = t
  <2> SUFFICES ASSUME LoseConflict(u), u # t PROVE FALSE
    OBVIOUS
  <2>1. tries'[t] = tries[t]
    BY <1>0 DEF LoseConflict
  <2>2. answer' = answer \/ \E reply : Answer(u, reply)
    BY DEF LoseConflict
  <2> QED
    BY <1>1, <2>1, <2>2, AnswerAlone
<1>5. \A reply : Answer(u, reply) => answer'[t] = answer[t] \/ answer'[t] = reply
  BY AnswerAlone
<1> QED
  BY <1>1, <1>3, <1>4, <1>5

(* A transaction that nobody has overtaken sees no two cards at one        *)
(* position, so its rechecks cannot fail.                                  *)
LEMMA RechecksPassAlone ==
    ASSUME Full, NEW t \in Requests, Bare(t), Tidy(t), pc[t] = "settle"
    PROVE  ~RecheckFails(t)
<1> SUFFICES ASSUME NEW c \in rechecks[t], Violated(t, c) PROVE FALSE
  BY DEF RecheckFails
<1>1. c \in Cards /\ Owns(t, c)
  BY DEF Bare, Full, TypeInv, TypeOK, TableTypeOK
<1>2. writes[t][c] \in Row /\ View(t)[c] = writes[t][c]
  BY <1>1, RowsHaveKeys, ViewIs
<1>3. PICK d \in Cards \ {c} : View(t)[d] = View(t)[c]
  <2>1. PICK d \in Cards \ {c} :
          \/ writes[t][d] = writes[t][c]
          \/ /\ cards[d] = writes[t][c]
             /\ \A u \in Requests : writes[u][d] = NoRow
    BY DEF Violated
  <2>2. View(t)[d] = View(t)[c]
    BY <1>1, <1>2, <2>1, ViewIs DEF Owns
  <2> QED
    BY <2>2
<1>4. /\ Arranged(t) /\ Placed(t)
      /\ View(t)[request[t].card] \in {NoRow, place[t]}
      /\ request[t].column \in Columns /\ request[t].card \in Cards
  BY ColumnsAreColumns DEF Tidy, InTransaction
<1>5. /\ View(t)[c].column \in Columns /\ View(t)[c].position \in Key
      /\ View(t)[c] # NoRow
  BY <1>1, <1>2, RowsHaveKeys DEF Row
<1>6. CASE c \in Others(t) /\ d \in Others(t)
  BY <1>3, <1>4, <1>5, <1>6, OthersDiffer
<1>7. ASSUME NEW e \in Cards, e # request[t].card, View(t)[request[t].card] = View(t)[e],
             View(t)[e] = View(t)[c]
      PROVE  FALSE
  <2>1. View(t)[e] = place[t]
    BY <1>4, <1>5, <1>7
  <2>2. e \in InPlace(t)
    BY <1>4, <1>7, <2>1 DEF InPlace, Others, Placed
  <2>3. Precedes(View(t)[e].position, place[t].position)
           \/ Precedes(place[t].position, View(t)[e].position)
    BY <1>4, <2>2 DEF Placed, Lands
  <2> QED
    BY <1>5, <1>7, <2>1, <2>3, PrecedesIsIrreflexive
<1> QED
  BY <1>1, <1>3, <1>6, <1>7 DEF Others

(* A retry is spent, or a violation reported, only on a real race.         *)
THEOREM OnlyTheOvertakenLose == Spec => LosesOnlyWhenOvertaken
<1> DEFINE Lone == \A t \in Requests :
          tries'[t] > tries[t] \/ Answered(t, "unique_violation")
             => overtaken[t]
<1>1. ASSUME Full /\ Undisturbed, [Next]_vars
      PROVE  Lone
  <2> SUFFICES ASSUME NEW t \in Requests,
                      tries'[t] > tries[t] \/ Answered(t, "unique_violation"),
                      ~overtaken[t]
               PROVE  FALSE
    BY DEF Full, TypeInv, TypeOK
  <2>1. LoseConflict(t)
    BY <1>1, LosesIsLoseConflict
  <2> QED
    BY <1>1, <2>1, RechecksPassAlone DEF LoseConflict, Undisturbed
<1>2. Spec => [][Lone]_vars
  BY <1>1, Settles, PTL DEF Spec
<1> QED
  BY <1>2 DEF LosesOnlyWhenOvertaken

(* What an attempt commits that nobody has overtaken leaves the other      *)
(* cards in their columns and in their order, renormalized or not.         *)
THEOREM RenormalizingKeepsTheOrder == Spec => OthersKeepTheirOrder
<1> DEFINE Ordered == \A t \in Requests :
          Commits(t) /\ ~overtaken[t] =>
             \A c, d \in Cards \ {request[t].card} :
                /\ cards'[c].column = cards[c].column
                /\ Before(cards, c, d) => Before(cards', c, d)
<1>1. ASSUME Full /\ Undisturbed, [Next]_vars
      PROVE  Ordered
  <2> SUFFICES ASSUME NEW t \in Requests, Commits(t), ~overtaken[t],
                      NEW c \in Cards \ {request[t].card},
                      NEW d \in Cards \ {request[t].card}
               PROVE  /\ cards'[c].column = cards[c].column
                      /\ Before(cards, c, d) => Before(cards', c, d)
    OBVIOUS
  <2>1. pc[t] = "settle" /\ cards' = View(t)
    BY <1>1, CommitsIsCommit DEF Commit, CommitTransaction
  <2>2. Arranged(t)
    BY <1>1, <2>1 DEF Undisturbed, Tidy
  <2> QED
    BY <2>1, <2>2 DEF Arranged, Others
<1>2. Spec => [][Ordered]_vars
  BY <1>1, Settles, PTL DEF Spec
<1> QED
  BY <1>2 DEF OthersKeepTheirOrder

(* And the card itself is at the index that the client has asked for.      *)
THEOREM CardsLandWhereAsked == Spec => PlacedWhereAsked
<1> DEFINE Asked == \A t \in Requests :
          LET c == request[t].card IN
          Commits(t) /\ ~overtaken[t] /\ View(t)[c] # NoRow =>
             /\ cards'[c].column = request[t].column
             /\ Rank(cards', c) = IF request[t].index < Siblings(cards', c)
                                  THEN request[t].index
                                  ELSE Siblings(cards', c)
<1>1. ASSUME Full /\ Undisturbed, [Next]_vars
      PROVE  Asked
  <2> SUFFICES ASSUME NEW t \in Requests, Commits(t), ~overtaken[t],
                      View(t)[request[t].card] # NoRow
               PROVE  /\ cards'[request[t].card].column = request[t].column
                      /\ Rank(cards', request[t].card) =
                            IF request[t].index < Siblings(cards', request[t].card)
                            THEN request[t].index
                            ELSE Siblings(cards', request[t].card)
    OBVIOUS
  <2>1. pc[t] = "settle" /\ cards' = View(t)
    BY <1>1, CommitsIsCommit DEF Commit, CommitTransaction
  <2>2. Placed(t) /\ View(t)[request[t].card] = place[t]
    BY <1>1, <2>1 DEF Undisturbed, Tidy
  <2>3. PICK c, key : c = request[t].card /\ key = place[t].position
    OBVIOUS
  <2>4. c \in Cards /\ request[t].column \in Columns
    BY <1>1, <2>1, <2>3, ColumnsAreColumns DEF InTransaction
  <2>5. cards'[c].column = request[t].column /\ cards'[c].position = key
    BY <2>1, <2>2, <2>3 DEF Placed
  <2>6. key \in Key
    BY <1>1, <2>1, <2>3, <2>4, <2>5, RowsHaveKeys DEF Row
  <2>7. {d \in Cards \ {c} : cards'[d].column = cards'[c].column} = InPlace(t)
    BY <2>1, <2>3, <2>5 DEF InPlace, Others
  <2>8. {d \in Cards : Before(cards', d, c)} = Lower(t, key)
    <3>1. ~Before(cards', c, c)
      BY <2>5, <2>6, PrecedesIsIrreflexive DEF Before
    <3>2. \A d \in Cards : cards'[d].column = request[t].column => cards'[d] # NoRow
      BY <1>1, <2>1, <2>4, RowsHaveKeys
    <3>3. \A d \in Cards \ {c} : Before(cards', d, c) <=> d \in Lower(t, key)
      BY <2>1, <2>3, <2>5, <3>2 DEF Before, Lower, InPlace, Others
    <3> QED
      BY <2>3, <2>4, <3>1, <3>3 DEF Lower, InPlace, Others
  <2>9. Cardinality(Lower(t, key)) =
           IF request[t].index < Cardinality(InPlace(t))
           THEN request[t].index ELSE Cardinality(InPlace(t))
    BY <2>2, <2>3 DEF Placed, Lands
  <2> QED
    BY <2>3, <2>5, <2>7, <2>8, <2>9 DEF Rank, Siblings
<1>2. Spec => [][Asked]_vars
  BY <1>1, Settles, PTL DEF Spec
<1> QED
  BY <1>2 DEF PlacedWhereAsked
=============================================================================
