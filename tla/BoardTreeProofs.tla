-------------------------- MODULE BoardTreeProofs --------------------------
(***************************************************************************)
(* What BoardTree promises, for any number of users, boards, requests and  *)
(* menus of requests.                                                      *)
(*                                                                         *)
(* The inductive invariant IInv has three parts.  Inv: the types, where a  *)
(* request stands in its use case, and the foreign keys.  Ids: an id is    *)
(* given out once, and a deleted row does not come back.  Local: what each *)
(* request has been told is still so, or its history says what has changed *)
(* since.  A step is Receive, a QuietStep, which leaves the tables alone,  *)
(* or a WriteStep; Effect is all that a write may do to the tables.        *)
(***************************************************************************)
EXTENDS BoardTree, SequenceTheorems, TLAPS

(* The use cases that a route may call. *)
UsesOf(op) ==
    CASE op = "UpdateColumn" -> {"RenameColumn", "ReorderColumn"}
      [] op = "UpdateCard" -> {"EditCard", "MoveCard"}
      [] OTHER -> {op}

Entered == {"load", "target", "place", "write", "member", "board", "columns", "cards"}
Working == Entered \cup {"authorize"}

(* Where request t stands: the use case it is in, what it has read by now. *)
Staged(t) ==
    /\ pc[t] # "idle" => request[t] \in Menu
    /\ todo[t] \in Seq(UsesOf(request[t].op))
    /\ pc[t] \in Working => todo[t] # <<>>
    /\ pc[t] \in Working /\ request[t].op \notin {"UpdateColumn", "UpdateCard"}
       => Tail(todo[t]) = <<>>
    /\ pc[t] \in Entered => frame[t].home \in Boards
    /\ pc[t] = "load" => UseCase(t) \in {"EditCard", "MoveCard"}
    /\ pc[t] = "target" => UseCase(t) = "MoveCard"
    /\ pc[t] = "place" => UseCase(t) \in {"CreateCard", "MoveCard"}
    /\ pc[t] = "member" => UseCase(t) = "CreateBoard"
    /\ pc[t] = "publish" => request[t].op # "GetBoard"
    /\ pc[t] \in {"board", "columns", "cards"} => UseCase(t) = "GetBoard"
    /\ pc[t] \in {"target", "place", "write"}
          /\ UseCase(t) \in {"CreateCard", "MoveCard"} => frame[t].dest \in Columns
    /\ pc[t] \in {"place", "write"} /\ UseCase(t) = "CreateCard"
       => request[t].title # Blank
    /\ pc[t] = "write" /\ UseCase(t) = "EditCard"
       => frame[t].row \in CardRow /\ request[t].title # Blank

Shape == TypeOK /\ \A t \in Requests : Staged(t)
-----------------------------------------------------------------------------
(* The statements keep the foreign keys and the owners. *)

Intact == RowsTypeOK /\ IsRooted(rows) /\ IsOwned(rows)

LEMMA RowsShape ==
    /\ RowsTypeOK <=>
          /\ boards \in [Boards -> Users \cup {None}]
          /\ members \in [Boards -> [Users -> Roles]]
          /\ columns \in [Columns -> Boards \cup {None}]
          /\ cards \in [Cards -> CardRow \cup {NoCard}]
    /\ RowsTypeOK' <=>
          /\ boards' \in [Boards -> Users \cup {None}]
          /\ members' \in [Boards -> [Users -> Roles]]
          /\ columns' \in [Columns -> Boards \cup {None}]
          /\ cards' \in [Cards -> CardRow \cup {NoCard}]
  BY DEF RowsTypeOK, rows, Database

LEMMA CardRowsAreCards ==
    ASSUME NEW row \in CardRow
    PROVE  row # NoCard /\ row.column \in Columns /\ row.column # None
  BY RowsAssumption DEF CardRow, NoCard

LEMMA InsertBoardIntact ==
    ASSUME Intact, NEW b \in Boards, NEW u \in Users, boards[b] = None,
           InsertBoard(b, u), InsertMember(b, u, "owner"), UNCHANGED <<columns, cards>>
    PROVE  Intact'
<1>1. RowsTypeOK'
  BY RowsShape DEF Intact, InsertBoard, InsertMember, Roles
<1>2. IsRooted(rows)'
  BY RowsShape, RowsAssumption DEF Intact, InsertBoard, InsertMember, IsRooted, rows
<1>3. members[b] = Nobody
  BY DEF Intact, IsRooted, rows
<1>4. IsOwned(rows)'
  <2> SUFFICES ASSUME NEW a \in Boards, NEW v \in Users, boards'[a] # None
               PROVE  members'[a][v] = "owner" <=> boards'[a] = v
    BY DEF IsOwned, rows
  <2>1. CASE a = b
    BY <1>3, <2>1, RowsShape DEF Intact, InsertBoard, InsertMember, Nobody
  <2>2. CASE a # b
    BY <2>2, RowsShape DEF Intact, InsertBoard, InsertMember, IsOwned, rows
  <2> QED
    BY <2>1, <2>2
<1> QED
  BY <1>1, <1>2, <1>4 DEF Intact

LEMMA InsertColumnIntact ==
    ASSUME Intact, NEW k \in Columns, NEW b \in Boards, boards[b] # None,
           InsertColumn(k, b)
    PROVE  Intact'
<1>1. RowsTypeOK'
  BY RowsShape DEF Intact, InsertColumn
<1>2. IsRooted(rows)'
  BY RowsShape, RowsAssumption, CardRowsAreCards DEF Intact, InsertColumn, IsRooted, rows
<1>3. IsOwned(rows)'
  BY DEF Intact, InsertColumn, IsOwned, rows
<1> QED
  BY <1>1, <1>2, <1>3 DEF Intact

LEMMA UpdateCardIntact ==
    ASSUME Intact, NEW c \in Cards, NEW title \in Texts, NEW description \in Texts,
           UpdateCardContent(c, title, description)
    PROVE  Intact'
<1>1. RowsTypeOK'
  BY RowsShape DEF Intact, UpdateCardContent, CardRow
<1>2. \A d \in Cards : cards'[d].column = cards[d].column
                       /\ (cards'[d] # NoCard => cards[d] # NoCard)
  BY RowsShape DEF Intact, UpdateCardContent, CardRow
<1>3. IsRooted(rows)'
  BY <1>2 DEF Intact, UpdateCardContent, IsRooted, rows
<1>4. IsOwned(rows)'
  BY DEF Intact, UpdateCardContent, IsOwned, rows
<1> QED
  BY <1>1, <1>3, <1>4 DEF Intact

LEMMA RepositionedRows ==
    ASSUME RowsTypeOK, NEW moved, NEW k \in Columns
    PROVE  /\ Repositioned(moved, k) \in [Cards -> CardRow \cup {NoCard}]
           /\ \A c \in Cards :
                 Repositioned(moved, k)[c].column \in {k, cards[c].column}
           /\ \A c \in Cards :
                 Repositioned(moved, k)[c] # NoCard => cards[c] # NoCard
           /\ \A c \in Cards : c \notin moved => Repositioned(moved, k)[c] = cards[c]
  BY RowsShape DEF Repositioned, CardRow

LEMMA UpdatePositionIntact ==
    ASSUME Intact, NEW moved \in SUBSET Cards, NEW k \in Columns,
           moved = {} \/ columns[k] # None, UpdateCardPosition(moved, k)
    PROVE  Intact'
<1>1. RowsTypeOK'
  BY RowsShape, RepositionedRows DEF Intact, UpdateCardPosition
<1>2. IsRooted(rows)'
  BY RepositionedRows DEF Intact, UpdateCardPosition, IsRooted, rows
<1>3. IsOwned(rows)'
  BY DEF Intact, UpdateCardPosition, IsOwned, rows
<1> QED
  BY <1>1, <1>2, <1>3 DEF Intact

LEMMA InsertCardIntact ==
    ASSUME Intact, NEW c \in Cards, NEW row \in CardRow, NEW moved \in SUBSET Cards,
           columns[row.column] # None, InsertCard(c, row, moved)
    PROVE  Intact'
<1>0. row.column \in Columns
  BY CardRowsAreCards
<1>1. RowsTypeOK'
  BY <1>0, RowsShape, RepositionedRows DEF Intact, InsertCard
<1>2. IsRooted(rows)'
  BY <1>0, RepositionedRows DEF Intact, InsertCard, IsRooted, rows
<1>3. IsOwned(rows)'
  BY DEF Intact, InsertCard, IsOwned, rows
<1> QED
  BY <1>1, <1>2, <1>3 DEF Intact

LEMMA DeleteBoardIntact ==
    ASSUME Intact, NEW b \in Boards, DeleteBoard(b)
    PROVE  Intact'
<1>1. RowsTypeOK'
  BY RowsShape DEF Intact, DeleteBoard, WithoutColumns, Nobody, Roles
<1>2. IsRooted(rows)'
  BY RowsShape, RowsAssumption, CardRowsAreCards
  DEF Intact, DeleteBoard, WithoutColumns, ListColumns, IsRooted, rows
<1>3. IsOwned(rows)'
  BY RowsShape DEF Intact, DeleteBoard, IsOwned, rows
<1> QED
  BY <1>1, <1>2, <1>3 DEF Intact

LEMMA DeleteColumnIntact ==
    ASSUME Intact, NEW k \in Columns, DeleteColumn(k)
    PROVE  Intact'
<1>1. RowsTypeOK'
  BY RowsShape DEF Intact, DeleteColumn, WithoutColumns
<1>2. IsRooted(rows)'
  BY RowsShape, CardRowsAreCards DEF Intact, DeleteColumn, WithoutColumns, IsRooted, rows
<1>3. IsOwned(rows)'
  BY DEF Intact, DeleteColumn, IsOwned, rows
<1> QED
  BY <1>1, <1>2, <1>3 DEF Intact

LEMMA DeleteCardIntact ==
    ASSUME Intact, NEW c \in Cards, DeleteCard(c)
    PROVE  Intact'
<1>1. RowsTypeOK'
  BY RowsShape DEF Intact, DeleteCard
<1>2. IsRooted(rows)'
  BY RowsShape DEF Intact, DeleteCard, IsRooted, rows
<1>3. IsOwned(rows)'
  BY DEF Intact, DeleteCard, IsOwned, rows
<1> QED
  BY <1>1, <1>2, <1>3 DEF Intact
-----------------------------------------------------------------------------
Labels == {"idle", "authorize", "load", "target", "place", "write", "member",
           "board", "columns", "cards", "publish", "done"}
Errors == {"not_found", "forbidden", "invalid", "conflict", "internal", "failed"}

LEMMA StagedElsewhere ==
    ASSUME NEW u \in Requests, Staged(u),
           pc'[u] = pc[u], request'[u] = request[u], todo'[u] = todo[u],
           frame'[u] = frame[u]
    PROVE  Staged(u)'
  BY DEF Staged, UseCase

LEMMA UsesAreUseCases ==
    ASSUME NEW r \in RequestType \cup {NoRequest}
    PROVE  r.op # "none" => UsesOf(r.op) \subseteq UseCaseName
  BY DEF RequestType, NoRequest, UsesOf, UseCaseName

LEMMA StagedTodo ==
    ASSUME Shape, NEW t \in Requests, pc[t] \in Working
    PROVE  /\ request[t] \in Menu /\ request[t] \in RequestType
           /\ IsAddressed(request[t])
           /\ UseCase(t) \in UsesOf(request[t].op)
           /\ Tail(todo[t]) \in Seq(UsesOf(request[t].op))
           /\ Tail(todo[t]) \in Seq(UseCaseName)
<1>1. request[t] \in Menu /\ todo[t] # <<>> /\ todo[t] \in Seq(UsesOf(request[t].op))
  BY DEF Shape, Staged, Working, Entered
<1>2. todo[t] \in Seq(UseCaseName)
  BY DEF Shape, TypeOK
<1>3. request[t] \in RequestType /\ IsAddressed(request[t])
  BY <1>1, TreeAssumption
<1>4. UseCase(t) \in UsesOf(request[t].op)
  BY <1>1, HeadTailProperties DEF UseCase
<1>5. Tail(todo[t]) \in Seq(UsesOf(request[t].op)) /\ Tail(todo[t]) \in Seq(UseCaseName)
  BY <1>1, <1>2, HeadTailProperties
<1> QED
  BY <1>1, <1>3, <1>4, <1>5

LEMMA RefuseShape ==
    ASSUME Shape, NEW t \in Requests, NEW error \in Errors, pc[t] # "idle", Refuse(t, error)
    PROVE  Shape'
<1>1. TypeOK'
  <2>1. RowsTypeOK'
    BY RowsShape DEF Shape, TypeOK, Refuse, tables
  <2>2. pc' \in [Requests -> Labels]
    BY DEF Shape, TypeOK, Refuse, Answer, Goto, Labels
  <2>3. answer' \in [Requests -> Errors \cup {"none", "ok"}]
    BY DEF Shape, TypeOK, Refuse, Answer, Errors
  <2> QED
    BY <2>1, <2>2, <2>3 DEF Shape, TypeOK, Refuse, Labels, Errors
<1>2. Staged(t)'
  <2>1. pc'[t] = "done"
    BY DEF Shape, TypeOK, Refuse, Answer, Goto
  <2> QED
    BY <2>1 DEF Shape, Staged, Refuse, Working, Entered
<1>3. \A u \in Requests \ {t} : Staged(u)'
  BY StagedElsewhere DEF Shape, TypeOK, Refuse, Answer, Goto
<1> QED
  BY <1>1, <1>2, <1>3 DEF Shape

(* A step of a request that neither writes nor answers. *)
LEMMA MoveOnShape ==
    ASSUME Shape, NEW t \in Requests, NEW label \in Labels, Goto(t, label),
           NEW f \in Frame, frame' = [frame EXCEPT ![t] = f],
           NEW h \in Trace, trace' = [trace EXCEPT ![t] = h],
           Staged(t)',
           UNCHANGED <<tables, request, todo, events, sent, answer, known, gone>>
    PROVE  Shape'
<1>1. RowsTypeOK'
  BY RowsShape DEF Shape, TypeOK, tables
<1>2. pc' \in [Requests -> Labels]
  BY DEF Shape, TypeOK, Goto, Labels
<1>3. frame' \in [Requests -> Frame] /\ trace' \in [Requests -> Trace]
  BY DEF Shape, TypeOK
<1>4. TypeOK'
  BY <1>1, <1>2, <1>3 DEF Shape, TypeOK, Labels
<1>5. \A u \in Requests \ {t} : Staged(u)'
  BY StagedElsewhere DEF Shape, TypeOK, Goto
<1> QED
  BY <1>4, <1>5 DEF Shape

LEMMA RecordShape ==
    ASSUME Shape, RowsTypeOK', NEW t \in Requests, NEW where \in SUBSET Boards,
           Record(t, where)
    PROVE  /\ gone' \in SUBSET (Boards \cup Columns)
           /\ trace' \in [Requests -> Trace]
           /\ gone \subseteq gone'
<1>1. \A c : Races(c) \in SUBSET {"carried", "edited"}
  BY DEF Races
<1>2. gone' \in SUBSET (Boards \cup Columns) /\ gone \subseteq gone'
  BY DEF Record, Shape, TypeOK
<1>3. ASSUME NEW u \in Requests
      PROVE  trace'[u] \in Trace
  <2>1. trace[u] \in Trace
    BY DEF Shape, TypeOK
  <2> QED
    BY <2>1, <1>1, <1>3 DEF Record, Trace
<1> QED
  BY <1>2, <1>3 DEF Record

LEMMA SucceedShape ==
    ASSUME Shape, RowsTypeOK', NEW t \in Requests, NEW type \in UseCaseName,
           pc[t] \in Entered, UseCase(t) # "GetBoard", NEW where \in SUBSET Boards,
           Succeed(t, type), Record(t, where)
    PROVE  Shape'
<1>0. pc[t] \in Working /\ frame[t].home \in Boards
  BY DEF Shape, Staged, Working
<1>1. TypeOK'
  <2>1. pc' \in [Requests -> Labels]
    BY DEF Shape, TypeOK, Succeed, Goto, Labels
  <2>2. todo' \in [Requests -> Seq(UseCaseName)]
    BY <1>0, StagedTodo DEF Shape, TypeOK, Succeed
  <2>3. events' \in [Requests -> Seq([type : UseCaseName, board : Boards])]
    <3>1. [type |-> type, board |-> frame[t].home]
             \in [type : UseCaseName, board : Boards]
      BY <1>0
    <3>2. events[t] \in Seq([type : UseCaseName, board : Boards])
      BY DEF Shape, TypeOK
    <3>3. Append(events[t], [type |-> type, board |-> frame[t].home])
             \in Seq([type : UseCaseName, board : Boards])
      BY <3>1, <3>2, AppendProperties
    <3> QED
      BY <3>3 DEF Shape, TypeOK, Succeed
  <2>4. /\ gone' \in SUBSET (Boards \cup Columns)
        /\ trace' \in [Requests -> Trace]
    BY RecordShape
  <2> QED
    BY <2>1, <2>2, <2>3, <2>4 DEF Shape, TypeOK, Succeed, Labels
<1>2. Staged(t)'
  <2>1. todo'[t] = Tail(todo[t]) /\ request'[t] = request[t] /\ frame'[t] = frame[t]
    BY DEF Shape, TypeOK, Succeed
  <2>2. pc'[t] = IF Tail(todo[t]) = <<>> THEN "publish" ELSE "authorize"
    BY DEF Shape, TypeOK, Succeed, Goto
  <2>3. request[t].op # "GetBoard"
    BY <1>0, StagedTodo DEF UsesOf
  <2> QED
    BY <1>0, <2>1, <2>2, <2>3, StagedTodo DEF Shape, Staged, Working, Entered
<1>3. \A u \in Requests \ {t} : Staged(u)'
  BY StagedElsewhere DEF Shape, TypeOK, Succeed, Goto
<1> QED
  BY <1>1, <1>2, <1>3 DEF Shape
-----------------------------------------------------------------------------
(* The steps before the write *)

LEMMA MembershipFacts ==
    ASSUME RowsTypeOK, IsRooted(rows), NEW u \in Users
    PROVE  /\ \A b \in Boards :
                 MembershipByBoard(b, u).role # "none" =>
                    /\ MembershipByBoard(b, u).board = b
                    /\ boards[b] # None
           /\ \A k \in Columns :
                 MembershipByColumn(k, u).role # "none" =>
                    /\ MembershipByColumn(k, u).board \in Boards
                    /\ columns[k] # None
           /\ \A c \in Cards :
                 MembershipByCard(c, u).role # "none" =>
                    MembershipByCard(c, u).board \in Boards
<1>1. \A b \in Boards :
         MembershipByBoard(b, u).role # "none" =>
            MembershipByBoard(b, u).board = b /\ boards[b] # None
  BY DEF MembershipByBoard, NotFound, IsRooted, rows, Nobody
<1>2. \A k \in Columns :
         MembershipByColumn(k, u).role # "none" =>
            MembershipByColumn(k, u).board \in Boards /\ columns[k] # None
  BY <1>1, RowsShape DEF MembershipByColumn, NotFound
<1>3. \A c \in Cards : cards[c] # NoCard => cards[c].column \in Columns
  BY RowsShape, CardRowsAreCards
<1>4. \A c \in Cards :
         MembershipByCard(c, u).role # "none" =>
            MembershipByCard(c, u).board \in Boards
  BY <1>2, <1>3 DEF MembershipByCard, NotFound
<1> QED
  BY <1>1, <1>2, <1>4

LEMMA UseCasesOfRequest ==
    ASSUME NEW r, NEW S, UsesOf(r.op) \subseteq S
    PROVE  UseCases(r) \in Seq(S)
<1>1. \A p, q \in Seq(S) : p \o q \in Seq(S)
  BY ConcatProperties
<1>2. <<>> \in Seq(S)
  OBVIOUS
<1>3. \A x \in S : <<x>> \in Seq(S)
  OBVIOUS
<1>4. CASE r.op = "UpdateColumn"
  <2>1. "RenameColumn" \in S /\ "ReorderColumn" \in S
    BY <1>4 DEF UsesOf
  <2>2. (IF r.title # None THEN <<"RenameColumn">> ELSE <<>>) \in Seq(S)
    BY <1>2, <1>3, <2>1
  <2>3. (IF r.place THEN <<"ReorderColumn">> ELSE <<>>) \in Seq(S)
    BY <1>2, <1>3, <2>1
  <2> QED
    BY <1>1, <1>4, <2>2, <2>3, Zenon DEF UseCases
<1>5. CASE r.op = "UpdateCard"
  <2>1. "EditCard" \in S /\ "MoveCard" \in S
    BY <1>5 DEF UsesOf
  <2>2. (IF r.title # None \/ r.description # None THEN <<"EditCard">> ELSE <<>>)
           \in Seq(S)
    BY <1>2, <1>3, <2>1
  <2>3. (IF r.column # None \/ r.place THEN <<"MoveCard">> ELSE <<>>) \in Seq(S)
    BY <1>2, <1>3, <2>1
  <2>4. UseCases(r) =
           (IF r.title # None \/ r.description # None THEN <<"EditCard">> ELSE <<>>)
           \o (IF r.column # None \/ r.place THEN <<"MoveCard">> ELSE <<>>)
    BY <1>5 DEF UseCases
  <2> QED
    BY <1>1, <2>2, <2>3, <2>4, Zenon
<1>6. CASE r.op \notin {"UpdateColumn", "UpdateCard"}
  BY <1>3, <1>6 DEF UseCases, UsesOf
<1> QED
  BY <1>4, <1>5, <1>6

LEMMA ReceiveShape ==
    ASSUME Shape, NEW t \in Requests, Receive(t)
    PROVE  Shape'
<1>1. PICK r \in Menu :
         /\ pc[t] = "idle"
         /\ request' = [request EXCEPT ![t] = r]
         /\ todo' = [todo EXCEPT ![t] = UseCases(r)]
         /\ known' = known \cup NewIds(r)
         /\ pc' = [pc EXCEPT ![t] = IF UseCases(r) = <<>> THEN "publish"
                                                         ELSE "authorize"]
         /\ UNCHANGED <<tables, frame, events, sent, answer, gone, trace>>
  BY DEF Receive, Goto
<1>2. r \in RequestType /\ IsAddressed(r)
  BY TreeAssumption
<1>3. UseCases(r) \in Seq(UsesOf(r.op))
  BY UseCasesOfRequest
<1>4. UsesOf(r.op) \subseteq UseCaseName
  BY <1>2, UsesAreUseCases DEF RequestType
<1>5. UseCases(r) \in Seq(UseCaseName)
  BY <1>4, UseCasesOfRequest
<1>6. r.op \notin {"UpdateColumn", "UpdateCard"} => Tail(UseCases(r)) = <<>>
  BY DEF UseCases
<1>7. TypeOK'
  <2>1. RowsTypeOK'
    BY <1>1, RowsShape DEF Shape, TypeOK, tables
  <2>2. pc' \in [Requests -> Labels]
    BY <1>1 DEF Shape, TypeOK, Labels
  <2>3. known' \subseteq Boards \cup Columns \cup Cards
    BY <1>1, <1>2 DEF Shape, TypeOK, NewIds, IsAddressed, RequestType
  <2> QED
    BY <1>1, <1>2, <1>5, <2>1, <2>2, <2>3 DEF Shape, TypeOK, Labels
<1>8. Staged(t)'
  <2>1. todo'[t] = UseCases(r) /\ request'[t] = r
    BY <1>1 DEF Shape, TypeOK
  <2>2. pc'[t] = IF UseCases(r) = <<>> THEN "publish" ELSE "authorize"
    BY <1>1 DEF Shape, TypeOK
  <2>3. r.op = "GetBoard" => UseCases(r) # <<>>
    BY DEF UseCases
  <2> QED
    BY <1>3, <1>6, <2>1, <2>2, <2>3 DEF Staged, Working, Entered
<1>9. \A u \in Requests \ {t} : Staged(u)'
  BY <1>1, StagedElsewhere DEF Shape, TypeOK
<1> QED
  BY <1>7, <1>8, <1>9 DEF Shape

LEMMA MembershipOfRequest ==
    ASSUME Shape, IsRooted(rows), NEW t \in Requests, pc[t] = "authorize",
           UseCase(t) # "CreateBoard", Membership(t).role # "none"
    PROVE  /\ Membership(t).board \in Boards
           /\ UseCase(t) = "CreateColumn" => boards[request[t].board] # None
           /\ UseCase(t) = "CreateCard" => columns[request[t].column] # None
<1>1. /\ request[t] \in RequestType /\ IsAddressed(request[t])
      /\ UseCase(t) \in UsesOf(request[t].op)
  BY StagedTodo DEF Working
<1>2. /\ request[t].user \in Users
      /\ request[t].board \in Boards \cup {None}
      /\ request[t].column \in Columns \cup {None}
      /\ request[t].card \in Cards \cup {None}
      /\ request[t].op \in {"CreateBoard", "GetBoard", "RenameBoard",
           "DeleteBoard", "CreateColumn", "UpdateColumn", "DeleteColumn",
           "CreateCard", "UpdateCard", "DeleteCard"}
      /\ request[t].op # "CreateBoard"
  BY <1>1 DEF RequestType, UsesOf
<1>3. RowsTypeOK
  BY DEF Shape, TypeOK
<1>4. CASE request[t].op \in {"GetBoard", "RenameBoard", "DeleteBoard", "CreateColumn"}
  BY <1>1, <1>2, <1>3, <1>4, MembershipFacts DEF Membership, IsAddressed, UsesOf
<1>5. CASE request[t].op \in {"UpdateColumn", "DeleteColumn", "CreateCard"}
  BY <1>1, <1>2, <1>3, <1>5, MembershipFacts DEF Membership, IsAddressed, UsesOf
<1>6. CASE request[t].op \in {"UpdateCard", "DeleteCard"}
  BY <1>1, <1>2, <1>3, <1>6, MembershipFacts DEF Membership, IsAddressed, UsesOf
<1> QED
  BY <1>2, <1>4, <1>5, <1>6

LEMMA AuthorizeShape ==
    ASSUME Shape, IsRooted(rows), NEW t \in Requests, Authorize(t)
    PROVE  Shape'
<1>1. /\ pc[t] = "authorize" /\ UseCase(t) # "CreateBoard" /\ ~TitleRefused(t)
  BY DEF Authorize
<1>2. CASE Denied(t, Membership(t)) # "no"
  <2>1. Denied(t, Membership(t)) \in Errors
    BY <1>2 DEF Denied, Errors
  <2> QED
    BY <1>1, <1>2, <2>1, RefuseShape DEF Authorize
<1>3. CASE Denied(t, Membership(t)) = "no"
  <2> DEFINE f == [frame[t] EXCEPT !.home = Membership(t).board,
                                   !.dest = request[t].column]
             h == [trace[t] EXCEPT !.raced = {}]
             label == FirstStatement(UseCase(t))
  <2>1. /\ frame' = [frame EXCEPT ![t] = f]
        /\ trace' = [trace EXCEPT ![t] = h]
        /\ Goto(t, label)
        /\ UNCHANGED <<tables, request, todo, events, sent, answer, known, gone>>
    BY <1>3 DEF Authorize, Shape, TypeOK
  <2>2. Membership(t).board \in Boards
    BY <1>1, <1>3, MembershipOfRequest DEF Denied
  <2>3. /\ request[t] \in RequestType /\ IsAddressed(request[t])
        /\ UseCase(t) \in UsesOf(request[t].op)
    BY <1>1, StagedTodo DEF Working
  <2>4. f \in Frame /\ f.home \in Boards /\ f.dest = request[t].column
    <3>1. frame[t] \in Frame
      BY DEF Shape, TypeOK
    <3>2. request[t].column \in Columns \cup {None}
      BY <2>3 DEF RequestType
    <3> QED
      BY <2>2, <3>1, <3>2 DEF Frame
  <2>5. h \in Trace
    <3>1. trace[t] \in Trace
      BY DEF Shape, TypeOK
    <3> QED
      BY <3>1 DEF Trace
  <2>6. label \in Labels \ {"idle", "authorize", "publish", "done"}
    BY DEF FirstStatement, Labels
  <2>7. Staged(t)'
    <3>1. /\ pc'[t] = label /\ frame'[t] = f /\ request'[t] = request[t]
          /\ todo'[t] = todo[t]
      BY <2>1 DEF Goto, Shape, TypeOK
    <3>2. UseCase(t)' = UseCase(t)
      BY <3>1 DEF UseCase
    <3>3. label = "place" => UseCase(t) = "CreateCard"
      BY DEF FirstStatement
    <3>4. UseCase(t) = "CreateCard" =>
             /\ label = "place" /\ request[t].title # Blank
             /\ request[t].column \in Columns
      BY <1>1, <2>3 DEF FirstStatement, TitleRefused, UsesOf, IsAddressed, RequestType
    <3>5. /\ label = "load" => UseCase(t) \in {"EditCard", "MoveCard"}
          /\ label = "write" => UseCase(t) \notin {"EditCard", "MoveCard", "CreateCard"}
          /\ label \notin {"target", "member", "columns", "cards"}
          /\ label = "board" => UseCase(t) = "GetBoard"
      BY DEF FirstStatement
    <3> HIDE DEF label, f
    <3> QED
      BY <1>1, <2>4, <2>6, <3>1, <3>2, <3>3, <3>4, <3>5
      DEF Shape, Staged, Working, Entered
  <2> HIDE DEF f, h, label
  <2> QED
    BY <2>1, <2>4, <2>5, <2>6, <2>7, MoveOnShape
<1> QED
  BY <1>2, <1>3

LEMMA LoadToEditShape ==
    ASSUME Shape, NEW t \in Requests, LoadToEdit(t)
    PROVE  Shape'
<1>1. pc[t] = "load" /\ UseCase(t) = "EditCard"
  BY DEF LoadToEdit
<1>2. CASE \E error \in {"not_found", "invalid"} : Refuse(t, error)
  BY <1>1, <1>2, RefuseShape DEF Errors
<1>3. CASE ~\E error \in {"not_found", "invalid"} : Refuse(t, error)
  <2> DEFINE card == GetCard(request[t].card)
             f == [frame[t] EXCEPT !.row = card]
             h == [trace[t] EXCEPT !.raced = @ \ {"edited"}]
  <2>1. /\ card # NoCard /\ request[t].title # Blank
        /\ frame' = [frame EXCEPT ![t] = f]
        /\ trace' = [trace EXCEPT ![t] = h]
        /\ Goto(t, "write")
        /\ UNCHANGED <<tables, request, todo, events, sent, answer, known, gone>>
    BY <1>3 DEF LoadToEdit, Shape, TypeOK
  <2>2. /\ request[t] \in RequestType /\ IsAddressed(request[t])
        /\ UseCase(t) \in UsesOf(request[t].op)
    BY <1>1, StagedTodo DEF Working, Entered
  <2>3. request[t].card \in Cards
    BY <1>1, <2>2 DEF UsesOf, IsAddressed, RequestType
  <2>4. card \in CardRow
    BY <2>1, <2>3, RowsShape DEF GetCard, Shape, TypeOK
  <2>5. f \in Frame /\ f.home = frame[t].home /\ f.row = card
    <3>1. frame[t] \in Frame
      BY DEF Shape, TypeOK
    <3> QED
      BY <2>4, <3>1 DEF Frame
  <2>6. h \in Trace
    <3>1. trace[t] \in Trace
      BY DEF Shape, TypeOK
    <3> QED
      BY <3>1 DEF Trace
  <2>7. Staged(t)'
    <3>1. /\ pc'[t] = "write" /\ frame'[t] = f /\ request'[t] = request[t]
          /\ todo'[t] = todo[t]
      BY <2>1 DEF Goto, Shape, TypeOK
    <3>2. UseCase(t)' = "EditCard"
      BY <1>1, <3>1 DEF UseCase
    <3> HIDE DEF f, card
    <3> QED
      BY <1>1, <2>1, <2>4, <2>5, <3>1, <3>2 DEF Shape, Staged, Working, Entered
  <2> HIDE DEF f, h
  <2> QED
    BY <2>1, <2>5, <2>6, <2>7, MoveOnShape DEF Labels
<1> QED
  BY <1>2, <1>3

LEMMA LoadToMoveShape ==
    ASSUME Shape, NEW t \in Requests, LoadToMove(t)
    PROVE  Shape'
<1> DEFINE card == GetCard(request[t].card)
           stays == request[t].column \in {None, card.column}
           f == [frame[t] EXCEPT !.row = card,
                   !.dest = IF stays THEN card.column ELSE request[t].column]
           label == IF stays THEN "place" ELSE "target"
<1>1. pc[t] = "load" /\ UseCase(t) = "MoveCard"
  BY DEF LoadToMove
<1>2. CASE card = NoCard
  BY <1>1, <1>2, RefuseShape DEF LoadToMove, Errors
<1>3. CASE card # NoCard
  <2>1. /\ frame' = [frame EXCEPT ![t] = f]
        /\ trace' = [trace EXCEPT ![t] = trace[t]]
        /\ Goto(t, label)
        /\ UNCHANGED <<tables, request, todo, events, sent, answer, known, gone>>
    BY <1>3 DEF LoadToMove, Shape, TypeOK
  <2>2. /\ request[t] \in RequestType /\ IsAddressed(request[t])
        /\ UseCase(t) \in UsesOf(request[t].op)
    BY <1>1, StagedTodo DEF Working, Entered
  <2>3. request[t].card \in Cards /\ request[t].column \in Columns \cup {None}
    BY <1>1, <2>2 DEF UsesOf, IsAddressed, RequestType
  <2>4. card \in CardRow
    BY <1>3, <2>3, RowsShape DEF GetCard, Shape, TypeOK
  <2>5. f \in Frame /\ f.home = frame[t].home /\ f.dest \in Columns
    <3>1. frame[t] \in Frame
      BY DEF Shape, TypeOK
    <3>2. card.column \in Columns
      BY <2>4, CardRowsAreCards
    <3> HIDE DEF card
    <3> QED
      BY <2>3, <2>4, <3>1, <3>2 DEF Frame
  <2>6. trace[t] \in Trace
    BY DEF Shape, TypeOK
  <2>7. label \in {"place", "target"}
    OBVIOUS
  <2>8. Staged(t)'
    <3>1. /\ pc'[t] = label /\ frame'[t] = f /\ request'[t] = request[t]
          /\ todo'[t] = todo[t]
      BY <2>1 DEF Goto, Shape, TypeOK
    <3>2. UseCase(t)' = "MoveCard"
      BY <1>1, <3>1 DEF UseCase
    <3> HIDE DEF f, card, label, stays
    <3> QED
      BY <1>1, <2>1, <2>5, <2>7, <3>1, <3>2 DEF Shape, Staged, Working, Entered
  <2> HIDE DEF f, label
  <2> QED
    BY <2>1, <2>5, <2>6, <2>7, <2>8, MoveOnShape DEF Labels
<1> QED
  BY <1>2, <1>3

(* A step of MoveOnShape's kind that keeps its use case and its home. *)
LEMMA StepOnShape ==
    ASSUME Shape, NEW t \in Requests, pc[t] \in Entered, NEW label \in Entered,
           Goto(t, label),
           NEW f \in Frame, frame' = [frame EXCEPT ![t] = f],
           f.home = frame[t].home, f.dest = frame[t].dest,
           NEW h \in Trace, trace' = [trace EXCEPT ![t] = h],
           \/ pc[t] = "target" /\ label = "place"
           \/ pc[t] = "place" /\ label = "write"
           \/ /\ pc[t] = "write" /\ label = "place"
              /\ UseCase(t) \in {"CreateCard", "MoveCard"}
           \/ /\ pc[t] \in {"board", "columns"}
              /\ label \in {"columns", "cards"},
           UNCHANGED <<tables, request, todo, events, sent, answer, known, gone>>
    PROVE  Shape'
<1>1. /\ pc'[t] = label /\ frame'[t] = f /\ request'[t] = request[t]
      /\ todo'[t] = todo[t]
  BY DEF Goto, Shape, TypeOK
<1>2. UseCase(t)' = UseCase(t)
  BY <1>1 DEF UseCase
<1>3. Staged(t)'
  BY <1>1, <1>2 DEF Shape, Staged, Working, Entered
<1> QED
  BY <1>3, MoveOnShape DEF Labels, Entered

LEMMA AuthorizeTargetShape ==
    ASSUME Shape, NEW t \in Requests, AuthorizeTarget(t)
    PROVE  Shape'
<1>1. pc[t] = "target"
  BY DEF AuthorizeTarget
<1>2. CASE Refuse(t, "not_found")
  BY <1>1, <1>2, RefuseShape DEF Errors
<1>3. CASE ~Refuse(t, "not_found")
  <2>1. /\ Goto(t, "place")
        /\ UNCHANGED <<tables, request, todo, frame, events, sent, answer,
                       known, gone, trace>>
    BY <1>3 DEF AuthorizeTarget
  <2>2. /\ frame[t] \in Frame /\ frame' = [frame EXCEPT ![t] = frame[t]]
        /\ trace[t] \in Trace /\ trace' = [trace EXCEPT ![t] = trace[t]]
    BY <2>1 DEF Shape, TypeOK
  <2> QED
    BY <1>1, <2>1, <2>2, StepOnShape DEF Entered
<1> QED
  BY <1>2, <1>3

LEMMA PlaceShape ==
    ASSUME Shape, NEW t \in Requests, Place(t)
    PROVE  Shape'
<1>1. PICK rewrites \in {{}, ListCardsByColumn(frame[t].dest)} :
         frame' = [frame EXCEPT ![t].rewrites = rewrites]
  BY DEF Place
<1> DEFINE f == [frame[t] EXCEPT !.rewrites = rewrites]
<1>2. /\ pc[t] = "place" /\ Goto(t, "write")
      /\ UNCHANGED <<tables, request, todo, events, sent, answer, known, gone,
                     trace>>
  BY DEF Place
<1>3. rewrites \in SUBSET Cards
  BY DEF ListCardsByColumn
<1>4. /\ f \in Frame /\ frame' = [frame EXCEPT ![t] = f]
      /\ f.home = frame[t].home /\ f.dest = frame[t].dest
  <2>1. frame[t] \in Frame
    BY DEF Shape, TypeOK
  <2> QED
    BY <1>1, <1>3, <2>1 DEF Frame, Shape, TypeOK
<1>5. trace[t] \in Trace /\ trace' = [trace EXCEPT ![t] = trace[t]]
  BY <1>2 DEF Shape, TypeOK
<1> HIDE DEF f
<1> QED
  BY <1>2, <1>4, <1>5, StepOnShape DEF Entered

LEMMA ReadBoardShape ==
    ASSUME Shape, NEW t \in Requests, ReadBoard(t)
    PROVE  Shape'
<1>1. pc[t] = "board"
  BY DEF ReadBoard
<1>2. CASE Refuse(t, "not_found")
  BY <1>1, <1>2, RefuseShape DEF Errors
<1>3. CASE ~Refuse(t, "not_found")
  <2> DEFINE h == [trace[t] EXCEPT !.stayed = ListCardsByBoard(request[t].board)]
  <2>1. /\ trace' = [trace EXCEPT ![t] = h]
        /\ Goto(t, "columns")
        /\ UNCHANGED <<tables, request, todo, frame, events, sent, answer,
                       known, gone>>
    BY <1>3 DEF ReadBoard, Shape, TypeOK
  <2>2. h \in Trace
    <3>1. trace[t] \in Trace
      BY DEF Shape, TypeOK
    <3>2. ListCardsByBoard(request[t].board) \in SUBSET Cards
      BY DEF ListCardsByBoard
    <3> QED
      BY <3>1, <3>2 DEF Trace
  <2>3. frame[t] \in Frame /\ frame' = [frame EXCEPT ![t] = frame[t]]
    BY <2>1 DEF Shape, TypeOK
  <2> HIDE DEF h
  <2> QED
    BY <1>1, <2>1, <2>2, <2>3, StepOnShape DEF Entered
<1> QED
  BY <1>2, <1>3

LEMMA ReadTreeShape ==
    ASSUME Shape, NEW t \in Requests, ReadTree(t)
    PROVE  Shape'
<1>1. CASE pc[t] = "columns"
  <2> DEFINE f == [frame[t] EXCEPT !.lanes = ListColumns(request[t].board)]
             h == [trace[t] EXCEPT !.fresh = {}]
  <2>1. /\ frame' = [frame EXCEPT ![t] = f]
        /\ trace' = [trace EXCEPT ![t] = h]
        /\ Goto(t, "cards")
        /\ UNCHANGED <<tables, request, todo, events, sent, answer, known, gone>>
    BY <1>1 DEF ReadTree, Shape, TypeOK
  <2>2. f \in Frame /\ f.home = frame[t].home /\ f.dest = frame[t].dest
    <3>1. frame[t] \in Frame /\ ListColumns(request[t].board) \in SUBSET Columns
      BY DEF Shape, TypeOK, ListColumns
    <3> QED
      BY <3>1 DEF Frame
  <2>3. h \in Trace
    <3>1. trace[t] \in Trace
      BY DEF Shape, TypeOK
    <3> QED
      BY <3>1 DEF Trace
  <2> HIDE DEF f, h
  <2> QED
    BY <1>1, <2>1, <2>2, <2>3, StepOnShape DEF Entered
<1>2. CASE pc[t] = "cards"
  <2> DEFINE tree == AssembleTree(frame[t].lanes, ListCardsByBoard(request[t].board))
             f == [frame[t] EXCEPT !.tree = tree]
  <2>1. /\ frame' = [frame EXCEPT ![t] = f]
        /\ pc' = [pc EXCEPT ![t] = "done"]
        /\ answer' = [answer EXCEPT ![t] = "ok"]
        /\ UNCHANGED <<tables, request, todo, events, sent, known, gone, trace>>
    BY <1>2 DEF ReadTree, Answer, Goto, Shape, TypeOK
  <2>2. f \in Frame
    <3>1. frame[t] \in Frame
      BY DEF Shape, TypeOK
    <3>2. tree \in [Cards -> Columns \cup {None}]
      BY <3>1 DEF AssembleTree, Frame
    <3> QED
      BY <3>1, <3>2 DEF Frame
  <2>3. RowsTypeOK'
    BY <2>1, RowsShape DEF Shape, TypeOK, tables
  <2> HIDE DEF f
  <2>4. TypeOK'
    BY <2>1, <2>2, <2>3 DEF Shape, TypeOK
  <2>5. Staged(t)'
    BY <1>2, <2>1 DEF Shape, TypeOK, Staged, Working, Entered
  <2>6. \A u \in Requests \ {t} : Staged(u)'
    BY <2>1, StagedElsewhere DEF Shape, TypeOK
  <2> QED
    BY <2>4, <2>5, <2>6 DEF Shape
<1> QED
  BY <1>1, <1>2 DEF ReadTree
-----------------------------------------------------------------------------
(* The writes *)

LEMMA RequestOfUseCase ==
    ASSUME Shape, NEW t \in Requests, pc[t] \in Working
    PROVE  /\ request[t].user \in Users
           /\ UseCase(t) \in {"CreateBoard", "GetBoard", "RenameBoard",
                 "DeleteBoard", "CreateColumn"} => request[t].board \in Boards
           /\ UseCase(t) \in {"CreateColumn", "RenameColumn", "ReorderColumn",
                 "DeleteColumn", "CreateCard"} => request[t].column \in Columns
           /\ UseCase(t) \in {"CreateCard", "EditCard", "MoveCard",
                 "DeleteCard"} => request[t].card \in Cards
           /\ UseCase(t) \in {"CreateBoard", "CreateColumn", "CreateCard"}
                 <=> request[t].op \in {"CreateBoard", "CreateColumn", "CreateCard"}
           /\ UseCase(t) \in {"CreateBoard", "CreateColumn", "CreateCard"} =>
                 request[t].op = UseCase(t) /\ Tail(todo[t]) = <<>>
<1>1. /\ request[t] \in RequestType /\ IsAddressed(request[t])
      /\ UseCase(t) \in UsesOf(request[t].op)
  BY StagedTodo
<1>2. request[t].op \notin {"UpdateColumn", "UpdateCard"} => Tail(todo[t]) = <<>>
  BY DEF Shape, Staged
<1>3. CASE request[t].op \in {"UpdateColumn", "UpdateCard"}
  BY <1>1, <1>3 DEF UsesOf, IsAddressed, RequestType
<1>4. CASE request[t].op \notin {"UpdateColumn", "UpdateCard"}
  <2>1. UseCase(t) = request[t].op
    BY <1>1, <1>4 DEF UsesOf
  <2> QED
    BY <1>1, <1>2, <2>1 DEF IsAddressed, RequestType
<1> QED
  BY <1>3, <1>4

Inv == Shape /\ Intact

LEMMA BoardOfColumnType ==
    ASSUME RowsTypeOK, NEW k \in Columns
    PROVE  BoardOfColumn(k) \in SUBSET Boards
  BY RowsShape DEF BoardOfColumn

LEMMA BoardOfCardType ==
    ASSUME RowsTypeOK, NEW c \in Cards
    PROVE  BoardOfCard(c) \in SUBSET Boards
  BY RowsShape, CardRowsAreCards, BoardOfColumnType DEF BoardOfCard

LEMMA BeginBoardShape ==
    ASSUME Shape, NEW t \in Requests, pc[t] = "authorize",
           UseCase(t) = "CreateBoard", Goto(t, "member"),
           frame' = [frame EXCEPT ![t].home = request[t].board],
           UNCHANGED <<tables, request, todo, events, sent, answer, known, gone,
                       trace>>
    PROVE  Shape'
<1> DEFINE f == [frame[t] EXCEPT !.home = request[t].board]
<1>1. request[t].board \in Boards
  BY RequestOfUseCase DEF Working
<1>2. f \in Frame /\ f.home = request[t].board /\ frame' = [frame EXCEPT ![t] = f]
  <2>1. frame[t] \in Frame
    BY DEF Shape, TypeOK
  <2> QED
    BY <1>1, <2>1 DEF Frame, Shape, TypeOK
<1>3. trace[t] \in Trace /\ trace' = [trace EXCEPT ![t] = trace[t]]
  BY DEF Shape, TypeOK
<1>4. /\ pc'[t] = "member" /\ frame'[t] = f /\ request'[t] = request[t]
      /\ todo'[t] = todo[t]
  BY <1>2 DEF Goto, Shape, TypeOK
<1>5. UseCase(t)' = "CreateBoard"
  BY <1>4 DEF UseCase
<1> HIDE DEF f
<1>6. Staged(t)'
  BY <1>1, <1>2, <1>4, <1>5 DEF Shape, Staged, Working, Entered
<1> QED
  BY <1>2, <1>3, <1>6, MoveOnShape DEF Labels

LEMMA CreateBoardInv ==
    ASSUME Inv, NEW t \in Requests, CreateBoard(t),
           pc[t] = "member" => boards[request[t].board] = None
    PROVE  Inv'
<1>1. CASE pc[t] = "authorize"
  BY <1>1, BeginBoardShape DEF CreateBoard, Inv, Intact, tables, RowsTypeOK, rows
<1>2. CASE pc[t] = "member"
  <2>1. UseCase(t) = "CreateBoard"
    BY <1>2 DEF Inv, Shape, Staged
  <2>2. request[t].board \in Boards /\ request[t].user \in Users
    BY <1>2, <2>1, RequestOfUseCase DEF Working, Entered, Inv
  <2>3. Intact'
    BY <1>2, <2>2, InsertBoardIntact DEF CreateBoard, Inv
  <2>4. /\ Succeed(t, "CreateBoard") /\ Record(t, {request[t].board})
        /\ {request[t].board} \in SUBSET Boards
        /\ "CreateBoard" \in UseCaseName
    BY <1>2, <2>2 DEF CreateBoard, UseCaseName
  <2>5. Shape'
    BY <1>2, <2>1, <2>3, <2>4, SucceedShape DEF Inv, Intact, Entered
  <2> QED
    BY <2>3, <2>5 DEF Inv
<1> QED
  BY <1>1, <1>2 DEF CreateBoard

LEMMA RenameBoardInv ==
    ASSUME Inv, NEW t \in Requests, RenameBoard(t)
    PROVE  Inv'
<1>1. Intact'
  BY DEF RenameBoard, Inv, Intact, tables, RowsTypeOK, rows
<1>2. /\ pc[t] = "write" /\ Succeed(t, "RenameBoard")
      /\ Record(t, {b \in {request[t].board} : boards[b] # None})
      /\ UseCase(t) = "RenameBoard"
  BY DEF RenameBoard, Writes
<1>3. request[t].board \in Boards
  BY <1>2, RequestOfUseCase DEF Inv, Working, Entered
<1>4. {b \in {request[t].board} : boards[b] # None} \in SUBSET Boards
  BY <1>3
<1>5. Shape'
  BY <1>1, <1>2, <1>4, SucceedShape DEF Inv, Intact, Entered, UseCaseName
<1> QED
  BY <1>1, <1>5 DEF Inv

LEMMA RemoveBoardInv ==
    ASSUME Inv, NEW t \in Requests, RemoveBoard(t)
    PROVE  Inv'
<1>1. /\ pc[t] = "write" /\ Succeed(t, "DeleteBoard") /\ Record(t, {})
      /\ UseCase(t) = "DeleteBoard" /\ DeleteBoard(request[t].board)
  BY DEF RemoveBoard, Writes
<1>2. request[t].board \in Boards
  BY <1>1, RequestOfUseCase DEF Inv, Working, Entered
<1>3. Intact'
  BY <1>1, <1>2, DeleteBoardIntact DEF Inv
<1>4. Shape'
  BY <1>1, <1>3, SucceedShape DEF Inv, Intact, Entered, UseCaseName
<1> QED
  BY <1>3, <1>4 DEF Inv

LEMMA CreateColumnInv ==
    ASSUME Inv, NEW t \in Requests, CreateColumn(t)
    PROVE  Inv'
<1>1. /\ pc[t] = "write" /\ Succeed(t, "CreateColumn")
      /\ Record(t, {request[t].board}) /\ UseCase(t) = "CreateColumn"
      /\ boards[request[t].board] # None
      /\ InsertColumn(request[t].column, request[t].board)
  BY DEF CreateColumn, Writes
<1>2. /\ request[t].board \in Boards /\ request[t].column \in Columns
      /\ {request[t].board} \in SUBSET Boards
  BY <1>1, RequestOfUseCase DEF Inv, Working, Entered
<1>3. Intact'
  BY <1>1, <1>2, InsertColumnIntact DEF Inv
<1>4. Shape'
  BY <1>1, <1>2, <1>3, SucceedShape DEF Inv, Intact, Entered, UseCaseName
<1> QED
  BY <1>3, <1>4 DEF Inv

LEMMA ChangeColumnInv ==
    ASSUME Inv, NEW t \in Requests, ChangeColumn(t)
    PROVE  Inv'
<1>1. PICK usecase \in {"RenameColumn", "ReorderColumn"} :
         /\ pc[t] = "write" /\ UseCase(t) = usecase /\ UNCHANGED tables
         /\ Succeed(t, usecase)
         /\ Record(t, BoardOfColumn(request[t].column))
  BY DEF ChangeColumn, Writes
<1>2. request[t].column \in Columns
  BY <1>1, RequestOfUseCase DEF Inv, Working, Entered
<1>3. BoardOfColumn(request[t].column) \in SUBSET Boards
  BY <1>2, BoardOfColumnType DEF Inv, Intact
<1>4. Intact'
  BY <1>1 DEF Inv, Intact, tables, RowsTypeOK, rows
<1>5. Shape'
  BY <1>1, <1>3, <1>4, SucceedShape DEF Inv, Intact, Entered, UseCaseName
<1> QED
  BY <1>4, <1>5 DEF Inv

LEMMA RemoveColumnInv ==
    ASSUME Inv, NEW t \in Requests, RemoveColumn(t)
    PROVE  Inv'
<1>1. /\ pc[t] = "write" /\ Succeed(t, "DeleteColumn")
      /\ Record(t, BoardOfColumn(request[t].column))
      /\ UseCase(t) = "DeleteColumn" /\ DeleteColumn(request[t].column)
  BY DEF RemoveColumn, Writes
<1>2. request[t].column \in Columns
  BY <1>1, RequestOfUseCase DEF Inv, Working, Entered
<1>3. BoardOfColumn(request[t].column) \in SUBSET Boards
  BY <1>2, BoardOfColumnType DEF Inv, Intact
<1>4. Intact'
  BY <1>1, <1>2, DeleteColumnIntact DEF Inv
<1>5. Shape'
  BY <1>1, <1>3, <1>4, SucceedShape DEF Inv, Intact, Entered, UseCaseName
<1> QED
  BY <1>4, <1>5 DEF Inv

LEMMA MovedAreCards ==
    ASSUME Shape, NEW t \in Requests, pc[t] \in Working
    PROVE  Moved(t) \in SUBSET Cards
<1>1. frame[t].rewrites \in SUBSET Cards
  BY DEF Shape, TypeOK, Frame
<1>2. UseCase(t) = "MoveCard" => request[t].card \in Cards
  BY RequestOfUseCase
<1> QED
  BY <1>1, <1>2 DEF Moved

LEMMA CreateCardInv ==
    ASSUME Inv, NEW t \in Requests, CreateCard(t)
    PROVE  Inv'
<1>1. /\ pc[t] = "write" /\ Succeed(t, "CreateCard")
      /\ Record(t, BoardOfColumn(frame[t].dest))
      /\ UseCase(t) = "CreateCard" /\ columns[frame[t].dest] # None
      /\ InsertCard(request[t].card, NewCard(t), Moved(t))
  BY DEF CreateCard, Writes
<1>2. /\ request[t].card \in Cards /\ frame[t].dest \in Columns
      /\ request[t].title \in Texts
  <2>1. request[t] \in RequestType /\ IsAddressed(request[t])
    BY <1>1, StagedTodo DEF Inv, Working, Entered
  <2>2. request[t].op = "CreateCard" /\ request[t].card \in Cards
    BY <1>1, RequestOfUseCase DEF Inv, Working, Entered
  <2>3. request[t].title # Blank /\ frame[t].dest \in Columns
    BY <1>1 DEF Inv, Shape, Staged
  <2> QED
    BY <2>1, <2>2, <2>3 DEF IsAddressed, RequestType
<1>3. BoardOfColumn(frame[t].dest) \in SUBSET Boards
  BY <1>2, BoardOfColumnType DEF Inv, Intact
<1>4. NewCard(t) \in CardRow /\ NewCard(t).column = frame[t].dest
  BY <1>2, TreeAssumption DEF NewCard, CardRow
<1>5. Moved(t) \in SUBSET Cards
  BY <1>1, MovedAreCards DEF Inv, Working, Entered
<1>6. Intact'
  BY <1>1, <1>2, <1>4, <1>5, InsertCardIntact DEF Inv
<1>7. Shape'
  BY <1>1, <1>3, <1>6, SucceedShape DEF Inv, Intact, Entered, UseCaseName
<1> QED
  BY <1>6, <1>7 DEF Inv

LEMMA EditCardInv ==
    ASSUME Inv, NEW t \in Requests, EditCard(t)
    PROVE  Inv'
<1>1. /\ pc[t] = "write" /\ Succeed(t, "EditCard")
      /\ Record(t, BoardOfCard(request[t].card)) /\ UseCase(t) = "EditCard"
      /\ UpdateCardContent(request[t].card, Merged(t, "title"),
                           Merged(t, "description"))
  BY DEF EditCard, Writes
<1>2. request[t].card \in Cards
  BY <1>1, RequestOfUseCase DEF Inv, Working, Entered
<1>3. BoardOfCard(request[t].card) \in SUBSET Boards
  BY <1>2, BoardOfCardType DEF Inv, Intact
<1>4. Merged(t, "title") \in Texts /\ Merged(t, "description") \in Texts
  <2>1. request[t] \in RequestType
    BY <1>1, StagedTodo DEF Inv, Working, Entered
  <2>2. frame[t].row \in CardRow /\ request[t].title # Blank
    BY <1>1 DEF Inv, Shape, Staged
  <2>3. /\ frame[t].row.title \in Texts /\ frame[t].row.description \in Texts
        /\ request[t].title \in Texts \cup {None}
        /\ request[t].description \in Texts \cup {None}
    BY <2>1, <2>2 DEF CardRow, RequestType
  <2>4. /\ Merged(t, "title") = IF request[t].title = None THEN frame[t].row.title
                                ELSE request[t].title
        /\ Merged(t, "description") =
              IF request[t].description = None THEN frame[t].row.description
              ELSE request[t].description
    BY <2>1, <2>2 DEF Merged, RequestType, CardRow
  <2> QED
    BY <2>3, <2>4
<1>5. Intact'
  BY <1>1, <1>2, <1>4, UpdateCardIntact DEF Inv
<1>6. Shape'
  BY <1>1, <1>3, <1>5, SucceedShape DEF Inv, Intact, Entered, UseCaseName
<1> QED
  BY <1>5, <1>6 DEF Inv

LEMMA MoveCardInv ==
    ASSUME Inv, NEW t \in Requests, MoveCard(t)
    PROVE  Inv'
<1> DEFINE where == IF cards[request[t].card] = NoCard THEN {}
                    ELSE BoardOfCard(request[t].card)
                         \cup BoardOfColumn(frame[t].dest)
<1>1. /\ pc[t] = "write" /\ Succeed(t, "MoveCard") /\ Record(t, where)
      /\ UseCase(t) = "MoveCard"
      /\ Moved(t) = {} \/ columns[frame[t].dest] # None
      /\ UpdateCardPosition(Moved(t), frame[t].dest)
  BY DEF MoveCard, Writes
<1>2. request[t].card \in Cards /\ frame[t].dest \in Columns
  BY <1>1, RequestOfUseCase DEF Inv, Shape, Staged, Working, Entered
<1>3. where \in SUBSET Boards
  BY <1>2, BoardOfColumnType, BoardOfCardType DEF Inv, Intact
<1>4. Moved(t) \in SUBSET Cards
  BY <1>1, MovedAreCards DEF Inv, Working, Entered
<1>5. Intact'
  BY <1>1, <1>2, <1>4, UpdatePositionIntact DEF Inv
<1> HIDE DEF where
<1>6. Shape'
  BY <1>1, <1>3, <1>5, SucceedShape DEF Inv, Intact, Entered, UseCaseName
<1> QED
  BY <1>5, <1>6 DEF Inv

LEMMA RemoveCardInv ==
    ASSUME Inv, NEW t \in Requests, RemoveCard(t)
    PROVE  Inv'
<1>1. /\ pc[t] = "write" /\ Succeed(t, "DeleteCard")
      /\ Record(t, BoardOfCard(request[t].card))
      /\ UseCase(t) = "DeleteCard" /\ DeleteCard(request[t].card)
  BY DEF RemoveCard, Writes
<1>2. request[t].card \in Cards
  BY <1>1, RequestOfUseCase DEF Inv, Working, Entered
<1>3. BoardOfCard(request[t].card) \in SUBSET Boards
  BY <1>2, BoardOfCardType DEF Inv, Intact
<1>4. Intact'
  BY <1>1, <1>2, DeleteCardIntact DEF Inv
<1>5. Shape'
  BY <1>1, <1>3, <1>4, SucceedShape DEF Inv, Intact, Entered, UseCaseName
<1> QED
  BY <1>4, <1>5 DEF Inv

LEMMA LoseConflictShape ==
    ASSUME Shape, NEW t \in Requests, LoseConflict(t)
    PROVE  Shape'
<1>1. pc[t] = "write"
  BY DEF LoseConflict, Writes
<1>2. CASE Refuse(t, "conflict")
  BY <1>1, <1>2, RefuseShape DEF Errors
<1>3. CASE ~Refuse(t, "conflict")
  <2>1. /\ UseCase(t) \in {"CreateCard", "MoveCard"} /\ Goto(t, "place")
        /\ UNCHANGED <<tables, request, todo, frame, events, sent, answer,
                       known, gone, trace>>
    BY <1>3 DEF LoseConflict
  <2>2. /\ frame[t] \in Frame /\ frame' = [frame EXCEPT ![t] = frame[t]]
        /\ trace[t] \in Trace /\ trace' = [trace EXCEPT ![t] = trace[t]]
    BY <2>1 DEF Shape, TypeOK
  <2> QED
    BY <1>1, <2>1, <2>2, StepOnShape DEF Entered
<1> QED
  BY <1>2, <1>3

LEMMA PublishShape ==
    ASSUME Shape, NEW t \in Requests, Publish(t)
    PROVE  Shape'
<1>1. sent' \in [Requests -> SUBSET Boards]
  <2> DEFINE S == {events[t][i].board :
                i \in {j \in DOMAIN events[t] : Broadcast(events[t][j].type)}}
  <2>1. \A i \in DOMAIN events[t] : events[t][i].board \in Boards
    <3>1. events[t] \in Seq([type : UseCaseName, board : Boards])
      BY DEF Shape, TypeOK
    <3>2. DOMAIN events[t] = 1..Len(events[t])
      BY <3>1
    <3>3. \A i \in DOMAIN events[t] :
             events[t][i] \in [type : UseCaseName, board : Boards]
      BY <3>1, <3>2, ElementOfSeq
    <3> QED
      BY <3>3
  <2>2. S \in SUBSET Boards
    BY <2>1
  <2>3. sent' = [sent EXCEPT ![t] = S]
    BY DEF Publish
  <2> HIDE DEF S
  <2> QED
    BY <2>2, <2>3 DEF Shape, TypeOK
<1>2. /\ pc[t] = "publish"
      /\ pc' = [pc EXCEPT ![t] = "done"] /\ answer' = [answer EXCEPT ![t] = "ok"]
      /\ UNCHANGED <<tables, request, todo, frame, events, known, gone, trace>>
  BY DEF Publish, Answer, Goto
<1>3. RowsTypeOK'
  BY <1>2, RowsShape DEF Shape, TypeOK, tables
<1>4. TypeOK'
  BY <1>1, <1>2, <1>3 DEF Shape, TypeOK
<1>5. Staged(t)'
  BY <1>2 DEF Shape, TypeOK, Staged, Working, Entered
<1>6. \A u \in Requests \ {t} : Staged(u)'
  BY <1>2, StagedElsewhere DEF Shape, TypeOK
<1> QED
  BY <1>4, <1>5, <1>6 DEF Shape

LEMMA InvStep ==
    ASSUME Inv, NEW t \in Requests, Step(t),
           pc[t] = "member" => boards[request[t].board] = None
    PROVE  Inv'
<1>1. ASSUME Shape', UNCHANGED tables PROVE Inv'
  BY <1>1 DEF Inv, Intact, tables, RowsTypeOK, rows
<1>2. CASE Receive(t)
  BY <1>1, <1>2, ReceiveShape DEF Inv, Receive
<1>3. CASE Authorize(t)
  BY <1>1, <1>3, AuthorizeShape DEF Inv, Intact, Authorize, Refuse
<1>4. CASE RefuseTitle(t)
  BY <1>1, <1>4, RefuseShape DEF Inv, RefuseTitle, Refuse, Errors
<1>5. CASE LoadToEdit(t)
  <2>1. UNCHANGED tables
    BY <1>5 DEF LoadToEdit, Refuse
  <2> QED
    BY <1>1, <1>5, <2>1, LoadToEditShape DEF Inv
<1>6. CASE LoadToMove(t)
  BY <1>1, <1>6, LoadToMoveShape DEF Inv, LoadToMove, Refuse
<1>7. CASE AuthorizeTarget(t)
  BY <1>1, <1>7, AuthorizeTargetShape DEF Inv, AuthorizeTarget, Refuse
<1>8. CASE Place(t)
  BY <1>1, <1>8, PlaceShape DEF Inv, Place
<1>9. CASE ReadBoard(t)
  BY <1>1, <1>9, ReadBoardShape DEF Inv, ReadBoard, Refuse
<1>10. CASE ReadTree(t)
  BY <1>1, <1>10, ReadTreeShape DEF Inv, ReadTree
<1>11. CASE ForeignKeyFails(t)
  BY <1>1, <1>11, RefuseShape DEF Inv, ForeignKeyFails, Writes, Refuse, Errors
<1>12. CASE LoseConflict(t)
  BY <1>1, <1>12, LoseConflictShape DEF Inv, LoseConflict, Refuse
<1>13. CASE Fail(t)
  BY <1>1, <1>13, RefuseShape DEF Inv, Fail, Refuse, Errors
<1>14. CASE Publish(t)
  BY <1>1, <1>14, PublishShape DEF Inv, Publish
<1>15. CASE \/ CreateBoard(t) \/ RenameBoard(t) \/ RemoveBoard(t)
            \/ CreateColumn(t) \/ ChangeColumn(t) \/ RemoveColumn(t)
            \/ CreateCard(t) \/ EditCard(t) \/ MoveCard(t) \/ RemoveCard(t)
  BY <1>15, CreateBoardInv, RenameBoardInv, RemoveBoardInv, CreateColumnInv,
     ChangeColumnInv, RemoveColumnInv, CreateCardInv, EditCardInv, MoveCardInv,
     RemoveCardInv
<1> QED
  BY <1>2, <1>3, <1>4, <1>5, <1>6, <1>7, <1>8, <1>9, <1>10, <1>11, <1>12,
     <1>13, <1>14, <1>15 DEF Step
-----------------------------------------------------------------------------
(* The id that t is to insert is not in use. *)
Fresh(t) ==
    pc[t] \in Working =>
       /\ NewIds(request[t]) \subseteq known \ gone
       /\ request[t].op = "CreateBoard" => boards[request[t].board] = None
       /\ request[t].op = "CreateColumn" => columns[request[t].column] = None
       /\ request[t].op = "CreateCard" => cards[request[t].card] = NoCard

(* Rows have ids that were given out. *)
Known ==
    /\ \A b \in Boards : boards[b] # None => b \in known
    /\ \A k \in Columns : columns[k] # None => k \in known
    /\ \A c \in Cards : cards[c] # NoCard => c \in known
    /\ gone \subseteq known

(* No id was given out twice. *)
Distinct ==
    \A t, u \in Requests :
        t # u /\ pc[t] \in Working /\ pc[u] \in Working =>
           NewIds(request[t]) \cap NewIds(request[u]) = {}

(* What a step of t does to the tables. *)
Effect(t) ==
    /\ \A b \in Boards :
          \/ boards'[b] \in {boards[b], None}
          \/ /\ pc[t] = "member" /\ UseCase(t) = "CreateBoard"
             /\ b = request[t].board
    /\ \A k \in Columns :
          \/ columns'[k] \in {columns[k], None}
          \/ Writes(t, "CreateColumn") /\ k = request[t].column
    /\ \A c \in Cards :
          \/ cards'[c] = NoCard \/ cards[c] # NoCard
          \/ Writes(t, "CreateCard") /\ c = request[t].card
    /\ \A k \in Columns :
          columns[k] # None /\ columns'[k] = columns[k] =>
             members'[columns[k]] = members[columns[k]]
    /\ \A b \in Boards :
          boards[b] # None /\ boards'[b] = boards[b] => members'[b] = members[b]
    /\ \A b \in Boards : boards[b] # None /\ boards'[b] = None => b \in gone'
    /\ \A k \in Columns : columns[k] # None /\ columns'[k] = None => k \in gone'
    /\ gone \subseteq gone'

LEMMA UnchangedEffect ==
    ASSUME Inv, NEW t \in Requests, UNCHANGED <<tables, gone>>
    PROVE  Effect(t)
  BY DEF Effect, tables

LEMMA RecordedEffect ==
    ASSUME NEW t \in Requests, NEW where, Record(t, where)
    PROVE  /\ \A b \in Boards : boards[b] # None /\ boards'[b] = None => b \in gone'
           /\ \A k \in Columns : columns[k] # None /\ columns'[k] = None => k \in gone'
           /\ gone \subseteq gone'
  BY DEF Record

LEMMA WriteEffect ==
    ASSUME Inv, NEW t \in Requests, Fresh(t),
           \/ CreateBoard(t) /\ pc[t] = "member"
           \/ RenameBoard(t) \/ RemoveBoard(t)
           \/ CreateColumn(t) \/ ChangeColumn(t) \/ RemoveColumn(t)
           \/ CreateCard(t) \/ EditCard(t) \/ MoveCard(t) \/ RemoveCard(t)
    PROVE  Effect(t)
<1> USE DEF Inv, Intact
<1>1. CASE CreateBoard(t) /\ pc[t] = "member"
  <2>1. /\ UseCase(t) = "CreateBoard" /\ request[t].op = "CreateBoard"
        /\ request[t].board \in Boards
    BY <1>1, RequestOfUseCase DEF Shape, Staged, Working, Entered
  <2>2. boards[request[t].board] = None
    BY <1>1, <2>1 DEF Fresh, Working, Entered
  <2>3. \A k \in Columns : columns[k] # request[t].board
    BY <2>1, <2>2, RowsAssumption DEF IsRooted, rows
  <2>4. /\ InsertBoard(request[t].board, request[t].user)
        /\ InsertMember(request[t].board, request[t].user, "owner")
        /\ UNCHANGED <<columns, cards>>
        /\ Record(t, {request[t].board})
    BY <1>1 DEF CreateBoard
  <2> QED
    BY <1>1, <2>1, <2>2, <2>3, <2>4, RowsShape, RecordedEffect
    DEF Effect, InsertBoard, InsertMember
<1>2. CASE RenameBoard(t) \/ ChangeColumn(t)
  <2>1. UNCHANGED tables
    BY <1>2 DEF RenameBoard, ChangeColumn
  <2>2. PICK where : Record(t, where)
    BY <1>2 DEF RenameBoard, ChangeColumn
  <2> QED
    BY <2>1, <2>2, RecordedEffect DEF Effect, tables
<1>3. CASE RemoveBoard(t)
  <2>1. DeleteBoard(request[t].board) /\ Record(t, {})
    BY <1>3 DEF RemoveBoard
  <2>2. request[t].board \in Boards /\ request[t].board # None
    BY <1>3, RequestOfUseCase, RowsAssumption
    DEF RemoveBoard, Writes, Working, Entered
  <2> QED
    BY <2>1, <2>2, RowsShape, RecordedEffect DEF Effect, DeleteBoard, WithoutColumns
<1>4. CASE CreateColumn(t)
  <2>1. /\ InsertColumn(request[t].column, request[t].board)
        /\ Record(t, {request[t].board}) /\ Writes(t, "CreateColumn")
    BY <1>4 DEF CreateColumn
  <2>2. request[t].op = "CreateColumn" /\ request[t].column \in Columns
    BY <2>1, RequestOfUseCase DEF Writes, Working, Entered
  <2> QED
    BY <2>1, <2>2, RowsShape, RecordedEffect DEF Effect, InsertColumn
<1>5. CASE RemoveColumn(t)
  <2>1. /\ DeleteColumn(request[t].column)
        /\ Record(t, BoardOfColumn(request[t].column))
    BY <1>5 DEF RemoveColumn
  <2> QED
    BY <2>1, RowsShape, RecordedEffect DEF Effect, DeleteColumn, WithoutColumns
<1>6. CASE CreateCard(t)
  <2>1. /\ InsertCard(request[t].card, NewCard(t), Moved(t))
        /\ Record(t, BoardOfColumn(frame[t].dest)) /\ Writes(t, "CreateCard")
    BY <1>6 DEF CreateCard
  <2>2. NewCard(t).column \in Columns
    BY <2>1 DEF NewCard, Writes, Shape, Staged
  <2>3. \A c \in Cards : c # request[t].card /\ cards'[c] # NoCard => cards[c] # NoCard
    BY <2>1, <2>2, RepositionedRows DEF InsertCard
  <2> QED
    BY <2>1, <2>3, RecordedEffect DEF Effect, InsertCard
<1>7. CASE EditCard(t)
  <2>1. /\ UNCHANGED <<boards, members, columns>>
        /\ \A c \in Cards : cards'[c] # NoCard => cards[c] # NoCard
    BY <1>7, RowsShape DEF EditCard, UpdateCardContent
  <2>2. Record(t, BoardOfCard(request[t].card))
    BY <1>7 DEF EditCard
  <2> QED
    BY <2>1, <2>2, RecordedEffect DEF Effect
<1>8. CASE MoveCard(t)
  <2>1. UpdateCardPosition(Moved(t), frame[t].dest) /\ Writes(t, "MoveCard")
    BY <1>8 DEF MoveCard
  <2>2. frame[t].dest \in Columns
    BY <2>1 DEF Writes, Shape, Staged
  <2>3. PICK where : Record(t, where)
    BY <1>8 DEF MoveCard
  <2>4. \A c \in Cards : cards'[c] # NoCard => cards[c] # NoCard
    BY <2>1, <2>2, RepositionedRows DEF UpdateCardPosition
  <2> QED
    BY <2>1, <2>3, <2>4, RecordedEffect DEF Effect, UpdateCardPosition
<1>9. CASE RemoveCard(t)
  <2>1. DeleteCard(request[t].card) /\ Record(t, BoardOfCard(request[t].card))
    BY <1>9 DEF RemoveCard
  <2> QED
    BY <2>1, RowsShape, RecordedEffect DEF Effect, DeleteCard
<1> QED
  BY <1>1, <1>2, <1>3, <1>4, <1>5, <1>6, <1>7, <1>8, <1>9
-----------------------------------------------------------------------------
(* The steps that end in Succeed and Record, and those that write nothing. *)

WriteStep(t) ==
    \/ CreateBoard(t) /\ pc[t] = "member"
    \/ RenameBoard(t) \/ RemoveBoard(t)
    \/ CreateColumn(t) \/ ChangeColumn(t) \/ RemoveColumn(t)
    \/ CreateCard(t) \/ EditCard(t) \/ MoveCard(t) \/ RemoveCard(t)

QuietStep(t) ==
    \/ Authorize(t) \/ RefuseTitle(t) \/ LoadToEdit(t) \/ LoadToMove(t)
    \/ AuthorizeTarget(t) \/ Place(t) \/ ReadBoard(t) \/ ReadTree(t)
    \/ CreateBoard(t) /\ pc[t] = "authorize"
    \/ ForeignKeyFails(t) \/ LoseConflict(t) \/ Fail(t) \/ Publish(t)

LEMMA StepKinds ==
    ASSUME NEW t \in Requests, Step(t)
    PROVE  Receive(t) \/ QuietStep(t) \/ WriteStep(t)
  BY DEF Step, QuietStep, WriteStep, CreateBoard

LEMMA QuietFacts ==
    ASSUME Inv, NEW t \in Requests, QuietStep(t)
    PROVE  /\ UNCHANGED <<tables, request, todo, known, gone>>
           /\ pc[t] \in Working \cup {"publish"}
           /\ pc'[t] \in Working => pc[t] \in Working
           /\ \A u \in Requests \ {t} :
                 /\ pc'[u] = pc[u] /\ frame'[u] = frame[u]
                 /\ answer'[u] = answer[u] /\ trace'[u] = trace[u]
<1> USE DEF Inv, Shape, TypeOK
<1>1. ASSUME NEW error, Refuse(t, error), pc[t] \in Working
      PROVE  /\ UNCHANGED <<tables, request, todo, known, gone>>
             /\ \A u \in Requests \ {t} :
                   /\ pc'[u] = pc[u] /\ frame'[u] = frame[u]
                   /\ answer'[u] = answer[u] /\ trace'[u] = trace[u]
  BY <1>1 DEF Refuse, Answer, Goto
<1>2. CASE Authorize(t)
  BY <1>1, <1>2 DEF Authorize, Goto, Working
<1>3. CASE RefuseTitle(t)
  BY <1>1, <1>3 DEF RefuseTitle, Working
<1>4. CASE LoadToEdit(t)
  <2>1. pc[t] \in Working
    BY <1>4 DEF LoadToEdit, Working, Entered
  <2>2. CASE \E error \in Errors : Refuse(t, error)
    BY <1>1, <2>1, <2>2
  <2>3. CASE ~\E error \in Errors : Refuse(t, error)
    BY <1>4, <2>1, <2>3 DEF LoadToEdit, Goto, Errors
  <2> QED
    BY <2>2, <2>3
<1>5. CASE LoadToMove(t)
  BY <1>1, <1>5 DEF LoadToMove, Goto, Working, Entered
<1>6. CASE AuthorizeTarget(t)
  BY <1>1, <1>6 DEF AuthorizeTarget, Goto, Working, Entered
<1>7. CASE Place(t)
  BY <1>7 DEF Place, Goto, Working, Entered
<1>8. CASE ReadBoard(t)
  BY <1>1, <1>8 DEF ReadBoard, Goto, Working, Entered
<1>9. CASE ReadTree(t)
  BY <1>9 DEF ReadTree, Goto, Answer, Working, Entered
<1>10. CASE CreateBoard(t) /\ pc[t] = "authorize"
  BY <1>10 DEF CreateBoard, Goto, Working, Entered
<1>11. CASE ForeignKeyFails(t)
  BY <1>1, <1>11 DEF ForeignKeyFails, Writes, Working, Entered
<1>12. CASE LoseConflict(t)
  BY <1>1, <1>12 DEF LoseConflict, Writes, Goto, Working, Entered
<1>13. CASE Fail(t)
  <2>1. pc[t] \in Working
    BY <1>13 DEF Fail, Working, Entered
  <2> QED
    BY <1>1, <1>13, <2>1 DEF Fail
<1>14. CASE Publish(t)
  BY <1>14 DEF Publish, Goto, Answer, Working, Entered
<1> QED
  BY <1>2, <1>3, <1>4, <1>5, <1>6, <1>7, <1>8, <1>9, <1>10, <1>11, <1>12,
     <1>13, <1>14 DEF QuietStep

LEMMA WriteFacts ==
    ASSUME Inv, NEW t \in Requests, WriteStep(t)
    PROVE  /\ UNCHANGED <<request, frame, answer, known>>
           /\ pc[t] \in {"write", "member"}
           /\ pc'[t] \in {"publish", "authorize"}
           /\ UseCase(t) \in {"CreateBoard", "CreateColumn", "CreateCard"} =>
                 pc'[t] = "publish"
           /\ \A u \in Requests \ {t} :
                 /\ pc'[u] = pc[u] /\ todo'[u] = todo[u]
                 /\ trace'[u].raced = trace[u].raced \cup Races(request[u].card)
                 /\ trace'[u].stayed = {c \in trace[u].stayed : cards'[c] # NoCard
                       /\ columns'[cards'[c].column] = request[u].board}
                 /\ trace'[u].fresh = trace[u].fresh \cup
                       {k \in Columns : columns[k] = None /\ columns'[k] # None}
<1>1. PICK type, where : Succeed(t, type) /\ Record(t, where)
  BY DEF WriteStep, CreateBoard, RenameBoard, RemoveBoard, CreateColumn,
     ChangeColumn, RemoveColumn, CreateCard, EditCard, MoveCard, RemoveCard
<1>2. pc[t] \in {"write", "member"}
  BY DEF WriteStep, CreateBoard, RenameBoard, RemoveBoard, CreateColumn,
     ChangeColumn, RemoveColumn, CreateCard, EditCard, MoveCard, RemoveCard, Writes
<1>3. UseCase(t) \in {"CreateBoard", "CreateColumn", "CreateCard"} =>
         Tail(todo[t]) = <<>>
  BY <1>2, RequestOfUseCase DEF Inv, Working, Entered
<1>4. /\ UNCHANGED <<request, frame, answer, known>>
      /\ pc'[t] = IF Tail(todo[t]) = <<>> THEN "publish" ELSE "authorize"
      /\ \A u \in Requests \ {t} : pc'[u] = pc[u] /\ todo'[u] = todo[u]
  BY <1>1 DEF Succeed, Goto, Inv, Shape, TypeOK
<1>5. \A u \in Requests \ {t} :
         /\ trace'[u].raced = trace[u].raced \cup Races(request[u].card)
         /\ trace'[u].stayed = {c \in trace[u].stayed : cards'[c] # NoCard
               /\ columns'[cards'[c].column] = request[u].board}
         /\ trace'[u].fresh = trace[u].fresh \cup
               {k \in Columns : columns[k] = None /\ columns'[k] # None}
  BY <1>1 DEF Record
<1> QED
  BY <1>2, <1>3, <1>4, <1>5
-----------------------------------------------------------------------------
(* u has been let in to an existing card. *)
OnCard(u) ==
    /\ pc[u] \in {"load", "target", "place", "write"}
    /\ UseCase(u) \in {"EditCard", "MoveCard", "DeleteCard"}

(* A card that is still to be inserted is nobody else's card. *)
Apart ==
    \A t, u \in Requests :
        pc[t] \in Working /\ OnCard(u) =>
            /\ request[u].card \in known
            /\ request[t].op = "CreateCard" => request[t].card # request[u].card

(* What was deleted stays so. *)
Buried ==
    /\ \A b \in Boards : b \in gone => boards[b] = None
    /\ \A k \in Columns : k \in gone => columns[k] = None

Ids == Known /\ Buried /\ Distinct /\ Apart /\ \A t \in Requests : Fresh(t)

(* The caller of t is a member of board b. *)
Member(t, b) == members[b][request[t].user] # "none"

(* The check that t has passed still holds, unless the row was deleted or  *)
(* its card carried away since.                                            *)
Guarded(t) ==
    /\ Writes(t, "CreateColumn") \/ Writes(t, "DeleteBoard") =>
          \/ request[t].board \in gone
          \/ boards[request[t].board] # None /\ Member(t, request[t].board)
    /\ Writes(t, "DeleteColumn") =>
          \/ request[t].column \in gone
          \/ /\ columns[request[t].column] # None
             /\ Member(t, columns[request[t].column])
    /\ pc[t] \in {"place", "write"} /\ UseCase(t) \in {"CreateCard", "MoveCard"} =>
          \/ frame[t].dest \in gone
          \/ /\ columns[frame[t].dest] # None
             /\ Member(t, columns[frame[t].dest]) \/ "carried" \in trace[t].raced
    /\ OnCard(t) =>
          \/ cards[request[t].card] = NoCard
          \/ Member(t, columns[cards[request[t].card].column])
          \/ "carried" \in trace[t].raced

(* An internal error has a deleted parent behind it. *)
Answered(t) ==
    /\ pc[t] # "done" => answer[t] = "none"
    /\ answer[t] = "internal" => frame[t].dest \in gone \/ request[t].board \in gone

(* The row that an EditCard is to write back is the one in the table. *)
Unedited(t) ==
    Writes(t, "EditCard") =>
       \/ cards[request[t].card] = NoCard
       \/ "edited" \in trace[t].raced
       \/ /\ cards[request[t].card].title = frame[t].row.title
          /\ cards[request[t].card].description = frame[t].row.description

(* What GetBoard has not listed yet came later. *)
Reading(t) ==
    /\ pc[t] \in {"columns", "cards"} =>
          \A c \in trace[t].stayed :
             cards[c] # NoCard /\ columns[cards[c].column] = request[t].board
    /\ pc[t] = "cards" =>
          \A k \in Columns : columns[k] = request[t].board =>
             k \in frame[t].lanes \cup trace[t].fresh

Local(t) == Guarded(t) /\ Answered(t) /\ Unedited(t) /\ Reading(t)

IInv == Inv /\ Ids /\ \A t \in Requests : Local(t)

LEMMA NewIdsOf ==
    ASSUME Inv, NEW t \in Requests, pc[t] \in Working
    PROVE  /\ UseCase(t) = "CreateBoard" =>
                 /\ request[t].op = "CreateBoard"
                 /\ request[t].board \in NewIds(request[t])
           /\ UseCase(t) = "CreateColumn" =>
                 /\ request[t].op = "CreateColumn"
                 /\ request[t].column \in NewIds(request[t])
           /\ UseCase(t) = "CreateCard" =>
                 /\ request[t].op = "CreateCard"
                 /\ request[t].card \in NewIds(request[t])
  BY RequestOfUseCase DEF NewIds, Inv

LEMMA StepEffect ==
    ASSUME Inv, NEW t \in Requests, Fresh(t), Step(t)
    PROVE  Effect(t)
<1>1. CASE Receive(t)
  BY <1>1, UnchangedEffect DEF Receive
<1>2. CASE QuietStep(t)
  BY <1>2, QuietFacts, UnchangedEffect
<1>3. CASE WriteStep(t)
  BY <1>3, WriteEffect DEF WriteStep
<1> QED
  BY <1>1, <1>2, <1>3, StepKinds

LEMMA ReceiveIds ==
    ASSUME Inv, Ids, NEW t \in Requests, Receive(t)
    PROVE  Ids'
<1>1. PICK r \in Menu :
         /\ pc[t] = "idle" /\ NewIds(r) \cap known = {}
         /\ request' = [request EXCEPT ![t] = r]
         /\ todo' = [todo EXCEPT ![t] = UseCases(r)]
         /\ known' = known \cup NewIds(r)
         /\ pc' = [pc EXCEPT ![t] = IF UseCases(r) = <<>> THEN "publish"
                                                         ELSE "authorize"]
         /\ UNCHANGED <<tables, frame, events, sent, answer, gone, trace>>
  BY DEF Receive, Goto
<1>2. /\ request'[t] = r /\ pc'[t] \in {"publish", "authorize"}
      /\ \A u \in Requests \ {t} :
            request'[u] = request[u] /\ pc'[u] = pc[u] /\ todo'[u] = todo[u]
  BY <1>1 DEF Inv, Shape, TypeOK
<1>3. r \in RequestType /\ IsAddressed(r)
  BY TreeAssumption
<1>4. Known' /\ Buried'
  BY <1>1 DEF Ids, Known, Buried, tables
<1>5. \A u \in Requests : pc[u] \in Working => NewIds(request[u]) \cap NewIds(r) = {}
  BY <1>1 DEF Ids, Fresh
<1>6. Distinct'
  BY <1>1, <1>2, <1>5 DEF Ids, Distinct, Working
<1>7. Apart'
  <2> SUFFICES ASSUME NEW v \in Requests, NEW u \in Requests,
                      pc'[v] \in Working, OnCard(u)'
               PROVE  /\ request'[u].card \in known'
                      /\ request'[v].op = "CreateCard" =>
                            request'[v].card # request'[u].card
    BY DEF Apart
  <2>1. u # t /\ OnCard(u)
    BY <1>2 DEF OnCard, UseCase
  <2>2. pc[u] \in Working
    BY <2>1 DEF OnCard, Working, Entered
  <2>3. request[u].card \in known
    BY <2>1, <2>2 DEF Ids, Apart
  <2>4. v = t => request[u].card \notin NewIds(request'[v])
    BY <1>1, <1>2, <2>3
  <2> QED
    BY <1>1, <1>2, <2>1, <2>3, <2>4 DEF Ids, Apart, NewIds
<1>8. ASSUME NEW u \in Requests PROVE Fresh(u)'
  <2>1. CASE u = t
    <3>1. NewIds(r) \cap gone = {}
      BY <1>1 DEF Ids, Known
    <3>2. /\ r.op = "CreateBoard" => boards[r.board] = None
          /\ r.op = "CreateColumn" => columns[r.column] = None
          /\ r.op = "CreateCard" => cards[r.card] = NoCard
      BY <1>1, <1>3 DEF NewIds, Ids, Known, IsAddressed, RequestType
    <3> QED
      BY <1>1, <1>2, <2>1, <3>1, <3>2 DEF Fresh, tables
  <2>2. CASE u # t
    BY <1>1, <1>2, <2>2 DEF Fresh, Ids, tables
  <2> QED
    BY <2>1, <2>2
<1> QED
  BY <1>4, <1>6, <1>7, <1>8 DEF Ids

Inside == {"load", "target", "place", "write"}

LEMMA QuietEnters ==
    ASSUME Inv, NEW t \in Requests, QuietStep(t), pc'[t] \in Inside
    PROVE  \/ pc[t] \in Inside
           \/ Authorize(t) /\ Membership(t).role # "none" /\ pc[t] = "authorize"
<1> USE DEF Inv, Shape, TypeOK, Inside
<1>1. ASSUME NEW error, Refuse(t, error) PROVE FALSE
  BY <1>1 DEF Refuse, Answer, Goto
<1>2. CASE Authorize(t)
  BY <1>1, <1>2 DEF Authorize, Denied
<1>3. CASE LoadToEdit(t) \/ LoadToMove(t) \/ AuthorizeTarget(t) \/ Place(t)
           \/ LoseConflict(t)
  BY <1>3 DEF LoadToEdit, LoadToMove, AuthorizeTarget, Place, LoseConflict, Writes
<1>4. CASE RefuseTitle(t) \/ ForeignKeyFails(t)
  BY <1>1, <1>4 DEF RefuseTitle, ForeignKeyFails
<1>5. CASE Fail(t)
  BY <1>1, <1>5 DEF Fail
<1>6. CASE ReadBoard(t) \/ ReadTree(t)
  BY <1>1, <1>6 DEF ReadBoard, ReadTree, Goto, Answer
<1>7. CASE CreateBoard(t) /\ pc[t] = "authorize"
  BY <1>7 DEF CreateBoard, Goto
<1>8. CASE Publish(t)
  BY <1>8 DEF Publish, Goto, Answer
<1> QED
  BY <1>2, <1>3, <1>4, <1>5, <1>6, <1>7, <1>8 DEF QuietStep

(* What the checks of a request have established. *)
LEMMA AuthorizedFacts ==
    ASSUME Inv, NEW t \in Requests, pc[t] = "authorize",
           UseCase(t) # "CreateBoard", Membership(t).role # "none"
    PROVE  /\ UseCase(t) \in {"CreateColumn", "DeleteBoard"} =>
                 /\ boards[request[t].board] # None
                 /\ Member(t, request[t].board)
           /\ UseCase(t) \in {"DeleteColumn", "CreateCard"} =>
                 /\ columns[request[t].column] # None
                 /\ Member(t, columns[request[t].column])
           /\ UseCase(t) \in {"EditCard", "MoveCard", "DeleteCard"} =>
                 /\ request[t].card \in Cards
                 /\ cards[request[t].card] # NoCard
                 /\ Member(t, columns[cards[request[t].card].column])
<1>1. /\ UseCase(t) \in UsesOf(request[t].op)
      /\ request[t].op \in {"CreateBoard", "GetBoard", "RenameBoard",
           "DeleteBoard", "CreateColumn", "UpdateColumn", "DeleteColumn",
           "CreateCard", "UpdateCard", "DeleteCard"}
  BY StagedTodo DEF Inv, Working, RequestType
<1>2. CASE UseCase(t) \in {"CreateColumn", "DeleteBoard"}
  <2>1. Membership(t) = MembershipByBoard(request[t].board, request[t].user)
    BY <1>1, <1>2 DEF UsesOf, Membership
  <2>2. request[t].board \in Boards /\ request[t].user \in Users
    BY <1>2, RequestOfUseCase DEF Inv, Working
  <2> QED
    BY <1>2, <2>1, <2>2, MembershipFacts
    DEF MembershipByBoard, NotFound, Member, Inv, Intact
<1>3. CASE UseCase(t) \in {"DeleteColumn", "CreateCard"}
  <2>1. Membership(t) = MembershipByColumn(request[t].column, request[t].user)
    BY <1>1, <1>3 DEF UsesOf, Membership
  <2> QED
    BY <1>3, <2>1 DEF MembershipByColumn, MembershipByBoard, NotFound, Member
<1>4. CASE UseCase(t) \in {"EditCard", "MoveCard", "DeleteCard"}
  <2>1. Membership(t) = MembershipByCard(request[t].card, request[t].user)
    BY <1>1, <1>4 DEF UsesOf, Membership
  <2>2. request[t].card \in Cards
    BY <1>4, RequestOfUseCase DEF Inv, Working
  <2> QED
    BY <1>4, <2>1, <2>2
    DEF MembershipByCard, MembershipByColumn, MembershipByBoard, NotFound, Member
<1> QED
  BY <1>2, <1>3, <1>4

LEMMA QuietIds ==
    ASSUME Inv, Ids, NEW t \in Requests, QuietStep(t)
    PROVE  Ids'
<1>1. /\ UNCHANGED <<tables, request, todo, known, gone>>
      /\ \A u \in Requests : pc'[u] \in Working => pc[u] \in Working
      /\ \A u \in Requests \ {t} : pc'[u] = pc[u]
  BY QuietFacts
<1>2. Known' /\ Buried' /\ Distinct'
  BY <1>1 DEF Ids, Known, Buried, Distinct, tables
<1>3. \A u \in Requests : Fresh(u)'
  BY <1>1 DEF Ids, Fresh, tables
<1>4. OnCard(t)' => OnCard(t) \/ (/\ request[t].card \in Cards
                                  /\ cards[request[t].card] # NoCard)
  <2> SUFFICES ASSUME OnCard(t)', ~OnCard(t)
               PROVE  request[t].card \in Cards /\ cards[request[t].card] # NoCard
    OBVIOUS
  <2>1. UseCase(t)' = UseCase(t)
    BY <1>1 DEF UseCase
  <2>2. /\ pc[t] = "authorize" /\ Membership(t).role # "none"
        /\ UseCase(t) \in {"EditCard", "MoveCard", "DeleteCard"}
    BY <2>1, QuietEnters DEF OnCard, Inside
  <2> QED
    BY <2>2, AuthorizedFacts
<1>5. Apart'
  <2> SUFFICES ASSUME NEW v \in Requests, NEW u \in Requests,
                      pc'[v] \in Working, OnCard(u)'
               PROVE  /\ request'[u].card \in known'
                      /\ request'[v].op = "CreateCard" =>
                            request'[v].card # request'[u].card
    BY DEF Apart
  <2>1. pc[v] \in Working
    BY <1>1
  <2>2. CASE OnCard(u)
    BY <1>1, <2>1, <2>2 DEF Ids, Apart
  <2>3. CASE ~OnCard(u)
    <3>1. u = t
      BY <1>1, <2>3 DEF OnCard, UseCase
    <3>2. request[u].card \in Cards /\ cards[request[u].card] # NoCard
      BY <1>4, <2>3, <3>1
    <3> QED
      BY <1>1, <2>1, <3>2 DEF Ids, Known, Fresh
  <2> QED
    BY <2>2, <2>3
<1> QED
  BY <1>2, <1>3, <1>5 DEF Ids

LEMMA WriteIds ==
    ASSUME Inv, Ids, NEW t \in Requests, WriteStep(t)
    PROVE  Ids'
<1>1. /\ UNCHANGED <<request, known>>
      /\ pc[t] \in {"write", "member"} /\ pc'[t] \in {"publish", "authorize"}
      /\ UseCase(t) \in {"CreateBoard", "CreateColumn", "CreateCard"} =>
            pc'[t] = "publish"
      /\ \A u \in Requests \ {t} : pc'[u] = pc[u] /\ todo'[u] = todo[u]
  BY WriteFacts
<1>2. Effect(t) /\ pc[t] \in Working
  BY <1>1, WriteEffect DEF WriteStep, Ids, Working, Entered
<1>3. /\ UseCase(t) = "CreateBoard" =>
            /\ request[t].op = "CreateBoard"
            /\ request[t].board \in NewIds(request[t])
      /\ UseCase(t) = "CreateColumn" =>
            /\ request[t].op = "CreateColumn"
            /\ request[t].column \in NewIds(request[t])
      /\ UseCase(t) = "CreateCard" =>
            /\ request[t].op = "CreateCard"
            /\ request[t].card \in NewIds(request[t])
  BY <1>2, NewIdsOf
<1>4. /\ NewIds(request[t]) \subseteq known \ gone
      /\ UseCase(t) = "CreateBoard" => boards[request[t].board] = None
      /\ UseCase(t) = "CreateColumn" => columns[request[t].column] = None
      /\ UseCase(t) = "CreateCard" => cards[request[t].card] = NoCard
  BY <1>2, <1>3 DEF Ids, Fresh
<1>5. gone' = gone
          \cup {b \in Boards : boards[b] # None /\ boards'[b] = None}
          \cup {k \in Columns : columns[k] # None /\ columns'[k] = None}
  <2>1. PICK where : Record(t, where)
    BY DEF WriteStep, CreateBoard, RenameBoard, RemoveBoard, CreateColumn,
       ChangeColumn, RemoveColumn, CreateCard, EditCard, MoveCard, RemoveCard
  <2> QED
    BY <2>1 DEF Record
<1>6. Known'
  BY <1>1, <1>2, <1>3, <1>4, <1>5 DEF Ids, Known, Effect, Writes
<1>13. Buried'
  <2>1. \A b \in Boards : b \in gone => boards'[b] = None
    BY <1>2, <1>3, <1>4 DEF Ids, Buried, Effect
  <2>2. \A k \in Columns : k \in gone => columns'[k] = None
    BY <1>2, <1>3, <1>4 DEF Ids, Buried, Effect, Writes
  <2> QED
    BY <1>5, <2>1, <2>2, RowsAssumption DEF Buried
<1>7. \A u \in Requests : pc'[u] \in Working => pc[u] \in Working
  BY <1>1, <1>2
<1>8. Distinct'
  BY <1>1, <1>7 DEF Ids, Distinct
<1>9. \A u \in Requests : OnCard(u)' => u # t /\ OnCard(u)
  BY <1>1 DEF OnCard, UseCase
<1>10. Apart'
  BY <1>1, <1>7, <1>9 DEF Ids, Apart
<1>11. ASSUME NEW u \in Requests, pc'[u] \in Working
       PROVE  Fresh(u)'
  <2>1. pc[u] \in Working
    BY <1>7, <1>11
  <2>2. /\ request[u] \in RequestType /\ IsAddressed(request[u])
        /\ Fresh(u)
    BY <2>1, StagedTodo DEF Inv, Ids
  <2>3. CASE u = t
    <3>1. request[t].op \notin {"CreateBoard", "CreateColumn", "CreateCard"}
      BY <1>1, <1>2, <1>11, <2>3, RequestOfUseCase DEF Inv, Working, Entered
    <3>2. NewIds(request[t]) = {}
      BY <3>1 DEF NewIds
    <3> QED
      BY <1>1, <2>3, <3>1, <3>2 DEF Fresh
  <2>4. CASE u # t
    <3>1. NewIds(request[u]) \cap NewIds(request[t]) = {}
      BY <1>2, <2>1, <2>4 DEF Ids, Distinct
    <3>2. CASE request[u].op = "CreateBoard"
      <4>1. /\ request[u].board \in Boards /\ boards[request[u].board] = None
            /\ NewIds(request[u]) = {request[u].board}
            /\ request[u].board \in known \ gone
        BY <2>1, <2>2, <3>2 DEF Fresh, NewIds, RequestType, IsAddressed
      <4>2. request[u].board \notin gone'
        BY <4>1, <1>5, RowsAssumption
      <4>3. boards'[request[u].board] = None
        BY <1>2, <1>3, <3>1, <4>1 DEF Effect
      <4> QED
        BY <1>1, <3>2, <4>1, <4>2, <4>3 DEF Fresh
    <3>3. CASE request[u].op = "CreateColumn"
      <4>1. /\ request[u].column \in Columns /\ columns[request[u].column] = None
            /\ NewIds(request[u]) = {request[u].column}
            /\ request[u].column \in known \ gone
        BY <2>1, <2>2, <3>3 DEF Fresh, NewIds, RequestType, IsAddressed
      <4>2. request[u].column \notin gone'
        BY <4>1, <1>5, RowsAssumption
      <4>3. columns'[request[u].column] = None
        BY <1>2, <1>3, <3>1, <4>1 DEF Effect, Writes
      <4> QED
        BY <1>1, <3>3, <4>1, <4>2, <4>3 DEF Fresh
    <3>4. CASE request[u].op = "CreateCard"
      <4>1. /\ request[u].card \in Cards /\ cards[request[u].card] = NoCard
            /\ NewIds(request[u]) = {request[u].card}
            /\ request[u].card \in known \ gone
        BY <2>1, <2>2, <3>4 DEF Fresh, NewIds, RequestType, IsAddressed
      <4>2. request[u].card \notin gone'
        BY <4>1, <1>5, RowsAssumption
      <4>3. cards'[request[u].card] = NoCard
        BY <1>2, <1>3, <3>1, <4>1 DEF Effect, Writes
      <4> QED
        BY <1>1, <3>4, <4>1, <4>2, <4>3 DEF Fresh
    <3>5. CASE request[u].op \notin {"CreateBoard", "CreateColumn", "CreateCard"}
      <4>1. NewIds(request[u]) = {}
        BY <3>5 DEF NewIds
      <4> QED
        BY <1>1, <3>5, <4>1 DEF Fresh
    <3> QED
      BY <3>2, <3>3, <3>4, <3>5
  <2> QED
    BY <2>3, <2>4
<1>12. \A u \in Requests : Fresh(u)'
  BY <1>11 DEF Fresh
<1> QED
  BY <1>6, <1>8, <1>10, <1>12, <1>13 DEF Ids
-----------------------------------------------------------------------------
(* The others' checks survive a step. *)

LEMMA CardStaysOrWasCarried ==
    ASSUME Inv, Inv', NEW t \in Requests, Fresh(t), Effect(t), NEW u \in Requests,
           NEW c \in Cards, cards[c] # NoCard, cards'[c] # NoCard,
           columns[cards[c].column] = columns'[cards'[c].column],
           Member(u, columns[cards[c].column]), request'[u] = request[u]
    PROVE  Member(u, columns[cards[c].column])'
<1> DEFINE b == columns[cards[c].column]
<1>1. cards[c].column \in Columns /\ cards'[c].column \in Columns
  BY RowsShape, CardRowsAreCards DEF Inv, Intact
<1>2. b \in Boards /\ boards[b] # None
  BY <1>1, RowsShape DEF Inv, Intact, IsRooted, rows
<1>3. boards'[b] # None
  BY <1>1, <1>2, RowsShape DEF Inv, Intact, IsRooted, rows
<1>4. boards'[b] = boards[b]
  <2>1. pc[t] = "member" /\ UseCase(t) = "CreateBoard" /\ b = request[t].board => FALSE
    BY <1>2, NewIdsOf DEF Fresh, Working, Entered
  <2> QED
    BY <1>2, <1>3, <2>1 DEF Effect
<1>5. members'[b] = members[b]
  BY <1>2, <1>4 DEF Effect
<1> QED
  BY <1>5 DEF Member

LEMMA GuardedElsewhere ==
    ASSUME Inv, Ids, Inv', NEW t \in Requests, Effect(t),
           NEW u \in Requests \ {t}, Guarded(u),
           pc'[u] = pc[u], request'[u] = request[u], todo'[u] = todo[u],
           frame'[u] = frame[u], Races(request[u].card) \subseteq trace'[u].raced,
           trace[u].raced \subseteq trace'[u].raced, pc[t] \in Working
    PROVE  Guarded(u)'
<1>1. UseCase(u)' = UseCase(u)
  BY DEF UseCase
<1>2. /\ gone \subseteq gone'
      /\ \A b \in Boards : boards[b] # None =>
            b \in gone' \/ (boards'[b] = boards[b] /\ members'[b] = members[b])
      /\ \A k \in Columns : columns[k] # None =>
            \/ k \in gone'
            \/ /\ columns'[k] = columns[k]
               /\ members'[columns[k]] = members[columns[k]]
  <2>1. ASSUME NEW b \in Boards, boards[b] # None
        PROVE  ~(/\ pc[t] = "member" /\ UseCase(t) = "CreateBoard"
                 /\ b = request[t].board)
    BY <2>1, NewIdsOf DEF Ids, Fresh
  <2>2. ASSUME NEW k \in Columns, columns[k] # None
        PROVE  ~(Writes(t, "CreateColumn") /\ k = request[t].column)
    BY <2>2, NewIdsOf DEF Ids, Fresh, Writes
  <2> QED
    BY <2>1, <2>2 DEF Effect
<1>3. ASSUME Writes(u, "CreateColumn")' \/ Writes(u, "DeleteBoard")'
      PROVE  \/ request'[u].board \in gone'
             \/ boards'[request'[u].board] # None /\ Member(u, request[u].board)'
  <2>1. Writes(u, "CreateColumn") \/ Writes(u, "DeleteBoard")
    BY <1>1, <1>3 DEF Writes
  <2>2. request[u].board \in Boards
    BY <2>1, RequestOfUseCase DEF Writes, Inv, Working, Entered
  <2> QED
    BY <1>2, <2>1, <2>2 DEF Guarded, Member
<1>4. ASSUME Writes(u, "DeleteColumn")'
      PROVE  \/ request'[u].column \in gone'
             \/ /\ columns'[request'[u].column] # None
                /\ Member(u, columns[request[u].column])'
  <2>1. Writes(u, "DeleteColumn")
    BY <1>1, <1>4 DEF Writes
  <2>2. request[u].column \in Columns
    BY <2>1, RequestOfUseCase DEF Writes, Inv, Working, Entered
  <2> QED
    BY <1>2, <2>1, <2>2 DEF Guarded, Member
<1>5. ASSUME pc'[u] \in {"place", "write"},
             UseCase(u)' \in {"CreateCard", "MoveCard"}
      PROVE  \/ frame'[u].dest \in gone'
             \/ /\ columns'[frame'[u].dest] # None
                /\ \/ Member(u, columns[frame[u].dest])'
                   \/ "carried" \in trace'[u].raced
  <2>1. frame[u].dest \in Columns
    BY <1>1, <1>5 DEF Inv, Shape, Staged
  <2>2. \/ frame[u].dest \in gone
        \/ /\ columns[frame[u].dest] # None
           /\ \/ Member(u, columns[frame[u].dest])
              \/ "carried" \in trace[u].raced
    BY <1>1, <1>5 DEF Guarded
  <2> QED
    BY <1>2, <2>1, <2>2 DEF Member
<1>6. ASSUME OnCard(u)'
      PROVE  \/ cards'[request'[u].card] = NoCard
             \/ Member(u, columns[cards[request[u].card].column])'
             \/ "carried" \in trace'[u].raced
  <2> DEFINE c == request[u].card
  <2>1. OnCard(u)
    BY <1>1, <1>6 DEF OnCard
  <2>2. c \in Cards /\ c # None
    BY <2>1, RequestOfUseCase, TreeAssumption DEF OnCard, Inv, Working, Entered
  <2>3. SUFFICES ASSUME cards'[c] # NoCard, "carried" \notin trace'[u].raced
                 PROVE  Member(u, columns[cards[c].column])'
    BY DEF Member
  <2>4. cards[c] # NoCard
    <3>1. ~(Writes(t, "CreateCard") /\ c = request[t].card)
      BY <2>1, NewIdsOf DEF Ids, Apart, Writes
    <3> QED
      BY <2>2, <2>3, <3>1 DEF Effect
  <2>5. columns[cards[c].column] = columns'[cards'[c].column]
    BY <2>2, <2>3, <2>4 DEF Races
  <2>6. Member(u, columns[cards[c].column])
    BY <2>1, <2>3, <2>4 DEF Guarded
  <2> QED
    BY <2>2, <2>3, <2>4, <2>5, <2>6, CardStaysOrWasCarried DEF Ids
<1> QED
  BY <1>3, <1>4, <1>5, <1>6 DEF Guarded
-----------------------------------------------------------------------------
(* A request's own steps carry its checks to its write. *)

LEMMA GuardedOutside ==
    ASSUME NEW t \in Requests, pc'[t] \notin Inside
    PROVE  Guarded(t)'
  BY DEF Guarded, Writes, OnCard, Inside

LEMMA GuardedAuthorize ==
    ASSUME Inv, NEW t \in Requests, Authorize(t), pc'[t] \in Inside
    PROVE  Guarded(t)'
<1>1. /\ UNCHANGED <<tables, request, todo, gone>>
      /\ pc[t] = "authorize" /\ UseCase(t) # "CreateBoard"
  BY QuietFacts DEF QuietStep, Authorize
<1>2. Membership(t).role # "none"
  BY <1>1, QuietEnters DEF QuietStep, Inside
<1>3. /\ frame'[t].dest = request[t].column
      /\ pc'[t] = FirstStatement(UseCase(t))
  <2>1. ~Refuse(t, Denied(t, Membership(t)))
    BY DEF Refuse, Answer, Goto, Inside, Inv, Shape, TypeOK
  <2>2. frame[t] \in Frame
    BY DEF Inv, Shape, TypeOK
  <2> QED
    BY <2>1, <2>2 DEF Authorize, Goto, Inv, Shape, TypeOK, Frame
<1>4. UseCase(t)' = UseCase(t)
  BY <1>1 DEF UseCase
<1>5. /\ UseCase(t) \in {"CreateColumn", "DeleteBoard"} =>
            boards[request[t].board] # None /\ Member(t, request[t].board)
      /\ UseCase(t) \in {"DeleteColumn", "CreateCard"} =>
            /\ columns[request[t].column] # None
            /\ Member(t, columns[request[t].column])
      /\ UseCase(t) \in {"EditCard", "MoveCard", "DeleteCard"} =>
            Member(t, columns[cards[request[t].card].column])
  BY <1>1, <1>2, AuthorizedFacts
<1>6. UseCase(t) = "MoveCard" => pc'[t] = "load"
  BY <1>3 DEF FirstStatement
<1> QED
  BY <1>1, <1>3, <1>4, <1>5, <1>6 DEF Guarded, Writes, OnCard, Member, tables

LEMMA GuardedLoadToEdit ==
    ASSUME Inv, NEW t \in Requests, Guarded(t), LoadToEdit(t), pc'[t] \in Inside
    PROVE  Guarded(t)'
<1>1. /\ UNCHANGED <<tables, request, todo, gone>>
  BY QuietFacts DEF QuietStep
<1>2. /\ pc[t] = "load" /\ UseCase(t) = "EditCard" /\ UseCase(t)' = "EditCard"
  BY <1>1 DEF LoadToEdit, UseCase
<1>3. "carried" \in trace[t].raced => "carried" \in trace'[t].raced
  <2>1. ~\E error \in Errors : Refuse(t, error)
    BY DEF Refuse, Answer, Goto, Inside, Inv, Shape, TypeOK
  <2>2. trace' = [trace EXCEPT ![t].raced = @ \ {"edited"}]
    BY <2>1 DEF LoadToEdit, Errors
  <2>3. trace[t] \in Trace
    BY DEF Inv, Shape, TypeOK
  <2> QED
    BY <2>2, <2>3 DEF Inv, Shape, TypeOK, Trace
<1> QED
  BY <1>1, <1>2, <1>3 DEF Guarded, Writes, OnCard, Member, tables

LEMMA GuardedLoadToMove ==
    ASSUME Inv, NEW t \in Requests, Guarded(t), LoadToMove(t), pc'[t] \in Inside
    PROVE  Guarded(t)'
<1> DEFINE card == GetCard(request[t].card)
           stays == request[t].column \in {None, card.column}
<1>1. UNCHANGED <<tables, request, todo, gone>>
  BY QuietFacts DEF QuietStep
<1>2. /\ pc[t] = "load" /\ UseCase(t) = "MoveCard" /\ UseCase(t)' = "MoveCard"
  BY <1>1 DEF LoadToMove, UseCase
<1>3. /\ card # NoCard /\ trace' = trace
      /\ frame' = [frame EXCEPT ![t].row = card,
            ![t].dest = IF stays THEN card.column ELSE request[t].column]
      /\ pc'[t] = IF stays THEN "place" ELSE "target"
  <2>1. ~Refuse(t, "not_found")
    BY DEF Refuse, Answer, Goto, Inside, Inv, Shape, TypeOK
  <2> QED
    BY <2>1 DEF LoadToMove, Goto, Inv, Shape, TypeOK
<1>4. frame'[t].dest = IF stays THEN card.column ELSE request[t].column
  <2>1. frame[t] \in Frame
    BY DEF Inv, Shape, TypeOK
  <2> QED
    BY <1>3, <2>1 DEF Inv, Shape, TypeOK, Frame
<1>5. request[t].card \in Cards /\ card = cards[request[t].card]
  BY <1>2, RequestOfUseCase DEF Inv, Working, Entered, GetCard
<1>6. columns[card.column] # None
  BY <1>3, <1>5 DEF Inv, Intact, IsRooted, rows
<1>7. \/ Member(t, columns[card.column])
      \/ "carried" \in trace[t].raced
  BY <1>2, <1>3, <1>5 DEF Guarded, OnCard
<1> HIDE DEF card
<1> QED
  BY <1>1, <1>2, <1>3, <1>4, <1>5, <1>6, <1>7
  DEF Guarded, Writes, OnCard, Member, tables

LEMMA GuardedAuthorizeTarget ==
    ASSUME Inv, NEW t \in Requests, Guarded(t), AuthorizeTarget(t), pc'[t] \in Inside
    PROVE  Guarded(t)'
<1>1. UNCHANGED <<tables, request, todo, gone>>
  BY QuietFacts DEF QuietStep
<1>2. ~Refuse(t, "not_found")
  BY DEF Refuse, Answer, Goto, Inside, Inv, Shape, TypeOK
<1>3. /\ pc[t] = "target" /\ pc'[t] = "place" /\ UNCHANGED <<frame, trace>>
      /\ MembershipByColumn(frame[t].dest, request[t].user) # NotFound
  BY <1>2 DEF AuthorizeTarget, Goto, Inv, Shape, TypeOK
<1>4. UseCase(t) = "MoveCard" /\ UseCase(t)' = "MoveCard"
  BY <1>1, <1>3 DEF UseCase, Inv, Shape, Staged
<1>5. columns[frame[t].dest] # None /\ Member(t, columns[frame[t].dest])
  BY <1>3 DEF MembershipByColumn, MembershipByBoard, Member
<1> QED
  BY <1>1, <1>3, <1>4, <1>5 DEF Guarded, Writes, OnCard, Member, tables

LEMMA GuardedPlace ==
    ASSUME Inv, NEW t \in Requests, Guarded(t), Place(t) \/ LoseConflict(t),
           pc'[t] \in Inside
    PROVE  Guarded(t)'
<1>1. UNCHANGED <<tables, request, todo, gone>>
  BY QuietFacts DEF QuietStep
<1>2. ~Refuse(t, "conflict")
  BY DEF Refuse, Answer, Goto, Inside, Inv, Shape, TypeOK
<1>3. /\ pc[t] \in {"place", "write"} /\ pc'[t] \in {"place", "write"}
      /\ frame'[t].dest = frame[t].dest /\ trace' = trace
      /\ UseCase(t) \in {"CreateCard", "MoveCard"}
  <2>1. CASE Place(t)
    <3>1. frame[t] \in Frame
      BY DEF Inv, Shape, TypeOK
    <3> QED
      BY <2>1, <3>1 DEF Place, Goto, Inv, Shape, TypeOK, Staged, Frame
  <2>2. CASE LoseConflict(t)
    BY <1>2, <2>2 DEF LoseConflict, Writes, Goto, Inv, Shape, TypeOK
  <2> QED
    BY <2>1, <2>2
<1>4. UseCase(t)' = UseCase(t)
  BY <1>1 DEF UseCase
<1> QED
  BY <1>1, <1>3, <1>4 DEF Guarded, Writes, OnCard, Member, tables

LEMMA GuardedHere ==
    ASSUME Inv, NEW t \in Requests, Guarded(t), Step(t)
    PROVE  Guarded(t)'
<1>1. CASE pc'[t] \notin Inside
  BY <1>1, GuardedOutside
<1>2. CASE Receive(t)
  <2>1. pc'[t] \notin Inside
    BY <1>2 DEF Receive, Goto, Inside, Inv, Shape, TypeOK
  <2> QED
    BY <2>1, GuardedOutside
<1>3. CASE WriteStep(t)
  <2>1. pc'[t] \notin Inside
    BY <1>3, WriteFacts DEF Inside
  <2> QED
    BY <2>1, GuardedOutside
<1>4. CASE QuietStep(t) /\ pc'[t] \in Inside
  <2>1. \A error : ~Refuse(t, error)
    BY <1>4 DEF Refuse, Answer, Goto, Inside, Inv, Shape, TypeOK
  <2>2. ~(RefuseTitle(t) \/ ForeignKeyFails(t) \/ Fail(t))
    BY <2>1 DEF RefuseTitle, ForeignKeyFails, Fail
  <2>3. ~(\/ ReadBoard(t) \/ ReadTree(t) \/ Publish(t)
          \/ CreateBoard(t) /\ pc[t] = "authorize")
    BY <1>4, <2>1 DEF ReadBoard, ReadTree, CreateBoard, Publish, Goto, Answer,
       Inside, Inv, Shape, TypeOK
  <2>4. \/ Authorize(t) \/ LoadToEdit(t) \/ LoadToMove(t) \/ AuthorizeTarget(t)
        \/ Place(t) \/ LoseConflict(t)
    BY <1>4, <2>2, <2>3 DEF QuietStep
  <2> QED
    BY <1>4, <2>4, GuardedAuthorize, GuardedLoadToEdit, GuardedLoadToMove,
       GuardedAuthorizeTarget, GuardedPlace
<1> QED
  BY <1>1, <1>2, <1>3, <1>4, StepKinds

LEMMA AnsweredStep ==
    ASSUME Inv, NEW t \in Requests, Guarded(t), Answered(t), Step(t)
    PROVE  Answered(t)'
<1> USE DEF Inv, Shape, TypeOK
<1>1. ASSUME NEW error \in Errors \ {"internal"}, pc[t] # "done", Refuse(t, error)
      PROVE  Answered(t)'
  BY <1>1 DEF Refuse, Answer, Goto, Answered, Errors
<1>2. ASSUME UNCHANGED answer, pc[t] # "done"
      PROVE  Answered(t)'
  BY <1>2 DEF Answered
<1>3. ASSUME pc[t] # "done", Answer(t, "ok")
      PROVE  Answered(t)'
  BY <1>3 DEF Answer, Goto, Answered
<1>4. CASE Receive(t)
  BY <1>2, <1>4 DEF Receive
<1>5. CASE WriteStep(t)
  BY <1>2, <1>5, WriteFacts
<1>6. CASE ForeignKeyFails(t)
  <2>1. Refuse(t, "internal") /\ pc[t] = "write"
    BY <1>6 DEF ForeignKeyFails, Writes
  <2>2. frame[t].dest \in gone \/ request[t].board \in gone
    BY <1>6 DEF ForeignKeyFails, Guarded, Writes
  <2> QED
    BY <2>1, <2>2 DEF Refuse, Answer, Goto, Answered
<1>7. CASE Authorize(t)
  <2>1. Denied(t, Membership(t)) # "no" =>
           Denied(t, Membership(t)) \in Errors \ {"internal"}
    BY DEF Denied, Errors
  <2> QED
    BY <1>1, <1>2, <1>7, <2>1 DEF Authorize
<1>8. CASE RefuseTitle(t) \/ LoadToEdit(t) \/ LoadToMove(t)
           \/ AuthorizeTarget(t) \/ ReadBoard(t) \/ LoseConflict(t) \/ Fail(t)
  BY <1>1, <1>2, <1>8 DEF RefuseTitle, LoadToEdit, LoadToMove, AuthorizeTarget,
     ReadBoard, LoseConflict, Fail, Writes, Errors
<1>9. CASE \/ Place(t)
           \/ CreateBoard(t) /\ pc[t] = "authorize"
  BY <1>2, <1>9 DEF Place, CreateBoard
<1>10. CASE ReadTree(t) \/ Publish(t)
  BY <1>2, <1>3, <1>10 DEF ReadTree, Publish
<1> QED
  BY <1>4, <1>5, <1>6, <1>7, <1>8, <1>9, <1>10, StepKinds DEF QuietStep

LEMMA UneditedElsewhere ==
    ASSUME Inv, Ids, Inv', NEW t \in Requests, Effect(t),
           NEW u \in Requests \ {t}, Unedited(u),
           pc'[u] = pc[u], request'[u] = request[u], todo'[u] = todo[u],
           frame'[u] = frame[u], Races(request[u].card) \subseteq trace'[u].raced,
           trace[u].raced \subseteq trace'[u].raced, pc[t] \in Working
    PROVE  Unedited(u)'
<1>1. UseCase(u)' = UseCase(u)
  BY DEF UseCase
<1> DEFINE c == request[u].card
<1> SUFFICES ASSUME Writes(u, "EditCard")', cards'[c] # NoCard,
                    "edited" \notin trace'[u].raced
             PROVE  /\ cards'[c].title = frame[u].row.title
                    /\ cards'[c].description = frame[u].row.description
  BY DEF Unedited
<1>2. Writes(u, "EditCard") /\ OnCard(u)
  BY <1>1 DEF Writes, OnCard
<1>3. c \in Cards /\ c # None
  BY <1>2, RequestOfUseCase, TreeAssumption DEF OnCard, Inv, Working, Entered
<1>4. cards[c] # NoCard
  <2>1. ~(Writes(t, "CreateCard") /\ c = request[t].card)
    BY <1>2, NewIdsOf DEF Ids, Apart, Writes
  <2> QED
    BY <1>3, <2>1 DEF Effect
<1>5. cards'[c].title = cards[c].title /\ cards'[c].description = cards[c].description
  BY <1>3, <1>4 DEF Races
<1> QED
  BY <1>2, <1>4, <1>5 DEF Unedited

LEMMA UneditedHere ==
    ASSUME Inv, NEW t \in Requests, Step(t)
    PROVE  Unedited(t)'
<1> SUFFICES ASSUME Writes(t, "EditCard")' PROVE Unedited(t)'
  BY DEF Unedited
<1> USE DEF Inv, Shape, TypeOK
<1>1. pc'[t] = "write" /\ UseCase(t)' = "EditCard"
  BY DEF Writes
<1>2. ~Receive(t) /\ ~WriteStep(t)
  BY <1>1, WriteFacts DEF Receive, Goto
<1>3. QuietStep(t)
  BY <1>2, StepKinds
<1>4. UseCase(t) = "EditCard" /\ UNCHANGED <<tables, request>>
  BY <1>1, <1>3, QuietFacts DEF UseCase
<1>5. \A error : ~Refuse(t, error)
  BY <1>1 DEF Refuse, Answer, Goto
<1>6. LoadToEdit(t)
  <2>1. ~(\/ RefuseTitle(t) \/ ForeignKeyFails(t) \/ Fail(t) \/ AuthorizeTarget(t))
    BY <1>1, <1>5 DEF RefuseTitle, ForeignKeyFails, Fail, AuthorizeTarget, Goto
  <2>2. ~(\/ ReadBoard(t) \/ ReadTree(t) \/ Publish(t)
          \/ CreateBoard(t) /\ pc[t] = "authorize")
    BY <1>1, <1>5 DEF ReadBoard, ReadTree, CreateBoard, Publish, Goto, Answer
  <2>3. ~(\/ LoadToMove(t) \/ LoseConflict(t))
    BY <1>4, <1>5 DEF LoadToMove, LoseConflict
  <2>4. ~Place(t)
    BY <1>4 DEF Place, Staged
  <2>5. ~Authorize(t)
    BY <1>1, <1>4, <1>5 DEF Authorize, Goto, FirstStatement
  <2> QED
    BY <1>3, <2>1, <2>2, <2>3, <2>4, <2>5 DEF QuietStep
<1>7. frame' = [frame EXCEPT ![t].row = cards[request[t].card]]
  BY <1>5, <1>6 DEF LoadToEdit, GetCard
<1>8. frame'[t].row = cards[request[t].card]
  <2>1. frame[t] \in Frame
    OBVIOUS
  <2> QED
    BY <1>7, <2>1 DEF Frame
<1> QED
  BY <1>4, <1>8 DEF Unedited, tables

LEMMA ReadingElsewhere ==
    ASSUME Inv, Ids, NEW t \in Requests, Effect(t),
           NEW u \in Requests \ {t}, Reading(u),
           pc'[u] = pc[u], request'[u] = request[u], frame'[u] = frame[u],
           trace'[u].stayed = {c \in trace[u].stayed : cards'[c] # NoCard
              /\ columns'[cards'[c].column] = request[u].board},
           trace'[u].fresh = trace[u].fresh \cup
              {k \in Columns : columns[k] = None /\ columns'[k] # None},
           pc[t] \in Working, pc[u] \in {"columns", "cards"} =>
              request[u].board \in Boards
    PROVE  Reading(u)'
<1>1. \A k \in Columns : columns[k] # None => columns'[k] \in {columns[k], None}
  BY NewIdsOf DEF Effect, Ids, Fresh, Writes
<1>2. pc[u] = "cards" =>
         \A k \in Columns : columns'[k] = request[u].board =>
            k \in frame[u].lanes \cup trace'[u].fresh
  BY <1>1, RowsAssumption DEF Reading
<1> QED
  BY <1>2 DEF Reading

LEMMA ReadingHere ==
    ASSUME Inv, NEW t \in Requests, Step(t), Reading(t)
    PROVE  Reading(t)'
<1> SUFFICES ASSUME pc'[t] \in {"columns", "cards"} PROVE Reading(t)'
  BY DEF Reading
<1> USE DEF Inv, Shape, TypeOK
<1>1. ~Receive(t) /\ ~WriteStep(t)
  BY WriteFacts DEF Receive, Goto
<1>2. QuietStep(t)
  BY <1>1, StepKinds
<1>3. UNCHANGED <<tables, request>>
  BY <1>2, QuietFacts
<1>4. \A error : ~Refuse(t, error)
  BY DEF Refuse, Answer, Goto
<1>5. ReadBoard(t) \/ ReadTree(t)
  <2>1. ~(\/ RefuseTitle(t) \/ ForeignKeyFails(t) \/ Fail(t) \/ AuthorizeTarget(t)
          \/ LoadToEdit(t) \/ LoadToMove(t) \/ LoseConflict(t) \/ Place(t))
    BY <1>4 DEF RefuseTitle, ForeignKeyFails, Fail, AuthorizeTarget, Goto,
       LoadToEdit, LoadToMove, LoseConflict, Place
  <2>2. ~(\/ Publish(t)
          \/ CreateBoard(t) /\ pc[t] = "authorize")
    BY <1>4 DEF CreateBoard, Publish, Goto, Answer
  <2>3. ~Authorize(t)
    BY <1>4 DEF Authorize, Goto, FirstStatement
  <2> QED
    BY <1>2, <2>1, <2>2, <2>3 DEF QuietStep
<1>6. CASE ReadBoard(t)
  <2>1. /\ pc'[t] = "columns"
        /\ trace' = [trace EXCEPT ![t].stayed = ListCardsByBoard(request[t].board)]
    BY <1>4, <1>6 DEF ReadBoard, Goto
  <2>2. trace[t] \in Trace
    OBVIOUS
  <2>3. trace'[t].stayed = ListCardsByBoard(request[t].board)
    BY <2>1, <2>2 DEF Trace
  <2> QED
    BY <1>3, <2>1, <2>3 DEF Reading, ListCardsByBoard, tables
<1>7. CASE ReadTree(t)
  <2>1. /\ pc[t] = "columns" /\ pc'[t] = "cards"
        /\ frame' = [frame EXCEPT ![t].lanes = ListColumns(request[t].board)]
        /\ trace' = [trace EXCEPT ![t].fresh = {}]
    BY <1>7 DEF ReadTree, Goto, Answer
  <2>2. trace[t] \in Trace /\ frame[t] \in Frame
    OBVIOUS
  <2>3. /\ frame'[t].lanes = ListColumns(request[t].board)
        /\ trace'[t].stayed = trace[t].stayed
    BY <2>1, <2>2 DEF Trace, Frame
  <2> QED
    BY <1>3, <2>1, <2>3 DEF Reading, ListColumns, tables
<1> QED
  BY <1>5, <1>6, <1>7
-----------------------------------------------------------------------------
(* The invariant *)

LEMMA InitIInv == Init => IInv
<1> SUFFICES ASSUME Init PROVE IInv
  OBVIOUS
<1>1. PICK db \in Databases :
         /\ boards = db.boards /\ members = db.members
         /\ columns = db.columns /\ cards = db.cards
  BY DEF Init
<1>2. db \in Database /\ IsRooted(db) /\ IsOwned(db)
  BY TreeAssumption
<1>3. rows = db
  BY <1>1, <1>2 DEF rows, Database
<1>4. Intact
  BY <1>2, <1>3 DEF Intact, RowsTypeOK
<1>5. TypeOK
  <2>1. NoCard \in CardRow \cup {NoCard}
    OBVIOUS
  <2>2. /\ pc \in [Requests -> {"idle"}]
        /\ todo \in [Requests -> Seq(UseCaseName)]
        /\ events \in [Requests -> Seq([type : UseCaseName, board : Boards])]
    BY DEF Init
  <2>3. frame \in [Requests -> Frame]
    BY DEF Init, Frame
  <2>4. trace \in [Requests -> Trace]
    BY DEF Init, Trace
  <2>5. RowsTypeOK
    BY <1>4 DEF Intact
  <2>6. known \subseteq Boards \cup Columns \cup Cards
    BY DEF Init
  <2>7. /\ request \in [Requests -> RequestType \cup {NoRequest}]
        /\ sent \in [Requests -> SUBSET Boards]
        /\ answer \in [Requests -> {"none"}]
        /\ gone = {}
    BY DEF Init
  <2> QED
    BY <2>2, <2>3, <2>4, <2>5, <2>6, <2>7 DEF TypeOK
<1>6. \A t \in Requests :
         /\ pc[t] = "idle" /\ todo[t] = <<>> /\ answer[t] = "none"
  BY DEF Init
<1>7. \A t \in Requests : Staged(t) /\ Fresh(t) /\ Local(t)
  <2>1. \A S : <<>> \in Seq(S)
    OBVIOUS
  <2> QED
    BY <1>6, <2>1 DEF Staged, Fresh, Local, Guarded, Answered, Unedited, Reading, OnCard, Writes, Working, Entered
<1>8. Known /\ Buried
  BY DEF Init, Known, Buried
<1>9. Distinct /\ Apart
  BY <1>6 DEF Distinct, Apart, Working, Entered
<1> QED
  BY <1>4, <1>5, <1>7, <1>8, <1>9 DEF IInv, Inv, Shape, Ids

LEMMA StepIInv ==
    ASSUME IInv, NEW t \in Requests, Step(t)
    PROVE  IInv'
<1> USE DEF IInv
<1>1. Fresh(t)
  BY DEF Ids
<1>2. Inv'
  <2>1. pc[t] = "member" => boards[request[t].board] = None
    <3>1. pc[t] = "member" => UseCase(t) = "CreateBoard" /\ pc[t] \in Working
      BY DEF Inv, Shape, Staged, Working, Entered
    <3> QED
      BY <1>1, <3>1, NewIdsOf DEF Fresh
  <2> QED
    BY <2>1, InvStep
<1>3. Ids'
  BY StepKinds, ReceiveIds, QuietIds, WriteIds
<1>4. Effect(t)
  BY <1>1, StepEffect
<1>5. ASSUME NEW u \in Requests PROVE Local(u)'
  <2>1. Local(u)
    OBVIOUS
  <2>2. CASE u = t
    BY <2>1, <2>2, GuardedHere, AnsweredStep, UneditedHere, ReadingHere DEF Local
  <2>3. CASE u # t /\ Receive(t)
    <3>1. /\ pc'[u] = pc[u] /\ request'[u] = request[u] /\ todo'[u] = todo[u]
          /\ UNCHANGED <<tables, frame, answer, gone, trace>>
      BY <2>3 DEF Receive, Goto, Inv, Shape, TypeOK
    <3> QED
      BY <2>1, <3>1 DEF Local, Guarded, Answered, Unedited, Reading, Writes,
         OnCard, UseCase, Member, tables
  <2>4. CASE u # t /\ QuietStep(t)
    <3>1. /\ pc'[u] = pc[u] /\ frame'[u] = frame[u] /\ answer'[u] = answer[u]
          /\ trace'[u] = trace[u]
          /\ UNCHANGED <<tables, request, todo, gone>>
      BY <2>4, QuietFacts
    <3> QED
      BY <2>1, <3>1 DEF Local, Guarded, Answered, Unedited, Reading, Writes,
         OnCard, UseCase, Member, tables
  <2>5. CASE u # t /\ WriteStep(t)
    <3>1. /\ UNCHANGED <<request, frame, answer>>
          /\ pc[t] \in Working
          /\ pc'[u] = pc[u] /\ todo'[u] = todo[u]
          /\ trace'[u].raced = trace[u].raced \cup Races(request[u].card)
          /\ trace'[u].stayed = {c \in trace[u].stayed : cards'[c] # NoCard
                /\ columns'[cards'[c].column] = request[u].board}
          /\ trace'[u].fresh = trace[u].fresh \cup
                {k \in Columns : columns[k] = None /\ columns'[k] # None}
      BY <2>5, WriteFacts DEF Working, Entered
    <3>2. Guarded(u)'
      BY <1>2, <1>4, <2>1, <2>5, <3>1, GuardedElsewhere DEF Local
    <3>3. Answered(u)'
      BY <1>4, <2>1, <3>1 DEF Local, Answered, Effect
    <3>4. Unedited(u)'
      BY <1>2, <1>4, <2>1, <2>5, <3>1, UneditedElsewhere DEF Local
    <3>5. pc[u] \in {"columns", "cards"} => request[u].board \in Boards
      BY RequestOfUseCase DEF Inv, Shape, Staged, Working, Entered
    <3>6. Reading(u)'
      BY <1>4, <2>1, <2>5, <3>1, <3>5, ReadingElsewhere DEF Local
    <3> QED
      BY <3>2, <3>3, <3>4, <3>6 DEF Local
  <2> QED
    BY <2>2, <2>3, <2>4, <2>5, StepKinds
<1> QED
  BY <1>2, <1>3, <1>5

LEMMA NextIInv == IInv /\ [Next]_vars => IInv'
<1>1. ASSUME IInv, Next PROVE IInv'
  BY <1>1, StepIInv DEF Next
<1>2. ASSUME IInv, UNCHANGED vars PROVE IInv'
  <2>1. /\ UNCHANGED <<boards, members, columns, cards>>
        /\ UNCHANGED <<pc, request, todo, frame, events, sent, answer, known,
                       gone, trace>>
    BY <1>2 DEF vars, tables
  <2>2. Inv'
    <3>1. RowsTypeOK' /\ IsRooted(rows)' /\ IsOwned(rows)'
      BY <1>2, <2>1 DEF IInv, Inv, Intact, RowsTypeOK, rows
    <3>2. TypeOK'
      BY <1>2, <2>1, <3>1 DEF IInv, Inv, Shape, TypeOK
    <3>3. \A t \in Requests : Staged(t)'
      BY <1>2, <2>1 DEF IInv, Inv, Shape, Staged, UseCase
    <3> QED
      BY <3>1, <3>2, <3>3 DEF Inv, Intact, Shape
  <2>3. Ids'
    BY <1>2, <2>1 DEF IInv, Ids, Known, Buried, Distinct, Apart, Fresh, OnCard, UseCase
  <2>4. \A t \in Requests : Local(t)'
    BY <1>2, <2>1 DEF IInv, Local, Guarded, Answered, Unedited, Reading, Writes,
       OnCard, UseCase, Member
  <2> QED
    BY <2>2, <2>3, <2>4 DEF IInv
<1> QED
  BY <1>1, <1>2

LEMMA Invariance == Spec => []IInv
  BY InitIInv, NextIInv, PTL DEF Spec

(* Tables, frames and histories keep their types whatever the requests do. *)
THEOREM TypeCorrect == Spec => []TypeOK
<1>1. IInv => TypeOK
  BY DEF IInv, Inv, Shape
<1> QED
  BY <1>1, Invariance, PTL

(* A delete takes every child with it and no request in flight brings one  *)
(* back: the foreign keys of 0003_kanban.up.sql hold in every state.       *)
THEOREM NoOrphansEver == Spec => []NoOrphans
<1>1. IInv => NoOrphans
  BY DEF IInv, Inv, Intact, NoOrphans
<1> QED
  BY <1>1, Invariance, PTL

(* CreateBoard inserts the board and its owner at once, and nothing else   *)
(* makes or unmakes an owner: every board has exactly the one, who finds   *)
(* it in his list.                                                         *)
THEOREM EveryBoardIsOwned == Spec => []BoardsHaveTheirOwner
<1>1. IInv => BoardsHaveTheirOwner
  <2> SUFFICES ASSUME IInv, NEW b \in Boards, boards[b] # None
               PROVE  b \in ListBoardsForUser(boards[b])
    BY DEF IInv, Inv, Intact, BoardsHaveTheirOwner
  <2>1. boards[b] \in Users
    BY RowsShape DEF IInv, Inv, Intact
  <2>2. members[b][boards[b]] = "owner"
    BY <2>1 DEF IInv, Inv, Intact, IsOwned, rows
  <2> QED
    BY <2>2 DEF ListBoardsForUser
<1> QED
  BY <1>1, Invariance, PTL

(* The membership checks of a use case leave a write only one way to fail  *)
(* on a foreign key: the parent was deleted after the check.               *)
THEOREM ForeignKeysFailForAReason == Spec => []OnlyAVanishedParentFailsAWrite
<1>1. IInv => OnlyAVanishedParentFailsAWrite
  BY DEF IInv, Local, Answered, OnlyAVanishedParentFailsAWrite
<1> QED
  BY <1>1, Invariance, PTL

LEMMA OnlyTheActorMoves ==
    ASSUME Inv, NEW t \in Requests, Step(t), NEW u \in Requests, pc'[u] # pc[u]
    PROVE  u = t
<1>1. CASE Receive(t)
  BY <1>1 DEF Receive, Goto, Inv, Shape, TypeOK
<1>2. CASE QuietStep(t)
  BY <1>2, QuietFacts
<1>3. CASE WriteStep(t)
  BY <1>3, WriteFacts
<1> QED
  BY <1>1, <1>2, <1>3, StepKinds

LEMMA WritesAreAllowed ==
    ASSUME IInv, NEW t \in Requests, Step(t), NEW c \in Cards, cards'[c] # cards[c]
    PROVE  LET row == IF cards'[c] # NoCard THEN cards'[c] ELSE cards[c]
           IN  \/ Member(t, columns[row.column])
               \/ "carried" \in trace[t].raced
<1> USE DEF IInv
<1> DEFINE row == IF cards'[c] # NoCard THEN cards'[c] ELSE cards[c]
<1>1. WriteStep(t)
  <2>1. ~Receive(t)
    BY DEF Receive, tables
  <2>2. ~QuietStep(t)
    BY QuietFacts DEF tables
  <2> QED
    BY <2>1, <2>2, StepKinds
<1>2. Guarded(t) /\ Buried
  BY DEF Ids, Local
<1>3. cards[c] # NoCard =>
         /\ cards[c].column \in Columns
         /\ columns[cards[c].column] \in Boards
         /\ boards[columns[cards[c].column]] # None
  BY RowsShape, CardRowsAreCards DEF Inv, Intact, IsRooted, rows
<1>4. CASE CreateBoard(t) \/ RenameBoard(t) \/ CreateColumn(t) \/ ChangeColumn(t)
  BY <1>4 DEF CreateBoard, RenameBoard, CreateColumn, ChangeColumn, InsertColumn,
     tables
<1>5. CASE RemoveBoard(t)
  <2>1. /\ Writes(t, "DeleteBoard") /\ DeleteBoard(request[t].board)
        /\ request[t].board \in Boards
    BY <1>5, RequestOfUseCase DEF RemoveBoard, Writes, Inv, Working, Entered
  <2>2. /\ cards'[c] = NoCard /\ cards[c] # NoCard
        /\ columns[cards[c].column] = request[t].board
    BY <2>1 DEF DeleteBoard, WithoutColumns, ListColumns
  <2> QED
    BY <1>2, <1>3, <2>1, <2>2 DEF Guarded, Buried
<1>6. CASE RemoveColumn(t)
  <2>1. /\ Writes(t, "DeleteColumn") /\ DeleteColumn(request[t].column)
        /\ request[t].column \in Columns
    BY <1>6, RequestOfUseCase DEF RemoveColumn, Writes, Inv, Working, Entered
  <2>2. /\ cards'[c] = NoCard /\ cards[c] # NoCard
        /\ cards[c].column = request[t].column
    BY <2>1 DEF DeleteColumn, WithoutColumns
  <2>3. columns[request[t].column] # None
    BY <2>2 DEF Inv, Intact, IsRooted, rows
  <2> QED
    BY <1>2, <2>1, <2>2, <2>3 DEF Guarded, Buried
<1>7. CASE CreateCard(t)
  <2>1. /\ Writes(t, "CreateCard") /\ columns[frame[t].dest] # None
        /\ InsertCard(request[t].card, NewCard(t), Moved(t))
        /\ frame[t].dest \in Columns
    BY <1>7 DEF CreateCard, Writes, Inv, Shape, Staged
  <2>2. NewCard(t).column = frame[t].dest
    BY DEF NewCard
  <2>3. cards'[c] # NoCard /\ cards'[c].column = frame[t].dest
    <3>1. CASE c = request[t].card
      <4>1. cards'[c] = NewCard(t)
        BY <2>1, <3>1, <2>2, RowsShape, RepositionedRows DEF InsertCard, Inv, Intact
      <4> QED
        BY <2>1, <2>2, <4>1, RowsAssumption DEF NoCard
    <3>2. CASE c # request[t].card
      BY <2>1, <2>2, <3>2, RowsShape, RowsAssumption
      DEF InsertCard, Repositioned, Inv, Intact, CardRow, NoCard
    <3> QED
      BY <3>1, <3>2
  <2> QED
    BY <1>2, <2>1, <2>3 DEF Guarded, Buried, Writes
<1>8. CASE EditCard(t)
  <2>1. /\ OnCard(t) /\ c = request[t].card /\ cards[c] # NoCard
        /\ cards'[c].column = cards[c].column
    BY <1>8, RowsShape
    DEF EditCard, Writes, UpdateCardContent, OnCard, Inv, Intact, CardRow
  <2>2. row.column = cards[c].column
    BY <2>1
  <2> QED
    BY <1>2, <2>1, <2>2 DEF Guarded
<1>9. CASE MoveCard(t)
  <2>1. /\ Writes(t, "MoveCard")
        /\ Moved(t) = {} \/ columns[frame[t].dest] # None
        /\ UpdateCardPosition(Moved(t), frame[t].dest)
        /\ frame[t].dest \in Columns
    BY <1>9 DEF MoveCard, Writes, Inv, Shape, Staged
  <2>2. /\ c \in Moved(t) /\ cards'[c] # NoCard
        /\ cards'[c].column = frame[t].dest
    BY <2>1, RowsShape, RowsAssumption
    DEF UpdateCardPosition, Repositioned, Inv, Intact, CardRow, NoCard
  <2> QED
    BY <1>2, <2>1, <2>2 DEF Guarded, Buried, Writes
<1>10. CASE RemoveCard(t)
  <2>1. OnCard(t) /\ c = request[t].card /\ cards[c] # NoCard /\ cards'[c] = NoCard
    BY <1>10, RowsShape DEF RemoveCard, Writes, DeleteCard, OnCard, Inv, Intact
  <2> QED
    BY <1>2, <2>1 DEF Guarded
<1> QED
  BY <1>1, <1>4, <1>5, <1>6, <1>7, <1>8, <1>9, <1>10 DEF WriteStep

(* A handler changes cards only on boards of its caller, unless another    *)
(* move has carried the card to another board after the check              *)
(* (service.go:53-63, cards.go:118-119).                                   *)
THEOREM WritesAreConfined == Spec => WritesStayOnOnesOwnBoards
<1> DEFINE Confined ==
       \A t \in Requests, c \in Cards :
          LET row == IF cards'[c] # NoCard THEN cards'[c] ELSE cards[c]
              board == columns[row.column]
          IN  pc'[t] # pc[t] /\ cards'[c] # cards[c] =>
                 \/ members[board][request[t].user] # "none"
                 \/ "carried" \in trace[t].raced
<1>1. ASSUME IInv, Next PROVE Confined
  <2>1. PICK u \in Requests : Step(u)
    BY <1>1 DEF Next
  <2> SUFFICES ASSUME NEW t \in Requests, NEW c \in Cards,
                      pc'[t] # pc[t], cards'[c] # cards[c]
               PROVE  LET row == IF cards'[c] # NoCard THEN cards'[c] ELSE cards[c]
                      IN  \/ members[columns[row.column]][request[t].user] # "none"
                          \/ "carried" \in trace[t].raced
    OBVIOUS
  <2>2. t = u
    BY <1>1, <2>1, OnlyTheActorMoves DEF IInv
  <2> QED
    BY <1>1, <2>1, <2>2, WritesAreAllowed DEF Member
<1>2. ASSUME IInv, [Next]_vars PROVE [Confined]_vars
  BY <1>1, <1>2
<1>3. Spec => [][Confined]_vars
  BY <1>2, Invariance, PTL DEF Spec
<1> QED
  BY <1>3 DEF WritesStayOnOnesOwnBoards

LEMMA EditsAreAsked ==
    ASSUME IInv, NEW t \in Requests, Step(t), NEW c \in Cards,
           cards[c] # NoCard, cards'[c] # NoCard,
           NEW f \in {"title", "description"}, cards'[c][f] # cards[c][f]
    PROVE  /\ c = request[t].card
           /\ request[t][f] # None \/ "edited" \in trace[t].raced
<1> USE DEF IInv
<1>1. WriteStep(t)
  <2>1. ~Receive(t)
    BY DEF Receive, tables
  <2>2. ~QuietStep(t)
    BY QuietFacts DEF tables
  <2> QED
    BY <2>1, <2>2, StepKinds
<1>2. cards[c] \in CardRow
  BY RowsShape DEF Inv, Intact
<1>3. \A moved, k : Repositioned(moved, k)[c][f] = cards[c][f]
  BY <1>2 DEF Repositioned, CardRow
<1>4. EditCard(t)
  <2>1. ~(\/ CreateBoard(t) \/ RenameBoard(t) \/ CreateColumn(t) \/ ChangeColumn(t))
    BY DEF CreateBoard, RenameBoard, CreateColumn, ChangeColumn, InsertColumn, tables
  <2>2. ~(\/ RemoveBoard(t) \/ RemoveColumn(t) \/ RemoveCard(t))
    BY RowsShape DEF RemoveBoard, RemoveColumn, RemoveCard, DeleteBoard, DeleteColumn,
       DeleteCard, WithoutColumns, Inv, Intact
  <2>3. ~MoveCard(t)
    BY <1>3 DEF MoveCard, UpdateCardPosition
  <2>4. ~CreateCard(t)
    <3>1. SUFFICES ASSUME CreateCard(t) PROVE FALSE
      OBVIOUS
    <3>2. /\ InsertCard(request[t].card, NewCard(t), Moved(t))
          /\ pc[t] \in Working /\ UseCase(t) = "CreateCard"
      BY <3>1 DEF CreateCard, Writes, Working, Entered
    <3>3. c # request[t].card
      BY <3>2, NewIdsOf DEF Ids, Fresh
    <3>4. cards'[c] = Repositioned(Moved(t), NewCard(t).column)[c]
      BY <3>2, <3>3 DEF InsertCard
    <3> QED
      BY <1>3, <3>4
  <2> QED
    BY <1>1, <2>1, <2>2, <2>3, <2>4 DEF WriteStep
<1>5. /\ Writes(t, "EditCard")
      /\ UpdateCardContent(request[t].card, Merged(t, "title"),
                           Merged(t, "description"))
  BY <1>4 DEF EditCard
<1>6. c = request[t].card
  BY <1>5, RowsShape DEF UpdateCardContent, Inv, Intact
<1>7. cards'[c][f] = Merged(t, f)
  BY <1>2, <1>5, <1>6, RowsShape DEF UpdateCardContent, CardRow, Inv, Intact
<1>8. request[t][f] = None => Merged(t, f) = frame[t].row[f]
  BY DEF Merged
<1>9. \/ "edited" \in trace[t].raced
      \/ cards[c][f] = frame[t].row[f]
  <2>1. \/ "edited" \in trace[t].raced
        \/ /\ cards[c].title = frame[t].row.title
           /\ cards[c].description = frame[t].row.description
    BY <1>5, <1>6 DEF Unedited, Local
  <2>2. CASE f = "title"
    BY <2>1, <2>2
  <2>3. CASE f = "description"
    BY <2>1, <2>3
  <2> QED
    BY <2>2, <2>3
<1> QED
  BY <1>6, <1>7, <1>8, <1>9

(* EditCard writes whole rows and still changes only what its body names,  *)
(* unless the row was edited after it was read (cards.go:54-83).           *)
THEOREM UnnamedFieldsAreKept == Spec => UnnamedFieldsSurvive
<1> DEFINE Kept ==
       \A t \in Requests, c \in Cards, f \in {"title", "description"} :
          /\ pc'[t] # pc[t] /\ cards[c] # NoCard /\ cards'[c] # NoCard
          /\ cards'[c][f] # cards[c][f]
          => /\ c = request[t].card
             /\ request[t][f] # None \/ "edited" \in trace[t].raced
<1>1. ASSUME IInv, Next PROVE Kept
  <2>1. PICK u \in Requests : Step(u)
    BY <1>1 DEF Next
  <2> SUFFICES ASSUME NEW t \in Requests, NEW c \in Cards,
                      NEW f \in {"title", "description"},
                      pc'[t] # pc[t], cards[c] # NoCard, cards'[c] # NoCard,
                      cards'[c][f] # cards[c][f]
               PROVE  /\ c = request[t].card
                      /\ request[t][f] # None \/ "edited" \in trace[t].raced
    OBVIOUS
  <2>2. t = u
    BY <1>1, <2>1, OnlyTheActorMoves DEF IInv
  <2> QED
    BY <1>1, <2>1, <2>2, EditsAreAsked
<1>2. ASSUME IInv, [Next]_vars PROVE [Kept]_vars
  BY <1>1, <1>2
<1>3. Spec => [][Kept]_vars
  BY <1>2, Invariance, PTL DEF Spec
<1> QED
  BY <1>3 DEF UnnamedFieldsSurvive

LEMMA TreeIsComplete ==
    ASSUME IInv, NEW t \in Requests, Step(t), answer'[t] # answer[t],
           answer'[t] = "ok", request[t].op = "GetBoard", NEW c \in trace[t].stayed
    PROVE  \/ frame'[t].tree[c] = cards[c].column
           \/ /\ frame'[t].tree[c] = None
              /\ cards[c].column \in trace[t].fresh
<1> USE DEF IInv, Inv, Shape, TypeOK
<1>1. ~Receive(t)
  BY DEF Receive
<1>2. ~WriteStep(t)
  BY WriteFacts
<1>3. QuietStep(t)
  BY <1>1, <1>2, StepKinds
<1>4. \A error \in Errors : ~Refuse(t, error)
  BY DEF Refuse, Answer, Errors
<1>5. ~Publish(t)
  BY DEF Publish, Staged
<1>6. ReadTree(t) /\ pc[t] = "cards"
  <2>1. ~(\/ RefuseTitle(t) \/ ForeignKeyFails(t) \/ Fail(t) \/ LoadToEdit(t)
          \/ LoadToMove(t) \/ AuthorizeTarget(t) \/ LoseConflict(t)
          \/ ReadBoard(t))
    BY <1>4 DEF RefuseTitle, ForeignKeyFails, Fail, AuthorizeTarget,
       LoadToEdit, LoadToMove, LoseConflict, ReadBoard, Errors
  <2>2. ~Place(t) /\ ~(CreateBoard(t) /\ pc[t] = "authorize")
    BY DEF Place, CreateBoard
  <2>3. ~Authorize(t)
    BY <1>4 DEF Authorize, Denied, Errors
  <2>4. ReadTree(t)
    BY <1>3, <1>5, <2>1, <2>2, <2>3 DEF QuietStep
  <2> QED
    BY <2>4 DEF ReadTree
<1>7. trace[t] \in Trace /\ frame[t] \in Frame
  OBVIOUS
<1>8. c \in Cards /\ cards[c] # NoCard /\ columns[cards[c].column] = request[t].board
  BY <1>6, <1>7 DEF Local, Reading, Trace
<1>9. cards[c].column \in Columns
  BY <1>8, RowsShape, CardRowsAreCards
<1>10. cards[c].column \in frame[t].lanes \cup trace[t].fresh
  BY <1>6, <1>8, <1>9 DEF Local, Reading
<1>11. c \in ListCardsByBoard(request[t].board)
  BY <1>8 DEF ListCardsByBoard
<1>12. frame'[t].tree =
          AssembleTree(frame[t].lanes, ListCardsByBoard(request[t].board))
  BY <1>6, <1>7 DEF ReadTree, Frame
<1> QED
  BY <1>8, <1>10, <1>11, <1>12 DEF AssembleTree

(* The three reads of GetBoard show every card that was on the board all   *)
(* the while, save those in columns that were inserted between the second  *)
(* read and the third (board.go:60-86).                                    *)
THEOREM TreesMissOnlyNewColumns == Spec => ReadsMissOnlyNewColumns
<1> DEFINE Complete ==
       \A t \in Requests :
          answer'[t] # answer[t] /\ answer'[t] = "ok"
             /\ request[t].op = "GetBoard" =>
             \A c \in trace[t].stayed :
                \/ frame'[t].tree[c] = cards[c].column
                \/ frame'[t].tree[c] = None /\ cards[c].column \in trace[t].fresh
<1>1. ASSUME IInv, Next PROVE Complete
  <2>1. PICK u \in Requests : Step(u)
    BY <1>1 DEF Next
  <2> SUFFICES ASSUME NEW t \in Requests, answer'[t] # answer[t],
                      answer'[t] = "ok", request[t].op = "GetBoard",
                      NEW c \in trace[t].stayed
               PROVE  \/ frame'[t].tree[c] = cards[c].column
                      \/ /\ frame'[t].tree[c] = None
                         /\ cards[c].column \in trace[t].fresh
    OBVIOUS
  <2>2. t = u
    <3>1. CASE Receive(u)
      BY <3>1 DEF Receive
    <3>2. CASE QuietStep(u)
      BY <1>1, <3>2, QuietFacts DEF IInv
    <3>3. CASE WriteStep(u)
      BY <1>1, <3>3, WriteFacts DEF IInv
    <3> QED
      BY <2>1, <3>1, <3>2, <3>3, StepKinds
  <2> QED
    BY <1>1, <2>1, <2>2, TreeIsComplete
<1>2. ASSUME IInv, [Next]_vars PROVE [Complete]_vars
  BY <1>1, <1>2
<1>3. Spec => [][Complete]_vars
  BY <1>2, Invariance, PTL DEF Spec
<1> QED
  BY <1>3 DEF ReadsMissOnlyNewColumns
-----------------------------------------------------------------------------
(* What the room of its board is told of a request's changes: until it     *)
(* answers, a request that has one use case has changed nothing, and one   *)
(* that is about to publish has an event for its board.                    *)
Heard(t) ==
    /\ pc[t] = "idle" => trace[t].touched = {}
    /\ pc[t] \in Working =>
          \/ Len(UseCases(request[t])) = 2
          \/ trace[t].touched = {} /\ todo[t] = UseCases(request[t])
    /\ pc[t] = "publish" =>
          \/ trace[t].touched = {} \/ request[t].op = "CreateBoard"
          \/ \E i \in DOMAIN events[t] :
                Broadcast(events[t][i].type) /\ events[t][i].board = frame[t].home
    /\ pc[t] = "done" /\ request[t].op # "CreateBoard" =>
          \/ trace[t].touched \cap {frame[t].home} \subseteq sent[t]
          \/ answer[t] # "ok" /\ Len(UseCases(request[t])) = 2

LEMMA HeardElsewhere ==
    ASSUME NEW u \in Requests, Heard(u),
           pc'[u] = pc[u], request'[u] = request[u], todo'[u] = todo[u],
           frame'[u] = frame[u], events'[u] = events[u], sent'[u] = sent[u],
           answer'[u] = answer[u], trace'[u].touched = trace[u].touched
    PROVE  Heard(u)'
  BY DEF Heard

(* Only a PATCH of a column or a card calls two use cases. *)
LEMMA LengthOfUseCases ==
    ASSUME NEW r
    PROVE  /\ Len(UseCases(r)) \in 0 .. 2
           /\ r.op \notin {"UpdateColumn", "UpdateCard"} => UseCases(r) = <<r.op>>
           /\ Len(UseCases(r)) # 2 /\ UseCases(r) # <<>> => Tail(UseCases(r)) = <<>>
<1>1. \A x, y : Len(<<x>> \o <<y>>) = 2
  OBVIOUS
<1>2. \A x : /\ Len(<<x>>) = 1 /\ Tail(<<x>>) = <<>>
             /\ <<x>> \o <<>> = <<x>> /\ <<>> \o <<x>> = <<x>>
  OBVIOUS
<1>3. Len(<<>>) = 0 /\ <<>> \o <<>> = <<>>
  OBVIOUS
<1>4. CASE r.op = "UpdateColumn"
  BY <1>1, <1>2, <1>3, <1>4 DEF UseCases
<1>5. CASE r.op = "UpdateCard"
  BY <1>1, <1>2, <1>3, <1>5 DEF UseCases
<1>6. CASE r.op \notin {"UpdateColumn", "UpdateCard"}
  BY <1>2, <1>6 DEF UseCases
<1> QED
  BY <1>4, <1>5, <1>6

(* A quiet step changes no board; one that ends a request other than a     *)
(* GetBoard, and is not the Publish, refuses it.                           *)
LEMMA QuietHistory ==
    ASSUME Inv, NEW t \in Requests, QuietStep(t)
    PROVE  /\ events' = events
           /\ trace'[t].touched = trace[t].touched
           /\ \A u \in Requests \ {t} : sent'[u] = sent[u]
           /\ Publish(t) \/ /\ pc[t] \in Working
                            /\ pc'[t] \in Working \cup {"done"}
                            /\ pc'[t] = "done" =>
                                  answer'[t] # "ok" \/ request[t].op = "GetBoard"
<1> DEFINE Quiet == /\ events' = events /\ sent' = sent
                    /\ trace'[t].touched = trace[t].touched
           Ends == /\ pc[t] \in Working
                   /\ pc'[t] \in Working \cup {"done"}
                   /\ pc'[t] = "done" =>
                         answer'[t] # "ok" \/ request[t].op = "GetBoard"
<1>0. /\ pc \in [Requests -> Labels] /\ trace \in [Requests -> Trace]
      /\ answer \in [Requests -> Errors \cup {"none", "ok"}]
      /\ sent \in [Requests -> SUBSET Boards]
  BY DEF Inv, Shape, TypeOK, Labels, Errors
<1>1. ASSUME NEW error \in Errors, Refuse(t, error), pc[t] \in Working
      PROVE  Quiet /\ Ends
  BY <1>0, <1>1 DEF Refuse, Answer, Goto, Errors
<1>2. CASE Authorize(t)
  <2>1. pc[t] \in Working /\ Denied(t, Membership(t)) \in Errors \cup {"no"}
    BY <1>2 DEF Authorize, Denied, Errors, Working
  <2>2. CASE Denied(t, Membership(t)) = "no"
    <3>1. FirstStatement(UseCase(t)) \in Working
      BY DEF FirstStatement, Working, Entered
    <3> QED
      BY <1>0, <1>2, <2>1, <2>2, <3>1 DEF Authorize, Goto, Trace, Working, Entered
  <2> QED
    BY <1>1, <1>2, <2>1, <2>2 DEF Authorize
<1>3. CASE RefuseTitle(t)
  BY <1>1, <1>3 DEF RefuseTitle, Errors, Working
<1>4. CASE LoadToEdit(t)
  <2>1. pc[t] \in Working
    BY <1>4 DEF LoadToEdit, Working, Entered
  <2>2. CASE \E error \in Errors : Refuse(t, error)
    BY <1>1, <2>1, <2>2
  <2>3. CASE ~\E error \in Errors : Refuse(t, error)
    BY <1>0, <1>4, <2>1, <2>3 DEF LoadToEdit, Goto, Errors, Trace, Working, Entered
  <2> QED
    BY <2>2, <2>3
<1>5. CASE LoadToMove(t)
  BY <1>0, <1>1, <1>5 DEF LoadToMove, Goto, Errors, Working, Entered
<1>6. CASE AuthorizeTarget(t)
  BY <1>0, <1>1, <1>6 DEF AuthorizeTarget, Goto, Errors, Working, Entered
<1>7. CASE Place(t)
  BY <1>0, <1>7 DEF Place, Goto, Working, Entered
<1>8. CASE ReadBoard(t)
  BY <1>0, <1>1, <1>8 DEF ReadBoard, Goto, Errors, Trace, Working, Entered
<1>9. CASE ReadTree(t)
  <2>1. pc[t] \in Working /\ pc[t] \in {"columns", "cards"}
    BY <1>9 DEF ReadTree, Working, Entered
  <2>2. UseCase(t) = "GetBoard"
    BY <2>1 DEF Inv, Shape, Staged
  <2>3. request[t].op = "GetBoard"
    BY <2>1, <2>2, StagedTodo DEF Inv, UsesOf
  <2> QED
    BY <1>0, <1>9, <2>1, <2>3 DEF ReadTree, Goto, Answer, Trace, Working, Entered
<1>10. CASE CreateBoard(t) /\ pc[t] = "authorize"
  BY <1>0, <1>10 DEF CreateBoard, Goto, Working, Entered
<1>11. CASE ForeignKeyFails(t)
  BY <1>1, <1>11 DEF ForeignKeyFails, Writes, Errors, Working, Entered
<1>12. CASE LoseConflict(t)
  BY <1>0, <1>1, <1>12 DEF LoseConflict, Writes, Goto, Errors, Working, Entered
<1>13. CASE Fail(t)
  <2>1. pc[t] \in Working
    BY <1>0, <1>13 DEF Fail, Labels, Working, Entered
  <2> QED
    BY <1>1, <1>13, <2>1 DEF Fail, Errors
<1>14. CASE Publish(t)
  BY <1>0, <1>14 DEF Publish
<1> QED
  BY <1>2, <1>3, <1>4, <1>5, <1>6, <1>7, <1>8, <1>9, <1>10, <1>11, <1>12,
     <1>13, <1>14 DEF QuietStep

(* A write records its event for the board it was let in to, and only the  *)
(* events of boards themselves have no wire type.                          *)
LEMMA WriteHistory ==
    ASSUME Inv, NEW t \in Requests, WriteStep(t)
    PROVE  \E type, where :
              /\ Succeed(t, type) /\ Record(t, where)
              /\ type \in UsesOf(request[t].op)
              /\ type = "DeleteBoard" => where = {}
<1>1. pc[t] \in Working
  BY WriteFacts DEF Working, Entered
<1>2. UseCase(t) \in UsesOf(request[t].op)
  BY <1>1, StagedTodo DEF Inv
<1>3. pc[t] = "member" => UseCase(t) = "CreateBoard"
  BY DEF Inv, Shape, Staged
<1> QED
  BY <1>2, <1>3 DEF WriteStep, CreateBoard, RenameBoard, RemoveBoard, CreateColumn,
     ChangeColumn, RemoveColumn, CreateCard, EditCard, MoveCard, RemoveCard, Writes

LEMMA HeardReceive ==
    ASSUME Inv, NEW t \in Requests, Heard(t), Receive(t)
    PROVE  Heard(t)'
<1>1. PICK r \in Menu :
         /\ pc[t] = "idle"
         /\ request' = [request EXCEPT ![t] = r]
         /\ todo' = [todo EXCEPT ![t] = UseCases(r)]
         /\ Goto(t, IF UseCases(r) = <<>> THEN "publish" ELSE "authorize")
         /\ trace' = trace
  BY DEF Receive
<1>2. request'[t] = r /\ todo'[t] = UseCases(r) /\ trace'[t].touched = {}
  BY <1>1 DEF Heard, Inv, Shape, TypeOK
<1>3. pc'[t] \in {"publish", "authorize"}
  BY <1>1 DEF Goto, Inv, Shape, TypeOK
<1>4. UseCases(request[t])' = UseCases(r)
  BY <1>2 DEF UseCases
<1> QED
  BY <1>2, <1>3, <1>4 DEF Heard, Working, Entered

LEMMA HeardQuiet ==
    ASSUME Inv, NEW t \in Requests, Heard(t), QuietStep(t)
    PROVE  Heard(t)'
<1>0. /\ request' = request /\ todo' = todo /\ events' = events
      /\ trace'[t].touched = trace[t].touched
  BY QuietFacts, QuietHistory
<1>1. CASE Publish(t)
  <2>1. /\ pc[t] = "publish" /\ pc'[t] = "done" /\ frame' = frame
        /\ sent'[t] = {events[t][i].board :
              i \in {j \in DOMAIN events[t] : Broadcast(events[t][j].type)}}
    BY <1>1 DEF Publish, Answer, Goto, Inv, Shape, TypeOK
  <2>2. \/ trace[t].touched = {} \/ request[t].op = "CreateBoard"
        \/ frame[t].home \in sent'[t]
    BY <2>1 DEF Heard
  <2> QED
    BY <1>0, <2>1, <2>2 DEF Heard, Working, Entered
<1>2. CASE ~Publish(t)
  <2>1. /\ pc[t] \in Working
        /\ pc'[t] \in Working \cup {"done"}
        /\ pc'[t] = "done" => answer'[t] # "ok" \/ request[t].op = "GetBoard"
    BY <1>2, QuietHistory
  <2>2. request[t].op = "GetBoard" => Len(UseCases(request[t])) = 1
    BY LengthOfUseCases
  <2>3. UseCases(request[t])' = UseCases(request[t])
    BY <1>0 DEF UseCases
  <2> QED
    BY <1>0, <2>1, <2>2, <2>3 DEF Heard, Working, Entered
<1> QED
  BY <1>1, <1>2

LEMMA HeardWrite ==
    ASSUME Inv, NEW t \in Requests, Heard(t), WriteStep(t)
    PROVE  Heard(t)'
<1>1. PICK type, where :
         /\ Succeed(t, type) /\ Record(t, where)
         /\ type \in UsesOf(request[t].op)
         /\ type = "DeleteBoard" => where = {}
  BY WriteHistory
<1>2. /\ pc[t] \in Working /\ request' = request /\ frame' = frame
      /\ pc'[t] \in {"publish", "authorize"}
  BY WriteFacts DEF Working, Entered
<1>3. /\ todo'[t] = Tail(todo[t])
      /\ pc'[t] = IF Tail(todo[t]) = <<>> THEN "publish" ELSE "authorize"
  BY <1>1 DEF Succeed, Goto, Inv, Shape, TypeOK
<1>4. trace'[t].touched = trace[t].touched \cup where
  BY <1>1 DEF Record
<1>5. todo[t] # <<>>
  BY <1>2 DEF Inv, Shape, Staged
<1>6. UseCases(request[t])' = UseCases(request[t])
  BY <1>2 DEF UseCases
<1>7. pc'[t] = "authorize" => Len(UseCases(request[t])) = 2
  BY <1>2, <1>3, <1>5, LengthOfUseCases DEF Heard
<1>8. \E i \in DOMAIN events'[t] :
         events'[t][i].type = type /\ events'[t][i].board = frame[t].home
  <2> DEFINE event == [type |-> type, board |-> frame[t].home]
  <2>1. events'[t] = Append(events[t], event)
    BY <1>1 DEF Succeed, Inv, Shape, TypeOK
  <2>2. events[t] \in Seq([type : UseCaseName, board : Boards])
    BY DEF Inv, Shape, TypeOK
  <2>3. event.type = type /\ event.board = frame[t].home
    OBVIOUS
  <2> HIDE DEF event
  <2>4. /\ Len(events[t]) + 1 \in DOMAIN Append(events[t], event)
        /\ Append(events[t], event)[Len(events[t]) + 1] = event
    BY <2>2
  <2> QED
    BY <2>1, <2>3, <2>4
<1>9. \/ Broadcast(type) \/ request[t].op = "CreateBoard"
      \/ trace'[t].touched = {}
  <2>1. CASE type = "CreateBoard"
    BY <1>1, <2>1 DEF UsesOf
  <2>2. CASE type = "DeleteBoard"
    <3>1. request[t].op = "DeleteBoard"
      BY <1>1, <2>2 DEF UsesOf
    <3>2. Len(UseCases(request[t])) = 1
      BY <3>1, LengthOfUseCases
    <3> QED
      BY <1>1, <1>2, <1>4, <2>2, <3>2 DEF Heard
  <2> QED
    BY <2>1, <2>2 DEF Broadcast
<1> QED
  BY <1>2, <1>6, <1>7, <1>8, <1>9 DEF Heard, Working, Entered

LEMMA HeardStep ==
    ASSUME Inv, NEW t \in Requests, Step(t), \A u \in Requests : Heard(u)
    PROVE  \A u \in Requests : Heard(u)'
<1>1. CASE Receive(t)
  <2>1. ASSUME NEW u \in Requests \ {t}
        PROVE  Heard(u)'
    BY <1>1, HeardElsewhere DEF Receive, Goto, Inv, Shape, TypeOK
  <2> QED
    BY <1>1, <2>1, HeardReceive
<1>2. CASE QuietStep(t)
  <2>1. ASSUME NEW u \in Requests \ {t}
        PROVE  Heard(u)'
    BY <1>2, QuietFacts, QuietHistory, HeardElsewhere
  <2> QED
    BY <1>2, <2>1, HeardQuiet
<1>3. CASE WriteStep(t)
  <2>1. PICK type, where : Succeed(t, type) /\ Record(t, where)
    BY <1>3, WriteHistory
  <2>2. ASSUME NEW u \in Requests \ {t}
        PROVE  Heard(u)'
    <3>1. /\ pc'[u] = pc[u] /\ todo'[u] = todo[u] /\ request' = request
          /\ frame' = frame /\ answer' = answer
      BY <1>3, WriteFacts
    <3>2. events'[u] = events[u] /\ sent' = sent
      BY <2>1 DEF Succeed, Inv, Shape, TypeOK
    <3>3. trace'[u].touched = trace[u].touched
      BY <2>1 DEF Record
    <3> QED
      BY <3>1, <3>2, <3>3, HeardElsewhere
  <2> QED
    BY <1>3, <2>2, HeardWrite
<1> QED
  BY <1>1, <1>2, <1>3, StepKinds

(* Whoever watches a board hears of every change that a request makes to   *)
(* it once the request is answered, the half-done PATCH excepted.          *)
THEOREM ChangesAreAnnounced == Spec => []OnlyHalfDonePatchesAreSilent
<1> DEFINE AllHeard == \A t \in Requests : Heard(t)
<1>1. Init => AllHeard
  BY DEF Init, Heard, Working, Entered
<1>2. ASSUME IInv, AllHeard, [Next]_vars
      PROVE  AllHeard'
  <2>1. CASE Next
    BY <1>2, <2>1, HeardStep DEF Next, IInv
  <2>2. CASE UNCHANGED vars
    <3>1. UNCHANGED <<pc, request, todo, frame, events, sent, answer, trace>>
      BY <2>2 DEF vars
    <3> QED
      BY <1>2, <3>1 DEF Heard
  <2> QED
    BY <1>2, <2>1, <2>2
<1>3. AllHeard => OnlyHalfDonePatchesAreSilent
  BY DEF Heard, OnlyHalfDonePatchesAreSilent
<1> QED
  BY <1>1, <1>2, <1>3, Invariance, PTL DEF Spec
=============================================================================
