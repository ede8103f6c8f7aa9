----------------------------- MODULE BoardTree -----------------------------
(***************************************************************************)
(* The board, column and card routes (adapter/http/board_handlers.go) with *)
(* their use cases (app/board) as concurrent request goroutines over the   *)
(* tables of BoardRows, one SQL statement a step.                          *)
(*                                                                         *)
(* Where a row lands among its siblings is CardOrder's subject.  Here a    *)
(* placement may renormalize, and any attempt may lose to a clash.         *)
(***************************************************************************)
EXTENDS BoardRows

CONSTANTS Requests,
          Menu,        \* the requests clients may make
          Blank,       \* a title that ValidateTitle refuses
          Empty,       \* the description of a new card
          Databases    \* the tables a run may start from

RequestType ==
    [op : {"CreateBoard", "GetBoard", "RenameBoard", "DeleteBoard",
           "CreateColumn", "UpdateColumn", "DeleteColumn",
           "CreateCard", "UpdateCard", "DeleteCard"},
     user : Users,
     board : Boards \cup {None}, column : Columns \cup {None},
     card : Cards \cup {None},
     title : Texts \cup {None, Blank}, description : Texts \cup {None},
     place : BOOLEAN]   \* whether the body has a position

NoRequest ==
    [op |-> "none", user |-> None, board |-> None, column |-> None,
     card |-> None, title |-> None, description |-> None, place |-> FALSE]

(* The path of a route names its row, newID the new one; a title that is   *)
(* missing from the body of a new card is blank.                           *)
IsAddressed(r) ==
    /\ r.op \in {"CreateBoard", "GetBoard", "RenameBoard", "DeleteBoard",
                 "CreateColumn"} => r.board # None
    /\ r.op \in {"CreateColumn", "UpdateColumn", "DeleteColumn",
                 "CreateCard"} => r.column # None
    /\ r.op \in {"CreateCard", "UpdateCard", "DeleteCard"} => r.card # None
    /\ r.op = "CreateCard" => r.title # None

(* The foreign keys of the schema. *)
IsRooted(db) ==
    /\ \A k \in Columns : db.columns[k] # None => db.boards[db.columns[k]] # None
    /\ \A c \in Cards :
          db.cards[c] # NoCard => db.columns[db.cards[c].column] # None
    /\ \A b \in Boards : db.members[b] # Nobody => db.boards[b] # None

IsOwned(db) ==
    \A b \in Boards, u \in Users :
        db.boards[b] # None => (db.members[b][u] = "owner" <=> db.boards[b] = u)

ASSUME TreeAssumption ==
    /\ Blank \notin Texts \cup {None} /\ Empty \in Texts
    /\ None \notin Cards
    /\ Menu \subseteq RequestType /\ \A r \in Menu : IsAddressed(r)
    /\ Databases \subseteq Database
    /\ \A db \in Databases : IsRooted(db) /\ IsOwned(db)

VARIABLES pc, request,
          todo,      \* the use cases that the handler still has to call
          frame,     \* what the current use case has read
          events,    \* what the use cases returned
          sent,      \* the rooms that the handler has published to
          answer,
          known,     \* the ids that were given out
          gone,      \* history: the boards and columns that were deleted
          trace      \* history: what happened around each request

vars == <<tables, pc, request, todo, frame, events, sent, answer, known,
          gone, trace>>

UseCaseName ==
    {"CreateBoard", "GetBoard", "RenameBoard", "DeleteBoard", "CreateColumn",
     "RenameColumn", "ReorderColumn", "DeleteColumn", "CreateCard",
     "EditCard", "MoveCard", "DeleteCard"}

Frame == [home : Boards \cup {None},     \* the board of the membership
          row : CardRow \cup {NoCard},   \* the card as GetCard returned it
          dest : Columns \cup {None},    \* the column of the placement
          rewrites : SUBSET Cards,       \* the siblings to renormalize
          lanes : SUBSET Columns,        \* the columns GetBoard has listed
          tree : [Cards -> Columns \cup {None}]]   \* and where it shows cards

Trace == [touched : SUBSET Boards,       \* boards whose rows it changed
          raced : SUBSET {"carried", "edited"},  \* what befell its card
          stayed : SUBSET Cards,         \* on the board since GetBoard
          fresh : SUBSET Columns]        \* inserted since ListColumns

TypeOK ==
    /\ RowsTypeOK
    /\ pc \in [Requests ->
          {"idle", "authorize", "load", "target", "place", "write", "member",
           "board", "columns", "cards", "publish", "done"}]
    /\ request \in [Requests -> RequestType \cup {NoRequest}]
    /\ todo \in [Requests -> Seq(UseCaseName)]
    /\ frame \in [Requests -> Frame]
    /\ events \in [Requests -> Seq([type : UseCaseName, board : Boards])]
    /\ sent \in [Requests -> SUBSET Boards]
    /\ answer \in [Requests -> {"none", "ok", "not_found", "forbidden",
                                "invalid", "conflict", "internal", "failed"}]
    /\ known \subseteq Boards \cup Columns \cup Cards
    /\ gone \subseteq Boards \cup Columns
    /\ trace \in [Requests -> Trace]

Init ==
    /\ \E db \in Databases :
          /\ boards = db.boards /\ members = db.members
          /\ columns = db.columns /\ cards = db.cards
    /\ known = {b \in Boards : boards[b] # None}
               \cup {k \in Columns : columns[k] # None}
               \cup {c \in Cards : cards[c] # NoCard}
    /\ pc = [t \in Requests |-> "idle"]
    /\ request = [t \in Requests |-> NoRequest]
    /\ todo = [t \in Requests |-> <<>>]
    /\ frame = [t \in Requests |->
          [home |-> None, row |-> NoCard, dest |-> None, rewrites |-> {},
           lanes |-> {}, tree |-> [c \in Cards |-> None]]]
    /\ events = [t \in Requests |-> <<>>]
    /\ sent = [t \in Requests |-> {}]
    /\ answer = [t \in Requests |-> "none"]
    /\ gone = {}
    /\ trace = [t \in Requests |->
          [touched |-> {}, raced |-> {}, stayed |-> {}, fresh |-> {}]]

Goto(t, label) == pc' = [pc EXCEPT ![t] = label]

Answer(t, reply) ==
    /\ Goto(t, "done")
    /\ answer' = [answer EXCEPT ![t] = reply]

UseCase(t) == Head(todo[t])
-----------------------------------------------------------------------------
(* The handlers *)

(* A PATCH with fields of both kinds calls two use cases, one with none    *)
(* calls no use case.                                                      *)
UseCases(r) ==
    CASE r.op = "UpdateColumn" ->
            (IF r.title # None THEN <<"RenameColumn">> ELSE <<>>)
            \o (IF r.place THEN <<"ReorderColumn">> ELSE <<>>)
      [] r.op = "UpdateCard" ->
            (IF r.title # None \/ r.description # None
             THEN <<"EditCard">> ELSE <<>>)
            \o (IF r.column # None \/ r.place THEN <<"MoveCard">> ELSE <<>>)
      [] OTHER -> <<r.op>>

NewIds(r) ==
    CASE r.op = "CreateBoard" -> {r.board}
      [] r.op = "CreateColumn" -> {r.column}
      [] r.op = "CreateCard" -> {r.card}
      [] OTHER -> {}

(* The bearer token has named the user; the ids that newID will return are *)
(* part of the request.                                                    *)
Receive(t) ==
    \E r \in Menu :
        /\ pc[t] = "idle" /\ NewIds(r) \cap known = {}
        /\ request' = [request EXCEPT ![t] = r]
        /\ todo' = [todo EXCEPT ![t] = UseCases(r)]
        /\ known' = known \cup NewIds(r)
        /\ Goto(t, IF UseCases(r) = <<>> THEN "publish" ELSE "authorize")
        /\ UNCHANGED <<tables, frame, events, sent, answer, gone, trace>>

(* A use case has returned its event: the handler appends it and goes on.  *)
Succeed(t, type) ==
    /\ events' = [events EXCEPT
          ![t] = Append(@, [type |-> type, board |-> frame[t].home])]
    /\ todo' = [todo EXCEPT ![t] = Tail(@)]
    /\ Goto(t, IF Tail(todo[t]) = <<>> THEN "publish" ELSE "authorize")
    /\ UNCHANGED <<request, frame, sent, answer, known>>

(* An error ends the handler before it publishes. *)
Refuse(t, error) ==
    /\ Answer(t, error)
    /\ UNCHANGED <<tables, request, todo, frame, events, sent, known, gone,
                   trace>>

SlipBroadcast(type) == type \notin {"CreateBoard", "DeleteBoard", "DeleteCard"}

(* The event types that the mapper gives a wire type. *)
Broadcast(type) == type \notin {"CreateBoard", "DeleteBoard"}

Publish(t) ==
    /\ pc[t] = "publish"
    /\ sent' = [sent EXCEPT ![t] =
          {events[t][i].board :
             i \in {j \in DOMAIN events[t] : Broadcast(events[t][j].type)}}]
    /\ Answer(t, "ok")
    /\ UNCHANGED <<tables, request, todo, frame, events, known, gone, trace>>
-----------------------------------------------------------------------------
(* History *)

BoardOfColumn(k) == {columns[k]} \ {None}
BoardOfCard(c) == IF cards[c] = NoCard THEN {} ELSE BoardOfColumn(cards[c].column)

(* What this step does to a card that it leaves in the table. *)
Races(c) ==
    IF c = None \/ cards[c] = NoCard \/ cards'[c] = NoCard THEN {}
    ELSE {kind \in {"carried", "edited"} :
             CASE kind = "carried" ->
                     columns[cards[c].column] # columns'[cards'[c].column]
               [] kind = "edited" ->
                     \/ cards'[c].title # cards[c].title
                     \/ cards'[c].description # cards[c].description}

Record(t, where) ==
    /\ gone' = gone
          \cup {b \in Boards : boards[b] # None /\ boards'[b] = None}
          \cup {k \in Columns : columns[k] # None /\ columns'[k] = None}
    /\ trace' = [u \in Requests |->
          [touched |-> trace[u].touched \cup (IF u = t THEN where ELSE {}),
           raced |-> trace[u].raced \cup
              (IF u = t THEN {} ELSE Races(request[u].card)),
           stayed |-> {c \in trace[u].stayed : cards'[c] # NoCard
              /\ columns'[cards'[c].column] = request[u].board},
           fresh |-> trace[u].fresh \cup
              {k \in Columns : columns[k] = None /\ columns'[k] # None}]]
-----------------------------------------------------------------------------
(* Before the write *)

Membership(t) ==
    LET r == request[t] IN
    CASE r.op \in {"GetBoard", "RenameBoard", "DeleteBoard", "CreateColumn"} ->
            MembershipByBoard(r.board, r.user)
      [] r.op \in {"UpdateColumn", "DeleteColumn", "CreateCard"} ->
            MembershipByColumn(r.column, r.user)
      [] OTHER -> MembershipByCard(r.card, r.user)

(* These use cases look at the title before anything else. *)
TitleRefused(t) ==
    /\ request[t].title = Blank
    /\ UseCase(t) \in {"CreateBoard", "RenameBoard", "CreateColumn",
                       "RenameColumn", "CreateCard"}

Denied(t, membership) ==
    CASE membership.role = "none" -> "not_found"
      [] UseCase(t) = "DeleteBoard" /\ membership.role # "owner" -> "forbidden"
      [] OTHER -> "no"

FirstStatement(usecase) ==
    CASE usecase = "GetBoard" -> "board"
      [] usecase \in {"EditCard", "MoveCard"} -> "load"
      [] usecase = "CreateCard" -> "place"
      [] OTHER -> "write"

Authorize(t) ==
    LET membership == Membership(t) IN
    /\ pc[t] = "authorize" /\ UseCase(t) # "CreateBoard" /\ ~TitleRefused(t)
    /\ IF Denied(t, membership) # "no"
       THEN Refuse(t, Denied(t, membership))
       ELSE /\ frame' = [frame EXCEPT ![t].home = membership.board,
                                      ![t].dest = request[t].column]
            /\ trace' = [trace EXCEPT ![t].raced = {}]
            /\ Goto(t, FirstStatement(UseCase(t)))
            /\ UNCHANGED <<tables, request, todo, events, sent, answer, known,
                           gone>>

RefuseTitle(t) ==
    /\ pc[t] = "authorize" /\ TitleRefused(t)
    /\ Refuse(t, "invalid")

SlipMerged(t, field) ==
    IF request[t][field] = None THEN Empty ELSE request[t][field]

(* The new value of a field that the body may leave out. *)
Merged(t, field) ==
    IF request[t][field] = None THEN frame[t].row[field] ELSE request[t][field]

(* GetCard of an EditCard, which then validates. *)
LoadToEdit(t) ==
    LET card == GetCard(request[t].card) IN
    /\ pc[t] = "load" /\ UseCase(t) = "EditCard"
    /\ CASE card = NoCard -> Refuse(t, "not_found")
         [] card # NoCard /\ request[t].title = Blank -> Refuse(t, "invalid")
         [] OTHER ->
            /\ frame' = [frame EXCEPT ![t].row = card]
            /\ trace' = [trace EXCEPT ![t].raced = @ \ {"edited"}]
            /\ Goto(t, "write")
            /\ UNCHANGED <<tables, request, todo, events, sent, answer, known,
                           gone>>

SlipLoadToMove(t) ==
    LET card == GetCard(request[t].card)
        stays == request[t].column \in {None, card.column}
    IN
    /\ pc[t] = "load" /\ UseCase(t) = "MoveCard"
    /\ IF card = NoCard
       THEN Refuse(t, "not_found")
       ELSE /\ frame' = [frame EXCEPT ![t].row = card,
                ![t].dest = IF stays THEN card.column ELSE request[t].column]
            /\ Goto(t, "place")
            /\ UNCHANGED <<tables, request, todo, events, sent, answer, known,
                           gone, trace>>

(* GetCard of a MoveCard; only another column than the card's is checked.  *)
LoadToMove(t) ==
    LET card == GetCard(request[t].card)
        stays == request[t].column \in {None, card.column}
    IN
    /\ pc[t] = "load" /\ UseCase(t) = "MoveCard"
    /\ IF card = NoCard
       THEN Refuse(t, "not_found")
       ELSE /\ frame' = [frame EXCEPT ![t].row = card,
                ![t].dest = IF stays THEN card.column ELSE request[t].column]
            /\ Goto(t, IF stays THEN "place" ELSE "target")
            /\ UNCHANGED <<tables, request, todo, events, sent, answer, known,
                           gone, trace>>

AuthorizeTarget(t) ==
    /\ pc[t] = "target"
    /\ IF MembershipByColumn(frame[t].dest, request[t].user) = NotFound
       THEN Refuse(t, "not_found")
       ELSE /\ Goto(t, "place")
            /\ UNCHANGED <<tables, request, todo, frame, events, sent, answer,
                           known, gone, trace>>

(* placeCard reads the siblings; it may have to renormalize them, the moved *)
(* card included.                                                           *)
Place(t) ==
    /\ pc[t] = "place"
    /\ \E rewrites \in {{}, ListCardsByColumn(frame[t].dest)} :
          frame' = [frame EXCEPT ![t].rewrites = rewrites]
    /\ Goto(t, "write")
    /\ UNCHANGED <<tables, request, todo, events, sent, answer, known, gone,
                   trace>>
-----------------------------------------------------------------------------
(* The reads of GetBoard *)

ReadBoard(t) ==
    /\ pc[t] = "board"
    /\ IF GetBoard(request[t].board) = None
       THEN Refuse(t, "not_found")
       ELSE /\ trace' = [trace EXCEPT
                  ![t].stayed = ListCardsByBoard(request[t].board)]
            /\ Goto(t, "columns")
            /\ UNCHANGED <<tables, request, todo, frame, events, sent, answer,
                           known, gone>>

(* The cards among those of the board whose column was listed. *)
AssembleTree(lanes, shown) ==
    [c \in Cards |-> IF c \in shown /\ cards[c].column \in lanes
                     THEN cards[c].column ELSE None]

SlipReadTree(t) ==
    /\ \/ /\ pc[t] = "columns"
          /\ frame' = [frame EXCEPT ![t].tree =
                [c \in Cards |-> IF c \in ListCardsByBoard(request[t].board)
                                 THEN cards[c].column ELSE None]]
          /\ Goto(t, "cards")
          /\ UNCHANGED answer
       \/ /\ pc[t] = "cards"
          /\ frame' = [frame EXCEPT ![t].tree =
                [c \in Cards |-> IF @[c] \in ListColumns(request[t].board)
                                 THEN @[c] ELSE None]]
          /\ Answer(t, "ok")
    /\ UNCHANGED <<tables, request, todo, events, sent, known, gone, trace>>

(* ListColumns, then ListCardsByBoard and the assembly. *)
ReadTree(t) ==
    /\ \/ /\ pc[t] = "columns"
          /\ frame' = [frame EXCEPT ![t].lanes = ListColumns(request[t].board)]
          /\ trace' = [trace EXCEPT ![t].fresh = {}]
          /\ Goto(t, "cards")
          /\ UNCHANGED answer
       \/ /\ pc[t] = "cards"
          /\ frame' = [frame EXCEPT ![t].tree =
                AssembleTree(frame[t].lanes, ListCardsByBoard(request[t].board))]
          /\ Answer(t, "ok")
          /\ UNCHANGED trace
    /\ UNCHANGED <<tables, request, todo, events, sent, known, gone>>
-----------------------------------------------------------------------------
(* The writes *)

Writes(t, usecase) == pc[t] = "write" /\ UseCase(t) = usecase

SlipCreateBoard(t) ==
    \/ /\ pc[t] = "authorize" /\ UseCase(t) = "CreateBoard" /\ ~TitleRefused(t)
       /\ InsertBoard(request[t].board, request[t].user)
       /\ Goto(t, "member")
       /\ UNCHANGED <<members, columns, cards, request, todo, frame, events,
                      sent, answer, known, gone, trace>>
    \/ /\ pc[t] = "member"
       /\ InsertMember(request[t].board, request[t].user, "owner")
       /\ Goto(t, "publish")
       /\ UNCHANGED <<boards, columns, cards, request, todo, frame, events,
                      sent, answer, known, gone, trace>>

(* Two inserts in one transaction: nobody sees the board before its owner. *)
CreateBoard(t) ==
    LET r == request[t] IN
    \/ /\ pc[t] = "authorize" /\ UseCase(t) = "CreateBoard" /\ ~TitleRefused(t)
       /\ Goto(t, "member")
       /\ frame' = [frame EXCEPT ![t].home = r.board]
       /\ UNCHANGED <<tables, request, todo, events, sent, answer, known, gone,
                      trace>>
    \/ /\ pc[t] = "member"
       /\ InsertBoard(r.board, r.user) /\ InsertMember(r.board, r.user, "owner")
       /\ UNCHANGED <<columns, cards>>
       /\ Succeed(t, "CreateBoard")
       /\ Record(t, {r.board})

RenameBoard(t) ==
    /\ Writes(t, "RenameBoard")
    /\ UNCHANGED tables
    /\ Succeed(t, "RenameBoard")
    /\ Record(t, {b \in {request[t].board} : boards[b] # None})

RemoveBoard(t) ==
    /\ Writes(t, "DeleteBoard")
    /\ DeleteBoard(request[t].board)
    /\ Succeed(t, "DeleteBoard")
    /\ Record(t, {})

CreateColumn(t) ==
    /\ Writes(t, "CreateColumn") /\ boards[request[t].board] # None
    /\ InsertColumn(request[t].column, request[t].board)
    /\ Succeed(t, "CreateColumn")
    /\ Record(t, {request[t].board})

(* The title and the place of a column are not modelled. *)
ChangeColumn(t) ==
    \E usecase \in {"RenameColumn", "ReorderColumn"} :
        /\ Writes(t, usecase)
        /\ UNCHANGED tables
        /\ Succeed(t, usecase)
        /\ Record(t, BoardOfColumn(request[t].column))

RemoveColumn(t) ==
    /\ Writes(t, "DeleteColumn")
    /\ DeleteColumn(request[t].column)
    /\ Succeed(t, "DeleteColumn")
    /\ Record(t, BoardOfColumn(request[t].column))

(* The rows that an UPDATE of this attempt finds. *)
Moved(t) == {c \in frame[t].rewrites \cup
                (IF UseCase(t) = "MoveCard" THEN {request[t].card} ELSE {}) :
             cards[c] # NoCard}

NewCard(t) == [column |-> frame[t].dest, title |-> request[t].title,
               description |-> Empty]

CreateCard(t) ==
    /\ Writes(t, "CreateCard") /\ columns[frame[t].dest] # None
    /\ InsertCard(request[t].card, NewCard(t), Moved(t))
    /\ Succeed(t, "CreateCard")
    /\ Record(t, BoardOfColumn(frame[t].dest))

EditCard(t) ==
    /\ Writes(t, "EditCard")
    /\ UpdateCardContent(request[t].card, Merged(t, "title"),
                         Merged(t, "description"))
    /\ Succeed(t, "EditCard")
    /\ Record(t, BoardOfCard(request[t].card))

(* No foreign key is looked at when there is no row to update. *)
MoveCard(t) ==
    /\ Writes(t, "MoveCard")
    /\ Moved(t) = {} \/ columns[frame[t].dest] # None
    /\ UpdateCardPosition(Moved(t), frame[t].dest)
    /\ Succeed(t, "MoveCard")
    /\ Record(t, IF cards[request[t].card] = NoCard THEN {}
                 ELSE BoardOfCard(request[t].card)
                      \cup BoardOfColumn(frame[t].dest))

RemoveCard(t) ==
    /\ Writes(t, "DeleteCard")
    /\ DeleteCard(request[t].card)
    /\ Succeed(t, "DeleteCard")
    /\ Record(t, BoardOfCard(request[t].card))

(* The parent is gone: the repository does not know the error of the       *)
(* foreign key, and the client is told of an internal error.               *)
ForeignKeyFails(t) ==
    /\ \/ Writes(t, "CreateColumn") /\ boards[request[t].board] = None
       \/ Writes(t, "CreateCard") /\ columns[frame[t].dest] = None
       \/ /\ Writes(t, "MoveCard") /\ columns[frame[t].dest] = None
          /\ Moved(t) # {}
    /\ Refuse(t, "internal")

(* An attempt loses its position to another transaction. *)
LoseConflict(t) ==
    /\ \E usecase \in {"CreateColumn", "ReorderColumn", "CreateCard",
                       "MoveCard"} : Writes(t, usecase)
    /\ \/ Refuse(t, "conflict")
       \/ /\ UseCase(t) \in {"CreateCard", "MoveCard"}
          /\ Goto(t, "place")
          /\ UNCHANGED <<tables, request, todo, frame, events, sent, answer,
                         known, gone, trace>>

(* The database fails a statement, or the client goes away.  What an       *)
(* earlier use case of the same PATCH has committed stays.                 *)
Fail(t) ==
    /\ pc[t] \notin {"idle", "publish", "done"}
    /\ Refuse(t, "failed")

Step(t) ==
    \/ Receive(t) \/ Authorize(t) \/ RefuseTitle(t)
    \/ LoadToEdit(t) \/ LoadToMove(t) \/ AuthorizeTarget(t) \/ Place(t)
    \/ ReadBoard(t) \/ ReadTree(t)
    \/ CreateBoard(t) \/ RenameBoard(t) \/ RemoveBoard(t)
    \/ CreateColumn(t) \/ ChangeColumn(t) \/ RemoveColumn(t)
    \/ CreateCard(t) \/ EditCard(t) \/ MoveCard(t) \/ RemoveCard(t)
    \/ ForeignKeyFails(t) \/ LoseConflict(t) \/ Fail(t) \/ Publish(t)

Next == \E t \in Requests : Step(t)

Spec == Init /\ [][Next]_vars
-----------------------------------------------------------------------------
(* Properties *)

(* Deletes cascade, and a request that was let in before the delete cannot *)
(* bring a child back: every row's parent is there (0003_kanban.up.sql:6). *)
NoOrphans == IsRooted(rows)

(* The owner is recorded "in the same transaction" (board.go:9-11): the    *)
(* creator of a board finds it in his list at any time, and he alone may   *)
(* delete it.                                                              *)
BoardsHaveTheirOwner ==
    /\ IsOwned(rows)
    /\ \A b \in Boards : boards[b] # None => b \in ListBoardsForUser(boards[b])

(* A foreign key fails a write only because another request has deleted    *)
(* the parent since the check; ids that a client makes up meet a 404       *)
(* (service.go:53-63).                                                     *)
OnlyAVanishedParentFailsAWrite ==
    \A t \in Requests :
        answer[t] = "internal" =>
           frame[t].dest \in gone \/ request[t].board \in gone

(* A handler changes rows of boards that its caller is a member of, and no *)
(* others ("or it leaks one board's cards into another", cards.go:118-119),*)
(* unless another move has taken the card to another board since the       *)
(* caller was checked.                                                     *)
WritesStayOnOnesOwnBoards ==
    [][\A t \in Requests, c \in Cards :
          LET row == IF cards'[c] # NoCard THEN cards'[c] ELSE cards[c]
              board == columns[row.column]
          IN  pc'[t] # pc[t] /\ cards'[c] # cards[c] =>
                 \/ members[board][request[t].user] # "none"
                 \/ "carried" \in trace[t].raced]_vars

(* "A nil field is left unchanged" (cards.go:55): a request changes a      *)
(* field of a card that its body does not name only by undoing an edit     *)
(* that was committed after it had read the card.                          *)
UnnamedFieldsSurvive ==
    [][\A t \in Requests, c \in Cards, f \in {"title", "description"} :
          /\ pc'[t] # pc[t] /\ cards[c] # NoCard /\ cards'[c] # NoCard
          /\ cards'[c][f] # cards[c][f]
          => /\ c = request[t].card
             /\ request[t][f] # None \/ "edited" \in trace[t].raced]_vars

(* Three reads make one tree: a card that was on the board all the while   *)
(* is in the answer, where the table has it, unless it is in a column that *)
(* was inserted after the columns were listed (board.go:60-86).            *)
ReadsMissOnlyNewColumns ==
    [][\A t \in Requests :
          answer'[t] # answer[t] /\ answer'[t] = "ok"
             /\ request[t].op = "GetBoard" =>
             \A c \in trace[t].stayed :
                \/ frame'[t].tree[c] = cards[c].column
                \/ frame'[t].tree[c] = None /\ cards[c].column \in trace[t].fresh]_vars

(* The handler publishes "after a mutation commits" (board_handlers.go:22):*)
(* when it answers, the room of the board that it was let in to knows of   *)
(* what was changed there.  A PATCH that fails in its second use case is   *)
(* the only one to keep its first change to itself.                        *)
OnlyHalfDonePatchesAreSilent ==
    \A t \in Requests :
        pc[t] = "done" /\ request[t].op # "CreateBoard" =>
           \/ trace[t].touched \cap {frame[t].home} \subseteq sent[t]
           \/ answer[t] # "ok" /\ Len(UseCases(request[t])) = 2
=============================================================================
