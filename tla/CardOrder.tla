----------------------------- MODULE CardOrder -----------------------------
(***************************************************************************)
(* CreateCard, MoveCard and DeleteCard of the board service                *)
(* (server/internal/app/board/cards.go, service.go) as concurrent request  *)
(* goroutines over the cards table, one SQL statement a step.              *)
(*                                                                         *)
(* Every caller is a member of every board here, columns are not deleted,  *)
(* and a request is made once.                                             *)
(***************************************************************************)
EXTENDS CardTable, Relation

CONSTANTS MaxConflictRetries,   \* 3 in the code
          NoColumn,             \* a MoveCard request without a column
          Menu,                 \* the requests clients may make
          Layouts               \* the tables a run may start from

(* The card of a create request is the id that newID returns; an index     *)
(* past the end stands for the absent one, which appends too.              *)
RequestType == [kind : {"create", "move", "delete"}, card : Cards,
                column : Columns \cup {NoColumn}, index : Nat]

ASSUME CardOrderAssumption ==
    /\ MaxConflictRetries \in Nat \ {0}
    /\ NoColumn \notin Columns
    /\ Menu \subseteq RequestType
    /\ \A r \in Menu : r.kind = "create" => r.column # NoColumn
    /\ Layouts \subseteq [Cards -> Row \cup {NoRow}]
    /\ \A l \in Layouts : \A c, d \in Cards :
          c # d /\ l[c] # NoRow => l[c] # l[d]

VARIABLES pc,        \* the next statement of each request
          request,   \* its arguments; column is the destination once known
          tries,     \* attempts of retryOnConflict that lost
          place,     \* the row to write
          todo,      \* the rewrites of a renormalization still to do
          answer,    \* what the client was told
          known,     \* the ids that have been given to a card
          overtaken  \* history: another request has committed since this
                     \* attempt's first read

vars == <<table, pc, request, tries, place, todo, answer, known, overtaken>>

InTransaction ==
    {"list", "renormalize", "rewrite", "relist", "write", "settle"}

NoRequest == [kind |-> "none"]

TypeOK ==
    /\ TableTypeOK
    /\ pc \in [Requests ->
          InTransaction \cup {"idle", "load", "delete", "done"}]
    /\ request \in [Requests -> RequestType \cup {NoRequest}]
    /\ tries \in [Requests -> 0..MaxConflictRetries]
    /\ place \in [Requests -> Row \cup {NoRow}]
    /\ todo \in [Requests -> Seq([card : Cards, row : Row])]
    /\ answer \in [Requests ->
          {"none", "ok", "not_found", "conflict", "unique_violation",
           "deadlock", "exhausted", "invalid", "cancelled"}]
    /\ known \in SUBSET Cards
    /\ overtaken \in [Requests -> BOOLEAN]

Init ==
    /\ \E layout \in Layouts :
          /\ TableInit(layout)
          /\ known = {c \in Cards : layout[c] # NoRow}
    /\ pc = [t \in Requests |-> "idle"]
    /\ request = [t \in Requests |-> NoRequest]
    /\ tries = [t \in Requests |-> 0]
    /\ place = [t \in Requests |-> NoRow]
    /\ todo = [t \in Requests |-> <<>>]
    /\ answer = [t \in Requests |-> "none"]
    /\ overtaken = [t \in Requests |-> FALSE]

Goto(t, label) == pc' = [pc EXCEPT ![t] = label]

Answer(t, reply) ==
    /\ Goto(t, "done")
    /\ answer' = [answer EXCEPT ![t] = reply]
    /\ place' = [place EXCEPT ![t] = NoRow]
    /\ todo' = [todo EXCEPT ![t] = <<>>]

OvertakeOthers(t) ==
    overtaken' = [u \in Requests |->
        overtaken[u] \/ (u # t /\ pc[u] \in InTransaction)]
-----------------------------------------------------------------------------
(* Before the transaction: authorization and the reads outside it *)

(* CreateCard up to retryOnConflict. *)
StartCreate(t) ==
    \E r \in Menu :
        /\ pc[t] = "idle" /\ r.kind = "create" /\ r.card \notin known
        /\ request' = [request EXCEPT ![t] = r]
        /\ known' = known \cup {r.card}
        /\ Goto(t, "list")
        /\ UNCHANGED <<table, tries, place, todo, answer, overtaken>>

(* MembershipByCard finds the card's board, or the answer is 404 at once.  *)
StartMove(t) ==
    \E r \in Menu :
        /\ pc[t] = "idle" /\ r.kind = "move" /\ cards[r.card] # NoRow
        /\ request' = [request EXCEPT ![t] = r]
        /\ Goto(t, "load")
        /\ UNCHANGED <<table, tries, place, todo, answer, known, overtaken>>

StartDelete(t) ==
    \E r \in Menu :
        /\ pc[t] = "idle" /\ r.kind = "delete" /\ cards[r.card] # NoRow
        /\ request' = [request EXCEPT ![t] = r]
        /\ Goto(t, "delete")
        /\ UNCHANGED <<table, tries, place, todo, answer, known, overtaken>>

SlipDestination(t, row) == request[t].column

(* Without a column the card stays in the column it was read in. *)
Destination(t, row) ==
    IF request[t].column = NoColumn THEN row.column ELSE request[t].column

(* GetCard, before the transaction begins. *)
Load(t) ==
    LET row == cards[request[t].card] IN
    /\ pc[t] = "load"
    /\ IF row = NoRow
       THEN Answer(t, "not_found") /\ UNCHANGED request
       ELSE /\ request' = [request EXCEPT ![t].column = Destination(t, row)]
            /\ Goto(t, "list")
            /\ UNCHANGED <<answer, place, todo>>
    /\ UNCHANGED <<table, tries, known, overtaken>>
-----------------------------------------------------------------------------
(* placeCard and the write, inside the transaction *)

SlipNeighbors(siblings, i) ==
    IF i = 0 /\ siblings # <<>>
    THEN [prev |-> Open, next |-> siblings[1]]
    ELSE [prev |-> IF siblings = <<>> THEN Open ELSE siblings[Len(siblings)],
          next |-> Open]

Neighbors(siblings, i) ==
    IF i >= Len(siblings) THEN
        [prev |-> IF siblings = <<>> THEN Open ELSE siblings[Len(siblings)],
         next |-> Open]
    ELSE [prev |-> IF i = 0 THEN Open ELSE siblings[i],
          next |-> siblings[i + 1]]

(* The positions of the listed cards, the placed card itself left out. *)
CardPositions(t) ==
    {[i \in DOMAIN l |-> View(t)[l[i]].position] :
        l \in Listings(t, InColumn(t, request[t].column) \ {request[t].card})}

PositionAmong(t, siblings) ==
    LET bounds == Neighbors(siblings, request[t].index)
    IN  Between(bounds.prev, bounds.next)

Place(t, key) ==
    /\ place' = [place EXCEPT
          ![t] = [column |-> request[t].column, position |-> key]]
    /\ Goto(t, "write")

(* The first read of an attempt; it begins the transaction. *)
List(t) ==
    /\ pc[t] = "list"
    /\ \E siblings \in CardPositions(t) :
          LET pair == PositionAmong(t, siblings) IN
          \/ /\ pair.err = "none"
             /\ Place(t, pair.key)
          \/ /\ pair.err = "exhausted"
             /\ Goto(t, "renormalize") /\ UNCHANGED place
    /\ overtaken' = [overtaken EXCEPT ![t] = FALSE]
    /\ UNCHANGED <<table, request, tries, todo, answer, known>>

(* All the cards are listed, the moved one included; the repository defers *)
(* the constraint before the first rewrite.                                *)
RenormalizeCards(t) ==
    /\ pc[t] = "renormalize"
    /\ \E listing \in ListCardsByColumn(t, request[t].column) :
          LET fresh == Renormalize(Len(listing)) IN
          todo' = [todo EXCEPT ![t] = [i \in 1..Len(listing) |->
             [card |-> listing[i],
              row |-> [column |-> request[t].column, position |-> fresh[i]]]]]
    /\ deferred' = [deferred EXCEPT ![t] = TRUE]
    /\ Goto(t, "rewrite")
    /\ UNCHANGED <<cards, writes, rechecks, request, tries, place, answer,
                   known, overtaken>>

(* One UPDATE of the repository's loop over the rewrites. *)
Rewrite(t) ==
    /\ pc[t] = "rewrite"
    /\ IF todo[t] = <<>>
       THEN Goto(t, "relist") /\ UNCHANGED <<table, todo>>
       ELSE /\ UpdateCardPosition(t, Head(todo[t]).card, Head(todo[t]).row)
            /\ todo' = [todo EXCEPT ![t] = Tail(@)]
            /\ UNCHANGED <<deferred, pc>>
    /\ UNCHANGED <<request, tries, place, answer, known, overtaken>>

(* The second placement, from a fresh read; it does not renormalize again. *)
Relist(t) ==
    /\ pc[t] = "relist"
    /\ \E siblings \in CardPositions(t) :
          LET pair == PositionAmong(t, siblings) IN
          \/ /\ pair.err = "none"
             /\ Place(t, pair.key)
             /\ UNCHANGED <<table, todo, answer>>
          \/ /\ pair.err # "none"
             /\ Rollback(t)
             /\ Answer(t, pair.err)
    /\ UNCHANGED <<request, tries, known, overtaken>>

Write(t) ==
    /\ pc[t] = "write"
    /\ IF request[t].kind = "create"
       THEN InsertCard(t, request[t].card, place[t])
       ELSE UpdateCardPosition(t, request[t].card, place[t])
    /\ Goto(t, "settle")
    /\ UNCHANGED <<deferred, request, tries, place, todo, answer, known,
                   overtaken>>
-----------------------------------------------------------------------------
(* The end of an attempt *)

(* The recheck of a row that met a clash: at the end of the write, or at   *)
(* commit for a transaction that renormalized.                             *)
Settle(t) ==
    /\ pc[t] = "settle"
    /\ Recheck(t)
    /\ UNCHANGED <<pc, request, tries, place, todo, answer, known, overtaken>>

RetriesLeft(t) == tries[t] + 1 < MaxConflictRetries

(* A violation found by the statement is ErrConflict, which retries from   *)
(* the read; one found by COMMIT is an error that retryOnConflict does not *)
(* know, since InTx does not map it.                                       *)
LoseConflict(t) ==
    /\ pc[t] = "settle" /\ RecheckFails(t)
    /\ Rollback(t)
    /\ \/ /\ ~deferred[t] /\ RetriesLeft(t)
          /\ tries' = [tries EXCEPT ![t] = @ + 1]
          /\ Goto(t, "list")
          /\ UNCHANGED <<place, todo, answer>>
       \/ /\ ~deferred[t] /\ ~RetriesLeft(t)
          /\ tries' = [tries EXCEPT ![t] = @ + 1]
          /\ Answer(t, "conflict")
       \/ /\ deferred[t]
          /\ Answer(t, "unique_violation")
          /\ UNCHANGED tries
    /\ UNCHANGED <<request, known, overtaken>>

Commit(t) ==
    /\ pc[t] = "settle"
    /\ CommitTransaction(t)
    /\ Answer(t, "ok")
    /\ OvertakeOthers(t)
    /\ UNCHANGED <<request, tries, known>>

(* DeleteCard of the service: one autocommitted statement. *)
Delete(t) ==
    /\ pc[t] = "delete"
    /\ DeleteCard(t, request[t].card)
    /\ Answer(t, "ok")
    /\ OvertakeOthers(t)
    /\ UNCHANGED <<request, tries, known>>

(* The request's context ends with the client's connection. *)
Cancel(t) ==
    /\ pc[t] \in InTransaction
    /\ Rollback(t)
    /\ Answer(t, "cancelled")
    /\ UNCHANGED <<request, tries, known, overtaken>>
-----------------------------------------------------------------------------
(* PostgreSQL's deadlock detector *)

WaitsFor(t) ==
    CASE pc[t] = "rewrite" /\ todo[t] # <<>> ->
            {u \in Requests \ {t} : writes[u][Head(todo[t]).card] # NoRow}
      [] pc[t] = "write" /\ request[t].kind = "move" ->
            {u \in Requests \ {t} : writes[u][request[t].card] # NoRow}
      [] pc[t] = "settle"
            /\ \A c \in rechecks[t] : Undecided(t, c) # {} /\ ~Violated(t, c) ->
            UNION {Undecided(t, c) : c \in rechecks[t]}
      [] OTHER -> {}

InDeadlock(t) ==
    LET waits == [u, v \in Requests |-> v \in WaitsFor(u)]
    IN  WaitsFor(t) # {} /\ TransitiveClosure(waits, Requests)[t, t]

DeadlockVictim(t) ==
    /\ InDeadlock(t)
    /\ Rollback(t)
    /\ Answer(t, "deadlock")
    /\ UNCHANGED <<request, tries, known, overtaken>>

Statement(t) ==
    \/ Load(t) \/ List(t) \/ RenormalizeCards(t) \/ Rewrite(t) \/ Relist(t)
    \/ Write(t) \/ Settle(t) \/ LoseConflict(t) \/ Commit(t) \/ Delete(t)

Next ==
    \E t \in Requests :
        \/ StartCreate(t) \/ StartMove(t) \/ StartDelete(t)
        \/ Statement(t)
        \/ Cancel(t)
        \/ DeadlockVictim(t)

Spec == Init /\ [][Next]_vars

(* As long as some request can run its next statement, or a deadlock can   *)
(* be broken, something of the kind happens: goroutines are scheduled, the *)
(* database answers and its deadlock detector runs.  Nothing is assumed of *)
(* any one request, nor that clients send or cancel anything.              *)
Fairness == WF_vars(\E t \in Requests : Statement(t) \/ DeadlockVictim(t))

FairSpec == Spec /\ Fairness
-----------------------------------------------------------------------------
(* Properties *)

Answered(t, reply) == answer[t] = "none" /\ answer'[t] = reply
Commits(t) == pc[t] = "settle" /\ Answered(t, "ok")

Before(tab, c, d) ==
    /\ tab[c] # NoRow /\ tab[c].column = tab[d].column
    /\ Precedes(tab[c].position, tab[d].position)

Rank(tab, c) == Cardinality({d \in Cards : Before(tab, d, c)})

Siblings(tab, c) ==
    Cardinality({d \in Cards \ {c} : tab[d].column = tab[c].column})

(* A card that nobody interfered with lands at the index the client asked  *)
(* for, counted without the card itself, through every path: a plain       *)
(* write, a retry, a renormalization (cards.go:94-98, service.go:66-81,    *)
(* :105-121).                                                              *)
PlacedWhereAsked ==
    [][\A t \in Requests :
          LET c == request[t].card IN
          Commits(t) /\ ~overtaken[t] /\ View(t)[c] # NoRow =>
             /\ cards'[c].column = request[t].column
             /\ Rank(cards', c) = IF request[t].index < Siblings(cards', c)
                                  THEN request[t].index
                                  ELSE Siblings(cards', c)]_vars

(* Renormalization rewrites every sibling "so the order is unchanged"      *)
(* (service.go:173-176): whatever a transaction that was not overtaken     *)
(* commits, the other cards stay in their columns, in their order.         *)
OthersKeepTheirOrder ==
    [][\A t \in Requests :
          Commits(t) /\ ~overtaken[t] =>
             \A c, d \in Cards \ {request[t].card} :
                /\ cards'[c].column = cards[c].column
                /\ Before(cards, c, d) => Before(cards', c, d)]_vars

(* A request loses an attempt only to a change that another request has    *)
(* committed since it read the column: a lone client never meets its own   *)
(* rewrites or its card's old row (service.go:209-213).                    *)
LosesOnlyWhenOvertaken ==
    [][\A t \in Requests :
          tries'[t] > tries[t] \/ Answered(t, "unique_violation")
             => overtaken[t]]_vars

(* Requests wait for row locks and for each other's index entries; with    *)
(* deadlock detection each of them is answered all the same.               *)
EveryRequestAnswered ==
    <>[](\A t \in Requests : pc[t] \in {"idle", "done"})

(* ports.go:27-29: the position writes must translate a unique violation   *)
(* into ErrConflict "so the use case can retry".                           *)
NoRawConstraintError ==
    \A t \in Requests : answer[t] # "unique_violation"

(* A move is "a single-row update of the card's column and position"       *)
(* (cards.go:94-95), and renormalization leaves "the order unchanged"      *)
(* (service.go:174): only a request about a card takes it to another       *)
(* column.                                                                 *)
OnlyItsOwnMoveTakesACardAway ==
    [][\A t \in Requests, c \in Cards :
          Commits(t) /\ cards[c] # NoRow /\ cards'[c] # NoRow
             /\ c # request[t].card
             => cards'[c].column = cards[c].column]_vars
=============================================================================
