----------------------------- MODULE BoardSync -----------------------------
(***************************************************************************)
(* One viewer of a board: the tree in his query cache                      *)
(* (web/src/features/board/hooks.ts), the socket that keeps it up to date  *)
(* (useBoardChannel.ts), and what the server does with the changes of the  *)
(* viewer and of his peers: commit, then publish to the room.              *)
(*                                                                         *)
(* The columns are fixed: their changes, like every change but the moves   *)
(* and deletes of cards, only invalidate, as "created" does here.  What    *)
(* the hub promises a member is Hub's subject: the published events, in    *)
(* their order, until he leaves.                                           *)
(***************************************************************************)
EXTENDS Naturals, FiniteSets, SequencesExt

CONSTANTS Cards, Columns,
          MaxKey,         \* the positions are 1..MaxKey
          Mutations,      \* the viewer's mutations
          MaxCommits, MaxFaults,   \* bounds of the model
          NoData, Nothing,         \* an empty cache, JavaScript's null
          Tables          \* the tables a run may start from

ASSUME SyncAssumption ==
    /\ MaxKey \in Nat /\ MaxCommits \in Nat /\ MaxFaults \in Nat
    /\ Nothing \notin Cards \cup Columns \cup Nat
    /\ Nothing \notin [column : Columns, key : Nat, n : Nat]
    /\ IsFiniteSet(Cards)    \* rows of a table
    /\ Tables \subseteq [Cards -> [column : Columns, key : 1..MaxKey, n : {0}]
                                   \cup {Nothing}]
    /\ \A t \in Tables : \A c, d \in Cards :    \* UNIQUE (column_id, position)
          c # d /\ t[c] # Nothing => t[c] # t[d]

VARIABLES
    rows,       \* the cards table, each row with the number of its last write
    commits,    \* the number of commits so far
    known,      \* the cards that were ever created
    pending,    \* events of committed requests, in the order of the commits
    member,     \* whether the room has the viewer's connection
    inbox,      \* frames on their way to the viewer
    joins,      \* the connections so far; the last one's id
    faults,     \* what has gone wrong so far
    link,       \* the viewer's socket
    reconnected,   \* whether that socket has a predecessor
    connId,     \* the hook's connectionId
    stamp,      \* connection.ts's connectionId
    oldChannel, \* whether the channel of the board viewed before still closes
    cache,      \* the cached tree, or NoData
    fetch,      \* the query's request
    mutation,   \* the viewer's mutations
    patched,    \* history: the latest commit among the cache's patches
    buried,     \* history: the cards that a patch has deleted
    causes      \* history: what made the cache differ from the table

server == <<rows, commits, known, pending>>
channel == <<member, inbox, joins, link, reconnected, connId, stamp, oldChannel>>
query == <<cache, fetch, patched, buried, causes>>
vars == <<server, channel, query, mutation, faults>>

Fault == faults < MaxFaults /\ faults' = faults + 1

Keys == 1..MaxKey
Ids == 1..MaxFaults + 1 \cup {Nothing}
Row == [column : Columns, key : Keys, n : 0..MaxCommits]
Item == [card : Cards, key : Keys, n : 0..MaxCommits]
Tree == [Columns -> Seq(Item)]

Event == [type : {"created", "moved", "deleted"}, card : Cards,
          column : Columns \cup {Nothing}, key : Keys \cup {Nothing},
          n : 1..MaxCommits, by : Ids]
Welcome == [type : {"welcome"}, id : 1..MaxFaults + 1]

Causes == {"dropped", "reordered", "overwritten", "early", "silent",
           "unanswered", "failed"}

Mutation == [phase : {"idle", "sent", "committed", "refused", "orphan", "done"},
             type : {"created", "moved", "deleted", "none"},
             card : Cards \cup {Nothing}, column : Columns \cup {Nothing},
             n : 0..MaxCommits, by : Ids, previous : Tree \cup {NoData}]

TypeOK ==
    /\ rows \in [Cards -> Row \cup {Nothing}]
    /\ commits \in 0..MaxCommits
    /\ known \subseteq Cards
    /\ pending \in Seq(Event)
    /\ member \in BOOLEAN
    /\ inbox \in Seq(Event \cup Welcome)
    /\ joins \in 0..MaxFaults + 1
    /\ faults \in 0..MaxFaults
    /\ link \in {"connecting", "registered", "live", "waiting"}
    /\ reconnected \in BOOLEAN /\ oldChannel \in BOOLEAN
    /\ connId \in Ids /\ stamp \in Ids
    /\ cache \in Tree \cup {NoData}
    /\ fetch \in [state : {"idle", "asked", "read"}, tree : Tree \cup {NoData},
                  n : 0..MaxCommits, since : SUBSET Causes]
    /\ mutation \in [Mutations -> Mutation]
    /\ patched \in 0..MaxCommits
    /\ buried \subseteq Cards /\ causes \subseteq Causes
-----------------------------------------------------------------------------
(* Trees *)

(* A set in a reflexive order, given as a relation for the proofs' sake.   *)
Listing(S, upTo) ==
    [n \in 1..Cardinality(S) |->
        CHOOSE i \in S : Cardinality({j \in S : <<j, i>> \in upTo}) = n]

(* ORDER BY position, and JavaScript's stable sort. *)
Sorted(s) ==
    LET places == DOMAIN s
        upTo == {p \in places \X places :
                    \/ s[p[1]].key < s[p[2]].key
                    \/ s[p[1]].key = s[p[2]].key /\ p[1] <= p[2]}
        order == Listing(places, upTo)
    IN  [n \in places |-> s[order[n]]]

InColumn(k) == {c \in Cards : rows[c] # Nothing /\ rows[c].column = k}

ServerTree ==
    [k \in Columns |->
        Sorted(SetToSeq({[card |-> c, key |-> rows[c].key, n |-> rows[c].n] :
                            c \in InColumn(k)}))]

Others(s, c) ==
    LET kept == {i \in DOMAIN s : s[i].card # c}
        order == Listing(kept, {p \in kept \X kept : p[1] <= p[2]})
    IN  [n \in 1..Cardinality(kept) |-> s[order[n]]]

Without(tree, c) == [k \in Columns |-> Others(tree[k], c)]

ItemsOf(tree, c) ==
    {item \in UNION {Range(tree[k]) : k \in Columns} : item.card = c}

SlipApplyCardMoved(tree, e) ==
    [Without(tree, e.card) EXCEPT ![e.column] =
        Sorted(Append(@, [card |-> e.card, key |-> e.key, n |-> e.n]))]

ApplyCardMoved(tree, e) ==
    IF ItemsOf(tree, e.card) = {} THEN tree
    ELSE [Without(tree, e.card) EXCEPT ![e.column] =
             Sorted(Append(@, [card |-> e.card, key |-> e.key, n |-> e.n]))]

ApplyCardDeleted(tree, e) == Without(tree, e.card)

(* The optimistic move: the card keeps its old position until the refetch. *)
MoveCardInTree(tree, c, k, index) ==
    LET item == CHOOSE item \in ItemsOf(tree, c) : TRUE
    IN  [Without(tree, c) EXCEPT ![k] =
            InsertAt(@, IF index > Len(@) + 1 THEN Len(@) + 1 ELSE index, item)]
-----------------------------------------------------------------------------
(* The query *)

Idle == [state |-> "idle", tree |-> NoData, n |-> 0, since |-> {}]
Asked == [Idle EXCEPT !.state = "asked"]

(* invalidateQueries: a running fetch starts anew, unless it is the first, *)
(* which goes on (cancelRefetch needs data), whatever it has read.         *)
Invalidated ==
    IF cache = NoData /\ fetch.state # "idle"
    THEN [fetch EXCEPT !.since =
             IF fetch.state = "read" /\ commits > fetch.n THEN @ \cup {"early"}
                                                          ELSE @]
    ELSE Asked

(* A cause counts for the cached tree and for an answer read already. *)
Blame(cause) ==
    /\ causes' = causes \cup cause
    /\ fetch' = [fetch EXCEPT !.since =
                    IF fetch.state = "read" THEN @ \cup cause ELSE @]

Read ==
    /\ fetch.state = "asked"
    /\ fetch' = [fetch EXCEPT !.state = "read", !.tree = ServerTree, !.n = commits]
    /\ UNCHANGED <<server, channel, mutation, cache, patched, buried, causes>>

(* The answer replaces whatever the cache has. *)
Install ==
    /\ fetch.state = "read"
    /\ cache' = fetch.tree
    /\ patched' = fetch.n
    /\ causes' = fetch.since
                 \cup (IF patched > fetch.n THEN {"overwritten"} ELSE {})
    /\ fetch' = Idle
    /\ UNCHANGED <<server, channel, mutation, buried>>

(* The last of the query's own retries fails. *)
FetchFails ==
    /\ Fault
    /\ fetch.state # "idle"
    /\ fetch' = Idle
    /\ causes' = causes \cup {"failed"}
    /\ UNCHANGED <<server, channel, mutation, cache, patched, buried>>
-----------------------------------------------------------------------------
(* The server *)

(* Where a move of c to column k may put c and the cards there: c takes a  *)
(* free position, or all are renormalized.                                 *)
Placements(c, k) ==
    LET siblings == InColumn(k) \ {c} IN
    {p \in [siblings \cup {c} -> Keys] :
        /\ \A d, e \in DOMAIN p : p[d] = p[e] => d = e
        /\ \A d, e \in siblings : p[d] < p[e] <=> rows[d].key < rows[e].key}

Rewritten(p, c) == {d \in DOMAIN p \ {c} : p[d] # rows[d].key}

Announce(type, c, k, key, by) ==
    /\ commits < MaxCommits
    /\ commits' = commits + 1
    /\ pending' = Append(pending, [type |-> type, card |-> c, column |-> k,
                                   key |-> key, n |-> commits + 1, by |-> by])

(* A renormalization announces the card that was moved and no other. *)
Place(type, c, k, by, lost) ==
    \E p \in Placements(c, k) :
        /\ rows' = [d \in Cards |->
              IF d = c \/ (d \in DOMAIN p /\ d \in Rewritten(p, c))
              THEN [column |-> k, key |-> p[d], n |-> commits + 1] ELSE rows[d]]
        /\ Announce(type, c, k, p[c], by)
        /\ Blame(lost \cup (IF Rewritten(p, c) = {} THEN {} ELSE {"silent"}))

CommitMove(c, k, by, lost) ==
    /\ rows[c] # Nothing
    /\ Place("moved", c, k, by, lost)
    /\ UNCHANGED known

CommitCreate(c, k, by, lost) ==
    /\ c \notin known
    /\ known' = known \cup {c}
    /\ Place("created", c, k, by, lost)

CommitDelete(c, by, lost) ==
    /\ rows[c] # Nothing
    /\ rows' = [rows EXCEPT ![c] = Nothing]
    /\ Announce("deleted", c, Nothing, Nothing, by)
    /\ Blame(lost)
    /\ UNCHANGED known

PeerCommits ==
    /\ \E c \in Cards :
          \/ \E k \in Columns : \/ CommitMove(c, k, Nothing, {})
                               \/ CommitCreate(c, k, Nothing, {})
          \/ CommitDelete(c, Nothing, {})
    /\ UNCHANGED <<channel, mutation, cache, patched, buried>>

(* The handlers race to the hub's queue.  On the first connection nothing  *)
(* tells the viewer of what was published before he was in the room.       *)
Publish ==
    /\ \E i \in DOMAIN pending :
          /\ pending' = RemoveAt(pending, i)
          /\ inbox' = IF member THEN Append(inbox, pending[i]) ELSE inbox
    /\ Blame(IF joins = 0 THEN {"early"} ELSE {})
    /\ UNCHANGED <<rows, commits, known, member, joins, link, reconnected, connId,
                   stamp, oldChannel, mutation, cache, patched, buried>>

(* The queue is full. *)
DropEvent ==
    /\ Fault
    /\ \E i \in DOMAIN pending : pending' = RemoveAt(pending, i)
    /\ Blame({"dropped"})
    /\ UNCHANGED <<rows, commits, known, channel, mutation, cache, patched, buried>>
-----------------------------------------------------------------------------
(* The channel *)

SlipJoin ==
    /\ link = "connecting"
    /\ joins' = joins + 1
    /\ member' = TRUE
    /\ inbox' = <<[type |-> "welcome", id |-> joins + 1]>>
    /\ UNCHANGED <<server, query, mutation, link, reconnected, connId, stamp,
                   oldChannel>>

(* The hub registers the connection, then the handler writes the welcome. *)
Join ==
    /\ link = "connecting"
    /\ link' = "registered"
    /\ joins' = joins + 1
    /\ member' = TRUE
    /\ inbox' = <<[type |-> "welcome", id |-> joins + 1]>>
    /\ UNCHANGED <<server, query, mutation, reconnected, connId, stamp, oldChannel>>

(* The connection ends; what was on its way arrives in part. *)
Leave ==
    /\ Fault
    /\ member
    /\ member' = FALSE
    /\ \E n \in 0..Len(inbox) : inbox' = SubSeq(inbox, 1, n)
    /\ UNCHANGED <<server, query, mutation, joins, link, reconnected, connId,
                   stamp, oldChannel>>

Onclose ==
    /\ link' = "waiting"
    /\ connId' = Nothing /\ stamp' = Nothing
    /\ UNCHANGED <<server, query, mutation, member, inbox, joins, reconnected,
                   oldChannel>>

Close ==
    /\ link \in {"registered", "live"} /\ ~member /\ inbox = <<>>
    /\ Onclose

(* A socket that does not get as far as its welcome. *)
ConnectFails ==
    /\ Fault
    /\ link = "connecting"
    /\ Onclose

(* The timer of scheduleReconnect; attempts is positive since the close. *)
Reconnect ==
    /\ link = "waiting"
    /\ link' = "connecting"
    /\ reconnected' = TRUE
    /\ UNCHANGED <<server, query, mutation, member, inbox, joins, connId, stamp,
                   oldChannel>>

(* The socket of the board viewed before fires its onclose only now. *)
OldChannelCloses ==
    /\ Fault
    /\ oldChannel
    /\ oldChannel' = FALSE
    /\ stamp' = Nothing
    /\ UNCHANGED <<server, query, mutation, member, inbox, joins, link,
                   reconnected, connId>>

SlipHearWelcome ==
    /\ inbox # <<>> /\ Head(inbox).type = "welcome"
    /\ inbox' = Tail(inbox)
    /\ connId' = Head(inbox).id /\ stamp' = Head(inbox).id
    /\ link' = "live"
    /\ UNCHANGED <<server, query, mutation, member, joins, reconnected, oldChannel>>

HearWelcome ==
    /\ inbox # <<>> /\ Head(inbox).type = "welcome"
    /\ inbox' = Tail(inbox)
    /\ connId' = Head(inbox).id /\ stamp' = Head(inbox).id
    /\ link' = "live"
    /\ fetch' = IF reconnected THEN Invalidated ELSE fetch
    /\ UNCHANGED <<server, mutation, member, joins, reconnected, oldChannel,
                   cache, patched, buried, causes>>

Frame == Head(inbox)
Hears == inbox # <<>> /\ Frame.type # "welcome"
IsEcho == Frame.by # Nothing /\ Frame.by = connId

SuppressEcho ==
    /\ Hears /\ IsEcho
    /\ inbox' = Tail(inbox)
    /\ UNCHANGED <<server, query, mutation, member, joins, link, reconnected,
                   connId, stamp, oldChannel>>

(* Whether the cache has the card as a later commit left it. *)
Outdated == \E item \in ItemsOf(cache, Frame.card) : item.n > Frame.n

Patch ==
    /\ Hears /\ ~IsEcho /\ cache # NoData
    /\ \/ /\ Frame.type = "moved"
          /\ cache' = ApplyCardMoved(cache, Frame)
          /\ causes' = causes \cup (IF Outdated THEN {"reordered"} ELSE {})
          /\ UNCHANGED buried
       \/ /\ Frame.type = "deleted"
          /\ cache' = ApplyCardDeleted(cache, Frame)
          /\ buried' = buried \cup {Frame.card}
          /\ UNCHANGED causes
    /\ patched' = IF Frame.n > patched THEN Frame.n ELSE patched
    /\ inbox' = Tail(inbox)
    /\ UNCHANGED <<server, mutation, fetch, member, joins, link, reconnected,
                   connId, stamp, oldChannel>>

(* Every other event, and any event before there are data. *)
Resync ==
    /\ Hears /\ ~IsEcho
    /\ cache = NoData \/ Frame.type = "created"
    /\ fetch' = Invalidated
    /\ inbox' = Tail(inbox)
    /\ UNCHANGED <<server, mutation, cache, patched, buried, causes, member, joins,
                   link, reconnected, connId, stamp, oldChannel>>
-----------------------------------------------------------------------------
(* The viewer's mutations *)

NoMutation == [phase |-> "idle", type |-> "none", card |-> Nothing,
               column |-> Nothing, n |-> 0, by |-> Nothing, previous |-> NoData]

Send(m, type, c, k, previous) ==
    mutation' = [mutation EXCEPT ![m] =
        [phase |-> "sent", type |-> type, card |-> c, column |-> k, n |-> 0,
         by |-> stamp, previous |-> previous]]

(* onMutate: the fetch is cancelled, the card moved at once. *)
DragCard(m) ==
    /\ mutation[m].phase = "idle" /\ cache # NoData
    /\ \E k \in Columns :
          \E c \in {item.card : item \in UNION {Range(cache[j]) : j \in Columns}},
             index \in 1..Len(cache[k]) + 1 :
             /\ Send(m, "moved", c, k, cache)
             /\ cache' = MoveCardInTree(cache, c, k, index)
    /\ fetch' = Idle
    /\ UNCHANGED <<server, channel, patched, buried, causes>>

(* The mutations that wait for the server. *)
ClickCard(m) ==
    /\ mutation[m].phase = "idle" /\ cache # NoData
    /\ \/ \E c \in {item.card : item \in UNION {Range(cache[j]) : j \in Columns}} :
             Send(m, "deleted", c, Nothing, NoData)
       \/ \E c \in Cards \ known, k \in Columns : Send(m, "created", c, k, NoData)
    /\ UNCHANGED <<server, channel, query>>

CommitRequest(m, lost) ==
    LET r == mutation[m] IN
    \/ r.type = "moved" /\ CommitMove(r.card, r.column, r.by, lost)
    \/ r.type = "created" /\ CommitCreate(r.card, r.column, r.by, lost)
    \/ r.type = "deleted" /\ CommitDelete(r.card, r.by, lost)

ServerCommits(m) ==
    /\ mutation[m].phase \in {"sent", "orphan"}
    /\ IF mutation[m].phase = "sent"
       THEN /\ CommitRequest(m, {})
            /\ mutation' = [mutation EXCEPT ![m].phase = "committed",
                                            ![m].n = commits + 1]
       ELSE /\ CommitRequest(m, {"unanswered"})
            /\ mutation' = [mutation EXCEPT ![m].phase = "done"]
    /\ UNCHANGED <<channel, cache, patched, buried>>

(* The answer is an error, or the network fails before the commit. *)
ServerRefuses(m) ==
    /\ mutation[m].phase = "sent"
    /\ mutation' = [mutation EXCEPT ![m].phase = "refused"]
    /\ UNCHANGED <<server, channel, query>>

Published(n) == \A i \in DOMAIN pending : pending[i].n # n

Finish(m) == mutation' = [mutation EXCEPT ![m] = [NoMutation EXCEPT !.phase = "done"]]

(* onSuccess or onSettled; the handler publishes before it answers. *)
Succeed(m) ==
    /\ mutation[m].phase = "committed" /\ Published(mutation[m].n)
    /\ Finish(m)
    /\ fetch' = Invalidated
    /\ UNCHANGED <<server, channel, cache, patched, buried, causes>>

(* onError and onSettled of a move; nothing for the other mutations. *)
Settle(m) ==
    IF mutation[m].type = "moved"
    THEN /\ cache' = mutation[m].previous
         /\ fetch' = Asked
         /\ UNCHANGED causes
    ELSE /\ UNCHANGED cache
         /\ Blame(IF mutation[m].phase = "committed" THEN {"unanswered"} ELSE {})

HearError(m) ==
    /\ mutation[m].phase = "refused"
    /\ Settle(m)
    /\ Finish(m)
    /\ UNCHANGED <<server, channel, patched, buried>>

LoseAnswer(m) ==
    /\ Fault
    /\ mutation[m].phase = "committed"
    /\ Settle(m)
    /\ Finish(m)
    /\ UNCHANGED <<server, channel, patched, buried>>

(* The network fails under a request that the server will still commit. *)
LoseRequest(m) ==
    /\ Fault
    /\ mutation[m].phase = "sent"
    /\ Settle(m)
    /\ mutation' = [mutation EXCEPT ![m].phase = "orphan", ![m].previous = NoData]
    /\ UNCHANGED <<server, channel, patched, buried>>

Finished(m) == mutation[m].phase \in {"idle", "orphan", "done"}

Step ==
    \/ Read \/ Install
    \/ PeerCommits \/ Publish
    \/ Join \/ Close \/ Reconnect \/ HearWelcome \/ SuppressEcho \/ Patch \/ Resync
    \/ \E m \in Mutations :
          \/ DragCard(m) \/ ClickCard(m)
          \/ ServerCommits(m) \/ ServerRefuses(m)
          \/ Succeed(m) \/ HearError(m)

Failure ==
    \/ FetchFails \/ DropEvent \/ Leave \/ ConnectFails \/ OldChannelCloses
    \/ \E m \in Mutations : LoseAnswer(m) \/ LoseRequest(m)

Next == (Step /\ UNCHANGED faults) \/ Failure

Init ==
    /\ rows \in Tables
    /\ commits = 0 /\ pending = <<>>
    /\ known = {c \in Cards : rows[c] # Nothing}
    /\ member = FALSE /\ inbox = <<>> /\ joins = 0 /\ faults = 0
    /\ link = "connecting" /\ reconnected = FALSE
    /\ connId = Nothing /\ stamp = Nothing /\ oldChannel = TRUE
    /\ cache = NoData /\ fetch = Asked
    /\ mutation = [m \in Mutations |-> NoMutation]
    /\ patched = 0 /\ buried = {} /\ causes = {}

Spec == Init /\ [][Next]_vars
-----------------------------------------------------------------------------
(* Properties *)

Quiet ==
    /\ pending = <<>> /\ inbox = <<>> /\ member /\ link = "live"
    /\ fetch.state = "idle" /\ \A m \in Mutations : Finished(m)

(* "Resyncing via invalidation on every reconnect so anything missed       *)
(* during a gap re-converges" (useBoardChannel.ts:4-5), and every mutation *)
(* ends in a refetch: when nothing is under way the viewer sees the table, *)
(* but for a fault or a race that no code of the client can notice.        *)
QuietViewsAreTrue == Quiet /\ cache # NoData /\ causes = {} => cache = ServerTree

(* A card whose delete has reached the viewer comes back only with an      *)
(* answer older than the delete, or in the rollback of a failed move, which*)
(* a refetch follows; a late "card.moved" does not bring it back           *)
(* (useBoardChannel.ts:55).                                                *)
DeletedCardsStayGone ==
    [][\A c \in buried :
          cache' # cache /\ ItemsOf(cache, c) = {} /\ ItemsOf(cache', c) # {}
          => "overwritten" \in causes' \/ fetch'.state = "asked"]_vars
=============================================================================
