# Selaras: models and proofs

Selaras is a real-time collaborative kanban: a Go API (chi, pgx, PostgreSQL), an
in-process WebSocket hub, and a React client. This directory holds TLA+ models
of the parts in which concurrency, failure and ordering decide whether the
program is right, the TLC configurations that check them on small instances,
and TLAPS proofs of what matters most. Paths below are relative to the
repository; `S` abbreviates `server/internal`.

To check a run: `tlc -workers 2 -config MCHub.cfg MCHub`. To check the proofs:
`tlapm HubProofs.tla`.

## 1. The system

| component | state | operations | talks to |
|---|---|---|---|
| Fractional positions (`S/domain/board/position.go`) | none: strings over a base-62 alphabet | `Between`, `Renormalize` | called by placement |
| Card placement (`S/app/board/cards.go`, `service.go`; `S/adapter/postgres/board_repository.go`) | the `cards` table, row locks, the deferrable constraint on `(column_id, position)` | `CreateCard`, `MoveCard`, `DeleteCard`; inside them `placeCard`, `renormalizeCards`, `retryOnConflict` | PostgreSQL, from one goroutine per request |
| Column placement (`S/app/board/columns.go`) | the `columns` table | `CreateColumn`, `ReorderColumn`, `RenameColumn`, `DeleteColumn` (cascades) | as above |
| Board tree and access (`S/app/board/board.go`) | boards, memberships | `CreateBoard`, `GetBoard` (three reads), membership checks, `EditCard` | as above |
| Event publication (`S/adapter/http/board_handlers.go`, `S/adapter/ws/mapper.go`) | none | `publish` after the commit of a mutation | hub |
| Realtime hub (`S/adapter/ws`) | rooms, four kinds of channel, a context per connection | `Run`, `ServeHTTP`, the read and the write pump, `Broadcast`, shutdown | handlers, sockets |
| Refresh-token families (`S/app/auth`, `S/domain/auth/token.go`) | `refresh_tokens` | `Login`, `Refresh`, `Logout`, the purge | PostgreSQL, without a transaction |
| Registration and credentials (`S/app/auth/register.go`) | `users` | `Register`, hashing, access tokens | PostgreSQL |
| Rate limiter (`S/adapter/http/ratelimit.go`) | buckets per key under a mutex | `allow`, the sweep | HTTP middleware |
| HTTP adapter, process (`S/adapter/http`, `server/cmd/api/main.go`) | the shutdown signal | routing, decoding, mapping of errors; drain | all of the above |
| Client board cache (`web/src/features/board`) | cached tree, connection id, socket state | patches from events, echo suppression, optimistic moves, refetch, reconnect | hub, API |
| Client session (`web/src/lib/authClient.ts`, `features/auth`) | access token, the shared refresh promise | fetch with retry after a 401, bootstrap, login, logout | API |

What is hard, and what makes each part correct:

- **Positions.** Loops without a condition of their own, carries, adjacent
  digits, a length cap. Correct when a returned key is a valid key strictly
  between its bounds, within the cap, and renormalized keys leave room.
- **Placement.** Every request reads the siblings, computes a key in Go, and
  writes it later; others commit in between, the database finds the clash on
  the write or only at COMMIT, locks block, deadlocks abort, the request's
  context may end. Correct when no two cards share a position, a card that
  nobody interfered with lands where it was asked to go, the others stay where
  they are, and every request is answered.
- **Hub.** One goroutine owns the rooms; two goroutines per connection learn of
  a removal through a closed channel and a cancelled context; the channels are
  bounded, the peers stall and vanish, the process stops. Correct when no
  channel is closed twice or sent to after its close, a room holds live
  connections only, a member misses no accepted message, the hub never waits
  for a peer, and every released connection ends.
- **Sessions.** Rotation is two statements, the replay of a rotated token is
  judged by a grace window and by the state of its family, and a browser's tabs
  share one cookie. Correct when a session that ended stays ended, a session
  ends only for a reason, and a race of tabs is not taken for theft.
- **Client.** Events, responses and refetches arrive in orders the server did
  not choose. Correct when the cache converges to the server's tree once
  nothing is under way, and a session outlives a race but not a logout.

`PROJECT.json` lists every hazard of these parts at its line, with the
properties that cover it or the reason why none does yet.

## 2. Plan

Done:

1. `Position`, `PositionLoops`: the pure algorithms, loops against closed forms;
   `PositionProofs`, `PositionLoopsProofs`.
2. `CardTable`, `CardOrder`: transactions over the constraint, the use cases;
   `CardOrderProofs`.
3. `Hub`; `HubProofs`.
4. `RefreshFamily`; `RefreshFamilyProofs`.
5. `BoardRows`, `BoardTree`: boards, members, columns and cards as rows with
   their foreign keys, and every route over them; `BoardTreeProofs`.
6. `BoardSync`: from a commit to a viewer's screen; `BoardSyncProofs`.
7. `Session`: the tabs of a browser over the auth handlers; `SessionProofs`.
8. `Room`: what a board's room promises its members, implemented by `Hub`; the
   refinement is proved in `HubProofs`.
9. Proofs of every safety property that a passing run checks (section 6).

Left, in this order:

10. An abstract column (a sequence of cards changed by one atomic move) that
    `CardOrder` implements for requests that were not overtaken. The three
    action properties of `CardOrderProofs` are the step of that refinement.
11. The positions of columns, as a second instance of `CardOrder`'s protocol:
    `placeColumn` mirrors `placeCard`, without a second column to move to.

## 3. The modules and the code

**`Position`** gives `Between` and `Renormalize` in closed form. A key is the
sequence of the indices of its digits: the alphabet is in ASCII order, so bytes
and indices compare alike. `Base` and `MaxLen` are parameters (62 and 64).
`Prepend`, `Append1`, `Midpoint` are the three private functions; `Width`,
`EncodeFixedWidth` and `Spaced` are the parts of `Renormalize`. The check for
malformed bounds is left out: the bounds come from the table.

**`PositionLoops`** runs the same functions as the code does, a loop iteration
or a recursive call a step (`PrependStep`, `MidpointStep`, `Widen`,
`EncodeItem`), and shows that they arrive at the closed forms. The other
modules use the closed forms, which proofs can use as well.

**`CardTable`** is the `cards` table as the repository's statements see it:
committed rows, the rows each open transaction has written (these are also its
locks), the written rows whose uniqueness has to be looked at again, and
whether `SET CONSTRAINTS ALL DEFERRED` ran. PostgreSQL is external. What the
model says of it: READ COMMITTED; a row lock is held to the end of the
transaction; the constraint, `DEFERRABLE INITIALLY IMMEDIATE`, is tested when
an index entry is written, and only a row that met a possible clash is tested
again, at the end of the statement or at COMMIT; that second test waits for the
transactions that own the clashing entries.

**`CardOrder`** has the use cases, one SQL statement a step: `pc` is the next
statement of each request, `tries` the counter of `retryOnConflict`, `todo` the
rewrites of a renormalization that are left. `List`, `RenormalizeCards`,
`Rewrite`, `Relist` and `Write` are `placeCard` and the write after it;
`Settle`, `LoseConflict` and `Commit` the end of an attempt, with the branch
that the code takes for an `ErrConflict` and the one for an error of COMMIT;
`Cancel` the end of the request's context; `DeadlockVictim` PostgreSQL's
detector. `known` stands for the freshness of `newID`, and `overtaken` is a
history variable that the properties need to tell a request that nobody
interfered with.

**`Hub`** has the `Run` goroutine (`run`, `rooms`, `queue`, and `current` and
`visit` for the loop of the fan-out), and per connection the `ServeHTTP`
goroutine with its read pump (`handler`), the write pump (`writer`), the
context, the `send` channel with the number of times it was closed, the socket
and the peer. A send on an unbuffered channel is one step of both goroutines,
and a `select` takes any ready branch. `accepted` and `received` are history.

**`RefreshFamily`** has `refresh_tokens` of one user, the clock, and per request
the row it has read (`row`), the time at which it decided (`at`) and its next
statement. The use cases open no transaction, so every statement is a step.
`ended` and `dead` are history. `DecideRefresh` is the pure function of
`token.go`.

**`BoardRows`** is the schema (`0003_kanban.up.sql`) and what the statements of
the repository do to it: the three membership joins, the inserts and updates,
and the deletes with all that ON DELETE CASCADE takes along. A table is the
committed rows. Transactions are left out where that is sound: each ends with
its only visible write, or writes rows of one column that are read nowhere
before the commit; where they clash is `CardOrder`'s subject.

**`BoardTree`** runs every route of boards, columns and cards over those
tables, one statement a step. A request has the use cases its handler has still
to call (`todo`: a PATCH may need two), what the current one has read
(`frame`), the events they returned (`events`) and the rooms it has published
to (`sent`). `Authorize` is the membership check that comes first, `LoadToEdit`
and `LoadToMove` the reads of `GetCard`, `AuthorizeTarget` the check of another
column, `Place` the reads of `placeCard`, `ReadBoard` and `ReadTree` the three
reads of `GetBoard`; every write has an action that also appends the event
(`Succeed`), and `ForeignKeyFails`, `LoseConflict` and `Fail` are the ways a
write ends otherwise. `gone` and `trace` are history: what was deleted, and what
others did to a request's card while it was under way (`Record`).
`CreateBoard` is two inserts in one transaction, hence one write.

**`Room`** is the abstract room: a connection is owed every event of its board
from the moment it joins, in order, and when it leaves it may still get the
next few. `Hub` implements it: `ImplementsRoom` maps what is on its way
(`Due`: the message in the write pump and the send buffer and, while the
connection is in its room, the message being fanned out, if it is still to be
visited, and the queue as far as it is `ForBoard`) to `due`.

**`BoardSync`** is one viewer of one board. On the server: the rows with the
number of their last write, `PeerCommits` and the commits of the viewer's own
mutations (a placement may renormalize the column), events that wait to be
published (`pending`; the handlers race), the room (`member`, `inbox`: `Room`'s
promise). In the browser: the query (`Read`, `Install`, `Invalidated` for
`invalidateQueries`), the hook `useBoardChannel` (`connId`, `HearWelcome`,
`Reconnect`, `SuppressEcho`, `Patch`, `Resync`), the module-level connection id
that requests are stamped with (`stamp`, which the channel of another board may
clear), and the mutations of `hooks.ts` (`DragCard` with its optimistic tree and
its rollback, `ClickCard` for those that wait). `GetBoard` is one step here: its
three reads are `BoardTree`'s subject. `useReorderColumn` follows the pattern of
`useMoveCard`, and the columns are fixed. `Listing` gives what `ORDER BY`
and JavaScript's sort return in closed form, for the proofs. `causes` is history: which of seven
races and faults has touched what the cache shows.

**`Session`** is a browser with several tabs and one cookie jar. Per tab: the
`AuthProvider` (`status`, `user`), the module state of `authClient.ts`
(`access`, and `refresh` for the request behind `refreshInFlight`), the calls of
`authFetch` (`call`: the bootstrap's and any other), and the two forms. The
browser attaches the cookie when a request leaves (`token`) and takes an
answer's when it arrives; an answer's cookie and the continuation of its promise
are one step. On the server a lookup, its verdict and the revocation after it
are one step (`JudgeRefresh`), the insert of the successor another
(`MintRefresh`): that gap is the one that decides between tabs, and
`RefreshFamily` has the others. A call may be answered 401 at any time, as if
its token had expired; refresh tokens do not live to their seven days.

Operators whose names start with `Slip` are deliberate mistakes (a dropped
guard, an off-by-one, a missing reset). No specification uses one; each is put
in the place of the definition after it to see that a property notices.
`PROJECT.json` pairs them.

## 4. The runs

| run | cfg | distinct states | what it asks |
|---|---|---|---|
| `position_loops` | `MCPositionLoops` | 196 k | the loops compute the closed forms; keys lie between their bounds; the cap is exactly the limit; renormalized keys leave room; the loops end |
| `card_order` | `MCCardOrder` | 362 k | unique positions; cards land where asked; the others keep their order; attempts are lost to others only; every request is answered, through lock waits, deadlocks and retries |
| `card_raw_error` | `MCCardRawError` | | violated: a unique violation of COMMIT reaches the client |
| `card_lost_move` | `MCCardLostMove` | | violated: a renormalization takes back a card that another client moved |
| `hub` | `MCHub` | 3.2 M | no panic; rooms hold live connections; members miss nothing |
| `hub_liveness` | `MCHubLiveness` | 137 k | the queue drains; released connections end; silent peers are removed; the hub implements `Room` |
| `hub_blocked_add` | `MCHubBlockedAdd` | | violated: a connection waits in `add` for good |
| `refresh` | `MCRefresh` | 1.3 M | dead sessions stay dead; tokens are revoked once; sessions end for a reason |
| `refresh_race` | `MCRefreshRace` | | violated: a second tab's refresh is judged stolen |
| `board_tree` | `MCBoardTree` | 811 k | rows keep their parents, boards their owner; a foreign key fails for a reason; writes stay on the caller's boards; fields that a body leaves out survive; three reads make a tree; changes are announced |
| `board_sync` | `MCBoardSync` | 2.8 M | once all is quiet the viewer sees the table; deleted cards do not come back |
| `session` | `MCSession` | 1.7 M | tabs are signed out for a reason and act as the user they show; a logout sticks; bootstraps end |

Bounds, and why they are enough:

- *Positions*: radix 4, bounds of up to four digits, cap 4: all pairs, the
  unordered ones included. Radix 4 has a lowest, a highest and two inner
  digits, so every comparison of the code has digits on both sides of it, and
  four digits leave room for a common prefix, a pair of adjacent digits, a
  carry over highest digits, and the cap. Renormalization of up to thirty items
  goes through keys of one, two and three digits, and the nudge.
- *Cards*: radix 4, cap 3, three cards, two columns, three requests. The two
  layouts of `MCCardOrder` put the columns where one more key exhausts, where a
  fresh key equals a renormalized one, and where one move undercuts another;
  the menu has creations, moves within and across columns, moves without a
  column and deletions of the same cards. A deadlock takes two requests, a clash that is decided by
  a third takes three. `MaxConflictRetries` is 2 instead of 3: one retry and
  the end of the retries. Every request may be cancelled in any step of its
  transaction.
- *Hub*: buffers of one message fill at once; two broadcasts put one message
  into the queue while another is fanned out; two connections on one or two
  boards tell a room from its neighbour. Liveness is checked for one
  connection, with three broadcasts, since no fairness condition mentions
  another connection.
- *Sessions*: two requests at a time (each takes the next one when it is done),
  three tokens, thus up to three families or one that was rotated twice;
  grace 1, lifetime 2 and time up to 3 put a replay before, at and after the
  end of the window and a token before, at and after its expiry.
- *Board tree*: three requests at a time, out of a menu of nineteen: every
  route, the same card, column and board from each side (edits of either field,
  moves within the board, out of it and without a column, deletes at every level
  of the tree), by the owner and by a plain member. Three let one request read,
  another act and a third act on what the second has changed; two boards of one
  owner, only one of them the member's, are what a move out of a board needs.
  Requests are symmetric.
- *Board sync*: two cards, two columns, one mutation of the viewer, two commits
  in all and one fault. Two commits are the smallest number that can be
  published in the wrong order; one fault is a drop, a lost answer, a lost
  request, a failed fetch, a closed socket or the late close of another board's
  channel. Two positions to a column make every second placement renormalize.
  Each of the seven causes alone was seen to make a quiet view differ.
- *Browser*: two tabs, two users, one login and one logout (in one of the tabs),
  three tokens beyond the one that may be there at the start, one failure. The
  starts are: no session, one under way, one that has ended under a cookie that
  is still there. Three tokens let both tabs refresh and one refresh again or
  log in. Each cause that the properties except was seen to be needed.

No deadlock is looked for in the runs in which the system may stop: when every
request is answered, every connection has ended, or a bound is reached.

Fairness, and why the code justifies it:

- `PositionLoops`: the loop goes on.
- `Session`: the server's steps of a refresh and the browser's delivery of its
  answer, and of the answer to the bootstrap's profile request, do not stop for
  ever while one of them can happen. Timeouts turn a request that hangs into one
  that fails. Nothing is assumed of users, other calls, logins and logouts.
- `CardOrder`: if some statement can run, or some deadlock can be resolved,
  then something of the kind happens. Goroutines and database sessions are
  scheduled, and `deadlock_timeout` is finite. Nothing is assumed of a single
  request, of clients or of cancellations.
- `Hub`: the `Run` goroutine, and each `ServeHTTP` and pump goroutine, is
  scheduled, with one exception: a write to a stalled peer may hang as long as
  the socket and the context are whole. Nothing is assumed of peers, broadcasts
  or the signal. A pump may still choose any ready branch for ever, and the
  properties hold all the same.

## 5. What the checks found

The properties that hold are the normal result. Four statements of the
repository's comments and ADRs do not hold of the code:

- `NoRawConstraintError`. `ports.go:27-29` and ADR-0003 promise that a unique
  violation of a position write is retried. A transaction that renormalized has
  deferred the constraint, so the violation surfaces at COMMIT, and `InTx`
  (`board_repository.go:53`) does not map it: the request ends with a 500.
- `OnlyItsOwnMoveTakesACardAway`. `RenormalizeCards`
  (`board_repository.go:300`) writes the column in which a card was listed along
  with its position. A move to another column that was committed after the
  listing is undone.
- `AddNeverBlocksForever`. `hub.go:114-115` says that `add` does not block on a
  stopped `Run`. It waits for the connection's own context, which derives from
  `context.Background()` and which nobody cancels before the registration.
- `BenignRacesAreAbsorbed`. `token.go:5-8` says that the grace window absorbs
  races between tabs. Between the two statements of a rotation the family has no
  live token, and a replay that is judged then counts as theft.

Other disagreements have no run of their own; the properties that hold carry
them as an exception, so that everything else is shown:

- "A nil field is left unchanged" (`cards.go:55`). `EditCard` writes the row
  back as it has read it: of two edits of different fields the later one can undo
  the earlier. `UnnamedFieldsSurvive` excepts a field edited after the read.
- A handler publishes "after a mutation commits" (`board_handlers.go:22`). A
  PATCH whose edit commits and whose move fails answers with the error and
  publishes nothing. `OnlyHalfDonePatchesAreSilent` says that nothing else is
  silent.
- A card's board may change while a request is under way, by a move of a caller
  who is a member of both boards. The request then writes to a board that its
  own caller may not be a member of; `WritesStayOnOnesOwnBoards` excepts that
  case and no other.
- "Anything missed during a gap re-converges" (`useBoardChannel.ts:4-5`). A
  viewer's screen stays wrong, with nothing under way that would right it, after
  an event that a full queue has dropped, two events published in the wrong
  order, a refetch that overwrites a later patch, a change between the page's
  fetch and the first registration, a renormalization (which moves cards and
  announces one), an answer that got lost, or a refetch that failed.
  `QuietViewsAreTrue` names each as a cause and shows that there is no other.
- A tab that did not log out loses its session only by a logout or a failure
  somewhere, a replay after the grace window, the race of `refresh_race`, or a
  bootstrap that a login has overtaken (`AuthProvider.tsx:41`). A logout does not
  stick when a refresh is on its way at the same time: its answer sets cookie and
  token again. A refresh takes the account of whatever cookie is there, so a tab
  may act as a user whom another tab has logged in.
- The close code at a shutdown (ADR-0004 item 4; the pump's `select` may see the
  closed channel first and close with 1000) and the number of tolerated replays
  (ADR-0002; nothing counts them).

## 6. What is proved

Every safety property of every passing run, invariant or action property, and
the refinement of `Room` by `Hub`: each is a theorem for every value of the
constants, under the assumptions the modules name. These are

- `PositionAssumption`, `LoopAssumption`: a radix of at least two, a cap of at
  least one, bounds that are keys or open;
- `TableAssumption`, `CardOrderAssumption`: finitely many cards, at least one
  attempt, requests that a client can make, a starting table that satisfies its
  UNIQUE constraint;
- `RowsAssumption`, `TreeAssumption`: ids of boards, columns and cards disjoint
  (they are UUIDs), requests whose paths name a row, starting tables that
  satisfy the foreign keys, with one owner a board;
- `SyncAssumption`: finitely many cards, a starting table that satisfies the
  UNIQUE constraint, null not a row;
- `HubAssumption`, `RefreshAssumption`, `SessionAssumption`: capacities, times
  and budgets in their ranges; finitely many tabs; starting sessions whose
  tokens exist.

A model value that stands for null or for none is assumed to be none of the ids.

**`PositionProofs`** is about the operators: `BetweenIsStrict` (a key that
`Between` returns is valid and strictly between its bounds), `BetweenRespectsTheCap`
(within the cap for bounds within it, and exhausted only next to a bound that
has reached it) and `RenormalizedKeysAscend`, for any radix, cap and bounds.
The order on keys is handled through the first place in which two keys differ.
Induction over data is out of reach here as a rule of inference; what needs it is
proved with `LeastNumber`, as the absence of a least counterexample. The powers
of the radix are a recursive function, whose existence is shown through its
finite tables.

**`PositionLoopsProofs`** proves the five safety properties of `position_loops`.
`LoopsComputeClosedForms` speaks of finished runs only; `LoopsSoFar` says of each
loop what it has done: `PrependSoFar` (the lowest digits it has passed are those
of the bound), `MidpointSoFar` (the walk follows `prev`, with the upper bound
while the bounds agree, without it after the first difference where no digit
fits), `WidthSoFar` (no smaller width would do) and `PositionsSoFar`. The other
properties then follow from `PositionProofs`.

**`CardOrderProofs!PositionsStayUnique`** (`Spec => []UniquePositions`): no
interleaving of requests commits two cards of a column at one position, for any
number of cards, columns and requests, and whatever keys they compute.
Uniqueness of the committed rows is not inductive: a commit installs a whole
set of written rows at once. The invariant `IndInv` adds:

- `Exclusive`: a row is locked by one transaction;
- `NoHiddenClash`: a written row that is not waiting for its second test equals
  a committed row only if its own transaction has moved that row away, and
  equals another written row only if *that* one is waiting for a test. It says
  that of two open writes of the same key the later one was marked, which is why
  testing marked rows only is enough;
- `Ids`: the card of a creation under way has no row and no lock elsewhere,
  which makes an insert harmless;
- the shapes of the variables that these mention.

Each statement that changes the table has a lemma (`PutRowKeeps`, and those for
the recheck, the commit, the rollback and the delete), and each action one that
cites them. This proof uses nothing of what `Between` computes: uniqueness
rests on the constraint alone.

The rest of `CardOrder` rests on the keys as well. `CardTypes` needs that
`Between` and `Renormalize` return keys. `OnlyTheOvertakenLose`,
`RenormalizingKeepsTheOrder` and `CardsLandWhereAsked` need to know what an
attempt that nobody has overtaken holds of its column, which is `Undisturbed`:
a transaction that has not written owns nothing (`Bare`), and, from the first
rewrite to the end of the attempt (`Tidy`), the cards rewritten and those still
to be rewritten split the column in its order (`Rewriting`), the other cards
stand in their order (`Arranged`), and the key chosen lies where the index says
(`Placed`). Somebody else's step either sets `overtaken` or touches none of it.

**`HubProofs`**: `TypeCorrect`, `HubNeverPanics`, `RoomsHoldLiveConnections`.
`NeverPanics` depends on what the fan-out has still to visit being in the room,
and on a connection not having been released before it registers;
`MembersAreAlive` on a handler giving up only after the cancellation, and the
cancellation coming with the removal. `IndInv` adds `InOwnRoom` (a connection is
in no room but its board's), `Unregistered` (before `add`, nobody has closed or
cancelled), `FanningOut` (the room being fanned out holds what is left to
visit) and `Writing` (a write has a message).

`HubImplementsRoom` maps what a connection is owed to the send buffer, the
message in its pump's hand, the fan-out and the queue. `Delivering` adds what
the mapping needs: nothing is in the hands of a connection that is not yet in
its room (`Fresh`), an idle pump holds nothing (`HandsEmpty`), and the queue is
the end of every board's log (`QueueEndsTheLogs`). Each action of the hub is then
one step of the room or none: handing a message on, from the queue to the
fan-out to the buffer to the pump, changes no sum. `MembersAreComplete` is proved
of the room's steps (`Promised`), so of whatever implements it.

**`RefreshFamilyProofs`** proves all four properties of the run `refresh`:
`TypeCorrect`, `EndedSessionsStayEnded`, `RevocationIsFinal` and
`SessionsAreNotLost`, for any number of requests and tokens, any grace window
and any lifetime. `DeadFamiliesStayDead` is not inductive: a request under way
could bring the family back. `IInv` adds `UnmintedAreBlank` (a number not given
out names no row), `RequestsHoldTheirRows` (a request's row and the row of its
token are of one family, or a purge has removed the latter), and, for every dead
family, that no request is about to rotate or mint in it and that one which has
still to decide holds a row that is revoked or has expired (`Spent`). The steps
that mint nothing only shrink the table (`TableShrinks`), and one lemma
(`OneRequestMoves`) says what is left to show of each. `SessionsAreNotLost`
follows the live token or the mint that keeps a family open through each
statement.

**`BoardTreeProofs`** proves the eight properties of the run `board_tree`, for
any number of users, boards, columns, cards and concurrent requests and any menu
of requests whose paths name a row. The invariant `IInv` adds, in three groups:

- `Inv`: where a request stands in its use case (`Staged`), and the foreign keys
  (`Intact`), which each statement of `BoardRows` preserves by a lemma of its own;
- `Ids`: an id is given out once (`Known`, `Distinct`), a row that was deleted
  does not come back (`Buried`), and an insert under way meets no row (`Fresh`,
  `Apart`). Without these a stale check could be about another row of the same id;
- `Local`: what a request was told still holds, or its history says what has
  changed since: the check it has passed (`Guarded`), the row that an edit is to
  write back (`Unedited`), the columns a tree has listed (`Reading`).

`Effect` is what any one write may do to the tables; a request that does not
take the step only has to survive that, so each part of `Local` needs one lemma
for its own steps and one for everybody else's. `NoOrphansEver` and
`EveryBoardIsOwned` follow from `Intact`, the action properties from `Local` by
looking at the write that changed the card. `ChangesAreAnnounced` has an
invariant of its own, `Heard`: but for the PATCH of two use cases, a request that
is still to publish has changed nothing or has an event for its board at hand,
and one that is answered has told the board it has changed.

**`SessionProofs`** proves the four safety properties of `session`, for any
number of tabs and users. `SessionInv` has, besides types, the budget of tokens
and the order of a tab's requests (`Base`), one group for each property:
`FamiliesSound` (the cookie, and every token under way in a tab that is signed
in, belongs to a family that can still be refreshed, or one of the excepted
causes has happened), `OnePerson` (unless two users have met, all that the
browser holds is about one of them) and `SignedOutSoFar` (after a logout nothing
that is on its way has a token to bring back). The properties speak of tabs at
rest; the groups say it of every request that can bring one there.

**`BoardSyncProofs`** proves the three properties of `board_sync`, for any board
and any number of commits, mutations and faults. `SyncInv` gives `SyncTypes` and,
through `DeletesAreFinal` (a buried card has no row, and every answer that could
show it was read before its delete), `DeletedStayGone`. `QuietViewsAreTrue`
says nothing of a state in which something is under way, so `ViewInv` says what a
view may lack then: unless a cause has happened or a refetch is owed, each card
is shown as its row is, or an event on its way is going to right it (`TrueCache`;
`TrueAnswer` for an answer that may still be installed). That this survives each
step needs that the last event of a card says what its row says (`Dated`,
`Past`), that an answer with the latest commit in it is the table
(`CurrentAnswer`), and, for equality of whole trees, that a column's rows have
distinct keys: a sorted listing is determined by what it lists.

TLC finds all these invariants true on the instances of section 4 (`TableShape`
and `RequestShape` of `CardOrderProofs` through the stronger `TypeOK`).

Only model-checked: liveness, whose fairness the prover cannot expand (it has no
`ENABLED`). That is `Returns` of `PositionLoops`, `EveryRequestAnswered` of
`CardOrder`, `QueueDrains`, `ReleasedConnectionsEnd` and `SilentPeersAreReaped` of
`Hub`, and `BootstrapsEnd` of `Session`; and the four violations, which are
counterexamples.

## 7. What is not modelled

- The positions of columns: `placeColumn` and `RenormalizeColumns` mirror
  `placeCard` and `RenormalizeCards`, which are `CardOrder`. `BoardTree` has
  their statements, their conflicts and their events.
- Titles of boards and columns, and the length limits of titles and
  descriptions beyond one title that is refused.
- In `BoardSync`: changes of columns (they only invalidate, as a created card
  does), several boards at once but for the late close of the previous one's
  channel, the authentication of the socket. A reconnect that is refused because
  the access token has expired goes on until another request refreshes it: that
  it ever succeeds would need fairness that the code does not justify, so no
  liveness is claimed of the channel.
- In `Session`: tabs that close or reload, refresh tokens that expire after
  seven days, a failing database (a failure of the request).
- The rate limiter's buckets: one mutex around a map of library buckets; nothing
  interleaves. A refusal is a failure in `Session`.
- Registration, hashing, signing, decoding, routing, error wording: sequential
  code without state of its own, or one insert under a constraint.
- The database's collation, which `ORDER BY position` uses: the models compare
  bytes, as the C collation and Go do.
- Process crashes. Only the database survives one, and a request that a crash
  interrupts leaves there what a cancelled one does.
- The upgrade of a socket, the contents of frames, pages and toasts; how
  generated code scans rows.
