-------------------------------- MODULE Hub --------------------------------
(***************************************************************************)
(* The in-process WebSocket hub (server/internal/adapter/ws): the Run      *)
(* goroutine, the HTTP handlers that broadcast, and for each connection    *)
(* its ServeHTTP goroutine with the read pump and its write pump.          *)
(*                                                                         *)
(* Channels of Go: register and unregister are unbuffered, so a send and   *)
(* its receipt are one step of two goroutines; broadcast and send are      *)
(* bounded queues; sending on or closing a closed channel would panic; a   *)
(* select with several ready branches takes any of them.  Each step that   *)
(* closes a send channel cancels the context too, the order of the two     *)
(* calls being invisible to a pump, whose select may take either branch.   *)
(*                                                                         *)
(* The websocket library and the peers are external.  The upgrade is over, *)
(* and one connection stands for each element of Conns.                    *)
(***************************************************************************)
EXTENDS Naturals, Sequences, SequencesExt

CONSTANTS Conns, Boards,
          QueueSize,       \* broadcastQueueSize, 256 in the code
          SendSize,        \* sendBufferSize, 64 in the code
          MaxBroadcasts    \* bound on the events the handlers publish

ASSUME HubAssumption == /\ QueueSize \in Nat \ {0}
                        /\ SendSize \in Nat \ {0}
                        /\ MaxBroadcasts \in Nat

VARIABLES
  \* the Run goroutine
  run,        \* where it is
  signalled,  \* its context is cancelled (SIGTERM)
  rooms,      \* members by board
  queue,      \* the broadcast channel
  current,    \* the message being fanned out
  visit,      \* the members its range loop has still to reach
  \* the connections
  board,      \* the board each asked for
  handler,    \* where ServeHTTP and its read pump are
  writer,     \* where the write pump is
  cancelled,  \* connCtx
  send,       \* the send channel
  closes,     \* how often it was closed
  inflight,   \* what the write pump took from it
  socket,     \* "open", or how it was closed
  peer,       \* the client's end
  \* history
  accepted,   \* by board, the messages that entered the queue
  received,   \* the messages written to each socket
  published   \* number of broadcast requests

runVars == <<run, signalled, rooms, queue, current, visit>>
connVars == <<handler, writer, cancelled, send, closes, inflight, socket, peer>>
vars == <<runVars, board, connVars, accepted, received, published>>

Message == [board : Boards, id : 1..MaxBroadcasts]
Idle == <<>>

TypeOK ==
    /\ run \in {"select", "fanout", "closing", "stopped"}
    /\ signalled \in BOOLEAN
    /\ rooms \in [Boards -> SUBSET Conns]
    /\ queue \in Seq(Message) /\ Len(queue) <= QueueSize
    /\ current \in Message \cup {Idle}
    /\ visit \in SUBSET Conns
    /\ board \in [Conns -> Boards]
    /\ handler \in [Conns -> {"auth", "add", "welcome", "read", "remove",
                              "return", "done"}]
    /\ writer \in [Conns -> {"none", "select", "write", "ping", "done"}]
    /\ cancelled \in [Conns -> BOOLEAN]
    /\ send \in [Conns -> Seq(Message)]
    /\ \A c \in Conns : Len(send[c]) <= SendSize
    /\ closes \in [Conns -> Nat]
    /\ inflight \in [Conns -> Message \cup {Idle}]
    /\ socket \in [Conns -> {"open", "going_away", "normal", "policy",
                             "bad_frame", "auth", "abrupt"}]
    /\ peer \in [Conns -> {"reading", "stalled", "gone"}]
    /\ accepted \in [Boards -> Seq(Message)]
    /\ received \in [Conns -> Seq(Message)]
    /\ published \in 0..MaxBroadcasts

Init ==
    /\ run = "select" /\ signalled = FALSE
    /\ rooms = [b \in Boards |-> {}]
    /\ queue = <<>> /\ current = Idle /\ visit = {}
    /\ board \in [Conns -> Boards]
    /\ handler = [c \in Conns |-> "auth"]
    /\ writer = [c \in Conns |-> "none"]
    /\ cancelled = [c \in Conns |-> FALSE]
    /\ send = [c \in Conns |-> <<>>]
    /\ closes = [c \in Conns |-> 0]
    /\ inflight = [c \in Conns |-> Idle]
    /\ socket = [c \in Conns |-> "open"]
    /\ peer = [c \in Conns |-> "reading"]
    /\ accepted = [b \in Boards |-> <<>>]
    /\ received = [c \in Conns |-> <<>>]
    /\ published = 0

InRoom(c) == c \in rooms[board[c]]

(* Close is a no-op on a socket that is closed already. *)
CloseSocket(c, code) ==
    socket' = [socket EXCEPT ![c] = IF @ = "open" THEN code ELSE @]
-----------------------------------------------------------------------------
(* The Run goroutine *)

(* close(send); cancel(): the connection leaves the room with both. *)
Release(c) ==
    /\ rooms' = [rooms EXCEPT ![board[c]] = @ \ {c}]
    /\ closes' = [closes EXCEPT ![c] = @ + 1]
    /\ cancelled' = [cancelled EXCEPT ![c] = TRUE]

SlipRemoveConn(c) == Release(c)
RemoveConn(c) ==
    IF InRoom(c) THEN Release(c) ELSE UNCHANGED <<rooms, closes, cancelled>>

(* The register branch, with the handler's hub.add.  The other branch of   *)
(* add waits for connCtx, which nobody can cancel before this step.        *)
Register(c) ==
    /\ run = "select" /\ handler[c] = "add"
    /\ rooms' = [rooms EXCEPT ![board[c]] = @ \cup {c}]
    /\ handler' = [handler EXCEPT ![c] = "welcome"]
    /\ UNCHANGED <<run, signalled, queue, current, visit, board, writer,
                   cancelled, send, closes, inflight, socket, peer, accepted,
                   received, published>>

(* The unregister branch, with the handler's hub.remove. *)
Unregister(c) ==
    /\ run = "select" /\ handler[c] = "remove"
    /\ RemoveConn(c)
    /\ handler' = [handler EXCEPT ![c] = "return"]
    /\ UNCHANGED <<run, signalled, queue, current, visit, board, writer, send,
                   inflight, socket, peer, accepted, received, published>>

SlipTakeBroadcast ==
    /\ run = "select" /\ queue # <<>>
    /\ current' = Head(queue)
    /\ queue' = Tail(queue)
    /\ visit' = UNION {rooms[b] : b \in Boards}
    /\ run' = "fanout"
    /\ UNCHANGED <<signalled, rooms, board, connVars, accepted, received,
                   published>>

(* The broadcast branch: take a message and range over its room. *)
TakeBroadcast ==
    /\ run = "select" /\ queue # <<>>
    /\ current' = Head(queue)
    /\ queue' = Tail(queue)
    /\ visit' = rooms[Head(queue).board]
    /\ run' = "fanout"
    /\ UNCHANGED <<signalled, rooms, board, connVars, accepted, received,
                   published>>

SlipBufferFull(c) == Len(send[c]) > SendSize
BufferFull(c) == Len(send[c]) >= SendSize

SlipDropSlowConsumer(c) == UNCHANGED <<rooms, closes, cancelled>>
DropSlowConsumer(c) == RemoveConn(c)

(* The non-blocking send, for one member of the room. *)
SlipFanOut(c) ==
    /\ run = "fanout" /\ c \in visit /\ ~BufferFull(c)
    /\ visit' = visit \ {c}
    /\ send' = [send EXCEPT ![c] = Append(@, current)]
    /\ UNCHANGED <<run, signalled, rooms, queue, current, board, handler,
                   writer, cancelled, closes, inflight, socket, peer,
                   accepted, received, published>>
FanOut(c) ==
    /\ run = "fanout" /\ c \in visit
    /\ visit' = visit \ {c}
    /\ \/ /\ ~BufferFull(c)
          /\ send' = [send EXCEPT ![c] = Append(@, current)]
          /\ UNCHANGED <<rooms, closes, cancelled>>
       \/ /\ BufferFull(c)
          /\ DropSlowConsumer(c)
          /\ UNCHANGED send
    /\ UNCHANGED <<run, signalled, queue, current, board, handler, writer,
                   inflight, socket, peer, accepted, received, published>>

FanOutDone ==
    /\ run = "fanout" /\ visit = {}
    /\ run' = "select" /\ current' = Idle
    /\ UNCHANGED <<signalled, rooms, queue, visit, board, connVars, accepted,
                   received, published>>

(* The ctx.Done branch, into closeAll. *)
Stop ==
    /\ run = "select" /\ signalled
    /\ run' = "closing"
    /\ UNCHANGED <<signalled, rooms, queue, current, visit, board, connVars,
                   accepted, received, published>>

SlipCloseOne(c) ==
    /\ rooms' = [rooms EXCEPT ![board[c]] = @ \ {c}]
    /\ UNCHANGED <<closes, cancelled>>
CloseOne(c) == Release(c)

CloseAll(c) ==
    /\ run = "closing" /\ InRoom(c)
    /\ CloseOne(c)
    /\ UNCHANGED <<run, signalled, queue, current, visit, board, handler,
                   writer, send, inflight, socket, peer, accepted, received,
                   published>>

Stopped ==
    /\ run = "closing" /\ \A b \in Boards : rooms[b] = {}
    /\ run' = "stopped"
    /\ UNCHANGED <<signalled, rooms, queue, current, visit, board, connVars,
                   accepted, received, published>>

Run ==
    \/ \E c \in Conns :
          Register(c) \/ Unregister(c) \/ FanOut(c) \/ CloseAll(c)
    \/ TakeBroadcast \/ FanOutDone \/ Stop \/ Stopped
-----------------------------------------------------------------------------
(* The handlers of committed mutations *)

(* The enqueue never blocks: a full queue drops the event. *)
Broadcast(b) ==
    LET message == [board |-> b, id |-> published + 1] IN
    /\ published < MaxBroadcasts
    /\ published' = published + 1
    /\ \/ /\ Len(queue) < QueueSize
          /\ queue' = Append(queue, message)
          /\ accepted' = [accepted EXCEPT ![b] = Append(@, message)]
       \/ /\ Len(queue) = QueueSize
          /\ UNCHANGED <<queue, accepted>>
    /\ UNCHANGED <<run, signalled, rooms, current, visit, board, connVars,
                   received>>

Signal ==
    /\ ~signalled
    /\ signalled' = TRUE
    /\ UNCHANGED <<run, rooms, queue, current, visit, board, connVars,
                   accepted, received, published>>
-----------------------------------------------------------------------------
(* ServeHTTP and the read pump *)

(* authenticate: the token, the membership and the peer decide. *)
Authenticate(c) ==
    /\ handler[c] = "auth"
    /\ \/ /\ peer[c] # "gone"
          /\ handler' = [handler EXCEPT ![c] = "add"]
          /\ UNCHANGED socket
       \/ /\ handler' = [handler EXCEPT ![c] = "return"]
          /\ CloseSocket(c, "auth")
    /\ UNCHANGED <<runVars, board, writer, cancelled, send, closes, inflight,
                   peer, accepted, received, published>>

(* Reading or writing the socket fails, for the context's reason, the      *)
(* socket's or the peer's.                                                 *)
Broken(c) == cancelled[c] \/ socket[c] # "open" \/ peer[c] = "gone"

Welcome(c) ==
    /\ handler[c] = "welcome"
    /\ \/ /\ ~Broken(c)
          /\ handler' = [handler EXCEPT ![c] = "read"]
          /\ writer' = [writer EXCEPT ![c] = "select"]
       \/ /\ Broken(c)
          /\ handler' = [handler EXCEPT ![c] = "remove"]
          /\ UNCHANGED writer
    /\ UNCHANGED <<runVars, board, cancelled, send, closes, inflight, socket,
                   peer, accepted, received, published>>

ReadFails(c) ==
    /\ handler[c] = "read" /\ Broken(c)
    /\ handler' = [handler EXCEPT ![c] = "remove"]
    /\ UNCHANGED <<runVars, board, writer, cancelled, send, closes, inflight,
                   socket, peer, accepted, received, published>>

(* A frame that is not a ping. *)
BadFrame(c) ==
    /\ handler[c] = "read" /\ ~Broken(c)
    /\ handler' = [handler EXCEPT ![c] = "remove"]
    /\ CloseSocket(c, "bad_frame")
    /\ UNCHANGED <<runVars, board, writer, cancelled, send, closes, inflight,
                   peer, accepted, received, published>>

SlipGiveUp(c) ==
    /\ handler[c] = "remove"
    /\ handler' = [handler EXCEPT ![c] = "return"]
    /\ UNCHANGED <<runVars, board, writer, cancelled, send, closes, inflight,
                   socket, peer, accepted, received, published>>

(* hub.remove gives up once the context is cancelled. *)
GiveUp(c) ==
    /\ handler[c] = "remove" /\ cancelled[c]
    /\ handler' = [handler EXCEPT ![c] = "return"]
    /\ UNCHANGED <<runVars, board, writer, cancelled, send, closes, inflight,
                   socket, peer, accepted, received, published>>

(* The deferred cancel and CloseNow. *)
Return(c) ==
    /\ handler[c] = "return"
    /\ handler' = [handler EXCEPT ![c] = "done"]
    /\ cancelled' = [cancelled EXCEPT ![c] = TRUE]
    /\ CloseSocket(c, "abrupt")
    /\ UNCHANGED <<runVars, board, writer, send, closes, inflight, peer,
                   accepted, received, published>>
-----------------------------------------------------------------------------
(* The write pump *)

WriterQuits(c, code) ==
    /\ writer' = [writer EXCEPT ![c] = "done"]
    /\ CloseSocket(c, code)
    /\ UNCHANGED <<runVars, board, handler, cancelled, send, closes, inflight,
                   peer, accepted, received, published>>

SeesCancel(c) ==
    /\ writer[c] = "select" /\ cancelled[c]
    /\ WriterQuits(c, "going_away")

(* A closed channel still delivers what it holds. *)
SeesClosed(c) ==
    /\ writer[c] = "select" /\ closes[c] > 0 /\ send[c] = <<>>
    /\ WriterQuits(c, "normal")

TakeFromSend(c) ==
    /\ writer[c] = "select" /\ send[c] # <<>>
    /\ inflight' = [inflight EXCEPT ![c] = Head(send[c])]
    /\ send' = [send EXCEPT ![c] = Tail(@)]
    /\ writer' = [writer EXCEPT ![c] = "write"]
    /\ UNCHANGED <<runVars, board, handler, cancelled, closes, socket, peer,
                   accepted, received, published>>

(* A stalled peer's kernel may still take the bytes, or never do so. *)
WriteSocket(c) ==
    /\ writer[c] = "write" /\ ~Broken(c)
    /\ received' = [received EXCEPT ![c] = Append(@, inflight[c])]
    /\ inflight' = [inflight EXCEPT ![c] = Idle]
    /\ writer' = [writer EXCEPT ![c] = "select"]
    /\ UNCHANGED <<runVars, board, handler, cancelled, send, closes, socket,
                   peer, accepted, published>>

WriteFails(c) ==
    /\ writer[c] = "write" /\ Broken(c)
    /\ writer' = [writer EXCEPT ![c] = "done"]
    /\ UNCHANGED <<runVars, board, handler, cancelled, send, closes, inflight,
                   socket, peer, accepted, received, published>>

(* The ticker; the pump does nothing else until the pong or the timeout. *)
Ping(c) ==
    /\ writer[c] = "select"
    /\ writer' = [writer EXCEPT ![c] = "ping"]
    /\ UNCHANGED <<runVars, board, handler, cancelled, send, closes, inflight,
                   socket, peer, accepted, received, published>>

Pong(c) ==
    /\ writer[c] = "ping" /\ ~Broken(c) /\ peer[c] = "reading"
    /\ writer' = [writer EXCEPT ![c] = "select"]
    /\ UNCHANGED <<runVars, board, handler, cancelled, send, closes, inflight,
                   socket, peer, accepted, received, published>>

SlipPingFails(c) ==
    /\ writer[c] = "ping" /\ (Broken(c) \/ peer[c] # "reading")
    /\ writer' = [writer EXCEPT ![c] = "done"]
    /\ UNCHANGED <<runVars, board, handler, cancelled, send, closes, inflight,
                   socket, peer, accepted, received, published>>
PingFails(c) ==
    /\ writer[c] = "ping" /\ (Broken(c) \/ peer[c] # "reading")
    /\ WriterQuits(c, "policy")
-----------------------------------------------------------------------------
(* The peers, whose doings show as long as the socket is open *)

Stall(c) ==
    /\ peer[c] = "reading" /\ socket[c] = "open"
    /\ peer' = [peer EXCEPT ![c] = "stalled"]
    /\ UNCHANGED <<runVars, board, handler, writer, cancelled, send, closes,
                   inflight, socket, accepted, received, published>>

Vanish(c) ==
    /\ peer[c] # "gone" /\ socket[c] = "open"
    /\ peer' = [peer EXCEPT ![c] = "gone"]
    /\ UNCHANGED <<runVars, board, handler, writer, cancelled, send, closes,
                   inflight, socket, accepted, received, published>>
-----------------------------------------------------------------------------
Serve(c) ==
    \/ Authenticate(c) \/ Welcome(c) \/ ReadFails(c) \/ GiveUp(c) \/ Return(c)

Pump(c) ==
    \/ SeesCancel(c) \/ SeesClosed(c) \/ TakeFromSend(c) \/ WriteSocket(c)
    \/ WriteFails(c) \/ Ping(c) \/ Pong(c) \/ PingFails(c)

Next ==
    \/ Run
    \/ \E b \in Boards : Broadcast(b)
    \/ Signal
    \/ \E c \in Conns :
          Serve(c) \/ BadFrame(c) \/ Pump(c) \/ Stall(c) \/ Vanish(c)

Spec == Init /\ [][Next]_vars

(* Goroutines are scheduled, timers fire, and a write to a peer that reads *)
(* completes; one to a stalled peer may hang until the connection breaks.  *)
Unhindered(c) == peer[c] = "reading" \/ Broken(c)

Fairness ==
    /\ WF_vars(Run)
    /\ \A c \in Conns :
          /\ WF_vars(Serve(c) /\ (handler[c] = "welcome" => Unhindered(c)))
          /\ WF_vars(Pump(c) /\ (writer[c] = "write" => Unhindered(c)))

FairSpec == Spec /\ Fairness
-----------------------------------------------------------------------------
(* Properties *)

(* Nothing sends on a closed channel or closes one twice, either of which  *)
(* would panic the process, though a connection may be removed twice, "by  *)
(* a slow-consumer drop and its own read-error unregister" (hub.go:84-86): *)
(* what the fan-out still has to reach is in the room, and who is in the   *)
(* room has an open channel.                                               *)
NeverPanics ==
    /\ \A c \in Conns : closes[c] <= (IF InRoom(c) THEN 0 ELSE 1)
    /\ \A c \in visit : InRoom(c)

(* A room holds no connection whose handler has returned or whose context  *)
(* is cancelled: whatever ends the read pump, the hub hears of it before   *)
(* ServeHTTP returns (handler.go:93-100), so no dead connection keeps      *)
(* receiving broadcasts.                                                   *)
MembersAreAlive ==
    \A c \in Conns : InRoom(c) =>
        /\ handler[c] \in {"welcome", "read", "remove"}
        /\ ~cancelled[c]

(* The part of a sequence of messages that is for board b, by a recursive  *)
(* function, which proofs can unfold.                                      *)
ForBoard(s, b) ==
    LET upTo[n \in 0..Len(s)] ==
          IF n = 0 THEN <<>>
          ELSE IF s[n].board = b THEN Append(upTo[n - 1], s[n])
          ELSE upTo[n - 1]
    IN upTo[Len(s)]

(* What the hub has put into the connection's hands. *)
Handed(c) == (IF inflight[c] = Idle THEN <<>> ELSE <<inflight[c]>>) \o send[c]

OnTheWay(c) ==
    Handed(c) \o (IF c \in visit THEN <<current>> ELSE <<>>)
              \o ForBoard(queue, board[c])

(* A member has received, or is going to, every message that entered the   *)
(* queue for its board since the first one it was sent, in the order they  *)
(* entered it, and nothing of another board: a consumer that misses one is *)
(* out of the room (hub.go:69-79, ADR-0004 item 3).                        *)
MembersMissNothing ==
    \A c \in Conns : InRoom(c) =>
        IsSuffix(received[c] \o OnTheWay(c), accepted[board[c]])

(* A connection as its room sees it. *)
Phase(c) == IF InRoom(c) THEN "in" ELSE IF closes[c] = 0 THEN "out" ELSE "left"
Due(c) == IF InRoom(c) THEN OnTheWay(c) ELSE Handed(c)

RoomView == INSTANCE Room WITH
    Messages <- Message, log <- accepted,
    phase <- [c \in Conns |-> Phase(c)],
    due <- [c \in Conns |-> Due(c)]

(* The hub implements the room: through the queue, the fan-out, the buffers*)
(* and the pumps each connection gets a contiguous part of its board's     *)
(* events, in order and once each, from the queue's content at its         *)
(* registration to somewhere before its removal, whoever removes it        *)
(* (hub.go:50-101, conn.go:75-101).                                        *)
ImplementsRoom == RoomView!Spec

(* Run "must never block on a connection" (hub.go:48-50): the queue drains *)
(* whatever the peers and the pumps do or fail to do.                      *)
QueueDrains == queue # <<>> ~> queue = <<>> \/ run = "stopped"

Ended(c) == handler[c] = "done" /\ writer[c] \in {"none", "done"}

(* Out of the room, by a drop, its own end or the shutdown, a connection   *)
(* comes to an end with both its goroutines: none "outlives its            *)
(* connection" (ADR-0004 item 4).                                          *)
ReleasedConnectionsEnd ==
    \A c \in Conns :
        handler[c] \in {"welcome", "read", "remove", "return"} /\ ~InRoom(c)
           ~> Ended(c)

(* The heartbeat removes a peer that stopped answering, unless a write to  *)
(* that peer hangs: the write pump cannot ping while it writes             *)
(* (conn.go:90-101), and a quiet board never fills the buffer.             *)
SilentPeersAreReaped ==
    \A c \in Conns :
        InRoom(c) /\ peer[c] # "reading"
           ~> \/ ~InRoom(c)
              \/ writer[c] = "write" \/ handler[c] = "welcome"

(* hub.go:114-115: add "reports false if the hub is already shutting down  *)
(* (so the caller doesn't block forever on a stopped Run goroutine)".      *)
AddNeverBlocksForever ==
    \A c \in Conns : handler[c] = "add" ~> handler[c] # "add"
=============================================================================
