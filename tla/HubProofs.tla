----------------------------- MODULE HubProofs -----------------------------
(***************************************************************************)
(* Proof that the hub never panics on a closed channel, that no room holds *)
(* a dead connection, and that the hub implements the room, whence its     *)
(* members miss nothing: for any number of connections, boards and         *)
(* broadcasts, and any buffer sizes.                                       *)
(***************************************************************************)
EXTENDS Hub, SequenceTheorems, WellFoundedInduction, TLAPS

(* A connection is in no other room than that of its board. *)
InOwnRoom == \A b \in Boards : \A c \in rooms[b] : board[c] = b

(* Before it registers, nobody can have released a connection, which is    *)
(* why Register may put it into the room; and once ServeHTTP gives up on   *)
(* it, it is out of the room.                                              *)
Unregistered ==
    \A c \in Conns : handler[c] \in {"auth", "add"} =>
        closes[c] = 0 /\ ~cancelled[c]

(* The fan-out ranges over the room of the message it took; the room       *)
(* cannot grow or shrink under it but by its own drops.                    *)
FanningOut ==
    /\ run = "fanout" => current \in Message /\ visit \subseteq rooms[current.board]
    /\ run # "fanout" => visit = {}

Writing == \A c \in Conns : writer[c] = "write" => inflight[c] \in Message

IndInv == /\ TypeOK /\ InOwnRoom /\ Unregistered /\ FanningOut /\ Writing
          /\ NeverPanics /\ MembersAreAlive

LEMMA InitEstablishes == Init => IndInv
<1> SUFFICES ASSUME Init PROVE IndInv
  OBVIOUS
<1> USE DEF Init
<1>1. TypeOK
  <2>1. <<>> \in Seq(Message) /\ Len(<<>>) = 0
    OBVIOUS
  <2>2. \A b \in Boards : accepted[b] \in Seq(Message)
    BY <2>1
  <2>3. \A c \in Conns : received[c] \in Seq(Message)
    BY <2>1
  <2>4. \A c \in Conns : send[c] \in Seq(Message) /\ Len(send[c]) <= SendSize
    BY <2>1, HubAssumption
  <2>5. queue \in Seq(Message) /\ Len(queue) <= QueueSize
    BY <2>1, HubAssumption
  <2>6. published \in 0..MaxBroadcasts
    BY HubAssumption
  <2> QED
    BY <2>1, <2>2, <2>3, <2>4, <2>5, <2>6 DEF TypeOK, Idle
<1>2. InOwnRoom /\ Unregistered /\ FanningOut /\ Writing
  BY DEF InOwnRoom, Unregistered, FanningOut, Writing
<1>3. NeverPanics /\ MembersAreAlive
  BY DEF NeverPanics, MembersAreAlive, InRoom
<1> QED
  BY <1>1, <1>2, <1>3 DEF IndInv

(* A connection leaves its room with its channel closed and its context    *)
(* cancelled, or was not in it and nothing happens.                        *)
LEMMA RemoveConnFacts ==
    ASSUME IndInv, NEW c \in Conns, RemoveConn(c)
    PROVE  /\ rooms' \in [Boards -> SUBSET Conns]
           /\ closes' \in [Conns -> Nat]
           /\ cancelled' \in [Conns -> BOOLEAN]
           /\ \A b \in Boards : rooms'[b] = rooms[b] \ {c}
           /\ \A d \in Conns \ {c} :
                 closes'[d] = closes[d] /\ cancelled'[d] = cancelled[d]
           /\ IF InRoom(c) THEN closes'[c] = 1
              ELSE closes'[c] = closes[c] /\ cancelled'[c] = cancelled[c]
<1>1. /\ rooms \in [Boards -> SUBSET Conns] /\ board[c] \in Boards
      /\ closes \in [Conns -> Nat] /\ cancelled \in [Conns -> BOOLEAN]
  BY DEF IndInv, TypeOK
<1>2. \A b \in Boards : b # board[c] => c \notin rooms[b]
  BY DEF IndInv, InOwnRoom
<1>3. CASE InRoom(c)
  <2>1. closes[c] = 0
    BY <1>1, <1>3 DEF IndInv, NeverPanics
  <2>2. /\ rooms' = [rooms EXCEPT ![board[c]] = @ \ {c}]
        /\ closes' = [closes EXCEPT ![c] = 1]
        /\ cancelled' = [cancelled EXCEPT ![c] = TRUE]
    BY <1>3, <2>1 DEF RemoveConn, Release
  <2>3. \A b \in Boards : rooms'[b] = rooms[b] \ {c}
    BY <1>1, <1>2, <2>2
  <2>4. rooms' \in [Boards -> SUBSET Conns]
    BY <1>1, <2>2
  <2> QED
    BY <1>1, <1>3, <2>2, <2>3, <2>4
<1>4. CASE ~InRoom(c)
  BY <1>1, <1>2, <1>4 DEF RemoveConn, InRoom
<1> QED
  BY <1>3, <1>4

(* The others stay as they are. *)
LEMMA OutOfTheRoom ==
    ASSUME IndInv, NEW c \in Conns, InRoom(c), RemoveConn(c),
           UNCHANGED <<handler, board>>
    PROVE  Unregistered' /\ MembersAreAlive'
<1>1. handler[c] \in {"welcome", "read", "remove"}
  BY DEF IndInv, MembersAreAlive
<1>2. /\ \A d \in Conns \ {c} :
            closes'[d] = closes[d] /\ cancelled'[d] = cancelled[d]
      /\ \A d \in Conns : rooms'[board[d]] = rooms[board[d]] \ {c}
  BY RemoveConnFacts DEF IndInv, TypeOK
<1>3. Unregistered'
  BY <1>1, <1>2 DEF IndInv, Unregistered
<1>4. MembersAreAlive'
  BY <1>2 DEF IndInv, MembersAreAlive, InRoom
<1> QED
  BY <1>3, <1>4

(* Closing a socket gives it one of the codes. *)
LEMMA CloseSocketType ==
    ASSUME IndInv, NEW c \in Conns,
           NEW code \in {"going_away", "normal", "policy", "bad_frame", "auth",
                         "abrupt"},
           CloseSocket(c, code)
    PROVE  socket' \in [Conns -> {"open", "going_away", "normal", "policy",
                                  "bad_frame", "auth", "abrupt"}]
  BY DEF IndInv, TypeOK, CloseSocket
-----------------------------------------------------------------------------
(* The parts of the invariant that a step can disturb only through the     *)
(* variables named *)

LEMMA RoomsUntouched ==
    ASSUME IndInv, UNCHANGED <<run, rooms, current, visit, board, closes>>
    PROVE  InOwnRoom' /\ FanningOut' /\ NeverPanics'
  BY DEF IndInv, InOwnRoom, FanningOut, NeverPanics, InRoom

LEMMA HandlersUntouched ==
    ASSUME IndInv, UNCHANGED <<rooms, board, handler, closes, cancelled>>
    PROVE  Unregistered' /\ MembersAreAlive'
  BY DEF IndInv, Unregistered, MembersAreAlive, InRoom

LEMMA WritersUntouched ==
    ASSUME IndInv, UNCHANGED <<writer, inflight>>
    PROVE  Writing'
  BY DEF IndInv, Writing
-----------------------------------------------------------------------------
(* The Run goroutine *)

LEMMA RegisterKeeps ==
    ASSUME IndInv, NEW c \in Conns, Register(c)
    PROVE  IndInv'
<1> USE DEF Register
<1>1. TypeOK'
  BY DEF IndInv, TypeOK
<1>2. InOwnRoom' /\ FanningOut' /\ Writing'
  BY DEF IndInv, TypeOK, InOwnRoom, FanningOut, Writing
<1>3. Unregistered' /\ MembersAreAlive'
  BY DEF IndInv, TypeOK, InOwnRoom, Unregistered, MembersAreAlive, InRoom
<1>4. NeverPanics'
  BY DEF IndInv, TypeOK, InOwnRoom, Unregistered, FanningOut, NeverPanics, InRoom
<1> QED
  BY <1>1, <1>2, <1>3, <1>4 DEF IndInv

LEMMA UnregisterKeeps ==
    ASSUME IndInv, NEW c \in Conns, Unregister(c)
    PROVE  IndInv'
<1> USE DEF Unregister
<1>1. TypeOK'
  BY RemoveConnFacts DEF IndInv, TypeOK
<1>2. InOwnRoom' /\ FanningOut' /\ Writing'
  BY RemoveConnFacts DEF IndInv, TypeOK, InOwnRoom, FanningOut, Writing
<1>3. Unregistered' /\ MembersAreAlive'
  <2>1. /\ \A d \in Conns \ {c} :
              closes'[d] = closes[d] /\ cancelled'[d] = cancelled[d]
        /\ \A d \in Conns : rooms'[board[d]] = rooms[board[d]] \ {c}
    BY RemoveConnFacts DEF IndInv, TypeOK
  <2>2. \A d \in Conns : handler'[d] = IF d = c THEN "return" ELSE handler[d]
    BY DEF IndInv, TypeOK
  <2> QED
    BY <2>1, <2>2 DEF IndInv, Unregistered, MembersAreAlive, InRoom
<1>4. NeverPanics'
  BY RemoveConnFacts
     DEF IndInv, TypeOK, InOwnRoom, FanningOut, NeverPanics, InRoom
<1> QED
  BY <1>1, <1>2, <1>3, <1>4 DEF IndInv

LEMMA TakeBroadcastKeeps ==
    ASSUME IndInv, TakeBroadcast
    PROVE  IndInv'
<1> USE DEF TakeBroadcast, connVars
<1>1. /\ Head(queue) \in Message /\ Head(queue).board \in Boards
      /\ Tail(queue) \in Seq(Message) /\ Len(Tail(queue)) <= QueueSize
  <2>1. queue \in Seq(Message) /\ queue # <<>> /\ Len(queue) <= QueueSize
    BY DEF IndInv, TypeOK
  <2>2. Head(queue) \in Message /\ Tail(queue) \in Seq(Message)
    BY <2>1
  <2>3. Len(Tail(queue)) = Len(queue) - 1 /\ Len(queue) \in Nat
    BY <2>1
  <2> QED
    BY <2>1, <2>2, <2>3, HubAssumption DEF Message
<1>2. TypeOK'
  <2>1. visit' \in SUBSET Conns
    BY <1>1 DEF IndInv, TypeOK
  <2> QED
    BY <1>1, <2>1 DEF IndInv, TypeOK
<1>3. InOwnRoom' /\ FanningOut'
  BY <1>1 DEF IndInv, TypeOK, InOwnRoom, FanningOut
<1>4. Unregistered' /\ MembersAreAlive' /\ Writing'
  BY HandlersUntouched, WritersUntouched
<1>5. NeverPanics'
  BY <1>1 DEF IndInv, TypeOK, InOwnRoom, NeverPanics, InRoom
<1> QED
  BY <1>2, <1>3, <1>4, <1>5 DEF IndInv

LEMMA FanOutKeeps ==
    ASSUME IndInv, NEW c \in Conns, FanOut(c)
    PROVE  IndInv'
<1> USE DEF FanOut
<1>1. InRoom(c) /\ current \in Message
  BY DEF IndInv, NeverPanics, FanningOut
<1>2. CASE ~BufferFull(c) /\ send' = [send EXCEPT ![c] = Append(@, current)]
           /\ UNCHANGED <<rooms, closes, cancelled>>
  <2>1. send' \in [Conns -> Seq(Message)]
    BY <1>1, <1>2 DEF IndInv, TypeOK
  <2>2. \A d \in Conns : Len(send'[d]) <= SendSize
    BY <1>1, <1>2, HubAssumption DEF IndInv, TypeOK, BufferFull
  <2>3. TypeOK'
    BY <1>2, <2>1, <2>2 DEF IndInv, TypeOK
  <2>4. InOwnRoom' /\ FanningOut' /\ NeverPanics'
    BY <1>2 DEF IndInv, InOwnRoom, FanningOut, NeverPanics, InRoom
  <2> QED
    BY <1>2, <2>3, <2>4, HandlersUntouched, WritersUntouched DEF IndInv
<1>3. CASE RemoveConn(c) /\ UNCHANGED send
  <2>1. TypeOK'
    BY <1>3, RemoveConnFacts DEF IndInv, TypeOK
  <2>2. InOwnRoom' /\ FanningOut'
    <3>1. current.board \in Boards
      BY <1>1 DEF Message
    <3>2. visit' = visit \ {c} /\ run = "fanout" /\ run' = run
          /\ current' = current /\ board' = board
      OBVIOUS
    <3>3. \A b \in Boards : rooms'[b] = rooms[b] \ {c}
      BY <1>3, RemoveConnFacts
    <3> QED
      BY <1>1, <3>1, <3>2, <3>3 DEF IndInv, InOwnRoom, FanningOut
  <2>3. Unregistered' /\ MembersAreAlive'
    BY <1>1, <1>3, OutOfTheRoom
  <2>4. NeverPanics'
    <3>1. /\ \A d \in Conns \ {c} : closes'[d] = closes[d]
          /\ \A d \in Conns : rooms'[board[d]] = rooms[board[d]] \ {c}
          /\ closes'[c] = 1
      BY <1>1, <1>3, RemoveConnFacts DEF IndInv, TypeOK
    <3>2. visit' = visit \ {c} /\ visit \subseteq Conns
      BY DEF IndInv, TypeOK
    <3> QED
      BY <3>1, <3>2 DEF IndInv, NeverPanics, InRoom
  <2> QED
    BY <2>1, <2>2, <2>3, <2>4, WritersUntouched DEF IndInv
<1> QED
  BY <1>2, <1>3 DEF DropSlowConsumer

LEMMA CloseAllKeeps ==
    ASSUME IndInv, NEW c \in Conns, CloseAll(c)
    PROVE  IndInv'
<1> USE DEF CloseAll
<1>1. InRoom(c) /\ RemoveConn(c) /\ visit = {}
  BY DEF CloseOne, RemoveConn, IndInv, FanningOut
<1>2. TypeOK'
  BY <1>1, RemoveConnFacts DEF IndInv, TypeOK
<1>3. InOwnRoom' /\ FanningOut' /\ Writing'
  BY <1>1, RemoveConnFacts DEF IndInv, TypeOK, InOwnRoom, FanningOut, Writing
<1>4. Unregistered' /\ MembersAreAlive'
  BY <1>1, OutOfTheRoom
<1>5. NeverPanics'
  BY <1>1, RemoveConnFacts DEF IndInv, TypeOK, InOwnRoom, NeverPanics, InRoom
<1> QED
  BY <1>2, <1>3, <1>4, <1>5 DEF IndInv

(* FanOutDone, Stop and Stopped. *)
LEMMA RunMovesOn ==
    ASSUME IndInv, FanOutDone \/ Stop \/ Stopped
    PROVE  IndInv'
<1> USE DEF FanOutDone, Stop, Stopped, connVars
<1>1. TypeOK'
  BY DEF IndInv, TypeOK
<1>2. InOwnRoom' /\ FanningOut' /\ NeverPanics'
  BY DEF IndInv, InOwnRoom, FanningOut, NeverPanics, InRoom
<1> QED
  BY <1>1, <1>2, HandlersUntouched, WritersUntouched DEF IndInv

LEMMA RunKeeps == IndInv /\ Run => IndInv'
  BY RegisterKeeps, UnregisterKeeps, TakeBroadcastKeeps, FanOutKeeps,
     CloseAllKeeps, RunMovesOn DEF Run
-----------------------------------------------------------------------------
(* The goroutines around it *)

LEMMA BroadcastKeeps ==
    ASSUME IndInv, NEW b \in Boards, Broadcast(b)
    PROVE  IndInv'
<1> DEFINE message == [board |-> b, id |-> published + 1]
<1> USE DEF connVars
<1>1. /\ published < MaxBroadcasts /\ published' = published + 1
      /\ UNCHANGED <<run, signalled, rooms, current, visit, board, connVars,
                     received>>
      /\ \/ /\ Len(queue) < QueueSize
            /\ queue' = Append(queue, message)
            /\ accepted' = [accepted EXCEPT ![b] = Append(@, message)]
         \/ UNCHANGED <<queue, accepted>>
  BY DEF Broadcast
<1>2. message \in Message /\ published' \in 0..MaxBroadcasts
  BY <1>1, HubAssumption DEF IndInv, TypeOK, Message
<1> HIDE DEF message
<1>3. queue' \in Seq(Message) /\ Len(queue') <= QueueSize
  <2>1. queue \in Seq(Message) /\ Len(queue) <= QueueSize
    BY DEF IndInv, TypeOK
  <2>2. /\ Append(queue, message) \in Seq(Message)
        /\ Len(Append(queue, message)) = Len(queue) + 1
    BY <1>2, <2>1
  <2>3. Len(queue) \in Nat /\ QueueSize \in Nat
    BY <2>1, HubAssumption
  <2> QED
    BY <1>1, <2>1, <2>2, <2>3
<1>4. accepted' \in [Boards -> Seq(Message)]
  <2>1. accepted \in [Boards -> Seq(Message)]
    BY DEF IndInv, TypeOK
  <2>2. Append(accepted[b], message) \in Seq(Message)
    BY <1>2, <2>1
  <2> QED
    BY <1>1, <2>1, <2>2
<1>5. TypeOK'
  BY <1>1, <1>2, <1>3, <1>4 DEF IndInv, TypeOK
<1> QED
  BY <1>1, <1>5, RoomsUntouched, HandlersUntouched, WritersUntouched
     DEF IndInv

LEMMA SignalKeeps ==
    ASSUME IndInv, Signal
    PROVE  IndInv'
<1> USE DEF Signal, connVars
<1>1. TypeOK'
  BY DEF IndInv, TypeOK
<1> QED
  BY <1>1, RoomsUntouched, HandlersUntouched, WritersUntouched DEF IndInv

LEMMA AuthenticateKeeps ==
    ASSUME IndInv, NEW c \in Conns, Authenticate(c)
    PROVE  IndInv'
<1>1. PICK label \in {"add", "return"} :
         /\ handler[c] = "auth" /\ handler' = [handler EXCEPT ![c] = label]
         /\ UNCHANGED socket \/ CloseSocket(c, "auth")
         /\ UNCHANGED <<runVars, board, writer, cancelled, send, closes, inflight,
                        peer, accepted, received, published>>
  BY DEF Authenticate
<1>2. TypeOK'
  BY <1>1, CloseSocketType DEF IndInv, TypeOK, runVars
<1>3. Unregistered' /\ MembersAreAlive'
  BY <1>1 DEF IndInv, TypeOK, Unregistered, MembersAreAlive, InRoom, runVars
<1> QED
  BY <1>1, <1>2, <1>3, RoomsUntouched, WritersUntouched DEF IndInv, runVars

LEMMA WelcomeKeeps ==
    ASSUME IndInv, NEW c \in Conns, Welcome(c)
    PROVE  IndInv'
<1>1. PICK label \in {"read", "remove"} :
         /\ handler[c] = "welcome" /\ handler' = [handler EXCEPT ![c] = label]
         /\ writer' = [writer EXCEPT ![c] = "select"] \/ UNCHANGED writer
         /\ UNCHANGED <<runVars, board, cancelled, send, closes, inflight,
                        socket, peer, accepted, received, published>>
  BY DEF Welcome
<1>2. TypeOK'
  <2>1. writer' \in [Conns -> {"none", "select", "write", "ping", "done"}]
    BY <1>1 DEF IndInv, TypeOK
  <2> QED
    BY <1>1, <2>1 DEF IndInv, TypeOK, runVars
<1>3. Unregistered' /\ MembersAreAlive'
  BY <1>1 DEF IndInv, TypeOK, Unregistered, MembersAreAlive, InRoom, runVars
<1>4. Writing'
  BY <1>1 DEF IndInv, TypeOK, Writing
<1> QED
  BY <1>1, <1>2, <1>3, <1>4, RoomsUntouched DEF IndInv, runVars

(* ReadFails and BadFrame. *)
LEMMA ReadPumpEnds ==
    ASSUME IndInv, NEW c \in Conns, ReadFails(c) \/ BadFrame(c)
    PROVE  IndInv'
<1>1. /\ handler[c] = "read" /\ handler' = [handler EXCEPT ![c] = "remove"]
      /\ UNCHANGED socket \/ CloseSocket(c, "bad_frame")
      /\ UNCHANGED <<runVars, board, writer, cancelled, send, closes, inflight,
                     peer, accepted, received, published>>
  BY DEF ReadFails, BadFrame
<1>2. TypeOK'
  BY <1>1, CloseSocketType DEF IndInv, TypeOK, runVars
<1>3. Unregistered' /\ MembersAreAlive'
  BY <1>1 DEF IndInv, TypeOK, Unregistered, MembersAreAlive, InRoom, runVars
<1> QED
  BY <1>1, <1>2, <1>3, RoomsUntouched, WritersUntouched DEF IndInv, runVars

(* Giving up is safe: a cancelled connection has left its room already. *)
LEMMA GiveUpKeeps ==
    ASSUME IndInv, NEW c \in Conns, GiveUp(c)
    PROVE  IndInv'
<1> USE DEF GiveUp, runVars
<1>1. TypeOK'
  BY DEF IndInv, TypeOK
<1>2. ~InRoom(c)
  BY DEF IndInv, MembersAreAlive
<1>3. Unregistered' /\ MembersAreAlive'
  BY <1>2 DEF IndInv, TypeOK, Unregistered, MembersAreAlive, InRoom
<1> QED
  BY <1>1, <1>3, RoomsUntouched, WritersUntouched DEF IndInv

LEMMA ReturnKeeps ==
    ASSUME IndInv, NEW c \in Conns, Return(c)
    PROVE  IndInv'
<1> USE DEF Return, runVars
<1>1. TypeOK'
  BY CloseSocketType DEF IndInv, TypeOK
<1>2. ~InRoom(c)
  BY DEF IndInv, MembersAreAlive
<1>3. Unregistered' /\ MembersAreAlive'
  BY <1>2 DEF IndInv, TypeOK, Unregistered, MembersAreAlive, InRoom
<1> QED
  BY <1>1, <1>3, RoomsUntouched, WritersUntouched DEF IndInv

(* The write pump and the peer touch neither the rooms nor the handlers. *)
LEMMA PumpKeeps ==
    ASSUME IndInv, NEW c \in Conns, Pump(c) \/ Stall(c) \/ Vanish(c)
    PROVE  IndInv'
<1> USE DEF runVars
<1>1. UNCHANGED <<runVars, board, handler, cancelled, closes, accepted,
                  published>>
  BY DEF Pump, SeesCancel, SeesClosed, TakeFromSend, WriteSocket, WriteFails,
     Ping, Pong, PingFails, WriterQuits, Stall, Vanish
<1>2. TypeOK' /\ Writing'
  <2>1. CASE \E code \in {"going_away", "normal", "policy"} : WriterQuits(c, code)
    BY <1>1, <2>1, CloseSocketType DEF IndInv, TypeOK, Writing, WriterQuits
  <2>2. CASE TakeFromSend(c)
    <3>1. /\ Head(send[c]) \in Message /\ Tail(send[c]) \in Seq(Message)
          /\ Len(Tail(send[c])) <= SendSize
      <4>1. /\ send[c] \in Seq(Message) /\ send[c] # <<>>
            /\ Len(send[c]) <= SendSize
        BY <2>2 DEF TakeFromSend, IndInv, TypeOK
      <4>2. Len(Tail(send[c])) = Len(send[c]) - 1 /\ Len(send[c]) \in Nat
        BY <4>1
      <4> QED
        BY <4>1, <4>2, HubAssumption
    <3>2. TypeOK'
      BY <1>1, <2>2, <3>1 DEF IndInv, TypeOK, TakeFromSend
    <3> QED
      BY <2>2, <3>1, <3>2 DEF IndInv, TypeOK, Writing, TakeFromSend
  <2>3. CASE WriteSocket(c)
    <3>1. inflight[c] \in Message
      BY <2>3 DEF WriteSocket, IndInv, Writing
    <3>2. received' \in [Conns -> Seq(Message)]
      BY <2>3, <3>1 DEF WriteSocket, IndInv, TypeOK
    <3>3. TypeOK'
      BY <1>1, <2>3, <3>2 DEF IndInv, TypeOK, WriteSocket
    <3> QED
      BY <2>3, <3>3 DEF IndInv, TypeOK, Writing, WriteSocket
  <2>4. CASE WriteFails(c) \/ Ping(c) \/ Pong(c)
    <3>1. PICK label \in {"select", "ping", "done"} :
              /\ writer' = [writer EXCEPT ![c] = label]
              /\ UNCHANGED <<board, handler, cancelled, send, closes, inflight,
                             socket, peer, accepted, received, published>>
      BY <2>4 DEF WriteFails, Ping, Pong
    <3> QED
      BY <1>1, <3>1 DEF IndInv, TypeOK, Writing
  <2>5. CASE Stall(c) \/ Vanish(c)
    BY <1>1, <2>5 DEF IndInv, TypeOK, Writing, Stall, Vanish
  <2> QED
    BY <2>1, <2>2, <2>3, <2>4, <2>5 DEF Pump, SeesCancel, SeesClosed, PingFails
<1> QED
  BY <1>1, <1>2, RoomsUntouched, HandlersUntouched DEF IndInv
-----------------------------------------------------------------------------
LEMMA NextKeeps == IndInv /\ [Next]_vars => IndInv'
<1> SUFFICES ASSUME IndInv, [Next]_vars PROVE IndInv'
  OBVIOUS
<1>1. CASE Run
  BY <1>1, RunKeeps
<1>2. ASSUME NEW b \in Boards, Broadcast(b) PROVE IndInv'
  BY <1>2, BroadcastKeeps
<1>3. CASE Signal
  BY <1>3, SignalKeeps
<1>4. ASSUME NEW c \in Conns, Serve(c) \/ BadFrame(c) PROVE IndInv'
  BY <1>4, AuthenticateKeeps, WelcomeKeeps, ReadPumpEnds, GiveUpKeeps,
     ReturnKeeps DEF Serve
<1>5. ASSUME NEW c \in Conns, Pump(c) \/ Stall(c) \/ Vanish(c) PROVE IndInv'
  BY <1>5, PumpKeeps
<1>6. CASE UNCHANGED vars
  <2>1. TypeOK'
    BY <1>6 DEF vars, runVars, connVars, IndInv, TypeOK
  <2> QED
    BY <1>6, <2>1, RoomsUntouched, HandlersUntouched, WritersUntouched
       DEF vars, runVars, connVars, IndInv
<1> QED
  BY <1>1, <1>2, <1>3, <1>4, <1>5, <1>6 DEF Next

LEMMA Inductive == Spec => []IndInv
  BY InitEstablishes, NextKeeps, PTL DEF Spec

(* The channels, rooms and goroutines keep their types, buffers their      *)
(* capacity.                                                               *)
THEOREM TypeCorrect == Spec => []TypeOK
<1>1. IndInv => TypeOK
  BY DEF IndInv
<1> QED
  BY <1>1, Inductive, PTL

(* No goroutine ever sends on a closed channel or closes one twice: a drop *)
(* and the connection's own unregister may come in any order, in the       *)
(* middle of a fan-out or of the shutdown (hub.go:84-101).                 *)
THEOREM HubNeverPanics == Spec => []NeverPanics
<1>1. IndInv => NeverPanics
  BY DEF IndInv
<1> QED
  BY <1>1, Inductive, PTL

(* No room keeps a connection whose handler has returned, so the hub does  *)
(* not leak them, though hub.remove may give up (handler.go:93-100,        *)
(* hub.go:125-132).                                                        *)
THEOREM RoomsHoldLiveConnections == Spec => []MembersAreAlive
<1>1. IndInv => MembersAreAlive
  BY DEF IndInv
<1> QED
  BY <1>1, Inductive, PTL
-----------------------------------------------------------------------------
(* Sequences *)

(* What is true of 0 and carries over from each number to the next is true *)
(* of all of them.                                                         *)
LEMMA SetInduction ==
    ASSUME NEW S \in SUBSET Nat, 0 \in S, \A n \in S : n + 1 \in S
    PROVE  S = Nat
<1> SUFFICES ASSUME Nat \ S # {} PROVE FALSE
  OBVIOUS
<1> DEFINE R == OpToRel(<, Nat)
<1>1. IsWellFoundedOn(R, Nat)
  BY NatLessThanWellFounded
<1>2. \A x, y \in Nat : x < y => <<x, y>> \in R
  BY DEF OpToRel
<1> HIDE DEF R
<1>3. PICK n \in Nat \ S : \A y \in Nat \ S : <<y, n>> \notin R
  BY <1>1, WFMin
<1>4. n # 0 /\ n - 1 \in Nat /\ n - 1 < n
  BY <1>3
<1>5. n - 1 \in S
  BY <1>2, <1>3, <1>4
<1> QED
  BY <1>3, <1>4, <1>5

(* The messages for one board, up to each place of a sequence. *)
Filtered(s, b, n, f) ==
    /\ f \in [0..n -> Seq(Message)]
    /\ f[0] = <<>>
    /\ \A i \in 1..n : f[i] = IF s[i].board = b THEN Append(f[i - 1], s[i])
                              ELSE f[i - 1]

LEMMA FilterExists ==
    ASSUME NEW s \in Seq(Message), NEW b
    PROVE  \E f : Filtered(s, b, Len(s), f)
<1> DEFINE S == {n \in Nat : n <= Len(s) => \E f : Filtered(s, b, n, f)}
<1>1. 0 \in S
  <2>1. Filtered(s, b, 0, [i \in 0..0 |-> <<>>])
    BY DEF Filtered
  <2> QED
    BY <2>1
<1>2. ASSUME NEW m \in S PROVE m + 1 \in S
  <2> SUFFICES ASSUME m + 1 <= Len(s) PROVE \E f : Filtered(s, b, m + 1, f)
    OBVIOUS
  <2>1. m \in Nat /\ m <= Len(s) /\ m + 1 \in 1..Len(s)
    OBVIOUS
  <2>2. PICK f : Filtered(s, b, m, f)
    BY <2>1, <1>2
  <2> DEFINE last == IF s[m + 1].board = b THEN Append(f[m], s[m + 1]) ELSE f[m]
             g == [i \in 0..(m + 1) |-> IF i = m + 1 THEN last ELSE f[i]]
  <2>3. s[m + 1] \in Message /\ f[m] \in Seq(Message)
    BY <2>1, <2>2 DEF Filtered
  <2>4. last \in Seq(Message)
    BY <2>3
  <2> HIDE DEF last
  <2>5. g \in [0..(m + 1) -> Seq(Message)] /\ g[0] = <<>>
    BY <2>1, <2>2, <2>4 DEF Filtered
  <2>6. ASSUME NEW i \in 1..(m + 1)
        PROVE  g[i] = IF s[i].board = b THEN Append(g[i - 1], s[i]) ELSE g[i - 1]
    <3>1. CASE i = m + 1
      <4>1. g[i] = last /\ g[i - 1] = f[m]
        BY <2>1, <3>1
      <4> QED
        BY <3>1, <4>1 DEF last
    <3>2. CASE i # m + 1
      <4>1. i \in 1..m /\ i \in 0..(m + 1) /\ i - 1 \in 0..(m + 1) /\ i - 1 # m + 1
        BY <3>2, <2>1
      <4>2. g[i] = f[i] /\ g[i - 1] = f[i - 1]
        BY <3>2, <4>1
      <4> QED
        BY <2>2, <4>1, <4>2 DEF Filtered
    <3> QED
      BY <3>1, <3>2
  <2> HIDE DEF g
  <2>7. Filtered(s, b, m + 1, g)
    BY <2>5, <2>6 DEF Filtered
  <2> QED
    BY <2>7
<1>3. S = Nat
  <2> HIDE DEF S
  <2>1. S \in SUBSET Nat
    BY DEF S
  <2> QED
    BY <2>1, <1>1, <1>2, SetInduction
<1>4. Len(s) \in S
  <2> HIDE DEF S
  <2> QED
    BY <1>3
<1> QED
  BY <1>4

(* ForBoard is what any such function says. *)
LEMMA ForBoardIs ==
    ASSUME NEW s \in Seq(Message), NEW b, NEW g, Filtered(s, b, Len(s), g)
    PROVE  ForBoard(s, b) = g[Len(s)]
<1> DEFINE F(f) == f = [n \in 0..Len(s) |->
                          IF n = 0 THEN <<>>
                          ELSE IF s[n].board = b THEN Append(f[n - 1], s[n])
                          ELSE f[n - 1]]
<1>1. F(g)
  <2>1. g \in [0..Len(s) -> Seq(Message)]
    BY DEF Filtered
  <2>2. ASSUME NEW n \in 0..Len(s)
        PROVE  g[n] = IF n = 0 THEN <<>>
                      ELSE IF s[n].board = b THEN Append(g[n - 1], s[n])
                      ELSE g[n - 1]
    <3>1. n = 0 \/ n \in 1..Len(s)
      OBVIOUS
    <3> QED
      BY <3>1 DEF Filtered
  <2> QED
    BY <2>1, <2>2
<1> DEFINE f == CHOOSE f : F(f)
<1>2. ForBoard(s, b) = f[Len(s)]
  BY DEF ForBoard
<1>3. F(f)
  <2> HIDE DEF F
  <2> QED
    BY <1>1
<1> HIDE DEF f
<1> DEFINE S == {n \in Nat : n <= Len(s) => f[n] = g[n]}
<1>4. 0 \in S
  BY <1>3 DEF Filtered
<1>5. ASSUME NEW m \in S PROVE m + 1 \in S
  <2> SUFFICES ASSUME m + 1 <= Len(s) PROVE f[m + 1] = g[m + 1]
    OBVIOUS
  <2>1. /\ m <= Len(s) /\ m + 1 \in 1..Len(s) /\ (m + 1) - 1 = m
        /\ m + 1 # 0 /\ m + 1 \in 0..Len(s)
    OBVIOUS
  <2>2. f[m + 1] = IF s[m + 1].board = b THEN Append(f[m], s[m + 1]) ELSE f[m]
    BY <1>3, <2>1
  <2>3. g[m + 1] = IF s[m + 1].board = b THEN Append(g[m], s[m + 1]) ELSE g[m]
    BY <2>1 DEF Filtered
  <2> QED
    BY <1>5, <2>1, <2>2, <2>3
<1>6. S = Nat
  <2> HIDE DEF S
  <2>1. S \in SUBSET Nat
    BY DEF S
  <2> QED
    BY <2>1, <1>4, <1>5, SetInduction
<1> QED
  BY <1>2, <1>6

LEMMA ForBoardOfNothing ==
    ASSUME NEW b
    PROVE  ForBoard(<<>>, b) = <<>>
<1>1. <<>> \in Seq(Message) /\ Len(<<>>) = 0
  OBVIOUS
<1>2. PICK f : Filtered(<<>>, b, Len(<<>>), f)
  BY <1>1, FilterExists
<1> QED
  BY <1>1, <1>2, ForBoardIs DEF Filtered

LEMMA ForBoardType ==
    ASSUME NEW s \in Seq(Message), NEW b
    PROVE  ForBoard(s, b) \in Seq(Message)
<1>1. PICK f : Filtered(s, b, Len(s), f)
  BY FilterExists
<1>2. f[Len(s)] \in Seq(Message)
  BY <1>1 DEF Filtered
<1> QED
  BY <1>1, <1>2, ForBoardIs

LEMMA ForBoardOfAppend ==
    ASSUME NEW s \in Seq(Message), NEW m \in Message, NEW b
    PROVE  ForBoard(Append(s, m), b) =
             IF m.board = b THEN Append(ForBoard(s, b), m) ELSE ForBoard(s, b)
<1> DEFINE t == Append(s, m)
           l == Len(s)
<1>1. /\ t \in Seq(Message) /\ Len(t) = l + 1 /\ l \in Nat
      /\ t[l + 1] = m /\ \A i \in 1..l : t[i] = s[i]
  OBVIOUS
<1> HIDE DEF t
<1>2. PICK f : Filtered(s, b, l, f)
  BY FilterExists
<1> DEFINE last == IF m.board = b THEN Append(f[l], m) ELSE f[l]
           g == [i \in 0..(l + 1) |-> IF i = l + 1 THEN last ELSE f[i]]
<1>3. last \in Seq(Message)
  BY <1>1, <1>2 DEF Filtered
<1> HIDE DEF last
<1>4. g \in [0..(l + 1) -> Seq(Message)] /\ g[0] = <<>>
  BY <1>1, <1>2, <1>3 DEF Filtered
<1>5. ASSUME NEW i \in 1..(l + 1)
      PROVE  g[i] = IF t[i].board = b THEN Append(g[i - 1], t[i]) ELSE g[i - 1]
  <2>1. CASE i = l + 1
    <3>1. g[i] = last /\ g[i - 1] = f[l] /\ t[i] = m
      BY <1>1, <2>1
    <3> QED
      BY <3>1 DEF last
  <2>2. CASE i # l + 1
    <3>1. i \in 1..l /\ i \in 0..(l + 1) /\ i - 1 \in 0..(l + 1) /\ i - 1 # l + 1
      BY <1>1, <2>2
    <3>2. g[i] = f[i] /\ g[i - 1] = f[i - 1] /\ t[i] = s[i]
      BY <1>1, <2>2, <3>1
    <3> QED
      BY <1>2, <3>1, <3>2 DEF Filtered
  <2> QED
    BY <2>1, <2>2
<1>6. g[l + 1] = last
  BY <1>1
<1> HIDE DEF g
<1>7. Filtered(t, b, l + 1, g)
  BY <1>4, <1>5 DEF Filtered
<1>8. ForBoard(t, b) = last
  <2>1. Filtered(t, b, Len(t), g)
    BY <1>1, <1>7
  <2>2. ForBoard(t, b) = g[Len(t)]
    BY <1>1, <2>1, ForBoardIs
  <2> QED
    BY <1>1, <1>6, <2>2
<1>9. ForBoard(s, b) = f[l]
  BY <1>2, ForBoardIs
<1> QED
  BY <1>8, <1>9 DEF last, t

LEMMA ForBoardOfHeadAndTail ==
    ASSUME NEW s \in Seq(Message), s # <<>>, NEW b
    PROVE  ForBoard(s, b) =
             IF Head(s).board = b THEN <<Head(s)>> \o ForBoard(Tail(s), b)
             ELSE ForBoard(Tail(s), b)
<1> DEFINE t == Tail(s)
           h == Head(s)
           l == Len(t)
           first == IF h.board = b THEN <<h>> ELSE <<>>
<1>1. /\ h \in Message /\ t \in Seq(Message) /\ l \in Nat /\ Len(s) = l + 1
      /\ h = s[1] /\ \A i \in 1..l : t[i] = s[i + 1]
  OBVIOUS
<1>2. first \in Seq(Message)
  BY <1>1
<1> HIDE DEF t, h
<1>3. PICK f : Filtered(t, b, l, f)
  BY <1>1, FilterExists
<1> DEFINE g == [i \in 0..(l + 1) |-> IF i = 0 THEN <<>> ELSE first \o f[i - 1]]
<1>4. \A i \in 0..l : f[i] \in Seq(Message)
  BY <1>3 DEF Filtered
<1>5. \A i \in 1..(l + 1) : i - 1 \in 0..l
  BY <1>1
<1>6. g \in [0..(l + 1) -> Seq(Message)] /\ g[0] = <<>>
  <2> HIDE DEF first
  <2>1. \A i \in 1..(l + 1) : first \o f[i - 1] \in Seq(Message)
    BY <1>2, <1>4, <1>5
  <2> QED
    BY <1>1, <2>1
<1>7. ASSUME NEW i \in 1..(l + 1)
      PROVE  g[i] = IF s[i].board = b THEN Append(g[i - 1], s[i]) ELSE g[i - 1]
  <2>1. CASE i = 1
    <3>1. f[0] = <<>>
      BY <1>3 DEF Filtered
    <3>2. i - 1 = 0 /\ i # 0 /\ i \in 0..(l + 1) /\ s[i] = h
      BY <1>1, <2>1
    <3>3. g[i] = first \o f[i - 1]
      BY <3>2
    <3>4. g[i] = first /\ g[i - 1] = <<>>
      <4> HIDE DEF g, first
      <4> QED
        BY <1>2, <1>6, <3>1, <3>2, <3>3
    <3>5. Append(<<>>, h) = <<h>>
      BY <1>1
    <3> HIDE DEF g
    <3> QED
      BY <3>2, <3>4, <3>5
  <2>2. CASE i # 1
    <3>1. /\ i - 1 \in 1..l /\ i \in 0..(l + 1) /\ i - 1 \in 0..(l + 1)
          /\ i # 0 /\ i - 1 # 0 /\ i - 2 \in 0..l /\ (i - 1) - 1 = i - 2
          /\ (i - 1) + 1 = i
      BY <1>1, <2>2
    <3>2. t[i - 1] = s[i] /\ t[i - 1] \in Message
      BY <1>1, <3>1
    <3>3. g[i] = first \o f[i - 1] /\ g[i - 1] = first \o f[i - 2]
      BY <3>1
    <3>4. f[i - 1] = IF t[i - 1].board = b THEN Append(f[i - 2], t[i - 1])
                     ELSE f[i - 2]
      BY <1>3, <3>1 DEF Filtered
    <3>5. f[i - 2] \in Seq(Message)
      BY <1>4, <3>1
    <3>6. first \o Append(f[i - 2], s[i]) = Append(first \o f[i - 2], s[i])
      <4> DEFINE x == f[i - 2]
                 m == s[i]
      <4>1. x \in Seq(Message) /\ m \in Message
        BY <3>2, <3>5
      <4> HIDE DEF x, m, first
      <4>2. first \o Append(x, m) = Append(first \o x, m)
        BY <1>2, <4>1
      <4> QED
        BY <4>2 DEF x, m
    <3> HIDE DEF g, first
    <3> QED
      BY <3>2, <3>3, <3>4, <3>6
  <2> QED
    BY <2>1, <2>2
<1>8. g[l + 1] = first \o f[l]
  <2>1. l + 1 \in 0..(l + 1) /\ l + 1 # 0 /\ (l + 1) - 1 = l
    BY <1>1
  <2> HIDE DEF first
  <2> QED
    BY <2>1
<1> HIDE DEF g
<1>9. ForBoard(s, b) = first \o f[l]
  <2>1. Filtered(s, b, Len(s), g)
    BY <1>1, <1>6, <1>7 DEF Filtered
  <2>2. ForBoard(s, b) = g[Len(s)]
    BY <2>1, ForBoardIs
  <2> QED
    BY <1>1, <1>8, <2>2
<1>10. ForBoard(t, b) = f[l]
  BY <1>1, <1>3, ForBoardIs
<1>11. f[l] \in Seq(Message)
  BY <1>1, <1>4
<1> DEFINE r == ForBoard(t, b)
<1>12. r \in Seq(Message) /\ ForBoard(s, b) = first \o r
  BY <1>9, <1>10, <1>11
<1> HIDE DEF r
<1>13. <<>> \o r = r
  BY <1>12
<1>14. ForBoard(s, b) = IF h.board = b THEN <<h>> \o r ELSE r
  <2>1. CASE h.board = b
    BY <1>12, <2>1
  <2>2. CASE h.board # b
    BY <1>12, <1>13, <2>2
  <2> QED
    BY <2>1, <2>2
<1> QED
  BY <1>14 DEF r, t, h

LEMMA SuffixIff ==
    ASSUME NEW s \in Seq(Message), NEW t \in Seq(Message)
    PROVE  IsSuffix(s, t) <=> \E u \in Seq(Message) : t = u \o s
<1>1. IsSuffix(s, t) <=>
        Len(s) <= Len(t) /\ \A i \in 1..Len(s) : s[i] = t[Len(t) - Len(s) + i]
  <2> DEFINE rs == Reverse(s)
             rt == Reverse(t)
  <2>1. /\ Len(s) \in Nat /\ Len(t) \in Nat
        /\ rs \in Seq(Message) /\ Len(rs) = Len(s)
        /\ rt \in Seq(Message) /\ Len(rt) = Len(t)
        /\ \A i \in 1..Len(s) : rs[i] = s[Len(s) - i + 1]
        /\ \A i \in 1..Len(t) : rt[i] = t[Len(t) - i + 1]
    BY DEF Reverse
  <2>2. IsSuffix(s, t) <=>
          Len(rs) <= Len(rt) /\ SubSeq(rs, 1, Len(rs)) = SubSeq(rt, 1, Len(rs))
    BY DEF IsSuffix, IsPrefix
  <2> HIDE DEF rs, rt
  <2>3. Len(s) <= Len(t) =>
          (SubSeq(rs, 1, Len(s)) = SubSeq(rt, 1, Len(s)) <=>
             \A i \in 1..Len(s) : rs[i] = rt[i])
    BY <2>1
  <2>4. Len(s) <= Len(t) =>
          ((\A i \in 1..Len(s) : rs[i] = rt[i]) <=>
            \A i \in 1..Len(s) : s[i] = t[Len(t) - Len(s) + i])
    <3> SUFFICES ASSUME Len(s) <= Len(t)
                 PROVE  (\A i \in 1..Len(s) : rs[i] = rt[i]) <=>
                        \A i \in 1..Len(s) : s[i] = t[Len(t) - Len(s) + i]
      OBVIOUS
    <3>1. ASSUME \A i \in 1..Len(s) : rs[i] = rt[i], NEW i \in 1..Len(s)
          PROVE  s[i] = t[Len(t) - Len(s) + i]
      <4> DEFINE j == Len(s) - i + 1
      <4>1. /\ j \in 1..Len(s) /\ j \in 1..Len(t) /\ Len(s) - j + 1 = i
            /\ Len(t) - j + 1 = Len(t) - Len(s) + i
        BY <2>1
      <4> HIDE DEF j
      <4> QED
        BY <2>1, <3>1, <4>1
    <3>2. ASSUME \A i \in 1..Len(s) : s[i] = t[Len(t) - Len(s) + i],
                 NEW i \in 1..Len(s)
          PROVE  rs[i] = rt[i]
      <4> DEFINE j == Len(s) - i + 1
      <4>1. /\ j \in 1..Len(s) /\ i \in 1..Len(t)
            /\ Len(t) - i + 1 = Len(t) - Len(s) + j
        BY <2>1
      <4>2. rs[i] = s[j] /\ rt[i] = t[Len(t) - i + 1]
        BY <2>1, <4>1
      <4>3. s[j] = t[Len(t) - Len(s) + j]
        BY <3>2, <4>1
      <4> QED
        BY <4>1, <4>2, <4>3
    <3> QED
      BY <3>1, <3>2
  <2> QED
    BY <2>1, <2>2, <2>3, <2>4
<1>2. ASSUME NEW u \in Seq(Message), t = u \o s
      PROVE  Len(s) <= Len(t) /\ \A i \in 1..Len(s) : s[i] = t[Len(t) - Len(s) + i]
  <2>1. /\ Len(u) \in Nat /\ Len(s) \in Nat /\ Len(t) = Len(u) + Len(s)
        /\ Len(t) - Len(s) = Len(u)
    BY <1>2
  <2>2. \A i \in 1..Len(s) : t[Len(u) + i] = s[i]
    BY <1>2, <2>1
  <2> QED
    BY <2>1, <2>2
<1>3. ASSUME Len(s) <= Len(t), \A i \in 1..Len(s) : s[i] = t[Len(t) - Len(s) + i]
      PROVE  \E u \in Seq(Message) : t = u \o s
  <2> DEFINE k == Len(t) - Len(s)
             u == SubSeq(t, 1, k)
  <2>1. k \in Nat /\ k <= Len(t) /\ Len(t) = k + Len(s) /\ Len(s) \in Nat
    BY <1>3
  <2>2. \A i \in 1..Len(s) : s[i] = t[k + i]
    BY <1>3
  <2> HIDE DEF k
  <2>3. u \in Seq(Message) /\ Len(u) = k /\ \A i \in 1..k : u[i] = t[i]
    BY <2>1
  <2> HIDE DEF u
  <2>4. Len(u \o s) = Len(t) /\ u \o s \in Seq(Message)
    BY <2>1, <2>3
  <2>5. \A i \in 1..Len(t) : (u \o s)[i] = t[i]
    <3> SUFFICES ASSUME NEW i \in 1..Len(t) PROVE (u \o s)[i] = t[i]
      OBVIOUS
    <3>1. CASE i <= k
      BY <2>1, <2>3, <3>1
    <3>2. CASE ~(i <= k)
      <4>1. i - k \in 1..Len(s) /\ k + (i - k) = i
        BY <2>1, <3>2
      <4>2. (u \o s)[i] = s[i - k]
        BY <2>1, <2>3, <3>2
      <4> QED
        BY <2>2, <4>1, <4>2
    <3> QED
      BY <3>1, <3>2
  <2>6. u \o s = t
    BY <2>4, <2>5, SeqEqual
  <2> QED
    BY <2>3, <2>6
<1> QED
  BY <1>1, <1>2, <1>3

-----------------------------------------------------------------------------
(* What the queue, the buffers and the sockets hold *)

(* Nothing has been put into the hands of a connection before it is in its *)
(* room, and no pump runs before its welcome.                              *)
Fresh ==
    \A c \in Conns :
        /\ handler[c] \in {"auth", "add"} =>
              received[c] = <<>> /\ send[c] = <<>> /\ inflight[c] = Idle
        /\ handler[c] \in {"auth", "add", "welcome"} => writer[c] = "none"

(* A pump that is not writing has nothing in its hand; one that has failed *)
(* keeps what it could not write.                                          *)
HandsEmpty ==
    \A c \in Conns : writer[c] \in {"none", "select", "ping"} => inflight[c] = Idle

(* What the queue holds for a board are the last events of its log.        *)
QueueEndsTheLogs ==
    \A b \in Boards : IsSuffix(ForBoard(queue, b), accepted[b])

Delivering == Fresh /\ HandsEmpty /\ QueueEndsTheLogs

LEMMA NoMessageIsIdle == \A m \in Message : m # Idle
<1> SUFFICES ASSUME NEW m \in Message, m = <<>> PROVE FALSE
  BY DEF Idle
<1>1. DOMAIN m = {"board", "id"}
  BY DEF Message
<1>2. DOMAIN m = 1..0
  OBVIOUS
<1>3. "board" \in 1..0
  BY <1>1, <1>2
<1> QED
  BY <1>3

LEMMA LogTypes ==
    ASSUME IndInv, NEW b \in Boards
    PROVE  ForBoard(queue, b) \in Seq(Message) /\ accepted[b] \in Seq(Message)
  BY ForBoardType DEF IndInv, TypeOK

(* What enters the queue enters the log of its board.                      *)
LEMMA BroadcastExtendsALog ==
    ASSUME IndInv, QueueEndsTheLogs, NEW b \in Boards, Broadcast(b)
    PROVE  QueueEndsTheLogs'
<1> SUFFICES ASSUME NEW d \in Boards
             PROVE  IsSuffix(ForBoard(queue', d), accepted'[d])
  BY DEF QueueEndsTheLogs
<1> DEFINE q == ForBoard(queue, d)
           a == accepted[d]
           message == [board |-> b, id |-> published + 1]
<1>1. q \in Seq(Message) /\ a \in Seq(Message) /\ IsSuffix(q, a)
  BY LogTypes DEF QueueEndsTheLogs
<1>2. CASE UNCHANGED <<queue, accepted>>
  BY <1>1, <1>2
<1>3. CASE /\ queue' = Append(queue, message)
           /\ accepted' = [accepted EXCEPT ![b] = Append(@, message)]
  <2>1. message \in Message /\ message.board = b
    BY HubAssumption DEF Broadcast, IndInv, TypeOK, Message
  <2>2. queue \in Seq(Message) /\ accepted \in [Boards -> Seq(Message)]
    BY DEF IndInv, TypeOK
  <2> HIDE DEF message
  <2>3. ForBoard(queue', d) = IF b = d THEN Append(q, message) ELSE q
    BY <1>3, <2>1, <2>2, ForBoardOfAppend
  <2>4. accepted'[d] = IF b = d THEN Append(a, message) ELSE a
    BY <1>3, <2>2
  <2> HIDE DEF q, a
  <2>5. PICK u \in Seq(Message) : a = u \o q
    BY <1>1, SuffixIff
  <2>6. Append(a, message) = u \o Append(q, message)
    BY <1>1, <2>1, <2>5
  <2>7. Append(a, message) \in Seq(Message) /\ Append(q, message) \in Seq(Message)
    BY <1>1, <2>1
  <2>8. IsSuffix(Append(q, message), Append(a, message))
    BY <2>6, <2>7, SuffixIff
  <2> QED
    BY <1>1, <2>3, <2>4, <2>8
<1> QED
  BY <1>2, <1>3 DEF Broadcast

(* A shorter queue still holds the last events. *)
LEMMA TakingShortensTheQueue ==
    ASSUME IndInv, QueueEndsTheLogs, TakeBroadcast
    PROVE  QueueEndsTheLogs'
<1> SUFFICES ASSUME NEW d \in Boards
             PROVE  IsSuffix(ForBoard(queue', d), accepted'[d])
  BY DEF QueueEndsTheLogs
<1> DEFINE q == ForBoard(queue, d)
           r == ForBoard(Tail(queue), d)
           h == Head(queue)
           a == accepted[d]
<1>1. /\ queue \in Seq(Message) /\ queue # <<>> /\ h \in Message
      /\ Tail(queue) \in Seq(Message)
      /\ queue' = Tail(queue) /\ accepted' = accepted
  BY DEF TakeBroadcast, IndInv, TypeOK
<1>2. q \in Seq(Message) /\ a \in Seq(Message) /\ IsSuffix(q, a)
  BY LogTypes DEF QueueEndsTheLogs
<1>3. r \in Seq(Message)
  BY <1>1, ForBoardType
<1>4. q = IF h.board = d THEN <<h>> \o r ELSE r
  BY <1>1, ForBoardOfHeadAndTail
<1>5. ForBoard(queue', d) = r /\ accepted'[d] = a
  BY <1>1
<1> HIDE DEF q, r, h, a
<1>6. PICK u \in Seq(Message) : a = u \o q
  BY <1>2, SuffixIff
<1>7. CASE h.board = d
  <2>1. a = (u \o <<h>>) \o r /\ u \o <<h>> \in Seq(Message)
    BY <1>1, <1>2, <1>3, <1>4, <1>6, <1>7
  <2> QED
    BY <1>2, <1>3, <1>5, <2>1, SuffixIff
<1>8. CASE h.board # d
  BY <1>2, <1>4, <1>5, <1>8
<1> QED
  BY <1>7, <1>8

LEMMA RunDelivers ==
    ASSUME IndInv, Delivering, Run
    PROVE  Delivering'
<1>1. Fresh'
  <2>1. ASSUME NEW c \in Conns, Register(c) PROVE Fresh'
    BY <2>1 DEF Register, Delivering, Fresh, IndInv, TypeOK
  <2>2. ASSUME NEW c \in Conns, FanOut(c) PROVE Fresh'
    <3>1. handler[c] \in {"welcome", "read", "remove"}
      BY <2>2 DEF FanOut, IndInv, NeverPanics, MembersAreAlive
    <3>2. \A d \in Conns \ {c} : send'[d] = send[d]
      BY <2>2 DEF FanOut, IndInv, TypeOK
    <3> QED
      BY <2>2, <3>1, <3>2 DEF FanOut, Delivering, Fresh
  <2>3. ASSUME NEW c \in Conns, Unregister(c) PROVE Fresh'
    BY <2>3 DEF Unregister, Delivering, Fresh, IndInv, TypeOK
  <2>4. ASSUME NEW c \in Conns, CloseAll(c) PROVE Fresh'
    BY <2>4 DEF CloseAll, Delivering, Fresh
  <2>5. CASE TakeBroadcast \/ FanOutDone \/ Stop \/ Stopped
    BY <2>5 DEF TakeBroadcast, FanOutDone, Stop, Stopped, connVars, Delivering, Fresh
  <2> QED
    BY <2>1, <2>2, <2>3, <2>4, <2>5 DEF Run
<1>2. UNCHANGED <<writer, inflight, accepted>>
  BY DEF Run, Register, Unregister, FanOut, CloseAll, TakeBroadcast, FanOutDone,
     Stop, Stopped, connVars
<1>3. HandsEmpty'
  BY <1>2 DEF Delivering, HandsEmpty
<1>4. QueueEndsTheLogs'
  <2>1. CASE TakeBroadcast
    BY <2>1, TakingShortensTheQueue DEF Delivering
  <2>2. CASE ~TakeBroadcast
    <3>1. queue' = queue
      BY <2>2 DEF Run, Register, Unregister, FanOut, CloseAll, FanOutDone, Stop,
         Stopped
    <3> QED
      BY <1>2, <3>1 DEF Delivering, QueueEndsTheLogs
  <2> QED
    BY <2>1, <2>2
<1> QED
  BY <1>1, <1>3, <1>4 DEF Delivering

LEMMA ConnectionsDeliver ==
    ASSUME IndInv, Delivering, NEW c \in Conns,
           Serve(c) \/ BadFrame(c) \/ Pump(c) \/ Stall(c) \/ Vanish(c)
    PROVE  Delivering'
<1>1. UNCHANGED <<queue, accepted>>
  BY DEF Serve, Authenticate, Welcome, ReadFails, GiveUp, Return, BadFrame, Pump,
     SeesCancel, SeesClosed, TakeFromSend, WriteSocket, WriteFails, Ping, Pong,
     PingFails, WriterQuits, Stall, Vanish, runVars
<1>2. QueueEndsTheLogs'
  BY <1>1 DEF Delivering, QueueEndsTheLogs
<1>3. CASE Serve(c) \/ BadFrame(c)
  <2>1. /\ UNCHANGED <<send, inflight, received>>
        /\ handler' = [handler EXCEPT ![c] = handler'[c]]
        /\ handler'[c] \in {"auth", "add", "welcome"} =>
              handler[c] = "auth" /\ writer' = writer
        /\ writer' = writer \/ writer' = [writer EXCEPT ![c] = "select"]
        /\ handler[c] # "welcome" => writer' = writer
    BY <1>3 DEF Serve, Authenticate, Welcome, ReadFails, GiveUp, Return, BadFrame,
       IndInv, TypeOK
  <2>2. Fresh' /\ HandsEmpty'
    BY <2>1 DEF Delivering, Fresh, HandsEmpty, IndInv, TypeOK
  <2> QED
    BY <1>2, <2>2 DEF Delivering
<1>4. CASE Pump(c)
  <2>1. writer[c] \in {"select", "write", "ping"}
    BY <1>4 DEF Pump, SeesCancel, SeesClosed, TakeFromSend, WriteSocket, WriteFails,
       Ping, Pong, PingFails
  <2>2. handler[c] \notin {"auth", "add", "welcome"} /\ handler' = handler
    BY <1>4, <2>1 DEF Delivering, Fresh, Pump, SeesCancel, SeesClosed, TakeFromSend,
       WriteSocket, WriteFails, Ping, Pong, PingFails, WriterQuits
  <2>3. \A d \in Conns \ {c} : /\ send'[d] = send[d] /\ inflight'[d] = inflight[d]
                               /\ received'[d] = received[d] /\ writer'[d] = writer[d]
    BY <1>4 DEF Pump, SeesCancel, SeesClosed, TakeFromSend, WriteSocket, WriteFails,
       Ping, Pong, PingFails, WriterQuits, IndInv, TypeOK
  <2>4. Fresh'
    BY <2>2, <2>3 DEF Delivering, Fresh
  <2>5. writer'[c] \in {"none", "select", "ping"} => inflight'[c] = Idle
    BY <1>4 DEF Pump, SeesCancel, SeesClosed, TakeFromSend, WriteSocket, WriteFails,
       Ping, Pong, PingFails, WriterQuits, IndInv, TypeOK, Delivering, HandsEmpty
  <2>6. HandsEmpty'
    BY <2>3, <2>5 DEF Delivering, HandsEmpty
  <2> QED
    BY <1>2, <2>4, <2>6 DEF Delivering
<1>5. CASE Stall(c) \/ Vanish(c)
  BY <1>2, <1>5 DEF Stall, Vanish, Delivering, Fresh, HandsEmpty
<1> QED
  BY <1>3, <1>4, <1>5

LEMMA DeliveringKept == IndInv /\ Delivering /\ [Next]_vars => Delivering'
<1> SUFFICES ASSUME IndInv, Delivering, [Next]_vars PROVE Delivering'
  OBVIOUS
<1>1. ASSUME NEW b \in Boards, Broadcast(b) PROVE Delivering'
  BY <1>1, BroadcastExtendsALog
     DEF Broadcast, connVars, Delivering, Fresh, HandsEmpty
<1>2. CASE Signal
  BY <1>2 DEF Signal, connVars, Delivering, Fresh, HandsEmpty, QueueEndsTheLogs
<1>3. CASE UNCHANGED vars
  BY <1>3 DEF vars, runVars, connVars, Delivering, Fresh, HandsEmpty,
     QueueEndsTheLogs
<1> QED
  BY <1>1, <1>2, <1>3, RunDelivers, ConnectionsDeliver DEF Next

LEMMA DeliveringAtFirst == Init => Delivering
<1> SUFFICES ASSUME Init PROVE Delivering
  OBVIOUS
<1>1. Fresh /\ HandsEmpty
  BY DEF Init, Fresh, HandsEmpty
<1>2. ASSUME NEW b \in Boards PROVE IsSuffix(ForBoard(queue, b), accepted[b])
  <2>1. ForBoard(queue, b) = <<>> /\ accepted[b] = <<>>
    BY ForBoardOfNothing DEF Init
  <2>2. <<>> \in Seq(Message) /\ <<>> = <<>> \o <<>>
    OBVIOUS
  <2> QED
    BY <2>1, <2>2, SuffixIff
<1> QED
  BY <1>1, <1>2 DEF Delivering, QueueEndsTheLogs

-----------------------------------------------------------------------------
(* The room the hub shows *)

LEMMA DueTypes ==
    ASSUME IndInv, NEW c \in Conns
    PROVE  /\ Handed(c) \in Seq(Message)
           /\ c \in visit => current \in Message
           /\ OnTheWay(c) \in Seq(Message)
           /\ Due(c) \in Seq(Message)
           /\ received[c] \in Seq(Message)
           /\ send[c] \in Seq(Message)
           /\ ForBoard(queue, board[c]) \in Seq(Message)
<1>1. /\ inflight[c] \in Message \cup {Idle} /\ send[c] \in Seq(Message)
      /\ received[c] \in Seq(Message) /\ board[c] \in Boards
  BY DEF IndInv, TypeOK
<1>2. Handed(c) \in Seq(Message)
  BY <1>1 DEF Handed
<1>3. c \in visit => current \in Message
  BY DEF IndInv, FanningOut
<1>4. ForBoard(queue, board[c]) \in Seq(Message)
  BY <1>1, LogTypes
<1>5. OnTheWay(c) \in Seq(Message)
  BY <1>2, <1>3, <1>4 DEF OnTheWay
<1> QED
  BY <1>1, <1>2, <1>3, <1>4, <1>5 DEF Due

(* To its clients the hub has not moved. *)
Unseen ==
    /\ UNCHANGED <<board, accepted, received>>
    /\ \A c \in Conns : Phase(c)' = Phase(c) /\ Due(c)' = Due(c)

LEMMA NothingMoves ==
    ASSUME UNCHANGED <<rooms, queue, current, visit, board, send, closes, inflight,
                       accepted, received>>
    PROVE  Unseen
  BY DEF Unseen, Phase, Due, InRoom, OnTheWay, Handed

LEMMA TakingIsUnseen ==
    ASSUME IndInv, TakeBroadcast
    PROVE  Unseen
<1> USE DEF TakeBroadcast, connVars
<1>1. \A c \in Conns : Phase(c)' = Phase(c)
  BY DEF Phase, InRoom
<1>2. ASSUME NEW c \in Conns PROVE Due(c)' = Due(c)
  <2>1. CASE ~InRoom(c)
    BY <2>1 DEF Due, InRoom, Handed
  <2>2. CASE InRoom(c)
    <3> DEFINE h == Handed(c)
               m == Head(queue)
               q == ForBoard(queue, board[c])
               r == ForBoard(Tail(queue), board[c])
    <3>1. /\ queue \in Seq(Message) /\ queue # <<>> /\ m \in Message
          /\ Tail(queue) \in Seq(Message) /\ visit = {} /\ m.board \in Boards
      <4>1. queue \in Seq(Message) /\ queue # <<>> /\ visit = {}
        BY DEF IndInv, TypeOK, FanningOut
      <4>2. m \in Message /\ Tail(queue) \in Seq(Message)
        BY <4>1
      <4> QED
        BY <4>1, <4>2 DEF Message
    <3>2. h \in Seq(Message) /\ q \in Seq(Message) /\ r \in Seq(Message)
      BY <3>1, DueTypes, ForBoardType
    <3>3. q = IF m.board = board[c] THEN <<m>> \o r ELSE r
      BY <3>1, ForBoardOfHeadAndTail
    <3>4. c \in visit' <=> m.board = board[c]
      BY <2>2, <3>1 DEF InRoom, IndInv, InOwnRoom
    <3>5. Due(c) = h \o <<>> \o q
      BY <2>2, <3>1 DEF Due, OnTheWay
    <3>6. Due(c)' = h \o (IF m.board = board[c] THEN <<m>> ELSE <<>>) \o r
      BY <2>2, <3>4 DEF Due, OnTheWay, Handed, InRoom
    <3> HIDE DEF h, m, q, r
    <3>7. h \o <<>> \o r = h \o r /\ h \o <<>> \o q = h \o q
      BY <3>2
    <3>8. h \o <<m>> \o r = h \o (<<m>> \o r)
      BY <3>1, <3>2
    <3> QED
      BY <3>3, <3>5, <3>6, <3>7, <3>8
  <2> QED
    BY <2>1, <2>2
<1> QED
  BY <1>1, <1>2 DEF Unseen

(* The message moves from the loop into the buffer. *)
LEMMA SendingIsUnseen ==
    ASSUME IndInv, NEW c \in Conns, run = "fanout", c \in visit,
           visit' = visit \ {c},
           send' = [send EXCEPT ![c] = Append(@, current)],
           UNCHANGED <<rooms, closes, queue, current, board, inflight, accepted,
                       received>>
    PROVE  Unseen
<1>1. \A d \in Conns : Phase(d)' = Phase(d)
  BY DEF Phase, InRoom
<1>2. ASSUME NEW d \in Conns, d # c PROVE Due(d)' = Due(d)
  <2>1. send'[d] = send[d] /\ (d \in visit' <=> d \in visit)
    BY <1>2 DEF IndInv, TypeOK
  <2> QED
    BY <2>1 DEF Due, OnTheWay, Handed, InRoom
<1>3. Due(c)' = Due(c)
  <2> DEFINE i == IF inflight[c] = Idle THEN <<>> ELSE <<inflight[c]>>
             s == send[c]
             q == ForBoard(queue, board[c])
  <2>1. current \in Message /\ s \in Seq(Message) /\ q \in Seq(Message)
    BY DueTypes
  <2>2. i \in Seq(Message)
    BY DEF IndInv, TypeOK
  <2>3. InRoom(c)
    BY DEF IndInv, NeverPanics
  <2>4. Due(c) = i \o s \o <<current>> \o q
    BY <2>3 DEF Due, OnTheWay, Handed
  <2>5. send'[c] = Append(s, current)
    BY DEF IndInv, TypeOK
  <2>6. Due(c)' = i \o Append(s, current) \o <<>> \o q
    BY <2>3, <2>5 DEF Due, OnTheWay, Handed, InRoom
  <2> HIDE DEF i, s, q
  <2>7. i \o Append(s, current) = i \o s \o <<current>>
    BY <2>1, <2>2
  <2>8. i \o Append(s, current) \o <<>> = i \o Append(s, current)
    BY <2>1, <2>2
  <2> QED
    BY <2>4, <2>6, <2>7, <2>8
<1> QED
  BY <1>1, <1>2, <1>3 DEF Unseen

(* A pump takes the next message from its buffer into its hand. *)
LEMMA PumpingIsUnseen ==
    ASSUME IndInv, HandsEmpty, NEW c \in Conns, TakeFromSend(c)
    PROVE  Unseen
<1> USE DEF TakeFromSend, runVars
<1>1. \A d \in Conns : Phase(d)' = Phase(d)
  BY DEF Phase, InRoom
<1>2. ASSUME NEW d \in Conns PROVE Handed(d)' = Handed(d)
  <2>1. CASE d # c
    BY <2>1 DEF Handed, IndInv, TypeOK
  <2>2. CASE d = c
    <3> DEFINE s == send[c]
    <3>1. s \in Seq(Message) /\ s # <<>> /\ inflight[c] = Idle
      BY DEF IndInv, TypeOK, HandsEmpty
    <3>2. Head(s) # Idle
      BY <3>1, NoMessageIsIdle
    <3>3. inflight'[c] = Head(s) /\ send'[c] = Tail(s)
      BY DEF IndInv, TypeOK
    <3>4. Handed(c) = <<>> \o s /\ Handed(c)' = <<Head(s)>> \o Tail(s)
      BY <3>1, <3>2, <3>3 DEF Handed
    <3> HIDE DEF s
    <3>5. <<>> \o s = s /\ <<Head(s)>> \o Tail(s) = s
      BY <3>1
    <3> QED
      BY <2>2, <3>4, <3>5
  <2> QED
    BY <2>1, <2>2
<1>3. ASSUME NEW d \in Conns PROVE Due(d)' = Due(d)
  BY <1>2 DEF Due, OnTheWay, InRoom
<1> QED
  BY <1>1, <1>3 DEF Unseen

(* Steps that only the owed connection c sees. *)
OthersUnseen(c) ==
    \A d \in Conns \ {c} : Phase(d)' = Phase(d) /\ Due(d)' = Due(d)

(* A registration is a Join: the new member is owed what is in the queue. *)
LEMMA RegisteringJoins ==
    ASSUME IndInv, Delivering, NEW c \in Conns, Register(c)
    PROVE  /\ UNCHANGED <<board, accepted, received>> /\ OthersUnseen(c)
           /\ Phase(c) = "out" /\ Phase(c)' = "in"
           /\ received[c] = <<>>
           /\ Due(c)' \in Seq(Message) /\ IsSuffix(Due(c)', accepted[board[c]])
<1> USE DEF Register
<1>1. /\ ~InRoom(c) /\ closes[c] = 0 /\ received[c] = <<>> /\ send[c] = <<>>
      /\ inflight[c] = Idle /\ visit = {} /\ board[c] \in Boards
  BY DEF IndInv, MembersAreAlive, Unregistered, FanningOut, TypeOK, Delivering, Fresh
<1>2. /\ \A d \in Conns \ {c} : InRoom(d)' = InRoom(d)
      /\ InRoom(c)'
  BY DEF InRoom, IndInv, TypeOK
<1>3. OthersUnseen(c)
  BY <1>2 DEF OthersUnseen, Phase, Due, OnTheWay, Handed
<1>4. Phase(c) = "out" /\ Phase(c)' = "in"
  BY <1>1, <1>2 DEF Phase
<1> DEFINE q == ForBoard(queue, board[c])
<1>5. q \in Seq(Message) /\ IsSuffix(q, accepted[board[c]])
  BY <1>1, LogTypes DEF Delivering, QueueEndsTheLogs
<1>6. Due(c)' = <<>> \o <<>> \o <<>> \o q
  BY <1>1, <1>2 DEF Due, OnTheWay, Handed
<1> HIDE DEF q
<1>7. Due(c)' = q
  BY <1>5, <1>6
<1> QED
  BY <1>1, <1>3, <1>4, <1>5, <1>7

(* Whoever removes a member, the connection may still get what it holds.  *)
LEMMA RemovingLeaves ==
    ASSUME IndInv, NEW c \in Conns, InRoom(c), RemoveConn(c),
           visit' \in {visit, visit \ {c}},
           UNCHANGED <<queue, current, board, send, inflight, accepted, received>>
    PROVE  /\ UNCHANGED <<board, accepted, received>> /\ OthersUnseen(c)
           /\ Phase(c) = "in" /\ Phase(c)' = "left"
           /\ Due(c)' \in Seq(Message)
           /\ \E u \in Seq(Message) : Due(c) = Due(c)' \o u
<1>1. /\ \A d \in Conns : rooms'[board[d]] = rooms[board[d]] \ {c}
      /\ closes'[c] = 1
      /\ \A d \in Conns \ {c} : closes'[d] = closes[d]
  BY RemoveConnFacts DEF IndInv, TypeOK
<1>2. ~InRoom(c)' /\ \A d \in Conns \ {c} : InRoom(d)' = InRoom(d)
  BY <1>1 DEF InRoom
<1>3. OthersUnseen(c)
  BY <1>1, <1>2 DEF OthersUnseen, Phase, Due, OnTheWay, Handed
<1>4. Phase(c) = "in" /\ Phase(c)' = "left"
  BY <1>1, <1>2 DEF Phase
<1> DEFINE h == Handed(c)
           v == IF c \in visit THEN <<current>> ELSE <<>>
           q == ForBoard(queue, board[c])
<1>5. h \in Seq(Message) /\ v \in Seq(Message) /\ q \in Seq(Message)
  BY DueTypes
<1>6. Due(c) = h \o v \o q /\ Due(c)' = h
  BY <1>2 DEF Due, OnTheWay, Handed
<1> HIDE DEF h, v, q
<1>7. h \o v \o q = h \o (v \o q) /\ v \o q \in Seq(Message)
  BY <1>5
<1> QED
  BY <1>3, <1>4, <1>5, <1>6, <1>7

(* A message is written to the socket. *)
LEMMA WritingReceives ==
    ASSUME IndInv, Delivering, NEW c \in Conns, WriteSocket(c)
    PROVE  /\ UNCHANGED <<board, accepted>> /\ OthersUnseen(c)
           /\ Phase(c)' = Phase(c)
           /\ \E m \in Message :
                 /\ Due(c) = <<m>> \o Due(c)'
                 /\ received' = [received EXCEPT ![c] = Append(@, m)]
           /\ Due(c)' \in Seq(Message)
<1> USE DEF WriteSocket, runVars
<1>1. OthersUnseen(c)
  BY DEF OthersUnseen, Phase, Due, OnTheWay, Handed, InRoom, IndInv, TypeOK
<1>2. Phase(c)' = Phase(c)
  BY DEF Phase, InRoom
<1> DEFINE m == inflight[c]
           s == send[c]
           v == IF c \in visit THEN <<current>> ELSE <<>>
           q == ForBoard(queue, board[c])
<1>3. /\ m \in Message /\ s \in Seq(Message) /\ v \in Seq(Message)
      /\ q \in Seq(Message)
  BY DueTypes DEF IndInv, Writing
<1>4. m # Idle
  BY <1>3, NoMessageIsIdle
<1>5. Handed(c) = <<m>> \o s /\ Handed(c)' = <<>> \o s
  BY <1>4 DEF Handed, IndInv, TypeOK
<1>6. /\ Due(c) = IF InRoom(c) THEN Handed(c) \o v \o q ELSE Handed(c)
      /\ Due(c)' = IF InRoom(c) THEN Handed(c)' \o v \o q ELSE Handed(c)'
  BY DEF Due, OnTheWay, InRoom
<1>7. received' = [received EXCEPT ![c] = Append(@, m)]
  OBVIOUS
<1> HIDE DEF m, s, v, q
<1>8. /\ <<>> \o s = s /\ <<m>> \o s \o v \o q = <<m>> \o (s \o v \o q)
      /\ s \o v \o q \in Seq(Message)
  BY <1>3
<1> QED
  BY <1>1, <1>2, <1>3, <1>5, <1>6, <1>7, <1>8

(* An event enters the queue: all members of its room are owed it.        *)
LEMMA BroadcastingPublishes ==
    ASSUME IndInv, NEW b \in Boards, Broadcast(b)
    PROVE  \/ Unseen
           \/ \E m \in Message :
                 /\ UNCHANGED <<board, received>>
                 /\ \A c \in Conns : Phase(c)' = Phase(c)
                 /\ accepted' = [accepted EXCEPT ![b] = Append(@, m)]
                 /\ \A c \in Conns :
                       Due(c)' = IF Phase(c) = "in" /\ board[c] = b
                                 THEN Append(Due(c), m) ELSE Due(c)
<1> DEFINE m == [board |-> b, id |-> published + 1]
<1> USE DEF connVars
<1>1. /\ UNCHANGED <<run, signalled, rooms, current, visit, board, connVars, received>>
      /\ \/ /\ queue' = Append(queue, m)
            /\ accepted' = [accepted EXCEPT ![b] = Append(@, m)]
         \/ UNCHANGED <<queue, accepted>>
  BY DEF Broadcast
<1>2. m \in Message /\ m.board = b
  BY HubAssumption DEF Broadcast, IndInv, TypeOK, Message
<1> HIDE DEF m
<1>3. CASE UNCHANGED <<queue, accepted>>
  BY <1>1, <1>3, NothingMoves
<1>4. CASE /\ queue' = Append(queue, m)
           /\ accepted' = [accepted EXCEPT ![b] = Append(@, m)]
  <2>1. \A c \in Conns : InRoom(c)' = InRoom(c) /\ Phase(c)' = Phase(c)
    BY <1>1 DEF Phase, InRoom
  <2>2. ASSUME NEW c \in Conns
        PROVE  Due(c)' = IF Phase(c) = "in" /\ board[c] = b
                         THEN Append(Due(c), m) ELSE Due(c)
    <3> DEFINE h == Handed(c)
               v == IF c \in visit THEN <<current>> ELSE <<>>
               q == ForBoard(queue, board[c])
    <3>1. h \in Seq(Message) /\ v \in Seq(Message) /\ q \in Seq(Message)
      BY DueTypes
    <3>2. queue \in Seq(Message)
      BY DEF IndInv, TypeOK
    <3>3. ForBoard(queue', board[c]) = IF b = board[c] THEN Append(q, m) ELSE q
      BY <1>2, <1>4, <3>2, ForBoardOfAppend
    <3>4. Handed(c)' = h
      BY <1>1 DEF Handed
    <3>5. Due(c)' = IF InRoom(c) THEN h \o v \o (IF b = board[c] THEN Append(q, m)
                                                 ELSE q)
                    ELSE h
      BY <1>1, <2>1, <3>3, <3>4 DEF Due, OnTheWay
    <3>6. Due(c) = IF InRoom(c) THEN h \o v \o q ELSE h
      BY DEF Due, OnTheWay
    <3>7. Phase(c) = "in" <=> InRoom(c)
      BY DEF Phase
    <3> HIDE DEF h, v, q
    <3>8. h \o v \o Append(q, m) = Append(h \o v \o q, m)
      BY <1>2, <3>1
    <3> QED
      BY <3>5, <3>6, <3>7, <3>8
  <2> QED
    BY <1>1, <1>2, <1>4, <2>1, <2>2
<1> QED
  BY <1>1, <1>3, <1>4

RoomStep == RoomView!Next \/ UNCHANGED RoomView!vars

LEMMA UnseenIsAStutter == Unseen => UNCHANGED RoomView!vars
<1> SUFFICES ASSUME Unseen PROVE UNCHANGED RoomView!vars
  OBVIOUS
<1>1. /\ [c \in Conns |-> Phase(c)]' = [c \in Conns |-> Phase(c)]
      /\ [c \in Conns |-> Due(c)]' = [c \in Conns |-> Due(c)]
  BY DEF Unseen
<1> QED
  BY <1>1 DEF Unseen, RoomView!vars

(* A function on Conns all of whose values but one stay is an EXCEPT. *)
LEMMA RegisterIsAJoin ==
    ASSUME IndInv, Delivering, NEW c \in Conns, Register(c)
    PROVE  RoomView!Join(c)
<1> DEFINE phases == [d \in Conns |-> Phase(d)]
           dues == [d \in Conns |-> Due(d)]
<1>1. /\ UNCHANGED <<board, accepted, received>> /\ OthersUnseen(c)
      /\ Phase(c) = "out" /\ Phase(c)' = "in"
      /\ Due(c)' \in Seq(Message) /\ IsSuffix(Due(c)', accepted[board[c]])
  BY RegisteringJoins
<1>2. PICK s : s = Due(c)'
  OBVIOUS
<1>3. PICK a : a = accepted[board[c]]
  OBVIOUS
<1>4. a \in Seq(Message) /\ s \in Seq(Message) /\ IsSuffix(s, a)
  BY <1>1, <1>2, <1>3, LogTypes DEF IndInv, TypeOK
<1>5. s \in RoomView!Suffixes(a)
  <2>1. PICK u \in Seq(Message) : a = u \o s
    BY <1>4, SuffixIff
  <2>2. /\ Len(u) + 1 \in 1..Len(a) + 1
        /\ SubSeq(a, Len(u) + 1, Len(a)) = s
    <3>1. Len(a) = Len(u) + Len(s) /\ Len(u) \in Nat /\ Len(s) \in Nat
      BY <1>4, <2>1
    <3> DEFINE t == SubSeq(a, Len(u) + 1, Len(a))
    <3>2. /\ t \in Seq(Message) /\ Len(t) = Len(s)
          /\ \A i \in 1..Len(s) : t[i] = a[Len(u) + i]
      BY <1>4, <3>1
    <3>3. \A i \in 1..Len(s) : a[Len(u) + i] = s[i]
      BY <1>4, <2>1, <3>1
    <3> HIDE DEF t
    <3>4. t = s
      BY <1>4, <3>2, <3>3, SeqEqual
    <3> QED
      BY <3>1, <3>4 DEF t
  <2> QED
    BY <2>2 DEF RoomView!Suffixes
<1>6. phases' = [phases EXCEPT ![c] = "in"]
  BY <1>1 DEF OthersUnseen
<1>7. dues' = [dues EXCEPT ![c] = s]
  BY <1>1, <1>2 DEF OthersUnseen
<1>8. phases[c] = "out"
  BY <1>1
<1>9. UNCHANGED <<board, accepted, received>>
  BY <1>1
<1> QED
  BY <1>3, <1>5, <1>6, <1>7, <1>8, <1>9 DEF RoomView!Join

LEMMA RemovingIsALeave ==
    ASSUME IndInv, NEW c \in Conns, InRoom(c), RemoveConn(c),
           visit' \in {visit, visit \ {c}},
           UNCHANGED <<queue, current, board, send, inflight, accepted, received>>
    PROVE  RoomView!Leave(c)
<1> DEFINE phases == [d \in Conns |-> Phase(d)]
           dues == [d \in Conns |-> Due(d)]
<1>1. /\ UNCHANGED <<board, accepted, received>> /\ OthersUnseen(c)
      /\ Phase(c) = "in" /\ Phase(c)' = "left"
      /\ Due(c)' \in Seq(Message)
      /\ \E u \in Seq(Message) : Due(c) = Due(c)' \o u
  BY RemovingLeaves
<1>2. PICK s : s = Due(c)'
  OBVIOUS
<1>3. PICK d : d = Due(c)
  OBVIOUS
<1>4. s \in RoomView!Prefixes(d)
  <2>1. PICK u \in Seq(Message) : d = s \o u
    BY <1>1, <1>2, <1>3
  <2>2. s \in Seq(Message) /\ d \in Seq(Message)
    BY <1>1, <1>2, <2>1
  <2>3. Len(d) = Len(s) + Len(u) /\ Len(u) \in Nat /\ Len(s) \in Nat
    BY <2>1, <2>2
  <2> DEFINE t == SubSeq(d, 1, Len(s))
  <2>4. /\ t \in Seq(Message) /\ Len(t) = Len(s)
        /\ \A i \in 1..Len(s) : t[i] = d[i]
    BY <2>2, <2>3
  <2>5. \A i \in 1..Len(s) : d[i] = s[i]
    BY <2>1, <2>2, <2>3
  <2> HIDE DEF t
  <2>6. t = s
    BY <2>2, <2>4, <2>5, SeqEqual
  <2>7. SubSeq(d, 1, Len(s)) = s /\ Len(s) \in 0..Len(d)
    BY <2>3, <2>6 DEF t
  <2> QED
    BY <2>7 DEF RoomView!Prefixes
<1>5. phases' = [phases EXCEPT ![c] = "left"]
  BY <1>1 DEF OthersUnseen
<1>6. dues' = [dues EXCEPT ![c] = s]
  BY <1>1, <1>2 DEF OthersUnseen
<1>7. phases[c] = "in" /\ dues[c] = d
  BY <1>1, <1>3
<1> QED
  BY <1>1, <1>4, <1>5, <1>6, <1>7 DEF RoomView!Leave

LEMMA WritingIsAReceive ==
    ASSUME IndInv, Delivering, NEW c \in Conns, WriteSocket(c)
    PROVE  RoomView!Receive(c)
<1> DEFINE phases == [d \in Conns |-> Phase(d)]
           dues == [d \in Conns |-> Due(d)]
<1>1. /\ UNCHANGED <<board, accepted>> /\ OthersUnseen(c)
      /\ Phase(c)' = Phase(c) /\ Due(c)' \in Seq(Message)
  BY WritingReceives
<1>2. PICK m \in Message :
         /\ Due(c) = <<m>> \o Due(c)'
         /\ received' = [received EXCEPT ![c] = Append(@, m)]
  BY WritingReceives
<1>3. PICK s : s = Due(c)'
  OBVIOUS
<1>4. PICK d : d = Due(c)
  OBVIOUS
<1>5. s \in Seq(Message) /\ d = <<m>> \o s
  BY <1>1, <1>2, <1>3, <1>4
<1>6. d # <<>> /\ Head(d) = m /\ Tail(d) = s
  BY <1>5
<1>7. phases' = phases
  BY <1>1 DEF OthersUnseen
<1>8. dues' = [dues EXCEPT ![c] = s]
  BY <1>1, <1>3 DEF OthersUnseen
<1>9. dues[c] = d
  BY <1>4
<1> QED
  BY <1>1, <1>2, <1>6, <1>7, <1>8, <1>9 DEF RoomView!Receive

LEMMA BroadcastIsAPublish ==
    ASSUME IndInv, NEW b \in Boards, Broadcast(b)
    PROVE  RoomStep
<1> DEFINE phases == [d \in Conns |-> Phase(d)]
           dues == [d \in Conns |-> Due(d)]
<1>1. CASE Unseen
  BY <1>1, UnseenIsAStutter DEF RoomStep
<1>2. CASE \E m \in Message :
              /\ UNCHANGED <<board, received>>
              /\ \A c \in Conns : Phase(c)' = Phase(c)
              /\ accepted' = [accepted EXCEPT ![b] = Append(@, m)]
              /\ \A c \in Conns :
                    Due(c)' = IF Phase(c) = "in" /\ board[c] = b
                              THEN Append(Due(c), m) ELSE Due(c)
  <2>1. PICK m \in Message :
              /\ UNCHANGED <<board, received>>
              /\ \A c \in Conns : Phase(c)' = Phase(c)
              /\ accepted' = [accepted EXCEPT ![b] = Append(@, m)]
              /\ \A c \in Conns :
                    Due(c)' = IF Phase(c) = "in" /\ board[c] = b
                              THEN Append(Due(c), m) ELSE Due(c)
    BY <1>2
  <2>2. phases' = phases
    BY <2>1
  <2>3. dues' = [c \in Conns |-> IF phases[c] = "in" /\ board[c] = b
                                 THEN Append(dues[c], m) ELSE dues[c]]
    BY <2>1
  <2>4. RoomView!Publish(b, m)
    BY <2>1, <2>2, <2>3 DEF RoomView!Publish
  <2> QED
    BY <2>4 DEF RoomStep, RoomView!Next
<1> QED
  BY <1>1, <1>2, BroadcastingPublishes

(* Each step of the hub is one of the room, or none to its clients. *)
LEMMA HubSteps == IndInv /\ Delivering /\ [Next]_vars => RoomStep
<1> SUFFICES ASSUME IndInv, Delivering, [Next]_vars PROVE RoomStep
  OBVIOUS
<1> USE DEF RoomStep
<1>1. ASSUME NEW c \in Conns, Register(c) PROVE RoomStep
  BY <1>1, RegisterIsAJoin DEF RoomView!Next
<1>2. ASSUME NEW c \in Conns, Unregister(c) PROVE RoomStep
  <2>1. /\ RemoveConn(c)
        /\ UNCHANGED <<visit, queue, current, board, send, inflight, accepted,
                       received>>
    BY <1>2 DEF Unregister
  <2>2. CASE InRoom(c)
    BY <2>1, <2>2, RemovingIsALeave DEF RoomView!Next
  <2>3. CASE ~InRoom(c)
    <3>1. UNCHANGED <<rooms, closes>>
      BY <2>1, <2>3 DEF RemoveConn
    <3> QED
      BY <2>1, <3>1, NothingMoves, UnseenIsAStutter
  <2> QED
    BY <2>2, <2>3
<1>3. ASSUME NEW c \in Conns, FanOut(c) PROVE RoomStep
  <2>1. /\ run = "fanout" /\ c \in visit /\ visit' = visit \ {c} /\ InRoom(c)
        /\ UNCHANGED <<queue, current, board, inflight, accepted, received>>
    BY <1>3 DEF FanOut, IndInv, NeverPanics
  <2>2. CASE /\ send' = [send EXCEPT ![c] = Append(@, current)]
             /\ UNCHANGED <<rooms, closes>>
    BY <2>1, <2>2, SendingIsUnseen, UnseenIsAStutter
  <2>3. CASE RemoveConn(c) /\ UNCHANGED send
    BY <2>1, <2>3, RemovingIsALeave DEF RoomView!Next
  <2> QED
    BY <1>3, <2>2, <2>3 DEF FanOut, DropSlowConsumer
<1>4. ASSUME NEW c \in Conns, CloseAll(c) PROVE RoomStep
  <2>1. /\ InRoom(c) /\ RemoveConn(c)
        /\ UNCHANGED <<visit, queue, current, board, send, inflight, accepted,
                       received>>
    BY <1>4 DEF CloseAll, CloseOne, RemoveConn
  <2> QED
    BY <2>1, RemovingIsALeave DEF RoomView!Next
<1>5. CASE TakeBroadcast
  BY <1>5, TakingIsUnseen, UnseenIsAStutter
<1>6. CASE FanOutDone
  <2>1. Unseen
    BY <1>6 DEF FanOutDone, connVars, Unseen, Phase, Due, InRoom, OnTheWay, Handed
  <2> QED
    BY <2>1, UnseenIsAStutter
<1>7. CASE Stop \/ Stopped \/ Signal \/ UNCHANGED vars
  <2>1. Unseen
    BY <1>7, NothingMoves
       DEF Stop, Stopped, Signal, vars, runVars, connVars
  <2> QED
    BY <2>1, UnseenIsAStutter
<1>8. ASSUME NEW b \in Boards, Broadcast(b) PROVE RoomStep
  BY <1>8, BroadcastIsAPublish
<1>9. ASSUME NEW c \in Conns,
             Serve(c) \/ BadFrame(c) \/ Pump(c) \/ Stall(c) \/ Vanish(c)
      PROVE  RoomStep
  <2>1. CASE TakeFromSend(c)
    BY <2>1, PumpingIsUnseen, UnseenIsAStutter DEF Delivering
  <2>2. CASE WriteSocket(c)
    BY <2>2, WritingIsAReceive DEF RoomView!Next
  <2>3. CASE ~TakeFromSend(c) /\ ~WriteSocket(c)
    <3>1. UNCHANGED <<runVars, board, send, closes, inflight, accepted, received>>
      BY <1>9, <2>3 DEF Serve, Authenticate, Welcome, ReadFails, GiveUp, Return,
         BadFrame, Pump, SeesCancel, SeesClosed, WriteFails, Ping, Pong, PingFails,
         WriterQuits, Stall, Vanish
    <3>2. Unseen
      BY <3>1, NothingMoves DEF runVars
    <3> QED
      BY <3>2, UnseenIsAStutter
  <2> QED
    BY <2>1, <2>2, <2>3
<1> QED
  BY <1>1, <1>2, <1>3, <1>4, <1>5, <1>6, <1>7, <1>8, <1>9 DEF Next, Run

LEMMA HubStarts == Init => RoomView!Init
<1> SUFFICES ASSUME Init PROVE RoomView!Init
  OBVIOUS
<1>1. ASSUME NEW c \in Conns PROVE Phase(c) = "out" /\ Due(c) = <<>>
  <2>1. ~InRoom(c)
    BY DEF Init, InRoom
  <2>2. Phase(c) = "out"
    BY <2>1 DEF Init, Phase
  <2>3. Due(c) = <<>> \o <<>>
    BY <2>1 DEF Init, Due, Handed
  <2> QED
    BY <2>2, <2>3
<1>2. /\ [c \in Conns |-> Phase(c)] = [c \in Conns |-> "out"]
      /\ [c \in Conns |-> Due(c)] = [c \in Conns |-> <<>>]
  BY <1>1
<1> QED
  BY <1>2 DEF Init, RoomView!Init
-----------------------------------------------------------------------------
LEMMA Invariance == Spec => [](IndInv /\ Delivering)
<1>1. Init => IndInv /\ Delivering
  BY InitEstablishes, DeliveringAtFirst
<1>2. IndInv /\ Delivering /\ [Next]_vars => (IndInv /\ Delivering)'
  BY NextKeeps, DeliveringKept
<1> QED
  BY <1>1, <1>2, PTL DEF Spec

(* The hub implements the room: whatever the queue, the fan-out, the       *)
(* buffers, the pumps and the drops do, each connection gets a contiguous  *)
(* part of its board's events, in order and once each (hub.go:50-101,      *)
(* conn.go:75-101).                                                        *)
THEOREM HubImplementsRoom == Spec => ImplementsRoom
<1>1. IndInv /\ Delivering /\ [Next]_vars => [RoomView!Next]_(RoomView!vars)
  BY HubSteps DEF RoomStep
<1> QED
  BY HubStarts, Invariance, <1>1, PTL DEF Spec, ImplementsRoom, RoomView!Spec

(* What the room promises its members, by its own steps alone. *)
Promised ==
    \A c \in Conns :
        /\ Phase(c) = "out" => received[c] = <<>> /\ Due(c) = <<>>
        /\ Phase(c) = "in" => IsSuffix(received[c] \o Due(c), accepted[board[c]])

PromisedTo(p, r, d, log) == /\ p = "out" => r = <<>> /\ d = <<>>
                            /\ p = "in" => IsSuffix(r \o d, log)

LEMMA RoomKeepsItsPromise ==
    ASSUME IndInv, IndInv', Promised, RoomStep
    PROVE  Promised'
<1> DEFINE phases == [d \in Conns |-> Phase(d)]
           dues == [d \in Conns |-> Due(d)]
<1> SUFFICES ASSUME NEW c \in Conns
             PROVE  PromisedTo(Phase(c)', received'[c], Due(c)', accepted'[board'[c]])
  BY DEF Promised, PromisedTo
<1>1. PICK p, r, d, log : p = Phase(c) /\ r = received[c] /\ d = Due(c)
                          /\ log = accepted[board[c]]
  OBVIOUS
<1>2. /\ r \in Seq(Message) /\ d \in Seq(Message) /\ log \in Seq(Message)
      /\ PromisedTo(p, r, d, log)
  BY <1>1, DueTypes DEF Promised, PromisedTo, IndInv, TypeOK
<1>3. PICK p1, r1, d1, log1 : p1 = Phase(c)' /\ r1 = received'[c] /\ d1 = Due(c)'
                              /\ log1 = accepted'[board'[c]]
  OBVIOUS
<1>4. phases[c] = p /\ dues[c] = d /\ phases'[c] = p1 /\ dues'[c] = d1
  BY <1>1, <1>3
<1>5. board[c] \in Boards /\ received \in [Conns -> Seq(Message)]
      /\ accepted \in [Boards -> Seq(Message)]
      /\ phases = [e \in Conns |-> phases[e]] /\ dues = [e \in Conns |-> dues[e]]
  BY DEF IndInv, TypeOK
<1> SUFFICES PromisedTo(p1, r1, d1, log1)
  BY <1>3
<1>6. CASE UNCHANGED RoomView!vars
  <2>1. p1 = p /\ r1 = r /\ d1 = d /\ log1 = log
    BY <1>1, <1>3, <1>4, <1>6 DEF RoomView!vars
  <2> QED
    BY <1>2, <2>1
<1>7. ASSUME NEW b \in Boards, NEW m \in Message, RoomView!Publish(b, m)
      PROVE  PromisedTo(p1, r1, d1, log1)
  <2>1. /\ accepted' = [accepted EXCEPT ![b] = Append(@, m)]
        /\ dues' = [e \in Conns |-> IF phases[e] = "in" /\ board[e] = b
                                    THEN Append(dues[e], m) ELSE dues[e]]
        /\ board' = board /\ phases' = phases /\ received' = received
    BY <1>7 DEF RoomView!Publish
  <2>2. /\ p1 = p /\ r1 = r
        /\ d1 = IF p = "in" /\ board[c] = b THEN Append(d, m) ELSE d
        /\ log1 = IF board[c] = b THEN Append(log, m) ELSE log
    BY <1>1, <1>3, <1>4, <1>5, <2>1
  <2>3. CASE p = "in" /\ board[c] = b
    <3> DEFINE rd == r \o d
    <3>1. rd \in Seq(Message) /\ r \o Append(d, m) = Append(rd, m)
      BY <1>2
    <3> HIDE DEF rd
    <3>2. PICK u \in Seq(Message) : log = u \o rd
      <4>1. IsSuffix(rd, log)
        BY <1>2, <2>3 DEF PromisedTo, rd
      <4> QED
        BY <1>2, <3>1, <4>1, SuffixIff
    <3>3. /\ Append(log, m) = u \o Append(rd, m)
          /\ Append(log, m) \in Seq(Message) /\ Append(rd, m) \in Seq(Message)
      BY <1>2, <3>1, <3>2
    <3>4. IsSuffix(r \o Append(d, m), Append(log, m))
      BY <3>1, <3>3, SuffixIff
    <3> QED
      BY <2>2, <2>3, <3>4 DEF PromisedTo
  <2>4. CASE ~(p = "in" /\ board[c] = b)
    BY <1>2, <2>2, <2>4 DEF PromisedTo
  <2> QED
    BY <2>3, <2>4
<1>8. ASSUME NEW e \in Conns, RoomView!Join(e)
      PROVE  PromisedTo(p1, r1, d1, log1)
  <2>1. PICK s \in RoomView!Suffixes(accepted[board[e]]) :
              dues' = [dues EXCEPT ![e] = s]
    BY <1>8 DEF RoomView!Join
  <2>2. /\ phases[e] = "out" /\ phases' = [phases EXCEPT ![e] = "in"]
        /\ board' = board /\ accepted' = accepted /\ received' = received
    BY <1>8 DEF RoomView!Join
  <2>3. CASE e # c
    <3>1. p1 = p /\ d1 = d /\ r1 = r /\ log1 = log
      BY <1>1, <1>3, <1>4, <2>1, <2>2, <2>3
    <3> QED
      BY <1>2, <3>1
  <2>4. CASE e = c
    <3>1. /\ p = "out" /\ p1 = "in" /\ d1 = s /\ r1 = r /\ log1 = log
          /\ s \in RoomView!Suffixes(log)
      BY <1>1, <1>3, <1>4, <2>1, <2>2, <2>4
    <3>2. r = <<>>
      BY <1>2, <3>1 DEF PromisedTo
    <3>3. PICK n \in 1..Len(log) + 1 : s = SubSeq(log, n, Len(log))
      BY <3>1 DEF RoomView!Suffixes
    <3>4. n \in Nat /\ n # 0 /\ n <= Len(log) + 1 /\ Len(log) \in Nat
      BY <1>2, <3>3
    <3> DEFINE u == SubSeq(log, 1, n - 1)
    <3>5. /\ u \in Seq(Message) /\ Len(u) = n - 1 /\ \A i \in 1..n - 1 : u[i] = log[i]
      BY <1>2, <3>4
    <3>6. /\ s \in Seq(Message) /\ Len(s) = Len(log) - (n - 1)
          /\ \A i \in 1..Len(s) : s[i] = log[(n - 1) + i]
      BY <1>2, <3>3, <3>4
    <3> HIDE DEF u
    <3>7. u \o s \in Seq(Message) /\ Len(u \o s) = Len(log)
      BY <3>4, <3>5, <3>6
    <3>8. \A i \in 1..Len(log) : (u \o s)[i] = log[i]
      <4> SUFFICES ASSUME NEW i \in 1..Len(log) PROVE (u \o s)[i] = log[i]
        OBVIOUS
      <4>1. CASE i <= n - 1
        BY <3>4, <3>5, <3>6, <4>1
      <4>2. CASE ~(i <= n - 1)
        <5>1. i - (n - 1) \in 1..Len(s) /\ (n - 1) + (i - (n - 1)) = i
          BY <3>4, <3>6, <4>2
        <5>2. (u \o s)[i] = s[i - (n - 1)]
          BY <3>4, <3>5, <3>6, <4>2
        <5> QED
          BY <3>6, <5>1, <5>2
      <4> QED
        BY <4>1, <4>2
    <3>9. log = u \o s
      BY <1>2, <3>7, <3>8, SeqEqual
    <3>10. IsSuffix(s, log)
      BY <1>2, <3>5, <3>6, <3>9, SuffixIff
    <3>11. r1 \o d1 = s
      BY <3>1, <3>2, <3>6
    <3> QED
      BY <3>1, <3>10, <3>11 DEF PromisedTo
  <2> QED
    BY <2>3, <2>4
<1>9. ASSUME NEW e \in Conns, RoomView!Receive(e)
      PROVE  PromisedTo(p1, r1, d1, log1)
  <2>1. /\ dues[e] # <<>>
        /\ received' = [received EXCEPT ![e] = Append(@, Head(dues[e]))]
        /\ dues' = [dues EXCEPT ![e] = Tail(@)]
        /\ board' = board /\ accepted' = accepted /\ phases' = phases
    BY <1>9 DEF RoomView!Receive
  <2>2. p1 = p /\ log1 = log
    BY <1>1, <1>3, <1>4, <2>1
  <2>3. CASE e # c
    <3>1. d1 = d /\ r1 = r
      BY <1>1, <1>3, <1>4, <1>5, <2>1, <2>3
    <3> QED
      BY <1>2, <2>2, <3>1
  <2>4. CASE e = c
    <3>1. d # <<>> /\ d1 = Tail(d) /\ r1 = Append(r, Head(d))
      BY <1>1, <1>3, <1>4, <1>5, <2>1, <2>4
    <3>2. r1 \o d1 = r \o d
      BY <1>2, <3>1
    <3>3. p # "out"
      BY <1>2, <3>1 DEF PromisedTo
    <3> QED
      BY <1>2, <2>2, <3>2, <3>3 DEF PromisedTo
  <2> QED
    BY <2>3, <2>4
<1>10. ASSUME NEW e \in Conns, RoomView!Leave(e)
       PROVE  PromisedTo(p1, r1, d1, log1)
  <2>1. PICK s : dues' = [dues EXCEPT ![e] = s]
    BY <1>10 DEF RoomView!Leave
  <2>2. /\ phases' = [phases EXCEPT ![e] = "left"]
        /\ board' = board /\ accepted' = accepted /\ received' = received
    BY <1>10 DEF RoomView!Leave
  <2>3. CASE e # c
    <3>1. p1 = p /\ d1 = d /\ r1 = r /\ log1 = log
      BY <1>1, <1>3, <1>4, <2>1, <2>2, <2>3
    <3> QED
      BY <1>2, <3>1
  <2>4. CASE e = c
    <3>1. p1 = "left"
      BY <1>4, <2>2, <2>4
    <3> QED
      BY <3>1 DEF PromisedTo
  <2> QED
    BY <2>3, <2>4
<1> QED
  BY <1>6, <1>7, <1>8, <1>9, <1>10 DEF RoomStep, RoomView!Next

LEMMA PromisedAtFirst == Init => Promised
<1> SUFFICES ASSUME Init, NEW c \in Conns
             PROVE  /\ Phase(c) # "in"
                    /\ received[c] = <<>> /\ Due(c) = <<>>
  BY DEF Promised
<1>1. ~InRoom(c)
  BY DEF Init, InRoom
<1>2. Phase(c) # "in" /\ Due(c) = <<>> \o <<>>
  BY <1>1 DEF Init, Phase, Due, Handed
<1> QED
  BY <1>2 DEF Init

(* A member has received, or is going to, every event that entered the     *)
(* queue for its board since the first one it was sent, in their order,    *)
(* and nothing of another board (hub.go:69-79, ADR-0004 item 3).           *)
THEOREM MembersAreComplete == Spec => []MembersMissNothing
<1>1. IndInv /\ Delivering /\ Promised /\ (IndInv /\ Delivering)' /\ [Next]_vars
         => Promised'
  BY HubSteps, RoomKeepsItsPromise
<1>2. Spec => []Promised
  BY PromisedAtFirst, Invariance, <1>1, PTL DEF Spec
<1>3. IndInv /\ Promised => MembersMissNothing
  <2> SUFFICES ASSUME IndInv, Promised, NEW c \in Conns, InRoom(c)
               PROVE  IsSuffix(received[c] \o OnTheWay(c), accepted[board[c]])
    BY DEF MembersMissNothing
  <2>1. Phase(c) = "in" /\ Due(c) = OnTheWay(c)
    BY DEF Phase, Due
  <2> QED
    BY <2>1 DEF Promised
<1> QED
  BY Invariance, <1>2, <1>3, PTL
=============================================================================
