-------------------------------- MODULE Room --------------------------------
(***************************************************************************)
(* What the hub promises the connections of a board's room                 *)
(* (server/internal/adapter/ws, ADR-0004 item 3), and all that a client of *)
(* the channel may rely on: from the moment a connection joins the room    *)
(* it is owed every event of the board, in their order, and gets them one  *)
(* by one until it leaves; then it may still get the next few of them.     *)
(* An event that a full queue has dropped was never published.             *)
(***************************************************************************)
EXTENDS Naturals, Sequences

CONSTANTS Conns, Boards, Messages

VARIABLES board,      \* the board of each connection
          log,        \* by board, the published events
          phase,      \* whether a connection is yet, still or no more in its room
          due,        \* the events it is owed
          received    \* the events it got

vars == <<board, log, phase, due, received>>

Suffixes(s) == {SubSeq(s, n, Len(s)) : n \in 1..Len(s) + 1}
Prefixes(s) == {SubSeq(s, 1, n) : n \in 0..Len(s)}

Init ==
    /\ board \in [Conns -> Boards]
    /\ log = [b \in Boards |-> <<>>]
    /\ phase = [c \in Conns |-> "out"]
    /\ due = [c \in Conns |-> <<>>] /\ received = [c \in Conns |-> <<>>]

(* Every member is owed the event; of those who have left, none is. *)
Publish(b, m) ==
    /\ log' = [log EXCEPT ![b] = Append(@, m)]
    /\ due' = [c \in Conns |-> IF phase[c] = "in" /\ board[c] = b
                               THEN Append(due[c], m) ELSE due[c]]
    /\ UNCHANGED <<board, phase, received>>

(* A new member gets what is still in the queue too. *)
Join(c) ==
    /\ phase[c] = "out"
    /\ phase' = [phase EXCEPT ![c] = "in"]
    /\ \E s \in Suffixes(log[board[c]]) : due' = [due EXCEPT ![c] = s]
    /\ UNCHANGED <<board, log, received>>

Receive(c) ==
    /\ due[c] # <<>>
    /\ received' = [received EXCEPT ![c] = Append(@, Head(due[c]))]
    /\ due' = [due EXCEPT ![c] = Tail(@)]
    /\ UNCHANGED <<board, log, phase>>

(* Of what it is owed, the connection may still get the beginning. *)
Leave(c) ==
    /\ phase[c] = "in"
    /\ phase' = [phase EXCEPT ![c] = "left"]
    /\ \E s \in Prefixes(due[c]) : due' = [due EXCEPT ![c] = s]
    /\ UNCHANGED <<board, log, received>>

Next ==
    \/ \E b \in Boards, m \in Messages : Publish(b, m)
    \/ \E c \in Conns : Join(c) \/ Receive(c) \/ Leave(c)

Spec == Init /\ [][Next]_vars
=============================================================================
