------------------------------ MODULE Position ------------------------------
(***************************************************************************)
(* Fractional-index positions (server/internal/domain/board/position.go).  *)
(*                                                                         *)
(* A position is the sequence of its digits, a digit its index in the      *)
(* base-62 alphabet: the alphabet is in ASCII order (position.go:8-12), so *)
(* comparing bytes and comparing indices is the same thing.  The radix and *)
(* the length cap are parameters; the code has Base = 62, MaxLen = 64.     *)
(*                                                                         *)
(* The loops and the recursion of the code are given here in closed form   *)
(* (the place where the loop stops is the least place where its stopping   *)
(* condition holds), so that proofs can use them.  PositionLoops runs the  *)
(* loops one iteration at a time and shows that they compute exactly       *)
(* these operators.                                                        *)
(***************************************************************************)
EXTENDS Integers, Sequences

CONSTANTS Base, MaxLen

ASSUME PositionAssumption == /\ Base \in Nat /\ Base >= 2
                             /\ MaxLen \in Nat \ {0}

Digits == 0..(Base - 1)

(* The empty position: no bound on that side. *)
Open == <<>>

(* A key never ends in the lowest digit: there is always room before it. *)
Valid(p) == p # Open /\ p[Len(p)] # 0

Key == {p \in Seq(Digits) : Valid(p)}

(* Go's < on strings. *)
Precedes(p, q) ==
    \/ Len(p) < Len(q) /\ \A i \in 1..Len(p) : p[i] = q[i]
    \/ \E i \in 1..Len(p) :
          /\ i <= Len(q)
          /\ p[i] < q[i]
          /\ \A j \in 1..(i - 1) : p[j] = q[j]

(* The (Position, error) pairs the functions return. *)
Found(p) == [err |-> "none", key |-> p]
Failed(e) == [err |-> e, key |-> Open]
Exhausted == Failed("exhausted")
InvalidBounds == Failed("invalid")

Least(S) == CHOOSE n \in S : \A m \in S : n <= m

Zeros(n) == [i \in 1..n |-> 0]
-----------------------------------------------------------------------------
(* Between and the three functions it dispatches to.  The bounds are Open  *)
(* or keys of the table, so that the check for malformed ones never fails. *)

SlipAppend1(prev) ==
    IF prev[Len(prev)] + 1 < Base THEN Found(prev)
    ELSE IF Len(prev) + 1 > MaxLen THEN Exhausted
    ELSE Found(Append(prev, Base \div 2))

Append1(prev) ==
    LET last == prev[Len(prev)] IN
    IF last + 1 < Base THEN Found([prev EXCEPT ![Len(prev)] = last + 1])
    ELSE IF Len(prev) + 1 > MaxLen THEN Exhausted
    ELSE Found(Append(prev, Base \div 2))

(* The recursion strips leading zeros until a digit decides. *)
Prepend(next) ==
    LET stop == Least({i \in 1..Len(next) : next[i] # 0}) IN
    IF next[1] <= 1 /\ Len(next) + 1 > MaxLen THEN Exhausted
    ELSE IF next[stop] > 1
         THEN Found(Append(Zeros(stop - 1), next[stop] \div 2))
    ELSE Found(Append(Zeros(stop), Base \div 2))

LowDigit(lower, i) == IF i <= Len(lower) THEN lower[i] ELSE 0
HighDigit(upper, i) == IF i <= Len(upper) THEN upper[i] ELSE Base

(* Where the walk ends: at the first place where the bounds differ if a    *)
(* digit fits between them, and else, the upper bound being dropped, at    *)
(* the next place where a digit fits above prev's.                         *)
MidpointStop(prev, next) ==
    LET differ == Least({i \in 1..(Len(next) + 1) :
                            LowDigit(prev, i) # HighDigit(next, i)})
    IN  IF (LowDigit(prev, differ) + HighDigit(next, differ)) \div 2
              # LowDigit(prev, differ)
        THEN [place |-> differ, high |-> HighDigit(next, differ)]
        ELSE [place |-> Least({i \in (differ + 1)..(differ + Len(prev) + 1) :
                                  LowDigit(prev, i) # Base - 1}),
              high |-> Base]

Midpoint(prev, next) ==
    LET stop == MidpointStop(prev, next)
        digit == (LowDigit(prev, stop.place) + stop.high) \div 2
    IN  IF stop.place > MaxLen THEN Exhausted
        ELSE Found([i \in 1..stop.place |->
                       IF i = stop.place THEN digit ELSE LowDigit(prev, i)])

Between(prev, next) ==
    IF prev = Open /\ next = Open THEN Found(<<Base \div 2>>)
    ELSE IF prev = Open THEN Prepend(next)
    ELSE IF next = Open THEN Append1(prev)
    ELSE IF ~Precedes(prev, next) THEN InvalidBounds
    ELSE Midpoint(prev, next)
-----------------------------------------------------------------------------
(* Renormalize: count evenly spaced keys of one width. *)

Weight[n \in Nat] == IF n = 0 THEN 1 ELSE Base * Weight[n - 1]

(* The width at which the widening loop stops; it has done so by count + 1 *)
(* since Base >= 2.                                                        *)
Width(count) ==
    CHOOSE w \in 1..(count + 1) :
        /\ Weight[w] >= 2 * (count + 1)
        /\ w > 1 => Weight[w - 1] < 2 * (count + 1)

EncodeFixedWidth(value, width) ==
    [i \in 1..width |-> (value \div Weight[width - i]) % Base]

Spaced(count, item) ==
    LET value == item * (Weight[Width(count)] \div (count + 1))
    IN  IF value % Base = 0 THEN value + 1 ELSE value

Renormalize(count) ==
    [item \in 1..count |-> EncodeFixedWidth(Spaced(count, item), Width(count))]
=============================================================================
