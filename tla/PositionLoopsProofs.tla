------------------------- MODULE PositionLoopsProofs -------------------------
(***************************************************************************)
(* The loops of position.go compute the closed forms of Position, for any  *)
(* radix, any cap, any bounds and any number of cards: by the invariants   *)
(* of the four loops.  What the other modules assume of Between and        *)
(* Renormalize is then a theorem about the code's own iterations.          *)
(***************************************************************************)
EXTENDS PositionLoops, PositionProofs, SequenceTheorems

(* The digits taken off so far are leading zeros of next, and the rest of  *)
(* next is the argument of the recursive call.                             *)
PrependSoFar ==
    pc = "prepend" =>
        /\ prev = Open /\ next \in Key /\ upper \in Key
        /\ Len(next) = Len(result) + Len(upper)
        /\ \A i \in 1..Len(result) : next[i] = 0 /\ result[i] = 0
        /\ \A i \in 1..Len(upper) : upper[i] = next[Len(result) + i]
        /\ Len(result) > 0 => Len(next) + 1 <= MaxLen

Differ(i) == LowDigit(prev, i) # HighDigit(next, i)
NoDigitFits(i) == (LowDigit(prev, i) + HighDigit(next, i)) \div 2 = LowDigit(prev, i)

(* The walk follows prev: with the upper bound while the bounds agree,     *)
(* without it after the first difference where no digit fits.              *)
MidpointSoFar ==
    pc = "midpoint" =>
        /\ prev \in Key /\ next \in Key /\ Precedes(prev, next)
        /\ Len(result) <= MaxLen
        /\ \A i \in 1..Len(result) : result[i] = LowDigit(prev, i)
        /\ \/ upper = next /\ \A i \in 1..Len(result) : ~Differ(i)
           \/ upper = Open /\ \E place \in 1..Len(result) :
                 /\ Differ(place) /\ NoDigitFits(place)
                 /\ \A i \in 1..(place - 1) : ~Differ(i)
                 /\ \A i \in (place + 1)..Len(result) : LowDigit(prev, i) = Base - 1

(* The capacity is the weight of the width, and no smaller width would do. *)
WidthSoFar ==
    pc \in {"widen", "encode"} =>
        /\ count # 0
        /\ capacity = Weight[width]
        /\ width > 1 => Weight[width - 1] < 2 * (count + 1)
        /\ pc = "encode" => width = Width(count) /\ Len(positions) < count
        /\ pc = "widen" => positions = <<>>

PositionsSoFar ==
    /\ Len(positions) <= count
    /\ \A item \in 1..Len(positions) :
           positions[item] = EncodeFixedWidth(Spaced(count, item), Width(count))

LoopsSoFar ==
    /\ pc \in {"between", "prepend", "midpoint"} => count = 0
    /\ pc = "between" => result = <<>>
    /\ PrependSoFar
    /\ MidpointSoFar
    /\ WidthSoFar
    /\ PositionsSoFar

IInv == TypeOK /\ LoopsSoFar /\ LoopsComputeClosedForms
-----------------------------------------------------------------------------
(* Sequences *)

LEMMA AppendIsFunction ==
  ASSUME NEW S, NEW s \in Seq(S), NEW e \in S,
         NEW f, f \in [1..(Len(s) + 1) -> S],
         \A i \in 1..Len(s) : f[i] = s[i], f[Len(s) + 1] = e
  PROVE  Append(s, e) = f
<1>1. f \in Seq(S) /\ Len(f) = Len(s) + 1
  <2> DEFINE n == Len(s) + 1
  <2>1. n \in Nat /\ f \in [1..n -> S]
    OBVIOUS
  <2> HIDE DEF n
  <2>2. f \in Seq(S) /\ Len(f) = n
    BY <2>1, FunctionsAreSequences
  <2>3. QED
    BY <2>2 DEF n
<1>2. /\ Append(s, e) \in Seq(S) /\ Len(Append(s, e)) = Len(s) + 1
      /\ \A i \in 1..Len(s) : Append(s, e)[i] = s[i]
      /\ Append(s, e)[Len(s) + 1] = e
  OBVIOUS
<1>3. \A i \in 1..Len(f) : Append(s, e)[i] = f[i]
  <2> SUFFICES ASSUME NEW i \in 1..Len(f) PROVE Append(s, e)[i] = f[i]
    OBVIOUS
  <2>1. CASE i = Len(s) + 1
    BY <1>2, <2>1
  <2>2. CASE i # Len(s) + 1
    <3>1. i \in 1..Len(s)
      BY <1>1, <2>2
    <3>2. QED
      BY <1>2, <3>1
  <2>3. QED
    BY <2>1, <2>2
<1>4. QED
  BY <1>1, <1>2, <1>3, SeqEqual

LEMMA LeastIs ==
  ASSUME NEW S \in SUBSET Nat, NEW n \in S, \A m \in S : n <= m
  PROVE  Least(S) = n
<1> DEFINE least == Least(S)
<1>1. least \in S /\ least <= n
  BY LeastIsLeast
<1> HIDE DEF least
<1>2. least \in Nat /\ n \in Nat /\ n <= least
  BY <1>1
<1>3. QED
  BY <1>1, <1>2 DEF least

LEMMA OpenFacts ==
  /\ Open \notin Key /\ Len(Open) = 0
  /\ \A i \in Nat \ {0} : HighDigit(Open, i) = Base
  BY DEF Open, Key, Valid, HighDigit

LEMMA NextFacts ==
  ASSUME NEW p \in Key
  PROVE  /\ p \in Seq(Digits) /\ Len(p) \in Nat \ {0} /\ p # Open
         /\ p[Len(p)] # 0
         /\ \A i \in 1..Len(p) : p[i] \in Nat /\ p[i] \in Digits
<1>1. p # Open
  BY OpenFacts
<1>2. QED
  BY <1>1, DigitFacts DEF Digits

(* What Between returns has the type of its result. *)
LEMMA BetweenType ==
  ASSUME NEW p \in Key \cup {Open}, NEW q \in Key \cup {Open}
  PROVE  Between(p, q) \in {Exhausted, InvalidBounds} \cup [err : {"none"}, key : Key]
<1>1. CASE Between(p, q).err = "none"
  <2>1. Between(p, q) = Found(Between(p, q).key)
    BY <1>1, BetweenOutcome, ErrorsDiffer
  <2>2. Between(p, q).key \in Key
    BY <1>1, BetweenIsStrict
  <2> DEFINE k == Between(p, q).key
  <2>3. Between(p, q) = [err |-> "none", key |-> k] /\ k \in Key
    BY <2>1, <2>2 DEF Found
  <2> HIDE DEF k
  <2>4. QED
    BY <2>3
<1>2. CASE Between(p, q).err # "none"
  BY <1>2, BetweenOutcome
<1>3. QED
  BY <1>1, <1>2
-----------------------------------------------------------------------------
(* Where the closed forms stop *)

LEMMA MidpointStops ==
  ASSUME NEW p \in Key, NEW q \in Key, Precedes(p, q),
         NEW d \in Nat \ {0},
         LowDigit(p, d) # HighDigit(q, d),
         \A i \in 1..(d - 1) : LowDigit(p, i) = HighDigit(q, i)
  PROVE  LET undecided == (LowDigit(p, d) + HighDigit(q, d)) \div 2 = LowDigit(p, d)
         IN  /\ ~undecided => MidpointStop(p, q) = [place |-> d, high |-> HighDigit(q, d)]
             /\ undecided =>
                  /\ MidpointStop(p, q).high = Base
                  /\ MidpointStop(p, q).place \in Nat
                  /\ MidpointStop(p, q).place > d
                  /\ LowDigit(p, MidpointStop(p, q).place) # Base - 1
             /\ undecided =>
                  \A n \in Nat :
                     n > d /\ LowDigit(p, n) # Base - 1
                           /\ (\A i \in (d + 1)..(n - 1) : LowDigit(p, i) = Base - 1)
                     => MidpointStop(p, q) = [place |-> n, high |-> Base]
<1> DEFINE differ == Least({i \in 1..(Len(q) + 1) : LowDigit(p, i) # HighDigit(q, i)})
           later == {i \in (d + 1)..(d + Len(p) + 1) : LowDigit(p, i) # Base - 1}
           undecided == (LowDigit(p, d) + HighDigit(q, d)) \div 2 = LowDigit(p, d)
<1>1. /\ differ \in 1..Len(q) /\ LowDigit(p, differ) < HighDigit(q, differ)
      /\ \A i \in 1..(differ - 1) : LowDigit(p, i) = HighDigit(q, i)
  BY FirstDifference
<1>2. Len(p) \in Nat \ {0} /\ Len(q) \in Nat \ {0}
  BY DigitFacts
<1>3. LowDigit(p, differ) # HighDigit(q, differ)
  <2>1. differ \in Nat \ {0}
    BY <1>1, <1>2
  <2> HIDE DEF differ
  <2>2. LowDigit(p, differ) \in Nat
    BY <2>1, DigitFacts DEF Digits
  <2>3. QED
    BY <1>1, <2>2
<1> HIDE DEF differ
<1>4. differ = d
  <2>1. ~(d < differ)
    BY <1>1, <1>2
  <2>2. ~(differ < d)
    BY <1>1, <1>2, <1>3
  <2>3. QED
    BY <1>1, <1>2, <2>1, <2>2
<1>5. later \in SUBSET Nat /\ d + Len(p) + 1 \in later
  BY <1>2, PositionAssumption DEF LowDigit
<1>6. MidpointStop(p, q) = IF ~undecided THEN [place |-> d, high |-> HighDigit(q, d)]
                           ELSE [place |-> Least(later), high |-> Base]
  BY <1>4 DEF MidpointStop, differ
<1>7. Least(later) \in later /\ \A i \in later : Least(later) <= i
  BY <1>5, LeastIsLeast
<1>8. /\ Least(later) \in Nat /\ Least(later) > d /\ Least(later) <= d + Len(p) + 1
      /\ LowDigit(p, Least(later)) # Base - 1
  <2>1. \A i \in later : /\ i \in Nat /\ i > d /\ i <= d + Len(p) + 1
                         /\ LowDigit(p, i) # Base - 1
    BY <1>2
  <2> HIDE DEF later
  <2>2. QED
    BY <1>7, <2>1
<1>9. ASSUME NEW n \in Nat, n > d, LowDigit(p, n) # Base - 1,
             \A i \in (d + 1)..(n - 1) : LowDigit(p, i) = Base - 1
      PROVE  Least(later) = n
  <2> DEFINE first == Least(later)
  <2>1. first \in Nat /\ first > d /\ LowDigit(p, first) # Base - 1
    BY <1>8
  <2>2. first <= d + Len(p) + 1 /\ \A i \in later : first <= i
    BY <1>7, <1>8
  <2> HIDE DEF first
  <2>3. ~(first < n)
    BY <1>9, <2>1
  <2>4. ~(n < first)
    <3>1. ASSUME n < first PROVE n \in later
      BY <1>2, <1>9, <2>1, <2>2, <3>1
    <3>2. QED
      BY <1>9, <2>1, <2>2, <3>1
  <2>5. QED
    BY <1>9, <2>1, <2>3, <2>4 DEF first
<1> DEFINE least == Least(later)
<1>10. CASE ~undecided
  BY <1>6, <1>10
<1>11. CASE undecided
  <2>1. MidpointStop(p, q) = [place |-> least, high |-> Base]
    BY <1>6, <1>11
  <2>2. least \in Nat /\ least > d /\ LowDigit(p, least) # Base - 1
    BY <1>8
  <2>3. \A n \in Nat :
           n > d /\ LowDigit(p, n) # Base - 1
                 /\ (\A i \in (d + 1)..(n - 1) : LowDigit(p, i) = Base - 1)
           => least = n
    BY <1>9
  <2> HIDE DEF least
  <2>4. MidpointStop(p, q).place = least /\ MidpointStop(p, q).high = Base
    BY <2>1
  <2>5. \A n \in Nat :
           n > d /\ LowDigit(p, n) # Base - 1
                 /\ (\A i \in (d + 1)..(n - 1) : LowDigit(p, i) = Base - 1)
           => MidpointStop(p, q) = [place |-> n, high |-> Base]
    BY <2>1, <2>3
  <2> HIDE DEF undecided
  <2>6. undecided
    BY <1>11
  <2>7. QED
    BY <2>2, <2>4, <2>5, <2>6 DEF undecided
<1>12. QED
  BY <1>10, <1>11

LEMMA ZerosFacts ==
  ASSUME NEW r \in Seq(Digits), \A i \in 1..Len(r) : r[i] = 0
  PROVE  Zeros(Len(r)) = r /\ Zeros(Len(r) + 1) = Append(r, 0)
<1>1. 0 \in Digits /\ Len(r) \in Nat
  BY PositionAssumption DEF Digits
<1>2. Zeros(Len(r) + 1) = Append(r, 0)
  <2> DEFINE f == [i \in 1..(Len(r) + 1) |-> 0]
  <2>1. /\ f \in [1..(Len(r) + 1) -> Digits]
        /\ \A i \in 1..Len(r) : f[i] = r[i]
        /\ f[Len(r) + 1] = 0
    BY <1>1
  <2>2. Zeros(Len(r) + 1) = f
    BY DEF Zeros
  <2> HIDE DEF f
  <2>3. Append(r, 0) = f
    BY <1>1, <2>1, AppendIsFunction
  <2>4. QED
    BY <2>2, <2>3
<1>3. Zeros(Len(r)) = r
  <2>1. r = [i \in 1..Len(r) |-> r[i]]
    BY <1>1, LenProperties
  <2>2. QED
    BY <2>1 DEF Zeros
<1>4. QED
  BY <1>2, <1>3

LEMMA PrependStops ==
  ASSUME NEW q \in Key, NEW k \in Nat, k < Len(q),
         \A i \in 1..k : q[i] = 0, q[k + 1] # 0
  PROVE  Prepend(q) = IF q[1] <= 1 /\ Len(q) + 1 > MaxLen THEN Exhausted
                      ELSE IF q[k + 1] > 1
                           THEN Found(Append(Zeros(k), q[k + 1] \div 2))
                      ELSE Found(Append(Zeros(k + 1), Base \div 2))
<1> DEFINE nonzero == {i \in 1..Len(q) : q[i] # 0}
           stop == Least(nonzero)
           place == k + 1
<1>1. stop = place
  <2>1. Len(q) \in Nat
    BY NextFacts
  <2>2. nonzero \in SUBSET Nat /\ place \in nonzero
    BY <2>1
  <2>3. \A m \in nonzero : place <= m
    BY <2>1
  <2> HIDE DEF nonzero, place
  <2>4. QED
    BY <2>2, <2>3, LeastIs
<1>2. Prepend(q) = IF q[1] <= 1 /\ Len(q) + 1 > MaxLen THEN Exhausted
                   ELSE IF q[stop] > 1
                        THEN Found(Append(Zeros(stop - 1), q[stop] \div 2))
                   ELSE Found(Append(Zeros(stop), Base \div 2))
  BY DEF Prepend
<1>3. stop - 1 = k
  BY <1>1
<1> HIDE DEF stop
<1>4. QED
  BY <1>1, <1>2, <1>3
-----------------------------------------------------------------------------
(* The invariant of the loops *)

LEMMA BoundsAreKeys ==
  ASSUME TypeOK
  PROVE  prev \in Key \cup {Open} /\ next \in Key \cup {Open}
  BY LoopAssumption DEF TypeOK

LEMMA InitHolds == Init => IInv
<1> SUFFICES ASSUME Init PROVE IInv
  OBVIOUS
<1>1. TypeOK
  <2>1. Base \in Nat \ {0} /\ Open \notin Key
    BY PositionAssumption, OpenFacts
  <2>2. <<>> \in Seq(Digits) /\ <<>> \in Seq(Key)
    OBVIOUS
  <2>3. Failed("none") \in {Exhausted, InvalidBounds, Failed("none")}
    OBVIOUS
  <2>4. count \in 0..MaxCount
    BY LoopAssumption DEF Init
  <2>5. prev \in Bounds \cup {Open} /\ next \in Bounds \cup {Open}
    BY DEF Init
  <2>6. QED
    BY <2>1, <2>2, <2>3, <2>4, <2>5 DEF Init, TypeOK
<1>2. LoopsSoFar
  <2>1. pc = "widen" => count # 0
    BY LoopAssumption DEF Init
  <2>2. Weight[1] = Base
    <3>1. Weight[0 + 1] = Base * 1
      BY WeightFacts
    <3>2. QED
      BY <3>1, PositionAssumption
  <2>3. WidthSoFar
    BY <2>1, <2>2 DEF Init, WidthSoFar
  <2>4. PositionsSoFar
    <3>1. Len(positions) = 0 /\ count \in Nat
      BY LoopAssumption DEF Init
    <3>2. QED
      BY <3>1 DEF PositionsSoFar
  <2>5. QED
    BY <2>3, <2>4 DEF Init, LoopsSoFar, PrependSoFar, MidpointSoFar
<1>3. LoopsComputeClosedForms
  BY DEF Init, LoopsComputeClosedForms, BetweenDone, Done
<1>4. QED
  BY <1>1, <1>2, <1>3 DEF IInv

(* Every return of Between's loops returns what the closed form says.      *)
LEMMA ReturnKeeps ==
  ASSUME IInv, count = 0, Return(Between(prev, next))
  PROVE  IInv'
<1>1. TypeOK'
  <2>1. Between(prev, next) \in {Exhausted, InvalidBounds} \cup [err : {"none"}, key : Key]
    BY BoundsAreKeys, BetweenType DEF IInv
  <2>2. QED
    BY <2>1 DEF IInv, TypeOK, Return, renormalize
<1>2. LoopsSoFar'
  BY DEF IInv, LoopsSoFar, PrependSoFar, MidpointSoFar, WidthSoFar, PositionsSoFar,
         Return, renormalize
<1>3. LoopsComputeClosedForms'
  BY DEF LoopsComputeClosedForms, BetweenDone, Done, Return
<1>4. QED
  BY <1>1, <1>2, <1>3 DEF IInv

LEMMA ReturnAtOnceKeeps ==
  ASSUME IInv, ReturnAtOnce
  PROVE  IInv'
<1>1. count = 0
  BY DEF IInv, LoopsSoFar, ReturnAtOnce
<1>2. Return(Between(prev, next))
  BY DEF ReturnAtOnce, Between
<1>3. QED
  BY <1>1, <1>2, ReturnKeeps

LEMMA EnterLoopKeeps ==
  ASSUME IInv, EnterLoop
  PROVE  IInv'
<1>1. /\ count = 0 /\ result = <<>> /\ next \in Key /\ prev \in Key \cup {Open}
      /\ Len(next) \in Nat
  <2>1. next \in Key /\ prev \in Key \cup {Open}
    BY BoundsAreKeys DEF IInv, EnterLoop
  <2>2. QED
    BY <2>1, NextFacts DEF IInv, LoopsSoFar, EnterLoop
<1>2. /\ UNCHANGED <<prev, next, result, out, count, width, capacity, positions>>
      /\ upper' = next /\ pc' \in {"prepend", "midpoint"}
      /\ pc' = "prepend" => prev = Open
      /\ pc' = "midpoint" => prev \in Key /\ Precedes(prev, next)
  BY <1>1 DEF EnterLoop, renormalize
<1>3. TypeOK'
  BY <1>1, <1>2 DEF IInv, TypeOK
<1>4. Len(result) = 0
  BY <1>1
<1>5. PrependSoFar'
  BY <1>1, <1>2, <1>4 DEF PrependSoFar
<1>6. MidpointSoFar'
  <2>1. Len(result') = 0 /\ 0 <= MaxLen
    BY <1>2, <1>4, PositionAssumption
  <2>2. QED
    BY <1>1, <1>2, <2>1 DEF MidpointSoFar, Differ
<1>7. LoopsSoFar'
  BY <1>1, <1>2, <1>5, <1>6 DEF IInv, LoopsSoFar, WidthSoFar, PositionsSoFar
<1>8. LoopsComputeClosedForms'
  BY <1>2 DEF LoopsComputeClosedForms, BetweenDone, Done
<1>9. QED
  BY <1>3, <1>7, <1>8 DEF IInv

LEMMA PrependStepKeeps ==
  ASSUME IInv, PrependStep
  PROVE  IInv'
<1> DEFINE k == Len(result)
<1>1. /\ count = 0 /\ prev = Open /\ next \in Key /\ upper \in Key
      /\ result \in Seq(Digits)
      /\ Len(next) = k + Len(upper)
      /\ \A i \in 1..k : next[i] = 0 /\ result[i] = 0
      /\ \A i \in 1..Len(upper) : upper[i] = next[k + i]
      /\ k > 0 => Len(next) + 1 <= MaxLen
  BY DEF IInv, TypeOK, LoopsSoFar, PrependSoFar, PrependStep
<1>2. /\ k \in Nat /\ Len(upper) \in Nat \ {0} /\ Len(next) \in Nat \ {0}
      /\ next # Open /\ upper \in Seq(Digits)
      /\ upper[1] \in Nat /\ upper[1] = next[k + 1] /\ k < Len(next)
      /\ next[1] \in Nat
  <2>1. k \in Nat
    BY <1>1
  <2>2. /\ Len(upper) \in Nat \ {0} /\ Len(next) \in Nat \ {0} /\ next # Open
        /\ upper \in Seq(Digits)
        /\ \A i \in 1..Len(upper) : upper[i] \in Nat
        /\ \A i \in 1..Len(next) : next[i] \in Nat
    BY <1>1, NextFacts
  <2>3. 1 \in 1..Len(upper) /\ 1 \in 1..Len(next) /\ k < Len(next)
    BY <1>1, <2>1, <2>2
  <2>4. QED
    BY <1>1, <2>1, <2>2, <2>3
<1>3. Zeros(k) = result /\ Zeros(k + 1) = Append(result, 0)
  BY <1>1, ZerosFacts
<1>4. Between(prev, next) = Prepend(next)
  BY <1>1, <1>2 DEF Between
<1>5. k = 0 => next[1] = upper[1]
  BY <1>2
<1>6. k > 0 => next[1] = 0
  <2>1. k > 0 => 1 \in 1..k
    BY <1>2
  <2>2. QED
    BY <1>1, <2>1
<1>7. next[k + 1] # 0 =>
         Prepend(next) = IF next[1] <= 1 /\ Len(next) + 1 > MaxLen THEN Exhausted
                         ELSE IF next[k + 1] > 1
                              THEN Found(Append(result, next[k + 1] \div 2))
                         ELSE Found(Append(Append(result, 0), Base \div 2))
  <2> SUFFICES ASSUME next[k + 1] # 0
               PROVE  Prepend(next) = IF next[1] <= 1 /\ Len(next) + 1 > MaxLen THEN Exhausted
                                      ELSE IF next[k + 1] > 1
                                           THEN Found(Append(Zeros(k), next[k + 1] \div 2))
                                      ELSE Found(Append(Zeros(k + 1), Base \div 2))
    BY <1>3
  <2> HIDE DEF k
  <2>1. \A i \in 1..k : next[i] = 0
    BY <1>1
  <2>2. QED
    BY <1>1, <1>2, <2>1, PrependStops
<1>8. MaxLen \in Nat
  BY PositionAssumption
<1>9. CASE LeavesRoom /\ Return(Found(Append(result, upper[1] \div 2)))
  <2>1. next[k + 1] # 0 /\ next[k + 1] > 1
    BY <1>2, <1>9 DEF LeavesRoom
  <2>2. ~(next[1] <= 1 /\ Len(next) + 1 > MaxLen)
    BY <1>1, <1>2, <1>5, <1>8, <2>1
  <2>3. Between(prev, next) = Found(Append(result, upper[1] \div 2))
    BY <1>2, <1>4, <1>7, <2>1, <2>2
  <2>4. QED
    BY <1>1, <1>9, <2>3, ReturnKeeps
<1>10. CASE ~LeavesRoom /\ ~PrependFits /\ Return(Exhausted)
  <2>1. k = 0 /\ next[1] <= 1 /\ Len(next) + 1 > MaxLen
    BY <1>1, <1>2, <1>5, <1>8, <1>10 DEF PrependFits, LeavesRoom
  <2>2. Prepend(next) = Exhausted
    BY <2>1 DEF Prepend
  <2>3. QED
    BY <1>1, <1>4, <1>10, <2>2, ReturnKeeps
<1>11. CASE ~LeavesRoom /\ PrependFits /\ upper[1] = 1 /\ Return(Found(result \o <<0, Base \div 2>>))
  <2>1. Len(next) + 1 <= MaxLen
    BY <1>1, <1>2, <1>8, <1>11 DEF PrependFits
  <2>2. next[k + 1] # 0 /\ ~(next[k + 1] > 1) /\ ~(Len(next) + 1 > MaxLen)
    BY <1>2, <1>8, <1>11, <2>1
  <2>3. Between(prev, next) = Found(Append(Append(result, 0), Base \div 2))
    BY <1>4, <1>7, <2>2
  <2>4. result \o <<0, Base \div 2>> = Append(Append(result, 0), Base \div 2)
    <3> DEFINE h == Base \div 2
    <3>1. 0 \in Digits /\ h \in Digits
      BY HalfBase, PositionAssumption DEF Digits
    <3> HIDE DEF h
    <3>2. result \o <<0, h>> = Append(Append(result, 0), h)
      BY <1>1, <3>1
    <3>3. QED
      BY <3>2 DEF h
  <2>5. QED
    BY <1>1, <1>11, <2>3, <2>4, ReturnKeeps
<1>12. CASE /\ ~LeavesRoom /\ PrependFits /\ upper[1] = 0
            /\ Emit(0)
            /\ upper' = Tail(upper)
            /\ UNCHANGED <<prev, next, pc, out, count, renormalize>>
  <2>1. result' = Append(result, 0) /\ 0 \in Digits
    BY <1>12, PositionAssumption DEF Emit, Digits
  <2>2. /\ result' \in Seq(Digits) /\ Len(result') = k + 1
        /\ \A i \in 1..(k + 1) : result'[i] = 0
    BY <1>1, <2>1
  <2>3. /\ Len(upper) > 1 /\ upper' \in Seq(Digits) /\ Len(upper') = Len(upper) - 1
        /\ \A i \in 1..Len(upper') : upper'[i] = upper[i + 1]
    <3>1. upper[Len(upper)] # 0
      BY <1>1, NextFacts
    <3>2. Len(upper) > 1
      BY <1>2, <1>12, <3>1
    <3>3. QED
      BY <1>2, <1>12, <3>2
  <2>4. upper' \in Key
    <3>1. (Len(upper) - 2) + 1 = Len(upper') /\ Len(upper) - 2 \in Nat
      BY <1>2, <2>3
    <3>2. Len(upper') \in 1..Len(upper') /\ Len(upper') + 1 = Len(upper)
      BY <1>2, <2>3
    <3>3. upper'[Len(upper')] = upper[Len(upper)]
      BY <2>3, <3>2
    <3>4. upper'[Len(upper')] # 0
      BY <1>1, <3>3, NextFacts
    <3>5. QED
      BY <2>3, <3>1, <3>4, NonEmptyIsKey
  <2>5. /\ UNCHANGED <<prev, next, pc, out, count, width, capacity, positions>>
        /\ pc = "prepend"
    BY <1>12 DEF PrependStep, renormalize
  <2>6. TypeOK'
    BY <2>2, <2>4, <2>5 DEF IInv, TypeOK
  <2>7. PrependSoFar'
    <3>1. Len(next) = Len(result') + Len(upper')
      BY <1>1, <1>2, <2>2, <2>3
    <3>2. \A i \in 1..Len(result') : next[i] = 0 /\ result'[i] = 0
      <4> SUFFICES ASSUME NEW i \in 1..(k + 1) PROVE next[i] = 0
        BY <2>2
      <4>1. CASE i = k + 1
        BY <1>2, <1>12, <4>1
      <4>2. CASE i # k + 1
        <5>1. i \in 1..k
          BY <1>2, <4>2
        <5>2. QED
          BY <1>1, <5>1
      <4>3. QED
        BY <4>1, <4>2
    <3>3. \A i \in 1..Len(upper') : upper'[i] = next[Len(result') + i]
      <4> SUFFICES ASSUME NEW i \in 1..Len(upper')
                   PROVE  upper'[i] = next[Len(result') + i]
        OBVIOUS
      <4>1. i + 1 \in 1..Len(upper) /\ k + (i + 1) = Len(result') + i
        BY <1>2, <2>2, <2>3
      <4>2. QED
        BY <1>1, <2>3, <4>1
    <3>4. Len(next) + 1 <= MaxLen
      BY <1>1, <1>2, <1>8, <1>12 DEF PrependFits
    <3>5. QED
      BY <1>1, <2>4, <2>5, <3>1, <3>2, <3>3, <3>4 DEF PrependSoFar
  <2>8. LoopsSoFar'
    BY <1>1, <2>5, <2>7 DEF IInv, LoopsSoFar, MidpointSoFar, WidthSoFar, PositionsSoFar
  <2>9. LoopsComputeClosedForms'
    BY <2>5 DEF LoopsComputeClosedForms, BetweenDone, Done
  <2>10. QED
    BY <2>6, <2>8, <2>9 DEF IInv
<1>13. QED
  BY <1>9, <1>10, <1>11, <1>12 DEF PrependStep

(* The walk is decided at the place that follows the digits emitted.       *)
LEMMA MidpointReturns ==
  ASSUME NEW p \in Key, NEW q \in Key, Precedes(p, q),
         NEW r \in Seq(Digits), NEW high, NEW mid \in Digits,
         \A i \in 1..Len(r) : r[i] = LowDigit(p, i),
         Len(r) < MaxLen,
         MidpointStop(p, q) = [place |-> Len(r) + 1, high |-> high],
         mid = (LowDigit(p, Len(r) + 1) + high) \div 2
  PROVE  Between(p, q) = Found(Append(r, mid))
<1> DEFINE n == Len(r) + 1
           f == [i \in 1..n |-> IF i = n THEN mid ELSE LowDigit(p, i)]
<1>1. Len(r) \in Nat /\ ~(n > MaxLen)
  BY PositionAssumption
<1>2. Between(p, q) = Midpoint(p, q)
  BY OpenFacts DEF Between
<1>3. Midpoint(p, q) = Found(f)
  <2>1. MidpointStop(p, q).place = n /\ MidpointStop(p, q).high = high
    OBVIOUS
  <2> HIDE DEF n
  <2>2. mid = (LowDigit(p, n) + high) \div 2
    BY DEF n
  <2>3. QED
    BY <1>1, <2>1, <2>2 DEF Midpoint
<1>4. /\ f \in [1..(Len(r) + 1) -> Digits]
      /\ \A i \in 1..Len(r) : f[i] = r[i]
      /\ f[Len(r) + 1] = mid
  <2>1. \A i \in 1..n : LowDigit(p, i) \in Digits
    BY <1>1, DigitFacts
  <2>2. QED
    BY <1>1, <2>1
<1> HIDE DEF f
<1>5. Append(r, mid) = f
  BY <1>4, AppendIsFunction
<1>6. QED
  BY <1>2, <1>3, <1>5

LEMMA MidpointStepKeeps ==
  ASSUME IInv, MidpointStep
  PROVE  IInv'
<1> DEFINE k == Len(result)
           place == k + 1
           low == LowDigit(prev, place)
           high == HighDigit(upper, place)
           mid == (low + high) \div 2
           Agreed == upper = next /\ \A i \in 1..k : ~Differ(i)
           Decided(d) == /\ Differ(d) /\ NoDigitFits(d)
                         /\ \A i \in 1..(d - 1) : ~Differ(i)
                         /\ \A i \in (d + 1)..k : LowDigit(prev, i) = Base - 1
           Dropped == upper = Open /\ \E d \in 1..k : Decided(d)
<1>1. /\ count = 0 /\ prev \in Key /\ next \in Key /\ Precedes(prev, next)
      /\ result \in Seq(Digits) /\ k \in Nat /\ k <= MaxLen
      /\ \A i \in 1..k : result[i] = LowDigit(prev, i)
      /\ Agreed \/ Dropped
      /\ pc = "midpoint"
  BY DEF IInv, TypeOK, LoopsSoFar, MidpointSoFar, MidpointStep
<1>2. /\ place \in Nat \ {0} /\ low \in Digits /\ low \in Nat
      /\ \A i \in Nat \ {0} : LowDigit(prev, i) \in Digits
  BY <1>1, DigitFacts DEF Digits
<1>3. MaxLen \in Nat /\ Base \in Nat /\ Base >= 2
  BY PositionAssumption
<1>4. Between(prev, next) = Midpoint(prev, next)
  BY <1>1, OpenFacts DEF Between
(* Beyond a decided difference the upper digit is the radix. *)
<1>5. Dropped => high = Base /\ low # high
  BY <1>2, OpenFacts DEF Digits
<1>6. Agreed => high = HighDigit(next, place)
  OBVIOUS
<1> HIDE DEF low, high, mid
<1>7. CASE AtCap /\ Return(Exhausted)
  <2>1. k = MaxLen
    BY <1>1, <1>3, <1>7 DEF AtCap
  <2> DEFINE stop == MidpointStop(prev, next)
  <2>2. stop.place > k
    <3>1. CASE Agreed
      <4> DEFINE differ == Least({i \in 1..(Len(next) + 1) :
                                     LowDigit(prev, i) # HighDigit(next, i)})
      <4>1. /\ differ \in 1..Len(next) /\ LowDigit(prev, differ) < HighDigit(next, differ)
            /\ \A i \in 1..(differ - 1) : LowDigit(prev, i) = HighDigit(next, i)
        BY <1>1, FirstDifference
      <4>2. Len(next) \in Nat
        BY <1>1, NextFacts
      <4> HIDE DEF differ
      <4>3. differ \in Nat \ {0}
        BY <4>1, <4>2
      <4>4. LowDigit(prev, differ) # HighDigit(next, differ)
        <5>1. LowDigit(prev, differ) \in Nat
          BY <1>2, <4>3 DEF Digits
        <5>2. QED
          BY <4>1, <5>1
      <4>5. differ > k
        BY <1>1, <3>1, <4>3, <4>4 DEF Differ
      <4> DEFINE undecided == (LowDigit(prev, differ) + HighDigit(next, differ)) \div 2
                                 = LowDigit(prev, differ)
      <4>6. /\ ~undecided => stop.place = differ
            /\ undecided => stop.place \in Nat /\ stop.place > differ
        <5>1. /\ ~undecided => stop = [place |-> differ, high |-> HighDigit(next, differ)]
              /\ undecided => stop.place \in Nat /\ stop.place > differ
          BY <1>1, <4>1, <4>3, <4>4, MidpointStops
        <5> HIDE DEF stop, undecided
        <5>2. QED
          BY <5>1
      <4> HIDE DEF stop, undecided
      <4>7. QED
        BY <1>1, <4>3, <4>5, <4>6
    <3>2. CASE Dropped
      <4>1. PICK d \in 1..k : Decided(d)
        BY <3>2
      <4>2. /\ d \in Nat \ {0} /\ LowDigit(prev, d) # HighDigit(next, d)
            /\ \A i \in 1..(d - 1) : LowDigit(prev, i) = HighDigit(next, i)
            /\ (LowDigit(prev, d) + HighDigit(next, d)) \div 2 = LowDigit(prev, d)
        BY <4>1 DEF Differ, NoDigitFits
      <4>3. stop.place \in Nat /\ stop.place > d /\ LowDigit(prev, stop.place) # Base - 1
        BY <1>1, <4>2, MidpointStops
      <4> HIDE DEF stop
      <4>4. QED
        BY <1>1, <4>1, <4>3
    <3>3. QED
      BY <1>1, <3>1, <3>2
  <2>3. Midpoint(prev, next) = Exhausted
    <3>1. stop.place > MaxLen
      BY <2>1, <2>2
    <3>2. QED
      BY <3>1 DEF Midpoint
  <2>4. QED
    BY <1>1, <1>4, <1>7, <2>3, ReturnKeeps
<1>8. ASSUME ~AtCap, Emit(low), pc' = pc,
             UNCHANGED <<prev, next, out, count, renormalize>>,
             upper' = upper \/ upper' = Open,
             \/ upper' = next /\ \A i \in 1..place : ~Differ(i)
             \/ upper' = Open /\ \E d \in 1..place :
                   /\ Differ(d) /\ NoDigitFits(d)
                   /\ \A i \in 1..(d - 1) : ~Differ(i)
                   /\ \A i \in (d + 1)..place : LowDigit(prev, i) = Base - 1
      PROVE  IInv'
  <2>1. result' = Append(result, low)
    BY <1>8 DEF Emit
  <2>2. /\ result' \in Seq(Digits) /\ Len(result') = place
        /\ \A i \in 1..k : result'[i] = result[i]
        /\ result'[place] = low
    BY <1>1, <1>2, <2>1
  <2>3. \A i \in 1..place : result'[i] = LowDigit(prev, i)
    <3> SUFFICES ASSUME NEW i \in 1..place PROVE result'[i] = LowDigit(prev, i)
      OBVIOUS
    <3>1. CASE i = place
      BY <2>2, <3>1 DEF low
    <3>2. CASE i # place
      <4>1. i \in 1..k
        BY <1>1, <3>2
      <4>2. QED
        BY <1>1, <2>2, <4>1
    <3>3. QED
      BY <3>1, <3>2
  <2>4. place <= MaxLen
    BY <1>1, <1>3, <1>8 DEF AtCap
  <2>5. UNCHANGED <<prev, next, out, count, width, capacity, positions>> /\ pc' = "midpoint"
    BY <1>1, <1>8 DEF renormalize
  <2>6. TypeOK'
    <3>1. upper' \in Key \cup {Open}
      BY <1>8 DEF IInv, TypeOK
    <3>2. QED
      BY <2>2, <2>5, <3>1 DEF IInv, TypeOK
  <2>7. MidpointSoFar'
    <3>1. \A i : Differ(i)' <=> Differ(i)
      BY <2>5 DEF Differ
    <3>2. \A i : NoDigitFits(i)' <=> NoDigitFits(i)
      BY <2>5 DEF NoDigitFits
    <3>3. \/ upper' = next' /\ \A i \in 1..Len(result') : ~Differ(i)'
          \/ upper' = Open /\ \E d \in 1..Len(result') :
                /\ Differ(d)' /\ NoDigitFits(d)'
                /\ \A i \in 1..(d - 1) : ~Differ(i)'
                /\ \A i \in (d + 1)..Len(result') : LowDigit(prev', i) = Base - 1
      BY <1>8, <2>2, <2>5, <3>1, <3>2
    <3>4. QED
      BY <1>1, <2>2, <2>3, <2>4, <2>5, <3>3 DEF MidpointSoFar
  <2>8. LoopsSoFar'
    BY <1>1, <2>5, <2>7 DEF IInv, LoopsSoFar, PrependSoFar, WidthSoFar, PositionsSoFar
  <2>9. LoopsComputeClosedForms'
    BY <2>5 DEF LoopsComputeClosedForms, BetweenDone, Done
  <2>10. QED
    BY <2>6, <2>8, <2>9 DEF IInv
<1>9. CASE /\ ~AtCap /\ low = high /\ Emit(low)
           /\ UNCHANGED <<prev, next, pc, upper, out, count, renormalize>>
  <2>1. Agreed
    BY <1>1, <1>5, <1>9
  <2>2. ~Differ(place)
    BY <1>6, <1>9, <2>1 DEF Differ, low
  <2>3. \A i \in 1..place : ~Differ(i)
    <3> SUFFICES ASSUME NEW i \in 1..place PROVE ~Differ(i)
      OBVIOUS
    <3>1. i = place \/ i \in 1..k
      BY <1>1
    <3>2. QED
      BY <2>1, <2>2, <3>1
  <2>4. QED
    BY <1>8, <1>9, <2>1, <2>3
<1>10. CASE /\ ~AtCap /\ low # high /\ mid = low /\ Emit(low)
            /\ upper' = UpperOnceBelow
            /\ UNCHANGED <<prev, next, pc, out, count, renormalize>>
  <2>1. CASE Agreed
    <3>1. Differ(place) /\ NoDigitFits(place)
      BY <1>6, <1>10, <2>1 DEF Differ, NoDigitFits, low, mid
    <3>2. \A i \in 1..(place - 1) : ~Differ(i)
      BY <1>1, <2>1
    <3>3. place \in 1..place /\ \A i \in (place + 1)..place : LowDigit(prev, i) = Base - 1
      BY <1>2
    <3> HIDE DEF place
    <3>4. upper' = Open /\ pc' = pc
      BY <1>10 DEF UpperOnceBelow
    <3>5. \E d \in 1..place :
                   /\ Differ(d) /\ NoDigitFits(d)
                   /\ \A i \in 1..(d - 1) : ~Differ(i)
                   /\ \A i \in (d + 1)..place : LowDigit(prev, i) = Base - 1
      BY <3>1, <3>2, <3>3
    <3>6. QED
      BY <1>8, <1>10, <3>4, <3>5
  <2>2. CASE Dropped
    <3>1. PICK d \in 1..k : Decided(d)
      BY <2>2
    <3>2. low = Base - 1
      <4>1. (low + Base) \div 2 = low
        BY <1>5, <1>10, <2>2 DEF mid
      <4>2. QED
        BY <1>2, <1>3, <4>1 DEF Digits
    <3>3. \A i \in (d + 1)..place : LowDigit(prev, i) = Base - 1
      <4> SUFFICES ASSUME NEW i \in (d + 1)..place PROVE LowDigit(prev, i) = Base - 1
        OBVIOUS
      <4>1. i = place \/ i \in (d + 1)..k
        BY <1>1
      <4>2. QED
        BY <3>1, <3>2, <4>1 DEF low
    <3>4. d \in 1..place
      BY <1>1
    <3>5. Differ(d) /\ NoDigitFits(d) /\ \A i \in 1..(d - 1) : ~Differ(i)
      BY <3>1
    <3>6. \E e \in 1..place :
                   /\ Differ(e) /\ NoDigitFits(e)
                   /\ \A i \in 1..(e - 1) : ~Differ(i)
                   /\ \A i \in (e + 1)..place : LowDigit(prev, i) = Base - 1
      BY <3>3, <3>4, <3>5
    <3>7. upper' = Open /\ pc' = pc
      BY <1>10 DEF UpperOnceBelow
    <3> HIDE DEF place
    <3>8. QED
      BY <1>8, <1>10, <3>6, <3>7
  <2>3. QED
    BY <1>1, <2>1, <2>2
<1>11. CASE ~AtCap /\ low # high /\ mid # low /\ Return(Found(Append(result, mid)))
  <2>1. k < MaxLen
    BY <1>1, <1>3, <1>11 DEF AtCap
  <2>2. MidpointStop(prev, next) = [place |-> place, high |-> high]
    <3>1. CASE Agreed
      <4>1. LowDigit(prev, place) # HighDigit(next, place)
        BY <1>6, <1>11, <3>1 DEF low
      <4>2. \A i \in 1..(place - 1) : LowDigit(prev, i) = HighDigit(next, i)
        BY <1>1, <3>1 DEF Differ
      <4>3. (LowDigit(prev, place) + HighDigit(next, place)) \div 2 # LowDigit(prev, place)
        BY <1>6, <1>11, <3>1 DEF low, mid
      <4> HIDE DEF place
      <4>4. MidpointStop(prev, next) = [place |-> place, high |-> HighDigit(next, place)]
        BY <1>1, <1>2, <4>1, <4>2, <4>3, MidpointStops
      <4>5. QED
        BY <1>6, <3>1, <4>4
    <3>2. CASE Dropped
      <4>1. PICK d \in 1..k : Decided(d)
        BY <3>2
      <4>2. /\ d \in Nat \ {0} /\ LowDigit(prev, d) # HighDigit(next, d)
            /\ \A i \in 1..(d - 1) : LowDigit(prev, i) = HighDigit(next, i)
            /\ (LowDigit(prev, d) + HighDigit(next, d)) \div 2 = LowDigit(prev, d)
        BY <4>1 DEF Differ, NoDigitFits
      <4>3. LowDigit(prev, place) # Base - 1
        <5>1. (low + Base) \div 2 # low
          BY <1>5, <1>11, <3>2 DEF mid
        <5>2. low # Base - 1
          BY <1>2, <1>3, <5>1
        <5>3. QED
          BY <5>2 DEF low
      <4>4. place \in Nat /\ place > d /\ \A i \in (d + 1)..(place - 1) : LowDigit(prev, i) = Base - 1
        BY <1>1, <4>1
      <4> HIDE DEF place
      <4>5. MidpointStop(prev, next) = [place |-> place, high |-> Base]
        BY <1>1, <4>2, <4>3, <4>4, MidpointStops
      <4>6. QED
        BY <1>5, <3>2, <4>5
    <3>3. QED
      BY <1>1, <3>1, <3>2
  <2>3. mid \in Digits
    <3>1. high \in Digits \cup {Base}
      <4>1. Agreed => high \in Digits \cup {Base}
        BY <1>1, <1>2, <1>6, DigitFacts
      <4>2. QED
        BY <1>1, <1>5, <4>1
    <3>2. QED
      BY <1>2, <1>3, <3>1 DEF mid, Digits
  <2>4. mid = (LowDigit(prev, place) + high) \div 2
    BY DEF mid, low
  <2>5. Between(prev, next) = Found(Append(result, mid))
    BY <1>1, <2>1, <2>2, <2>3, <2>4, MidpointReturns
  <2>6. QED
    BY <1>1, <1>11, <2>5, ReturnKeeps
<1>12. QED
  BY <1>7, <1>9, <1>10, <1>11 DEF MidpointStep, low, high, mid

LEMMA WidenKeeps ==
  ASSUME IInv, Widen
  PROVE  IInv'
<1>1. /\ pc = "widen" /\ count \in Nat \ {0} /\ width \in Nat \ {0}
      /\ capacity = Weight[width] /\ positions = <<>>
      /\ width > 1 => Weight[width - 1] < 2 * (count + 1)
  BY LoopAssumption DEF IInv, TypeOK, LoopsSoFar, WidthSoFar, Widen
<1>2. /\ UNCHANGED <<prev, next, upper, result, out, count, positions>>
      /\ \/ WideEnough /\ pc' = "encode" /\ UNCHANGED <<width, capacity>>
         \/ /\ ~WideEnough /\ pc' = "widen"
            /\ capacity' = capacity * Base /\ width' = width + 1
  BY <1>1 DEF Widen, between
<1>3. capacity \in Nat \ {0} /\ Weight[width + 1] = Base * capacity
  BY <1>1, WeightFacts
<1>4. TypeOK'
  <2>1. width' \in Nat \ {0} /\ capacity' \in Nat \ {0}
    BY <1>1, <1>2, <1>3, PositionAssumption
  <2>2. pc' \in {"encode", "widen"}
    BY <1>2
  <2>3. QED
    BY <1>2, <2>1, <2>2 DEF IInv, TypeOK
<1>5. WidthSoFar'
  <2>1. CASE WideEnough /\ pc' = "encode" /\ UNCHANGED <<width, capacity>>
    <3>1. Weight[width] >= 2 * (count + 1)
      BY <1>1, <2>1 DEF WideEnough
    <3>2. width = Width(count)
      BY <1>1, <3>1, WidthFacts
    <3>3. Len(positions) < count
      BY <1>1
    <3>4. QED
      BY <1>1, <1>2, <2>1, <3>2, <3>3 DEF WidthSoFar
  <2>2. CASE /\ ~WideEnough /\ pc' = "widen"
             /\ capacity' = capacity * Base /\ width' = width + 1
    <3>1. capacity' = Weight[width']
      BY <1>3, <2>2, PositionAssumption
    <3>2. Weight[width' - 1] < 2 * (count + 1)
      <4>1. width' - 1 = width
        BY <1>1, <2>2
      <4>2. capacity < 2 * (count + 1)
        BY <1>1, <1>3, <2>2 DEF WideEnough
      <4>3. QED
        BY <1>1, <4>1, <4>2
    <3>3. QED
      BY <1>1, <1>2, <2>2, <3>1, <3>2 DEF WidthSoFar
  <2>3. QED
    BY <1>2, <2>1, <2>2
<1>6. LoopsSoFar'
  BY <1>1, <1>2, <1>5 DEF IInv, LoopsSoFar, PrependSoFar, MidpointSoFar, PositionsSoFar
<1>7. LoopsComputeClosedForms'
  BY <1>2 DEF LoopsComputeClosedForms, BetweenDone, Done
<1>8. QED
  BY <1>4, <1>6, <1>7 DEF IInv

LEMMA EncodeItemKeeps ==
  ASSUME IInv, EncodeItem
  PROVE  IInv'
<1> DEFINE n == Len(positions)
           item == n + 1
           value == Nudged(item * (capacity \div (count + 1)))
           key == EncodeFixedWidth(value, width)
<1>1. /\ pc = "encode" /\ count \in Nat \ {0} /\ width \in Nat \ {0}
      /\ capacity = Weight[width] /\ width = Width(count)
      /\ width > 1 => Weight[width - 1] < 2 * (count + 1)
      /\ positions \in Seq(Key) /\ n \in Nat /\ n < count
      /\ \A i \in 1..n :
             positions[i] = EncodeFixedWidth(Spaced(count, i), Width(count))
  BY LoopAssumption DEF IInv, TypeOK, LoopsSoFar, WidthSoFar, PositionsSoFar, EncodeItem
<1>2. /\ UNCHANGED <<prev, next, upper, result, out, count, width, capacity>>
      /\ positions' = Append(positions, key)
      /\ pc' = IF item = count THEN "done" ELSE "encode"
  BY <1>1 DEF EncodeItem, between
<1>3. value = Spaced(count, item)
  BY <1>1 DEF Nudged, Spaced
<1>4. item \in 1..count
  BY <1>1
<1>5. key \in Key
  <2>1. value \in Nat /\ value % Base # 0
    BY <1>1, <1>3, <1>4, SpacedFacts
  <2> HIDE DEF value
  <2>2. QED
    BY <1>1, <2>1, EncodeIsKey
<1>6. key = EncodeFixedWidth(Spaced(count, item), Width(count))
  BY <1>1, <1>3
<1> HIDE DEF key
<1>7. /\ positions' \in Seq(Key) /\ Len(positions') = item
      /\ \A i \in 1..n : positions'[i] = positions[i]
      /\ positions'[item] = key
  BY <1>1, <1>2, <1>5
<1>8. \A i \in 1..item :
         positions'[i] = EncodeFixedWidth(Spaced(count, i), Width(count))
  <2> SUFFICES ASSUME NEW i \in 1..item
               PROVE  positions'[i] = EncodeFixedWidth(Spaced(count, i), Width(count))
    OBVIOUS
  <2>1. CASE i = item
    BY <1>6, <1>7, <2>1
  <2>2. CASE i # item
    <3>1. i \in 1..n
      BY <1>1, <2>2
    <3>2. QED
      BY <1>1, <1>7, <3>1
  <2>3. QED
    BY <2>1, <2>2
<1>9. TypeOK'
  BY <1>2, <1>7 DEF IInv, TypeOK
<1>10. PositionsSoFar'
  BY <1>1, <1>2, <1>4, <1>7, <1>8 DEF PositionsSoFar
<1>11. WidthSoFar'
  <2>1. pc' = "encode" => item < count
    BY <1>1, <1>2
  <2>2. QED
    BY <1>1, <1>2, <1>7, <2>1 DEF WidthSoFar
<1>12. LoopsSoFar'
  BY <1>1, <1>2, <1>10, <1>11 DEF IInv, LoopsSoFar, PrependSoFar, MidpointSoFar
<1>13. LoopsComputeClosedForms'
  <2>1. ASSUME pc' = "done" PROVE positions' = Renormalize(count)
    <3>1. Len(positions') = count
      BY <1>2, <1>7, <2>1
    <3>2. positions' = [i \in 1..count |-> positions'[i]]
      BY <1>7, <3>1, LenProperties
    <3>3. QED
      BY <1>7, <1>8, <3>1, <3>2 DEF Renormalize
  <2>2. QED
    BY <1>1, <1>2, <2>1 DEF LoopsComputeClosedForms, BetweenDone, Done
<1>14. QED
  BY <1>9, <1>12, <1>13 DEF IInv

LEMMA StutterKeeps ==
  ASSUME IInv, UNCHANGED vars
  PROVE  IInv'
  BY DEF IInv, vars, TypeOK, LoopsSoFar, PrependSoFar, MidpointSoFar, Differ, NoDigitFits,
         WidthSoFar, PositionsSoFar, LoopsComputeClosedForms, BetweenDone, Done

LEMMA StepHolds == IInv /\ [Next]_vars => IInv'
<1> SUFFICES ASSUME IInv, [Next]_vars PROVE IInv'
  OBVIOUS
<1>1. CASE ReturnAtOnce
  BY <1>1, ReturnAtOnceKeeps
<1>2. CASE EnterLoop
  BY <1>2, EnterLoopKeeps
<1>3. CASE PrependStep
  BY <1>3, PrependStepKeeps
<1>4. CASE MidpointStep
  BY <1>4, MidpointStepKeeps
<1>5. CASE Widen
  BY <1>5, WidenKeeps
<1>6. CASE EncodeItem
  BY <1>6, EncodeItemKeeps
<1>7. CASE Returned
  BY <1>7, StutterKeeps DEF Returned
<1>8. CASE UNCHANGED vars
  BY <1>8, StutterKeeps
<1>9. QED
  BY <1>1, <1>2, <1>3, <1>4, <1>5, <1>6, <1>7, <1>8 DEF Next

LEMMA LoopInvariant == Spec => []IInv
<1>1. QED
  BY InitHolds, StepHolds, PTL DEF Spec
-----------------------------------------------------------------------------
(* The digits emitted stay digits, what is left of a bound stays a key,    *)
(* and every key handed out is a valid one, through all loops.             *)
THEOREM LoopsTypeOK == Spec => []TypeOK
<1>1. IInv => TypeOK
  BY DEF IInv
<1>2. QED
  BY <1>1, LoopInvariant, PTL

(* The loops of Between and Renormalize, iteration by iteration, compute   *)
(* the closed forms on which the models of the services rest               *)
(* (position.go:62-168, :174-200).                                         *)
THEOREM LoopsComputeTheirClosedForms == Spec => []LoopsComputeClosedForms
<1>1. IInv => LoopsComputeClosedForms
  BY DEF IInv
<1>2. QED
  BY <1>1, LoopInvariant, PTL

(* Whatever carries, common prefixes and adjacent digits the loops meet,   *)
(* the key they return is a valid key strictly between its bounds.         *)
THEOREM LoopsStayStrictlyBetween == Spec => []StrictlyBetween
<1>1. IInv => StrictlyBetween
  <2> SUFFICES ASSUME IInv, Succeeded PROVE StrictlyBetween
    BY DEF StrictlyBetween
  <2>1. out = Between(prev, next) /\ out.err = "none"
    BY DEF IInv, LoopsComputeClosedForms, Succeeded
  <2>2. prev \in Key \cup {Open} /\ next \in Key \cup {Open}
    BY BoundsAreKeys DEF IInv
  <2>3. QED
    BY <2>1, <2>2, BetweenIsStrict DEF StrictlyBetween
<1>2. QED
  BY <1>1, LoopInvariant, PTL

(* The loops return no key beyond the cap for bounds within it, and give   *)
(* up only next to a bound that has reached it.                            *)
THEOREM LoopsKeepTheCap == Spec => []TheCapIsTheLimit
<1>1. IInv => TheCapIsTheLimit
  <2> SUFFICES ASSUME IInv, BetweenDone PROVE TheCapIsTheLimit
    BY DEF TheCapIsTheLimit, Succeeded
  <2>1. out = Between(prev, next)
    BY DEF IInv, LoopsComputeClosedForms
  <2>2. prev \in Key \cup {Open} /\ next \in Key \cup {Open}
    BY BoundsAreKeys DEF IInv
  <2>3. QED
    BY <2>1, <2>2, BetweenRespectsTheCap DEF TheCapIsTheLimit, Succeeded
<1>2. QED
  BY <1>1, LoopInvariant, PTL

(* Renormalized keys ascend, and while their width is below the cap a new  *)
(* key fits on both sides of each of them.                                 *)
THEOREM RenormalizingLeavesRoom == Spec => []RenormalizedKeysAscendWithRoom
<1>1. IInv => RenormalizedKeysAscendWithRoom
  <2> SUFFICES ASSUME IInv, Done, count > 0, Width(count) < MaxLen,
                      NEW i \in 0..count
               PROVE  LET low == IF i = 0 THEN Open ELSE positions[i]
                          high == IF i = count THEN Open ELSE positions[i + 1]
                          pair == Between(low, high)
                      IN  /\ i \in 1..(count - 1) => Precedes(low, high)
                          /\ pair.err = "none"
    BY DEF RenormalizedKeysAscendWithRoom
  <2> DEFINE low == IF i = 0 THEN Open ELSE positions[i]
             high == IF i = count THEN Open ELSE positions[i + 1]
             pair == Between(low, high)
  <2>1. count \in Nat \ {0} /\ positions = Renormalize(count)
    BY LoopAssumption DEF IInv, TypeOK, LoopsComputeClosedForms
  <2>2. /\ \A j \in 1..count : positions[j] \in Key /\ Len(positions[j]) = Width(count)
        /\ \A j \in 1..(count - 1) : Precedes(positions[j], positions[j + 1])
    <3>1. /\ Renormalize(count) \in Seq(Key) /\ Len(Renormalize(count)) = count
          /\ \A j \in 1..count : Len(Renormalize(count)[j]) = Width(count)
          /\ \A j \in 1..(count - 1) :
                Precedes(Renormalize(count)[j], Renormalize(count)[j + 1])
      BY <2>1, RenormalizedKeysAscend
    <3>2. \A j \in 1..count : positions[j] \in Key
      BY <2>1, <3>1
    <3>3. QED
      BY <2>1, <3>1, <3>2
  <2>3. Width(count) \in Nat /\ MaxLen \in Nat \ {0}
    BY <2>1, WidthFacts, PositionAssumption
  <2>4. low \in Key \cup {Open} /\ Len(low) < MaxLen
    <3>1. CASE i = 0
      BY <2>3, <3>1, OpenFacts
    <3>2. CASE i # 0
      <4>1. i \in 1..count
        BY <2>1, <3>2
      <4>2. QED
        BY <2>2, <3>2, <4>1
    <3>3. QED
      BY <3>1, <3>2
  <2>5. high \in Key \cup {Open} /\ Len(high) < MaxLen
    <3>1. CASE i = count
      BY <2>3, <3>1, OpenFacts
    <3>2. CASE i # count
      <4>1. i + 1 \in 1..count
        BY <2>1, <3>2
      <4>2. QED
        BY <2>2, <3>2, <4>1
    <3>3. QED
      BY <3>1, <3>2
  <2>6. i \in 1..(count - 1) => Precedes(low, high)
    <3> SUFFICES ASSUME i \in 1..(count - 1) PROVE Precedes(low, high)
      OBVIOUS
    <3>1. low = positions[i] /\ high = positions[i + 1]
      BY <2>1
    <3>2. QED
      BY <2>2, <3>1
  <2>7. low # Open /\ high # Open => Precedes(low, high)
    BY <2>1, <2>6
  <2> HIDE DEF low, high
  <2>8. Len(low) \in Nat /\ Len(high) \in Nat
    BY <2>4, <2>5, NextFacts, OpenFacts
  <2>9. pair.err # "exhausted"
    BY <2>3, <2>4, <2>5, <2>8, BetweenRespectsTheCap
  <2>10. pair # InvalidBounds
    <3>1. CASE low # Open /\ high # Open
      <4>1. pair = Midpoint(low, high)
        BY <2>7, <3>1 DEF Between
      <4>2. QED
        BY <4>1, ErrorsDiffer DEF Midpoint
    <3>2. CASE low = Open /\ high # Open
      <4>1. pair = Prepend(high)
        BY <3>2 DEF Between
      <4>2. QED
        BY <4>1, ErrorsDiffer DEF Prepend
    <3>3. CASE low # Open /\ high = Open
      <4>1. pair = Append1(low)
        BY <3>3 DEF Between
      <4>2. QED
        BY <4>1, ErrorsDiffer DEF Append1
    <3>4. CASE low = Open /\ high = Open
      <4>1. pair = Found(<<Base \div 2>>)
        BY <3>4 DEF Between
      <4>2. QED
        BY <4>1, ErrorsDiffer
    <3>5. QED
      BY <3>1, <3>2, <3>3, <3>4
  <2>11. pair.err = "none"
    BY <2>4, <2>5, <2>9, <2>10, BetweenOutcome, ErrorsDiffer
  <2>12. QED
    BY <2>6, <2>11 DEF low, high
<1>2. QED
  BY <1>1, LoopInvariant, PTL
=============================================================================
