--------------------------- MODULE PositionProofs ---------------------------
(***************************************************************************)
(* The pure position algorithms for every radix and every pair of bounds.  *)
(*                                                                         *)
(* The closed forms of Position name the place where a loop stops by the   *)
(* least element of a set, hence the least-number principle first: it also *)
(* stands in for induction, as the absence of a least counterexample.      *)
(***************************************************************************)
EXTENDS Position, WellFoundedInduction, TLAPS

LEMMA LeastNumber ==
  ASSUME NEW S \in SUBSET Nat, S # {}
  PROVE  \E n \in S : \A m \in S : n <= m
<1> DEFINE R == OpToRel(<, Nat)
<1>1. IsWellFoundedOn(R, Nat)
  BY NatLessThanWellFounded
<1>2. \A x, y \in Nat : x < y => <<x, y>> \in R
  BY DEF OpToRel
<1> HIDE DEF R
<1>3. PICK n \in S : \A y \in S : <<y, n>> \notin R
  BY <1>1, WFMin
<1>4. \A m \in S : ~(m < n)
  BY <1>2, <1>3
<1>5. QED
  BY <1>3, <1>4

LEMMA LeastIsLeast ==
  ASSUME NEW S \in SUBSET Nat, S # {}
  PROVE  Least(S) \in S /\ \A m \in S : Least(S) <= m
  BY LeastNumber DEF Least

(* What is true of 0 and carries over from each number to the next is true *)
(* of all of them.                                                         *)
LEMMA SetInduction ==
  ASSUME NEW S \in SUBSET Nat, 0 \in S, \A n \in S : n + 1 \in S
  PROVE  S = Nat
<1> SUFFICES ASSUME Nat \ S # {} PROVE FALSE
  OBVIOUS
<1>1. PICK n \in Nat \ S : \A m \in Nat \ S : n <= m
  <2>1. Nat \ S \in SUBSET Nat
    OBVIOUS
  <2>2. QED
    BY <2>1, LeastNumber
<1>2. n # 0 /\ n - 1 \in Nat /\ ~(n <= n - 1)
  BY <1>1
<1>3. n - 1 \in S
  BY <1>1, <1>2
<1>4. QED
  BY <1>1, <1>2, <1>3

LEMMA FunctionsAreSequences ==
  ASSUME NEW n \in Nat, NEW S, NEW f \in [1..n -> S]
  PROVE  f \in Seq(S) /\ Len(f) = n
  OBVIOUS
-----------------------------------------------------------------------------
(* Between *)

LEMMA DigitFacts ==
  ASSUME NEW p \in Key, NEW i \in Nat \ {0}
  PROVE  /\ LowDigit(p, i) \in Digits
         /\ HighDigit(p, i) \in Digits \cup {Base}
         /\ p \in Seq(Digits) /\ Len(p) \in Nat \ {0}
         /\ p[Len(p)] \in Digits /\ p[Len(p)] # 0
         /\ i <= Len(p) => p[i] \in Digits
  BY PositionAssumption DEF Key, Valid, Open, LowDigit, HighDigit, Digits

LEMMA NonEmptyIsKey ==
  ASSUME NEW p \in Seq(Digits), NEW n \in Nat, Len(p) = n + 1, p[n + 1] # 0
  PROVE  p \in Key
  BY DEF Key, Valid, Open

LEMMA HalfBase == Base \div 2 \in Digits /\ Base \div 2 # 0
  BY PositionAssumption DEF Digits

LEMMA MiddleIsBetween ==
  ASSUME NEW low \in Nat, NEW high \in Nat, low < high
  PROVE  /\ (low + high) \div 2 \in Nat
         /\ low <= (low + high) \div 2 /\ (low + high) \div 2 < high
  OBVIOUS

LEMMA Append1IsStrict ==
  ASSUME NEW prev \in Key, Append1(prev).err = "none"
  PROVE  Append1(prev).key \in Key /\ Precedes(prev, Append1(prev).key)
<1> DEFINE n == Len(prev)
           last == prev[n]
<1>1. /\ prev \in Seq(Digits) /\ n \in Nat \ {0}
      /\ last \in Digits /\ last # 0
  BY DigitFacts
<1>2. CASE last + 1 < Base
  <2> DEFINE key == [prev EXCEPT ![n] = last + 1]
  <2>1. Append1(prev).key = key
    BY <1>2 DEF Append1, Found
  <2>2. key \in Seq(Digits) /\ Len(key) = n /\ key[n] = last + 1
    BY <1>1, <1>2, PositionAssumption DEF Digits
  <2>3. key \in Key
    BY <1>1, <2>2 DEF Key, Valid, Open, Digits
  <2>4. \A j \in 1..(n - 1) : prev[j] = key[j]
    BY <1>1
  <2> HIDE DEF key
  <2>5. last < key[n]
    BY <1>1, <2>2 DEF Digits
  <2>6. Precedes(prev, key)
    BY <1>1, <2>2, <2>4, <2>5 DEF Precedes
  <2>7. QED
    BY <2>1, <2>3, <2>6
<1>3. CASE ~(last + 1 < Base)
  <2> DEFINE key == Append(prev, Base \div 2)
  <2>1. Append1(prev).key = key
    BY <1>3 DEF Append1, Found, Exhausted, Failed
  <2>2. /\ key \in Seq(Digits) /\ Len(key) = n + 1 /\ key[n + 1] = Base \div 2
        /\ \A i \in 1..n : prev[i] = key[i]
    BY <1>1, HalfBase
  <2> HIDE DEF key
  <2>3. key \in Key
    BY <1>1, <2>2, HalfBase DEF Key, Valid, Open
  <2>4. Precedes(prev, key)
    BY <1>1, <2>2 DEF Precedes
  <2>5. QED
    BY <2>1, <2>3, <2>4
<1>4. QED
  BY <1>2, <1>3

LEMMA PrependIsStrict ==
  ASSUME NEW next \in Key, Prepend(next).err = "none"
  PROVE  Prepend(next).key \in Key /\ Precedes(Prepend(next).key, next)
<1> DEFINE nonzero == {i \in 1..Len(next) : next[i] # 0}
           stop == Least(nonzero)
<1>1. /\ next \in Seq(Digits) /\ Len(next) \in Nat \ {0}
      /\ \A i \in 1..Len(next) : next[i] \in Digits
      /\ Len(next) \in nonzero
  BY DigitFacts
<1>2. /\ stop \in 1..Len(next) /\ next[stop] # 0
      /\ \A i \in 1..(stop - 1) : next[i] = 0
  <2>1. nonzero \in SUBSET Nat /\ nonzero # {}
    BY <1>1
  <2>2. stop \in nonzero /\ \A i \in nonzero : stop <= i
    BY <2>1, LeastIsLeast
  <2>3. ASSUME NEW i \in 1..(stop - 1) PROVE next[i] = 0
    <3>1. i \in 1..Len(next) /\ ~(stop <= i)
      BY <1>1, <2>2
    <3>2. QED
      BY <2>2, <3>1
  <2>4. QED
    BY <1>1, <2>2, <2>3
<1>3. Prepend(next).key = IF next[stop] > 1
                          THEN Append(Zeros(stop - 1), next[stop] \div 2)
                          ELSE Append(Zeros(stop), Base \div 2)
  BY DEF Prepend, Found, Exhausted, Failed
<1> HIDE DEF stop
<1>4. \A n \in Nat : /\ Zeros(n) \in Seq(Digits) /\ Len(Zeros(n)) = n
                     /\ \A i \in 1..n : Zeros(n)[i] = 0
  BY PositionAssumption DEF Zeros, Digits
<1>5. ASSUME NEW n \in Nat, NEW d \in Digits, d # 0
      PROVE  /\ Append(Zeros(n), d) \in Key
             /\ Len(Append(Zeros(n), d)) = n + 1
             /\ Append(Zeros(n), d)[n + 1] = d
             /\ \A i \in 1..n : Append(Zeros(n), d)[i] = 0
  <2> DEFINE z == Zeros(n)
  <2>1. /\ z \in Seq(Digits) /\ Len(z) = n
        /\ \A i \in 1..n : z[i] = 0
    BY <1>4
  <2> HIDE DEF z
  <2>2. /\ Append(z, d) \in Seq(Digits) /\ Len(Append(z, d)) = n + 1
        /\ Append(z, d)[n + 1] = d /\ \A i \in 1..n : Append(z, d)[i] = 0
    BY <2>1
  <2>3. Append(z, d) \in Key
    BY <1>5, <2>2, NonEmptyIsKey
  <2>4. QED
    BY <2>2, <2>3 DEF z
<1>6. CASE next[stop] > 1
  <2> DEFINE d == next[stop] \div 2
             key == Append(Zeros(stop - 1), d)
  <2>1. d \in Digits /\ d # 0 /\ d < next[stop] /\ stop - 1 \in Nat
    BY <1>1, <1>2, <1>6, PositionAssumption DEF Digits
  <2>2. /\ key \in Key /\ Len(key) = stop /\ key[stop] = d
        /\ \A i \in 1..(stop - 1) : key[i] = 0
    <3> HIDE DEF d
    <3>1. (stop - 1) + 1 = stop
      BY <1>2
    <3>2. QED
      BY <1>5, <2>1, <3>1
  <2> HIDE DEF key, d
  <2>3. Precedes(key, next)
    BY <1>1, <1>2, <2>1, <2>2 DEF Precedes
  <2>4. QED
    BY <1>3, <1>6, <2>2, <2>3 DEF key, d
<1>7. CASE ~(next[stop] > 1)
  <2> DEFINE key == Append(Zeros(stop), Base \div 2)
  <2>1. next[stop] = 1 /\ stop \in Nat
    BY <1>1, <1>2, <1>7, PositionAssumption DEF Digits
  <2>2. /\ key \in Key /\ Len(key) = stop + 1 /\ key[stop] = 0
        /\ \A i \in 1..(stop - 1) : key[i] = 0
    <3>1. stop \in 1..stop /\ \A i \in 1..(stop - 1) : i \in 1..stop
      BY <1>2
    <3>2. QED
      BY <1>5, <2>1, <3>1, HalfBase
  <2> HIDE DEF key
  <2>3. Precedes(key, next)
    BY <1>1, <1>2, <2>1, <2>2 DEF Precedes
  <2>4. QED
    BY <1>3, <1>7, <2>2, <2>3 DEF key
<1>8. QED
  BY <1>6, <1>7

(* Where two bounds in the right order first differ, the upper one still   *)
(* has a digit, and it is the greater one.                                 *)
LEMMA FirstDifference ==
  ASSUME NEW prev \in Key, NEW next \in Key, Precedes(prev, next)
  PROVE  LET differ == Least({i \in 1..(Len(next) + 1) :
                                 LowDigit(prev, i) # HighDigit(next, i)})
         IN  /\ differ \in 1..Len(next)
             /\ LowDigit(prev, differ) < HighDigit(next, differ)
             /\ \A i \in 1..(differ - 1) : LowDigit(prev, i) = HighDigit(next, i)
<1> DEFINE differing == {i \in 1..(Len(next) + 1) : LowDigit(prev, i) # HighDigit(next, i)}
           differ == Least(differing)
<1>1. /\ prev \in Seq(Digits) /\ Len(prev) \in Nat \ {0}
      /\ next \in Seq(Digits) /\ Len(next) \in Nat \ {0}
      /\ next[Len(next)] # 0
      /\ \A i \in Nat \ {0} : LowDigit(prev, i) \in Digits
  BY DigitFacts
<1>2. Len(next) + 1 \in differing
  BY <1>1 DEF HighDigit, Digits
<1>3. differ \in differing /\ \A i \in differing : differ <= i
  <2>1. differing \in SUBSET Nat /\ differing # {}
    BY <1>2
  <2>2. QED
    BY <2>1, LeastIsLeast
<1>4. \A i \in 1..(differ - 1) : LowDigit(prev, i) = HighDigit(next, i)
  <2> SUFFICES ASSUME NEW i \in 1..(differ - 1) PROVE LowDigit(prev, i) = HighDigit(next, i)
    OBVIOUS
  <2>1. i \in 1..(Len(next) + 1) /\ ~(differ <= i)
    BY <1>1, <1>3
  <2>2. QED
    BY <1>3, <2>1
<1> HIDE DEF differ
<1>5. CASE Len(prev) < Len(next) /\ \A i \in 1..Len(prev) : prev[i] = next[i]
  <2>1. \A i \in 1..Len(prev) : i \notin differing
    BY <1>1, <1>5 DEF LowDigit, HighDigit
  <2>2. Len(next) \in differing
    BY <1>1, <1>5 DEF LowDigit, HighDigit
  <2>3. differ \in Nat /\ ~(differ <= Len(prev)) /\ differ <= Len(next)
    BY <1>1, <1>3, <2>1, <2>2
  <2>4. LowDigit(prev, differ) = 0 /\ HighDigit(next, differ) = next[differ]
    BY <1>1, <2>3 DEF LowDigit, HighDigit
  <2>5. next[differ] \in Digits /\ next[differ] # 0
    BY <1>1, <1>3, <2>3, <2>4
  <2>6. QED
    BY <1>1, <1>3, <1>4, <2>3, <2>4, <2>5 DEF Digits, differ
<1>6. CASE \E i \in 1..Len(prev) :
              /\ i <= Len(next)
              /\ prev[i] < next[i]
              /\ \A j \in 1..(i - 1) : prev[j] = next[j]
  <2>1. PICK i \in 1..Len(prev) :
              /\ i <= Len(next)
              /\ prev[i] < next[i]
              /\ \A j \in 1..(i - 1) : prev[j] = next[j]
    BY <1>6
  <2>2. LowDigit(prev, i) = prev[i] /\ HighDigit(next, i) = next[i]
    BY <1>1, <2>1 DEF LowDigit, HighDigit
  <2>3. prev[i] \in Nat /\ next[i] \in Nat
    <3>1. i \in 1..Len(prev) /\ i \in 1..Len(next)
      BY <1>1, <2>1
    <3>2. prev[i] \in Digits /\ next[i] \in Digits
      BY <1>1, <3>1
    <3>3. QED
      BY <3>2 DEF Digits
  <2>4. i \in differing
    BY <1>1, <2>1, <2>2, <2>3
  <2>5. \A j \in 1..(i - 1) : j \notin differing
    BY <1>1, <2>1 DEF LowDigit, HighDigit
  <2>6. differ = i
    BY <1>1, <1>3, <2>4, <2>5
  <2>7. QED
    BY <1>1, <1>4, <2>1, <2>2, <2>6 DEF differ
<1>7. QED
  BY <1>5, <1>6 DEF Precedes

LEMMA MidpointIsStrict ==
  ASSUME NEW prev \in Key, NEW next \in Key, Precedes(prev, next),
         Midpoint(prev, next).err = "none"
  PROVE  LET key == Midpoint(prev, next).key IN
         key \in Key /\ Precedes(prev, key) /\ Precedes(key, next)
<1> DEFINE differ == Least({i \in 1..(Len(next) + 1) :
                               LowDigit(prev, i) # HighDigit(next, i)})
           low == LowDigit(prev, differ)
           high == HighDigit(next, differ)
           later == {i \in (differ + 1)..(differ + Len(prev) + 1) :
                        LowDigit(prev, i) # Base - 1}
           stop == MidpointStop(prev, next)
           place == stop.place
           digit == (LowDigit(prev, place) + stop.high) \div 2
           key == [i \in 1..place |-> IF i = place THEN digit ELSE LowDigit(prev, i)]
<1>1. /\ prev \in Seq(Digits) /\ Len(prev) \in Nat \ {0}
      /\ next \in Seq(Digits) /\ Len(next) \in Nat \ {0}
      /\ \A i \in Nat \ {0} : LowDigit(prev, i) \in Digits /\ HighDigit(next, i) \in Nat
  <2>1. \A i \in Nat \ {0} : HighDigit(next, i) \in Digits \cup {Base}
    BY DigitFacts
  <2>2. QED
    BY <2>1, DigitFacts, PositionAssumption DEF Digits
<1>2. /\ differ \in 1..Len(next) /\ low < high
      /\ \A i \in 1..(differ - 1) : LowDigit(prev, i) = HighDigit(next, i)
  BY FirstDifference
<1>3. Midpoint(prev, next).key = key
  BY DEF Midpoint, Found, Exhausted, Failed
<1> HIDE DEF differ
<1>4. low \in Digits /\ high \in 1..Base
  <2>1. high \in Digits \cup {Base} /\ low \in Digits
    BY <1>1, <1>2, DigitFacts
  <2>2. QED
    BY <1>2, <2>1, PositionAssumption DEF Digits
(* The place where the key ends has a digit that fits. *)
<1>5. /\ place \in Nat \ {0}
      /\ LowDigit(prev, place) < digit /\ digit \in Digits
      /\ \/ place = differ /\ digit < high
         \/ place > differ
  <2>1. CASE (low + high) \div 2 # low
    <3>1. stop = [place |-> differ, high |-> high]
      BY <2>1 DEF MidpointStop, differ
    <3>2. place = differ /\ digit = (low + high) \div 2
      BY <3>1
    <3>3. /\ low <= (low + high) \div 2 /\ (low + high) \div 2 < high
          /\ (low + high) \div 2 \in Nat
      BY <1>2, <1>4, MiddleIsBetween DEF Digits
    <3> HIDE DEF stop, low, high
    <3>4. low < (low + high) \div 2 /\ (low + high) \div 2 \in Digits
      BY <1>4, <2>1, <3>3, PositionAssumption DEF Digits
    <3>5. QED
      BY <1>2, <3>2, <3>3, <3>4 DEF low
  <2>2. CASE (low + high) \div 2 = low
    <3>1. stop = [place |-> Least(later), high |-> Base]
      BY <2>2 DEF MidpointStop, differ
    <3>2. differ + Len(prev) + 1 \in later
      BY <1>1, <1>2, PositionAssumption DEF LowDigit
    <3>3. later \in SUBSET Nat /\ later # {}
      <4>1. \A i \in (differ + 1)..(differ + Len(prev) + 1) : i \in Nat
        BY <1>1, <1>2
      <4>2. QED
        BY <3>2, <4>1
    <3>4. place \in later
      BY <3>1, <3>3, LeastIsLeast
    <3> DEFINE d == LowDigit(prev, place)
    <3>5. place \in Nat \ {0} /\ place > differ /\ d # Base - 1
      BY <1>1, <1>2, <3>4
    <3>6. d \in Digits /\ digit = (d + Base) \div 2
      BY <1>1, <3>1, <3>5
    <3> HIDE DEF stop, d
    <3>7. d < (d + Base) \div 2 /\ (d + Base) \div 2 \in Digits
      BY <3>5, <3>6, PositionAssumption DEF Digits
    <3>8. QED
      BY <3>5, <3>6, <3>7 DEF d
  <2>3. QED
    BY <2>1, <2>2
<1> HIDE DEF stop, digit
<1>6. /\ key \in Seq(Digits) /\ Len(key) = place /\ key[place] = digit
      /\ \A i \in 1..place : i # place => key[i] = LowDigit(prev, i)
  <2>1. \A i \in 1..place : LowDigit(prev, i) \in Digits
    BY <1>1
  <2>2. key \in [1..place -> Digits]
    BY <1>5, <2>1
  <2>3. QED
    BY <1>5, <2>2, FunctionsAreSequences
<1> HIDE DEF key, place
<1>7. digit # 0 /\ digit \in Nat
  BY <1>1, <1>5 DEF Digits
<1>8. key \in Key
  <2>1. place - 1 \in Nat /\ place = (place - 1) + 1
    BY <1>5
  <2>2. QED
    BY <1>6, <1>7, <2>1, NonEmptyIsKey
<1>9. Precedes(prev, key)
  <2>1. CASE place <= Len(prev)
    <3>1. place \in 1..Len(prev) /\ prev[place] < key[place]
      BY <1>1, <1>5, <1>6, <2>1 DEF LowDigit
    <3>2. \A j \in 1..(place - 1) : prev[j] = key[j]
      BY <1>1, <1>5, <1>6, <2>1 DEF LowDigit
    <3>3. QED
      BY <1>1, <1>5, <1>6, <3>1, <3>2 DEF Precedes
  <2>2. CASE ~(place <= Len(prev))
    <3>1. \A j \in 1..Len(prev) : prev[j] = key[j]
      BY <1>1, <1>5, <1>6, <2>2 DEF LowDigit
    <3>2. QED
      BY <1>1, <1>5, <1>6, <2>2, <3>1 DEF Precedes
  <2>3. QED
    BY <2>1, <2>2
<1>10. Precedes(key, next)
  <2>1. differ \in 1..Len(key) /\ differ <= Len(next)
    BY <1>1, <1>2, <1>5, <1>6
  <2>2. key[differ] < next[differ]
    <3>1. high = next[differ]
      BY <1>1, <1>2 DEF HighDigit
    <3>2. QED
      BY <1>2, <1>5, <1>6, <2>1, <3>1
  <2>3. ASSUME NEW j \in 1..(differ - 1) PROVE key[j] = next[j]
    <3>1. j \in 1..place /\ j # place /\ j <= Len(next)
      BY <1>1, <1>2, <1>5
    <3>2. QED
      BY <1>2, <1>6, <3>1 DEF HighDigit
  <2>4. QED
    BY <2>1, <2>2, <2>3 DEF Precedes
<1>11. QED
  BY <1>3, <1>8, <1>9, <1>10

(* The key that Between returns is valid and strictly between its bounds,  *)
(* for every radix, cap and pair of bounds (position.go:58-61).            *)
THEOREM BetweenIsStrict ==
  ASSUME NEW prev \in Key \cup {Open}, NEW next \in Key \cup {Open},
         Between(prev, next).err = "none"
  PROVE  LET key == Between(prev, next).key IN
         /\ key \in Key
         /\ prev # Open => Precedes(prev, key)
         /\ next # Open => Precedes(key, next)
<1>0. Open \notin Key
  BY DEF Key, Valid
<1>1. CASE prev = Open /\ next = Open
  <2>1. Between(prev, next).key = <<Base \div 2>>
    BY <1>1 DEF Between, Found
  <2>2. <<Base \div 2>> \in Key
    <3> DEFINE d == Base \div 2
    <3>1. d \in Digits /\ d # 0
      BY HalfBase
    <3> HIDE DEF d
    <3>2. <<d>> \in Seq(Digits) /\ Len(<<d>>) = 0 + 1 /\ <<d>>[0 + 1] # 0
      BY <3>1
    <3>3. <<d>> \in Key
      BY <3>2, NonEmptyIsKey
    <3>4. QED
      BY <3>3 DEF d
  <2>3. QED
    BY <1>1, <2>1, <2>2
<1>2. CASE prev = Open /\ next # Open
  BY <1>2, PrependIsStrict DEF Between
<1>3. CASE prev # Open /\ next = Open
  BY <1>3, Append1IsStrict DEF Between
<1>4. CASE prev # Open /\ next # Open
  <2>1. Precedes(prev, next)
    BY <1>4 DEF Between, InvalidBounds, Failed
  <2>2. QED
    BY <1>4, <2>1, MidpointIsStrict DEF Between
<1>5. QED
  BY <1>1, <1>2, <1>3, <1>4

(* Between answers with one of its two errors or with a key.               *)
LEMMA BetweenOutcome ==
  ASSUME NEW prev \in Key \cup {Open}, NEW next \in Key \cup {Open}
  PROVE  \/ Between(prev, next) \in {Exhausted, InvalidBounds}
         \/ /\ Between(prev, next).err = "none"
            /\ Between(prev, next) = Found(Between(prev, next).key)
<1>1. \A p : Found(p).err = "none" /\ Found(p) = Found(Found(p).key)
  BY DEF Found
<1>2. \/ Prepend(next) = Exhausted
      \/ \E p : Prepend(next) = Found(p)
  BY DEF Prepend
<1>3. \/ Append1(prev) = Exhausted
      \/ \E p : Append1(prev) = Found(p)
  BY DEF Append1
<1>4. \/ Midpoint(prev, next) = Exhausted
      \/ \E p : Midpoint(prev, next) = Found(p)
  BY DEF Midpoint
<1>5. \/ Between(prev, next) \in {Exhausted, InvalidBounds}
      \/ \E p : Between(prev, next) = Found(p)
  BY <1>2, <1>3, <1>4 DEF Between
<1>6. QED
  BY <1>1, <1>5

LEMMA ErrorsDiffer ==
  /\ Exhausted.err = "exhausted" /\ InvalidBounds.err = "invalid"
  /\ \A p : Found(p).err = "none" /\ Found(p).key = p
  BY DEF Exhausted, InvalidBounds, Failed, Found

LEMMA PrependCap ==
  ASSUME NEW next \in Key
  PROVE  /\ Prepend(next).err = "none" /\ Len(next) <= MaxLen
               => Len(Prepend(next).key) <= MaxLen
         /\ Prepend(next).err = "exhausted" => Len(next) >= MaxLen
<1> DEFINE nonzero == {i \in 1..Len(next) : next[i] # 0}
           stop == Least(nonzero)
<1>1. /\ next \in Seq(Digits) /\ Len(next) \in Nat \ {0}
      /\ \A i \in 1..Len(next) : next[i] \in Nat
      /\ Len(next) \in nonzero
  BY DigitFacts DEF Digits
<1>2. stop \in 1..Len(next) /\ (stop # 1 => next[1] = 0)
  <2>1. nonzero \in SUBSET Nat /\ nonzero # {}
    BY <1>1
  <2>2. stop \in nonzero /\ \A i \in nonzero : stop <= i
    BY <2>1, LeastIsLeast
  <2>3. ASSUME stop # 1 PROVE next[1] = 0
    <3>1. 1 \in 1..Len(next) /\ ~(stop <= 1)
      BY <1>1, <2>2, <2>3
    <3>2. QED
      BY <2>2, <3>1
  <2>4. QED
    BY <2>2, <2>3
<1>3. Prepend(next) = IF next[1] <= 1 /\ Len(next) + 1 > MaxLen THEN Exhausted
                      ELSE IF next[stop] > 1
                           THEN Found(Append(Zeros(stop - 1), next[stop] \div 2))
                      ELSE Found(Append(Zeros(stop), Base \div 2))
  BY DEF Prepend
<1> HIDE DEF stop
<1>4. \A n \in Nat, d \in Nat : Len(Append(Zeros(n), d)) = n + 1
  <2> SUFFICES ASSUME NEW n \in Nat, NEW d \in Nat
               PROVE  Len(Append(Zeros(n), d)) = n + 1
    OBVIOUS
  <2> DEFINE z == Zeros(n)
  <2>1. z \in Seq(Nat) /\ Len(z) = n
    BY DEF Zeros
  <2> HIDE DEF z
  <2>2. Len(Append(z, d)) = n + 1
    BY <2>1
  <2>3. QED
    BY <2>2 DEF z
<1>5. CASE next[1] <= 1 /\ Len(next) + 1 > MaxLen
  BY <1>1, <1>3, <1>5, ErrorsDiffer, PositionAssumption
<1>6. CASE ~(next[1] <= 1 /\ Len(next) + 1 > MaxLen) /\ next[stop] > 1
  <2>1. stop - 1 \in Nat /\ (stop - 1) + 1 = stop /\ next[stop] \div 2 \in Nat
    BY <1>1, <1>2
  <2>2. Prepend(next).err = "none" /\ Len(Prepend(next).key) = stop
    BY <1>3, <1>4, <1>6, <2>1, ErrorsDiffer
  <2>3. QED
    BY <1>1, <1>2, <2>2, PositionAssumption
<1>7. CASE ~(next[1] <= 1 /\ Len(next) + 1 > MaxLen) /\ ~(next[stop] > 1)
  <2>1. stop \in Nat /\ Base \div 2 \in Nat
    BY <1>2, HalfBase DEF Digits
  <2>2. Prepend(next).err = "none" /\ Len(Prepend(next).key) = stop + 1
    BY <1>3, <1>4, <1>7, <2>1, ErrorsDiffer
  <2>3. next[1] <= 1
    BY <1>1, <1>2, <1>7
  <2>4. QED
    BY <1>1, <1>2, <1>7, <2>2, <2>3, PositionAssumption
<1>8. QED
  BY <1>5, <1>6, <1>7

LEMMA MidpointCap ==
  ASSUME NEW prev \in Key, NEW next \in Key, Precedes(prev, next)
  PROVE  /\ Midpoint(prev, next).err = "none" => Len(Midpoint(prev, next).key) <= MaxLen
         /\ Midpoint(prev, next).err = "exhausted"
               => Len(prev) >= MaxLen \/ Len(next) >= MaxLen
<1> DEFINE differ == Least({i \in 1..(Len(next) + 1) :
                               LowDigit(prev, i) # HighDigit(next, i)})
           later == {i \in (differ + 1)..(differ + Len(prev) + 1) :
                        LowDigit(prev, i) # Base - 1}
           stop == MidpointStop(prev, next)
           place == stop.place
           digit == (LowDigit(prev, place) + stop.high) \div 2
           key == [i \in 1..place |-> IF i = place THEN digit ELSE LowDigit(prev, i)]
<1>1. /\ prev \in Seq(Digits) /\ Len(prev) \in Nat \ {0}
      /\ next \in Seq(Digits) /\ Len(next) \in Nat \ {0}
  BY DigitFacts
<1>2. differ \in 1..Len(next)
  BY FirstDifference
<1> HIDE DEF differ
(* The walk ends at the first difference, or at most one place past the    *)
(* end of prev or past the difference.                                     *)
<1>3. /\ place \in Nat \ {0}
      /\ place <= differ + 1 \/ place <= Len(prev) + 1
  <2>1. CASE (LowDigit(prev, differ) + HighDigit(next, differ)) \div 2
               # LowDigit(prev, differ)
    <3>1. stop = [place |-> differ, high |-> HighDigit(next, differ)]
      BY <2>1 DEF MidpointStop, differ
    <3>2. QED
      BY <1>1, <1>2, <3>1
  <2>2. CASE (LowDigit(prev, differ) + HighDigit(next, differ)) \div 2
               = LowDigit(prev, differ)
    <3>1. stop = [place |-> Least(later), high |-> Base]
      BY <2>2 DEF MidpointStop, differ
    <3>2. differ + Len(prev) + 1 \in later
      BY <1>1, <1>2, PositionAssumption DEF LowDigit
    <3>3. later \in SUBSET Nat /\ later # {}
      <4>1. \A i \in (differ + 1)..(differ + Len(prev) + 1) : i \in Nat
        BY <1>1, <1>2
      <4>2. QED
        BY <3>2, <4>1
    <3>4. place \in later /\ \A i \in later : place <= i
      <4>1. place = Least(later)
        BY <3>1
      <4> HIDE DEF place, later
      <4>2. QED
        BY <3>3, <4>1, LeastIsLeast
    <3>5. place \in Nat /\ place >= differ + 1
      BY <1>1, <1>2, <3>4
    <3>6. CASE Len(prev) + 1 >= differ + 1
      <4>1. Len(prev) + 1 \in later
        BY <1>1, <1>2, <3>6, PositionAssumption DEF LowDigit
      <4>2. QED
        BY <1>2, <3>4, <3>5, <4>1
    <3>7. CASE ~(Len(prev) + 1 >= differ + 1)
      <4>1. differ + 1 \in later
        BY <1>1, <1>2, <3>7, PositionAssumption DEF LowDigit
      <4>2. QED
        BY <1>2, <3>4, <3>5, <4>1
    <3>8. QED
      BY <3>6, <3>7
  <2>3. QED
    BY <2>1, <2>2
<1>4. Midpoint(prev, next) = IF place > MaxLen THEN Exhausted ELSE Found(key)
  BY DEF Midpoint
<1> HIDE DEF stop, digit
<1>5. Len(key) = place
  BY <1>3
<1> HIDE DEF key, place
<1>6. CASE place > MaxLen
  BY <1>1, <1>2, <1>3, <1>4, <1>6, ErrorsDiffer, PositionAssumption
<1>7. CASE ~(place > MaxLen)
  BY <1>3, <1>4, <1>5, <1>7, ErrorsDiffer, PositionAssumption
<1>8. QED
  BY <1>6, <1>7

(* Keys within the cap have descendants within the cap, and the cap is the *)
(* only limit: Between asks for a renormalization only where one of its    *)
(* bounds has reached it (position.go:17-20, :95, :109, :136).             *)
THEOREM BetweenRespectsTheCap ==
  ASSUME NEW prev \in Key \cup {Open}, NEW next \in Key \cup {Open}
  PROVE  /\ Between(prev, next).err = "none" /\ Len(prev) <= MaxLen /\ Len(next) <= MaxLen
               => Len(Between(prev, next).key) <= MaxLen
         /\ Between(prev, next).err = "exhausted"
               => Len(prev) >= MaxLen \/ Len(next) >= MaxLen
<1>1. CASE prev = Open /\ next = Open
  <2> DEFINE d == Base \div 2
  <2>1. Between(prev, next) = Found(<<d>>)
    BY <1>1 DEF Between
  <2> HIDE DEF d
  <2>2. Between(prev, next).err = "none" /\ Len(Between(prev, next).key) = 1
    BY <2>1, ErrorsDiffer
  <2>3. QED
    BY <2>2, PositionAssumption
<1>2. CASE prev = Open /\ next # Open
  <2>1. Between(prev, next) = Prepend(next) /\ next \in Key
    BY <1>2 DEF Between
  <2>2. QED
    BY <2>1, PrependCap
<1>3. CASE prev # Open /\ next = Open
  <2>1. Between(prev, next) = Append1(prev) /\ prev \in Key
    BY <1>3 DEF Between
  <2>2. prev \in Seq(Digits) /\ Len(prev) \in Nat
    BY <2>1, DigitFacts
  <2> DEFINE n == Len(prev)
             d == prev[n] + 1
  <2>3. /\ Len([prev EXCEPT ![n] = d]) = n
        /\ Len(Append(prev, Base \div 2)) = n + 1
    BY <2>2
  <2>4. Append1(prev) = IF d < Base THEN Found([prev EXCEPT ![n] = d])
                        ELSE IF n + 1 > MaxLen THEN Exhausted
                        ELSE Found(Append(prev, Base \div 2))
    BY DEF Append1
  <2> HIDE DEF n, d
  <2>5. CASE d < Base
    <3>1. Between(prev, next).err = "none" /\ Len(Between(prev, next).key) = n
      BY <2>1, <2>3, <2>4, <2>5, ErrorsDiffer
    <3>2. QED
      BY <2>2, <3>1 DEF n
  <2>6. CASE ~(d < Base) /\ n + 1 > MaxLen
    <3>1. Between(prev, next).err = "exhausted" /\ n >= MaxLen
      BY <2>1, <2>2, <2>4, <2>6, ErrorsDiffer, PositionAssumption DEF n
    <3>2. QED
      BY <3>1 DEF n
  <2>7. CASE ~(d < Base) /\ ~(n + 1 > MaxLen)
    <3>1. Between(prev, next).err = "none" /\ Len(Between(prev, next).key) = n + 1
      BY <2>1, <2>3, <2>4, <2>7, ErrorsDiffer
    <3>2. QED
      BY <2>2, <2>7, <3>1, PositionAssumption DEF n
  <2>8. QED
    BY <2>5, <2>6, <2>7
<1>4. CASE prev # Open /\ next # Open
  <2>1. CASE Precedes(prev, next)
    BY <1>4, <2>1, MidpointCap DEF Between
  <2>2. CASE ~Precedes(prev, next)
    <3>1. Between(prev, next) = InvalidBounds
      BY <1>4, <2>2 DEF Between
    <3>2. QED
      BY <3>1, ErrorsDiffer
  <2>3. QED
    BY <2>1, <2>2
<1>5. QED
  BY <1>1, <1>2, <1>3, <1>4
-----------------------------------------------------------------------------
(* Renormalize *)

(* The recursive function of the powers of the radix exists: each number   *)
(* has one finite table of the powers up to it, and the tables agree.      *)
LEMMA WeightUnfolds ==
  Weight = [n \in Nat |-> IF n = 0 THEN 1 ELSE Base * Weight[n - 1]]
<1> DEFINE Table(f, n) == /\ f \in [0..n -> Nat] /\ f[0] = 1
                          /\ \A i \in 1..n : f[i] = Base * f[i - 1]
           tabled == {n \in Nat : \E f : Table(f, n)}
           table(n) == CHOOSE f : Table(f, n)
           F == [n \in Nat |-> table(n)[n]]
<1>1. ASSUME NEW n \in Nat PROVE \E f : Table(f, n)
  <2>1. 0 \in tabled
    <3>1. Table([i \in 0..0 |-> 1], 0)
      OBVIOUS
    <3>2. QED
      BY <3>1
  <2>2. ASSUME NEW m \in tabled PROVE m + 1 \in tabled
    <3>1. PICK f : Table(f, m)
      BY <2>2
    <3> DEFINE g == [i \in 0..(m + 1) |-> IF i = m + 1 THEN Base * f[m] ELSE f[i]]
    <3>2. g \in [0..(m + 1) -> Nat]
      <4>1. f[m] \in Nat /\ Base * f[m] \in Nat /\ m \in Nat
        BY <3>1, PositionAssumption
      <4>2. \A i \in 0..(m + 1) : i # m + 1 => f[i] \in Nat
        BY <3>1, <4>1
      <4>3. QED
        BY <4>1, <4>2
    <3>3. g[0] = 1
      BY <3>1
    <3>4. \A i \in 1..(m + 1) : g[i] = Base * g[i - 1]
      <4> SUFFICES ASSUME NEW i \in 1..(m + 1) PROVE g[i] = Base * g[i - 1]
        OBVIOUS
      <4>1. CASE i = m + 1
        BY <3>1, <4>1
      <4>2. CASE i # m + 1
        <5>1. i \in 1..m /\ i \in 0..(m + 1) /\ i - 1 \in 0..(m + 1) /\ i - 1 # m + 1
          BY <4>2
        <5>2. QED
          BY <3>1, <4>2, <5>1
      <4>3. QED
        BY <4>1, <4>2
    <3> HIDE DEF g
    <3>5. Table(g, m + 1)
      BY <3>2, <3>3, <3>4
    <3>6. QED
      BY <3>5
  <2>3. tabled = Nat
    <3> HIDE DEF tabled
    <3>1. tabled \in SUBSET Nat
      BY DEF tabled
    <3>2. QED
      BY <2>1, <2>2, <3>1, SetInduction
  <2>4. QED
    BY <2>3
<1>2. ASSUME NEW m \in Nat, NEW n \in Nat, m <= n,
             NEW f, NEW g, Table(f, m), Table(g, n)
      PROVE  f[m] = g[m]
  <2> DEFINE same == {i \in Nat : i <= m => f[i] = g[i]}
  <2>1. 0 \in same
    BY <1>2
  <2>2. ASSUME NEW i \in same PROVE i + 1 \in same
    <3>1. CASE i + 1 <= m
      <4>1. i + 1 \in 1..m /\ i + 1 \in 1..n /\ (i + 1) - 1 = i
        BY <1>2, <3>1
      <4>2. f[i + 1] = Base * f[i] /\ g[i + 1] = Base * g[i]
        BY <1>2, <4>1
      <4>3. QED
        BY <2>2, <3>1, <4>1, <4>2
    <3>2. QED
      BY <3>1
  <2>3. same = Nat
    <3> HIDE DEF same
    <3>1. same \in SUBSET Nat
      BY DEF same
    <3>2. QED
      BY <2>1, <2>2, <3>1, SetInduction
  <2>4. QED
    BY <2>3
<1>3. \A n \in Nat : Table(table(n), n)
  <2> HIDE DEF Table
  <2>1. QED
    BY <1>1
<1> HIDE DEF table
<1>4. ASSUME NEW n \in Nat
      PROVE  F[n] = IF n = 0 THEN 1 ELSE Base * F[n - 1]
  <2>1. CASE n = 0
    BY <1>3, <2>1
  <2>2. CASE n # 0
    <3>1. n \in 1..n /\ n - 1 \in Nat /\ n - 1 <= n
      BY <2>2
    <3>2. table(n)[n] = Base * table(n)[n - 1]
      BY <1>3, <3>1
    <3>3. table(n - 1)[n - 1] = table(n)[n - 1]
      <4> HIDE DEF Table
      <4>1. QED
        BY <1>2, <1>3, <3>1
    <3>4. QED
      BY <2>2, <3>1, <3>2, <3>3
  <2>3. QED
    BY <2>1, <2>2
<1>5. F = [n \in Nat |-> IF n = 0 THEN 1 ELSE Base * F[n - 1]]
  BY <1>4
<1> HIDE DEF F
<1>6. QED
  BY <1>5 DEF Weight

LEMMA WeightFacts ==
  /\ Weight[0] = 1
  /\ \A n \in Nat : /\ Weight[n] \in Nat \ {0}
                    /\ Weight[n + 1] = Base * Weight[n]
                    /\ Weight[n] < Weight[n + 1]
<1>1. Weight[0] = 1
  BY WeightUnfolds
<1>2. \A n \in Nat : Weight[n + 1] = Base * Weight[n]
  <2> SUFFICES ASSUME NEW n \in Nat PROVE Weight[n + 1] = Base * Weight[n]
    OBVIOUS
  <2>1. n + 1 \in Nat /\ n + 1 # 0 /\ (n + 1) - 1 = n
    OBVIOUS
  <2>2. QED
    BY <2>1, WeightUnfolds
<1> DEFINE positive == {n \in Nat : Weight[n] \in Nat \ {0}}
<1>3. positive = Nat
  <2>1. 0 \in positive
    BY <1>1
  <2>2. ASSUME NEW n \in positive PROVE n + 1 \in positive
    BY <1>2, PositionAssumption
  <2> HIDE DEF positive
  <2>3. positive \in SUBSET Nat
    BY DEF positive
  <2>4. QED
    BY <2>1, <2>2, <2>3, SetInduction
<1>4. \A n \in Nat : Weight[n] \in Nat \ {0}
  BY <1>3
<1>5. \A a \in Nat \ {0} : a < Base * a
  BY PositionAssumption
<1>6. QED
  BY <1>1, <1>2, <1>4, <1>5

(* A larger place weighs at least as much. *)
LEMMA WeightsAscend ==
  ASSUME NEW m \in Nat, NEW n \in Nat, m <= n
  PROVE  Weight[m] <= Weight[n]
<1> DEFINE above == {d \in Nat : Weight[m] <= Weight[m + d]}
<1>1. 0 \in above
  <2>1. m + 0 = m
    OBVIOUS
  <2>2. QED
    BY <2>1, WeightFacts
<1>2. ASSUME NEW d \in above PROVE d + 1 \in above
  <2>1. m + d \in Nat /\ m + (d + 1) = (m + d) + 1
    OBVIOUS
  <2>2. /\ Weight[m] \in Nat /\ Weight[m + d] \in Nat /\ Weight[(m + d) + 1] \in Nat
        /\ Weight[m + d] < Weight[(m + d) + 1]
    BY <2>1, WeightFacts
  <2>3. QED
    BY <1>2, <2>1, <2>2
<1>3. above = Nat
  <2> HIDE DEF above
  <2>1. above \in SUBSET Nat
    BY DEF above
  <2>2. QED
    BY <1>1, <1>2, <2>1, SetInduction
<1>4. n - m \in Nat /\ m + (n - m) = n
  OBVIOUS
<1>5. QED
  BY <1>3, <1>4

(* The widening loop finds a width, and only one (position.go:179-185).    *)
LEMMA WidthFacts ==
  ASSUME NEW count \in Nat
  PROVE  /\ Width(count) \in 1..(count + 1)
         /\ Weight[Width(count)] >= 2 * (count + 1)
         /\ Width(count) > 1 => Weight[Width(count) - 1] < 2 * (count + 1)
         /\ \A w \in Nat \ {0} :
               (/\ Weight[w] >= 2 * (count + 1)
                /\ w > 1 => Weight[w - 1] < 2 * (count + 1)) => w = Width(count)
<1> DEFINE need == 2 * (count + 1)
           Wide(w) == Weight[w] >= need
           Stop(w) == Wide(w) /\ (w > 1 => Weight[w - 1] < need)
           ample == {n \in Nat : Weight[n + 1] >= 2 * (n + 1)}
           wide == {w \in Nat \ {0} : Wide(w)}
<1>1. ample = Nat
  <2>1. 0 \in ample
    <3>1. Weight[0 + 1] = Base * 1
      BY WeightFacts
    <3>2. QED
      BY <3>1, PositionAssumption
  <2>2. ASSUME NEW n \in ample PROVE n + 1 \in ample
    <3> DEFINE weight == Weight[n + 1]
    <3>1. n + 1 \in Nat /\ weight \in Nat /\ Weight[(n + 1) + 1] = Base * weight
      BY WeightFacts
    <3>2. weight >= 2 * (n + 1)
      BY <2>2
    <3> HIDE DEF weight
    <3>3. Base * weight >= 2 * weight
      BY <3>1, PositionAssumption
    <3>4. Base * weight >= 2 * ((n + 1) + 1)
      <4>1. Base * weight \in Nat
        BY <3>1, PositionAssumption
      <4>2. QED
        BY <3>1, <3>2, <3>3, <4>1
    <3>5. QED
      BY <3>1, <3>4
  <2> HIDE DEF ample
  <2>3. ample \in SUBSET Nat
    BY DEF ample
  <2>4. QED
    BY <2>1, <2>2, <2>3, SetInduction
<1>2. count + 1 \in wide
  <2>1. count \in ample
    BY <1>1
  <2>2. Weight[count + 1] >= 2 * (count + 1)
    BY <2>1
  <2>3. QED
    BY <2>2
<1>3. PICK first \in wide : \A w \in wide : first <= w
  <2>1. wide \in SUBSET Nat /\ wide # {}
    BY <1>2
  <2>2. QED
    BY <2>1, LeastNumber
<1>4. first \in 1..(count + 1) /\ Stop(first)
  <2>1. first \in 1..(count + 1) /\ Wide(first)
    BY <1>2, <1>3
  <2>2. ASSUME first > 1 PROVE Weight[first - 1] < need
    <3>1. first - 1 \in Nat \ {0} /\ ~(first <= first - 1)
      BY <1>3, <2>2
    <3>2. ~(Weight[first - 1] >= need) /\ Weight[first - 1] \in Nat
      BY <1>3, <3>1, WeightFacts
    <3>3. QED
      BY <3>2
  <2>3. QED
    BY <2>1, <2>2
<1>5. Width(count) = CHOOSE w \in 1..(count + 1) : Stop(w)
  BY DEF Width
<1> HIDE DEF Stop
<1>6. Width(count) \in 1..(count + 1) /\ Stop(Width(count))
  BY <1>4, <1>5
<1>7. ASSUME NEW v \in Nat \ {0}, NEW w \in Nat \ {0}, Stop(v), Stop(w)
      PROVE  ~(v < w)
  <2> SUFFICES ASSUME v < w PROVE FALSE
    OBVIOUS
  <2>1. w - 1 \in Nat /\ v <= w - 1 /\ w > 1
    BY <1>7
  <2>2. Weight[v] <= Weight[w - 1] /\ Weight[v] \in Nat /\ Weight[w - 1] \in Nat
    BY <2>1, WeightsAscend, WeightFacts
  <2>3. Weight[v] >= need /\ Weight[w - 1] < need
    BY <1>7, <2>1 DEF Stop
  <2>4. QED
    BY <2>2, <2>3
<1>8. ASSUME NEW w \in Nat \ {0}, Stop(w) PROVE w = Width(count)
  <2>1. Width(count) \in Nat \ {0}
    BY <1>6
  <2>2. ~(w < Width(count)) /\ ~(Width(count) < w)
    BY <1>6, <1>7, <1>8, <2>1
  <2>3. QED
    BY <2>1, <2>2
<1>9. QED
  BY <1>6, <1>8 DEF Stop

LEMMA Division ==
  ASSUME NEW x \in Nat, NEW d \in Nat \ {0}
  PROVE  /\ x \div d \in Nat /\ x % d \in 0..(d - 1)
         /\ x = d * (x \div d) + (x % d)
         /\ (x \div d) * d <= x /\ x < ((x \div d) + 1) * d
<1>1. x \div d \in Nat
  OBVIOUS
<1>2. x % d \in 0..(d - 1)
  OBVIOUS
<1>3. x = d * (x \div d) + (x % d)
  OBVIOUS
<1>4. (x \div d) * d <= x
  OBVIOUS
<1>5. x < ((x \div d) + 1) * d
  OBVIOUS
<1>6. QED
  BY <1>1, <1>2, <1>3, <1>4, <1>5

LEMMA LastDigit ==
  ASSUME NEW v \in Nat
  PROVE  /\ v \div Base \in Nat /\ v % Base \in Digits
         /\ v = Base * (v \div Base) + (v % Base)
<1>1. Base \in Nat \ {0}
  BY PositionAssumption
<1>2. QED
  BY <1>1, Division DEF Digits

LEMMA Quotient ==
  ASSUME NEW x \in Nat, NEW d \in Nat \ {0}, NEW q \in Nat,
         q * d <= x, x < (q + 1) * d
  PROVE  x \div d = q
<1> DEFINE p == x \div d
<1>1. p \in Nat /\ p * d <= x /\ x < (p + 1) * d
  BY Division
<1> HIDE DEF p
<1>2. ASSUME p + 1 <= q PROVE FALSE
  <2>1. (p + 1) * d <= q * d
    BY <1>1, <1>2
  <2>2. (p + 1) * d \in Nat /\ q * d \in Nat
    BY <1>1
  <2>3. QED
    BY <1>1, <2>1, <2>2
<1>3. ASSUME q + 1 <= p PROVE FALSE
  <2>1. (q + 1) * d <= p * d
    BY <1>1, <1>3
  <2>2. (q + 1) * d \in Nat /\ p * d \in Nat
    BY <1>1
  <2>3. QED
    BY <1>1, <2>1, <2>2
<1>4. p = q
  BY <1>1, <1>2, <1>3
<1>5. QED
  BY <1>4 DEF p

LEMMA DivideTwice ==
  ASSUME NEW x \in Nat, NEW a \in Nat \ {0}, NEW b \in Nat \ {0}
  PROVE  x \div (b * a) = (x \div a) \div b
<1> DEFINE p == x \div a
           q == p \div b
<1>1. p \in Nat /\ p * a <= x /\ x < (p + 1) * a
  BY Division
<1> HIDE DEF p
<1>2. q \in Nat /\ q * b <= p /\ p < (q + 1) * b
  BY <1>1, Division
<1> HIDE DEF q
<1>3. q * (b * a) <= x
  <2>1. (q * b) * a <= p * a
    BY <1>1, <1>2
  <2>2. (q * b) * a = q * (b * a)
    BY <1>2
  <2>3. q * (b * a) \in Nat /\ p * a \in Nat
    BY <1>1, <1>2
  <2>4. QED
    BY <1>1, <2>1, <2>2, <2>3
<1>4. x < (q + 1) * (b * a)
  <2>1. p + 1 <= (q + 1) * b
    BY <1>1, <1>2
  <2>2. (p + 1) * a <= ((q + 1) * b) * a
    BY <1>1, <1>2, <2>1
  <2>3. ((q + 1) * b) * a = (q + 1) * (b * a)
    BY <1>2
  <2>4. (q + 1) * (b * a) \in Nat /\ (p + 1) * a \in Nat
    BY <1>1, <1>2
  <2>5. QED
    BY <1>1, <2>2, <2>3, <2>4
<1>5. b * a \in Nat \ {0}
  OBVIOUS
<1>6. x \div (b * a) = q
  BY <1>2, <1>3, <1>4, <1>5, Quotient
<1>7. QED
  BY <1>6 DEF p, q

LEMMA DivisionAscends ==
  ASSUME NEW x \in Nat, NEW y \in Nat, x <= y, NEW d \in Nat \ {0}
  PROVE  x \div d <= y \div d
<1> DEFINE p == x \div d
           q == y \div d
<1>1. /\ p \in Nat /\ p * d <= x
      /\ q \in Nat /\ y < (q + 1) * d
  BY Division
<1> HIDE DEF p, q
<1>2. ASSUME q + 1 <= p PROVE FALSE
  <2>1. (q + 1) * d <= p * d
    BY <1>1, <1>2
  <2>2. (q + 1) * d \in Nat /\ p * d \in Nat
    BY <1>1
  <2>3. QED
    BY <1>1, <2>1, <2>2
<1>3. p <= q
  BY <1>1, <1>2
<1>4. QED
  BY <1>3 DEF p, q

(* A value that is no multiple of the radix encodes as a key: its last     *)
(* digit is not the lowest.                                                *)
LEMMA EncodeIsKey ==
  ASSUME NEW value \in Nat, value % Base # 0, NEW width \in Nat \ {0}
  PROVE  /\ EncodeFixedWidth(value, width) \in Key
         /\ Len(EncodeFixedWidth(value, width)) = width
<1> DEFINE key == EncodeFixedWidth(value, width)
           digit(i) == (value \div Weight[width - i]) % Base
<1>1. \A i \in 1..width : digit(i) \in Digits
  <2> SUFFICES ASSUME NEW i \in 1..width PROVE digit(i) \in Digits
    OBVIOUS
  <2>1. Weight[width - i] \in Nat \ {0}
    BY WeightFacts
  <2>2. value \div Weight[width - i] \in Nat
    BY <2>1, Division
  <2> DEFINE v == value \div Weight[width - i]
  <2>3. v \in Nat
    BY <2>2
  <2> HIDE DEF v
  <2>4. v % Base \in Digits
    BY <2>3, LastDigit
  <2>5. QED
    BY <2>4 DEF v
<1>2. digit(width) = value % Base
  <2>1. width - width = 0 /\ value \div 1 = value
    OBVIOUS
  <2>2. QED
    BY <2>1, WeightFacts
<1>3. key = [i \in 1..width |-> digit(i)]
  BY DEF EncodeFixedWidth
<1> HIDE DEF digit
<1>4. key \in [1..width -> Digits] /\ key[width] # 0
  BY <1>1, <1>2, <1>3
<1> HIDE DEF key
<1>5. key \in Seq(Digits) /\ Len(key) = width
  BY <1>4, FunctionsAreSequences
<1>6. (width - 1) + 1 = width /\ width - 1 \in Nat
  OBVIOUS
<1>7. key \in Key
  BY <1>4, <1>5, <1>6, NonEmptyIsKey
<1>8. QED
  BY <1>5, <1>7 DEF key

(* Encoding keeps the order of the values that fit the width.              *)
LEMMA EncodingAscends ==
  ASSUME NEW width \in Nat \ {0}, NEW x \in Nat, NEW y \in Nat,
         x < y, y < Weight[width]
  PROVE  Precedes(EncodeFixedWidth(x, width), EncodeFixedWidth(y, width))
<1> DEFINE above(v, i) == v \div Weight[width - i]
           digit(v, i) == above(v, i) % Base
           encoded(v) == EncodeFixedWidth(v, width)
           differing == {i \in 1..width : digit(x, i) # digit(y, i)}
<1>1. ASSUME NEW v \in Nat
      PROVE  /\ v < Weight[width] => above(v, 0) = 0
             /\ above(v, width) = v
             /\ \A i \in 0..width : above(v, i) \in Nat
             /\ \A i \in 1..width :
                   /\ above(v, i) = Base * above(v, i - 1) + digit(v, i)
                   /\ digit(v, i) \in Nat
             /\ Len(encoded(v)) = width
             /\ \A i \in 1..width : encoded(v)[i] = digit(v, i)
  <2>1. v < Weight[width] => above(v, 0) = 0
    <3>1. Weight[width] \in Nat \ {0} /\ width - 0 = width
      BY WeightFacts
    <3>2. 0 * Weight[width] = 0 /\ (0 + 1) * Weight[width] = Weight[width]
      BY <3>1
    <3>3. QED
      BY <3>1, <3>2, Quotient
  <2>2. above(v, width) = v
    <3>1. width - width = 0 /\ v \div 1 = v
      OBVIOUS
    <3>2. QED
      BY <3>1, WeightFacts
  <2>3. \A i \in 0..width : above(v, i) \in Nat
    <3> SUFFICES ASSUME NEW i \in 0..width PROVE above(v, i) \in Nat
      OBVIOUS
    <3>1. Weight[width - i] \in Nat \ {0}
      BY WeightFacts
    <3>2. QED
      BY <3>1, Division
  <2>4. ASSUME NEW i \in 1..width
        PROVE  /\ above(v, i) = Base * above(v, i - 1) + digit(v, i)
               /\ digit(v, i) \in Nat
    <3> DEFINE a == Weight[width - i]
    <3>1. width - i \in Nat /\ width - (i - 1) = (width - i) + 1
      OBVIOUS
    <3>2. a \in Nat \ {0} /\ Weight[width - (i - 1)] = Base * a
      BY <3>1, WeightFacts
    <3>3. v \div (Base * a) = (v \div a) \div Base
      BY <3>2, DivideTwice, PositionAssumption
    <3>4. above(v, i - 1) = above(v, i) \div Base
      BY <3>2, <3>3
    <3>5. above(v, i) \in Nat
      BY <2>3
    <3> DEFINE u == above(v, i)
    <3>6. u \in Nat /\ above(v, i - 1) = u \div Base /\ digit(v, i) = u % Base
      BY <3>4, <3>5
    <3> HIDE DEF above, digit
    <3>7. u = Base * (u \div Base) + (u % Base) /\ u % Base \in Nat
      <4> HIDE DEF u
      <4>1. u = Base * (u \div Base) + (u % Base) /\ u % Base \in Digits
        BY <3>6, LastDigit
      <4>2. QED
        BY <4>1 DEF Digits
    <3>8. QED
      BY <3>6, <3>7
  <2>5. /\ Len(encoded(v)) = width
        /\ \A i \in 1..width : encoded(v)[i] = digit(v, i)
    <3>1. encoded(v) = [i \in 1..width |-> digit(v, i)]
      BY DEF EncodeFixedWidth
    <3> HIDE DEF encoded, digit
    <3>2. QED
      BY <3>1
  <2>6. QED
    BY <2>1, <2>2, <2>3, <2>4, <2>5
<1> HIDE DEF above, digit, encoded
(* Up to the first differing digit, the values above the place agree.      *)
<1>2. ASSUME NEW k \in 0..width, \A i \in 1..k : digit(x, i) = digit(y, i)
      PROVE  above(x, k) = above(y, k)
  <2> DEFINE agree == {i \in Nat : i <= k => above(x, i) = above(y, i)}
  <2>1. 0 \in agree
    <3>1. Weight[width] \in Nat
      BY WeightFacts
    <3>2. x < Weight[width]
      BY <3>1
    <3>3. QED
      BY <1>1, <3>2
  <2>2. ASSUME NEW i \in agree PROVE i + 1 \in agree
    <3>1. CASE i + 1 <= k
      <4>1. i + 1 \in 1..width /\ (i + 1) - 1 = i /\ i + 1 \in 1..k
        BY <3>1
      <4>2. digit(x, i + 1) = digit(y, i + 1) /\ above(x, i) = above(y, i)
        BY <1>2, <2>2, <4>1
      <4> DEFINE j == i + 1
      <4>3. /\ above(x, j) = Base * above(x, j - 1) + digit(x, j)
            /\ above(y, j) = Base * above(y, j - 1) + digit(y, j)
        <5> HIDE DEF j
        <5>1. j \in 1..width
          BY <4>1 DEF j
        <5>2. QED
          BY <1>1, <5>1
      <4>4. above(x, i + 1) = above(y, i + 1)
        BY <4>2, <4>3
      <4>5. QED
        BY <4>4
    <3>2. QED
      BY <3>1
  <2>3. agree = Nat
    <3> HIDE DEF agree
    <3>1. agree \in SUBSET Nat
      BY DEF agree
    <3>2. QED
      BY <2>1, <2>2, <3>1, SetInduction
  <2>4. QED
    BY <2>3
<1>3. differing # {}
  <2> SUFFICES ASSUME differing = {} PROVE FALSE
    OBVIOUS
  <2>1. \A i \in 1..width : digit(x, i) = digit(y, i)
    OBVIOUS
  <2>2. above(x, width) = above(y, width)
    BY <1>2, <2>1
  <2>3. QED
    BY <1>1, <2>2
<1>4. PICK d \in differing : \A i \in differing : d <= i
  <2>1. differing \in SUBSET Nat
    OBVIOUS
  <2>2. QED
    BY <1>3, <2>1, LeastNumber
<1>5. \A i \in 1..(d - 1) : digit(x, i) = digit(y, i)
  <2> SUFFICES ASSUME NEW i \in 1..(d - 1) PROVE digit(x, i) = digit(y, i)
    OBVIOUS
  <2>1. i \in 1..width /\ ~(d <= i)
    BY <1>4
  <2>2. QED
    BY <1>4, <2>1
<1>6. above(x, d - 1) = above(y, d - 1) /\ d \in 1..width
  <2>1. d - 1 \in 0..width /\ d \in 1..width
    BY <1>4
  <2>2. QED
    BY <1>2, <1>5, <2>1
<1>7. above(x, d) <= above(y, d)
  <2>1. Weight[width - d] \in Nat \ {0}
    BY <1>6, WeightFacts
  <2>2. x <= y
    OBVIOUS
  <2>3. QED
    BY <2>1, <2>2, DivisionAscends DEF above
<1>8. digit(x, d) < digit(y, d)
  <2> DEFINE a == Base * above(x, d - 1)
  <2>1. /\ above(x, d) = a + digit(x, d) /\ above(y, d) = a + digit(y, d)
        /\ digit(x, d) \in Nat /\ digit(y, d) \in Nat
    BY <1>1, <1>6
  <2>2. a \in Nat
    <3>1. d - 1 \in 0..width
      BY <1>6
    <3>2. above(x, d - 1) \in Nat
      BY <1>1, <3>1
    <3>3. QED
      BY <3>2, PositionAssumption
  <2>3. digit(x, d) # digit(y, d)
    BY <1>4
  <2> HIDE DEF a
  <2>4. QED
    BY <1>7, <2>1, <2>2, <2>3
<1>9. Precedes(encoded(x), encoded(y))
  <2>1. /\ Len(encoded(x)) = width /\ Len(encoded(y)) = width
        /\ \A i \in 1..width : encoded(x)[i] = digit(x, i) /\ encoded(y)[i] = digit(y, i)
    BY <1>1
  <2>2. \A i \in 1..(d - 1) : encoded(x)[i] = encoded(y)[i]
    BY <1>5, <1>6, <2>1
  <2>3. d \in 1..Len(encoded(x)) /\ d <= Len(encoded(y))
    BY <1>6, <2>1
  <2>4. QED
    BY <1>6, <1>8, <2>1, <2>2, <2>3 DEF Precedes
<1>10. QED
  BY <1>9 DEF encoded

(* The spaced values fit the width, are no multiples of the radix, and     *)
(* ascend: the nudge off a trailing lowest digit never closes a gap, which *)
(* is two wide at least (position.go:186-193).                             *)
LEMMA SpacedFacts ==
  ASSUME NEW count \in Nat \ {0}, NEW item \in 1..count
  PROVE  /\ Spaced(count, item) \in Nat /\ Spaced(count, item) % Base # 0
         /\ Spaced(count, item) < Weight[Width(count)]
         /\ item < count => Spaced(count, item) < Spaced(count, item + 1)
<1> DEFINE weight == Weight[Width(count)]
           step == weight \div (count + 1)
           value(i) == i * step
           spaced(i) == IF value(i) % Base = 0 THEN value(i) + 1 ELSE value(i)
<1>1. weight \in Nat \ {0} /\ weight >= 2 * (count + 1)
  <2>1. Width(count) \in Nat /\ weight >= 2 * (count + 1)
    BY WidthFacts
  <2>2. QED
    BY <2>1, WeightFacts
<1>2. step \in Nat /\ step >= 2 /\ (count + 1) * step <= weight
  <2>1. /\ step \in Nat /\ step * (count + 1) <= weight
        /\ weight < (step + 1) * (count + 1)
    <3> DEFINE d == count + 1
    <3>1. d \in Nat \ {0}
      OBVIOUS
    <3> HIDE DEF weight, d
    <3>2. /\ weight \div d \in Nat /\ (weight \div d) * d <= weight
          /\ weight < ((weight \div d) + 1) * d
      BY <1>1, <3>1, Division
    <3>3. QED
      BY <3>2 DEF d
  <2> HIDE DEF step, weight
  <2>2. (count + 1) * step <= weight
    BY <2>1
  <2>3. step >= 2
    <3>1. ASSUME step <= 1 PROVE FALSE
      <4>1. (step + 1) * (count + 1) <= 2 * (count + 1)
        BY <2>1, <3>1
      <4>2. QED
        BY <1>1, <2>1, <4>1
    <3>2. QED
      BY <2>1, <3>1
  <2>4. QED
    BY <2>1, <2>2, <2>3
<1>3. \A i \in 1..count : Spaced(count, i) = spaced(i)
  BY DEF Spaced
<1> HIDE DEF step, weight
<1>4. ASSUME NEW i \in Nat
      PROVE  /\ value(i) \in Nat /\ value(i + 1) = value(i) + step
             /\ spaced(i) \in {value(i), value(i) + 1}
             /\ spaced(i) % Base # 0
  <2>1. value(i) \in Nat /\ value(i + 1) = value(i) + step
    BY <1>2
  <2> HIDE DEF value
  <2>2. spaced(i) \in {value(i), value(i) + 1}
    OBVIOUS
  <2>3. CASE value(i) % Base = 0
    <3> DEFINE v == value(i)
               q == v \div Base
    <3>1. v \in Nat /\ v % Base = 0 /\ spaced(i) = v + 1
      BY <2>1, <2>3
    <3> HIDE DEF v, spaced
    <3>2. v = q * Base /\ q \in Nat
      <4>1. v = Base * q + 0 /\ q \in Nat
        BY <3>1, LastDigit
      <4> HIDE DEF q
      <4>2. QED
        BY <4>1, PositionAssumption
    <3> HIDE DEF q
    <3>3. (v + 1) % Base # 0
      <4> DEFINE p == (v + 1) \div Base
      <4>1. SUFFICES ASSUME (v + 1) % Base = 0 PROVE FALSE
        OBVIOUS
      <4>2. v + 1 \in Nat
        BY <3>1
      <4>3. v + 1 = Base * p + 0 /\ p \in Nat
        BY <4>1, <4>2, LastDigit
      <4> HIDE DEF p
      <4>4. q * Base + 1 = p * Base
        BY <3>2, <4>3, PositionAssumption
      <4>5. ASSUME p <= q PROVE FALSE
        <5>1. p * Base <= q * Base /\ p * Base \in Nat /\ q * Base \in Nat
          BY <3>2, <4>3, <4>5, PositionAssumption
        <5>2. QED
          BY <4>4, <5>1
      <4>6. ASSUME q + 1 <= p PROVE FALSE
        <5>1. (q + 1) * Base <= p * Base /\ (q + 1) * Base = q * Base + Base
          BY <3>2, <4>3, <4>6, PositionAssumption
        <5>2. p * Base \in Nat /\ q * Base \in Nat
          BY <3>2, <4>3, PositionAssumption
        <5>3. QED
          BY <4>4, <5>1, <5>2, PositionAssumption
      <4>7. QED
        BY <3>2, <4>3, <4>5, <4>6
    <3>4. QED
      BY <2>1, <2>2, <3>1, <3>3
  <2>4. CASE value(i) % Base # 0
    <3>1. spaced(i) = value(i)
      BY <2>4
    <3> HIDE DEF spaced
    <3>2. QED
      BY <2>1, <2>2, <2>4, <3>1
  <2>5. QED
    BY <2>1, <2>2, <2>3, <2>4
<1>5. value(item) + step <= weight
  <2>1. (item + 1) * step <= (count + 1) * step
    BY <1>2
  <2>2. (item + 1) * step \in Nat /\ (count + 1) * step \in Nat
    BY <1>2
  <2>3. QED
    BY <1>1, <1>2, <1>4, <2>1, <2>2
<1>6. Spaced(count, item) = spaced(item)
  BY <1>3
<1>7. item < count => Spaced(count, item + 1) = spaced(item + 1)
  BY <1>3
<1>8. /\ value(item) \in Nat /\ value(item + 1) = value(item) + step
      /\ spaced(item) \in {value(item), value(item) + 1}
      /\ spaced(item + 1) \in {value(item + 1), value(item + 1) + 1}
      /\ spaced(item) % Base # 0
  BY <1>4
<1> HIDE DEF spaced, value
<1>9. spaced(item) \in Nat /\ spaced(item) < weight /\ spaced(item) < spaced(item + 1)
  BY <1>1, <1>2, <1>5, <1>8
<1>10. QED
  BY <1>6, <1>7, <1>8, <1>9 DEF weight

(* Renormalizing a column gives as many valid keys as it has cards, of one *)
(* width, in strictly ascending order (position.go:170-200).               *)
THEOREM RenormalizedKeysAscend ==
  ASSUME NEW count \in Nat
  PROVE  /\ Renormalize(count) \in Seq(Key) /\ Len(Renormalize(count)) = count
         /\ \A i \in 1..count : Len(Renormalize(count)[i]) = Width(count)
         /\ \A i \in 1..(count - 1) :
               Precedes(Renormalize(count)[i], Renormalize(count)[i + 1])
<1> DEFINE width == Width(count)
           keys == Renormalize(count)
<1>1. width \in Nat \ {0}
  BY WidthFacts
<1>2. keys = [item \in 1..count |-> EncodeFixedWidth(Spaced(count, item), width)]
  BY DEF Renormalize
<1> HIDE DEF width, keys
<1>3. ASSUME NEW i \in 1..count
      PROVE  keys[i] \in Key /\ Len(keys[i]) = width
  <2>1. count \in Nat \ {0}
    OBVIOUS
  <2>2. Spaced(count, i) \in Nat /\ Spaced(count, i) % Base # 0
    BY <2>1, SpacedFacts
  <2>3. keys[i] = EncodeFixedWidth(Spaced(count, i), width)
    BY <1>2
  <2>4. QED
    BY <1>1, <2>2, <2>3, EncodeIsKey
<1>4. keys \in Seq(Key) /\ Len(keys) = count
  <2>1. keys \in [1..count -> Key]
    BY <1>2, <1>3
  <2>2. QED
    BY <2>1, FunctionsAreSequences
<1>5. ASSUME NEW i \in 1..(count - 1) PROVE Precedes(keys[i], keys[i + 1])
  <2>1. count \in Nat \ {0} /\ i \in 1..count /\ i + 1 \in 1..count /\ i < count
    OBVIOUS
  <2>2. /\ Spaced(count, i) \in Nat /\ Spaced(count, i + 1) \in Nat
        /\ Spaced(count, i) < Spaced(count, i + 1)
        /\ Spaced(count, i + 1) < Weight[Width(count)]
    BY <2>1, SpacedFacts
  <2>3. /\ keys[i] = EncodeFixedWidth(Spaced(count, i), width)
        /\ keys[i + 1] = EncodeFixedWidth(Spaced(count, i + 1), width)
    BY <1>2, <2>1
  <2>4. QED
    BY <1>1, <2>2, <2>3, EncodingAscends DEF width
<1>6. QED
  BY <1>3, <1>4, <1>5 DEF keys, width
-----------------------------------------------------------------------------
(* Keys are ordered like strings *)

(* The first place where p ends or differs decides. *)
LEMMA PrecedesAt ==
    ASSUME NEW p \in Key, NEW q \in Key
    PROVE  /\ Len(p) \in Nat /\ Len(q) \in Nat
           /\ \A k \in 1..Len(p) : p[k] \in Nat
           /\ Precedes(p, q) <=>
                 \E k \in 1..Len(q) :
                    /\ k <= Len(p) + 1 /\ (k <= Len(p) => p[k] < q[k])
                    /\ \A j \in 1..(k - 1) : p[j] = q[j]
<1>1. /\ Len(p) \in Nat /\ Len(q) \in Nat
      /\ \A k \in 1..Len(p) : p[k] \in Nat
  BY PositionAssumption DEF Key, Digits
<1>2. ASSUME Precedes(p, q)
      PROVE  \E k \in 1..Len(q) :
                /\ k <= Len(p) + 1 /\ (k <= Len(p) => p[k] < q[k])
                /\ \A j \in 1..(k - 1) : p[j] = q[j]
  <2>1. CASE Len(p) < Len(q) /\ \A i \in 1..Len(p) : p[i] = q[i]
    <3>1. Len(p) + 1 \in 1..Len(q)
      BY <1>1, <2>1
    <3>2. \A j \in 1..((Len(p) + 1) - 1) : p[j] = q[j]
      BY <1>1, <2>1
    <3> QED
      BY <1>1, <3>1, <3>2
  <2>2. CASE \E i \in 1..Len(p) : i <= Len(q) /\ p[i] < q[i]
                                  /\ \A j \in 1..(i - 1) : p[j] = q[j]
    <3>1. PICK i \in 1..Len(p) : i <= Len(q) /\ p[i] < q[i]
                                 /\ \A j \in 1..(i - 1) : p[j] = q[j]
      BY <2>2
    <3>2. i \in 1..Len(q) /\ i <= Len(p) + 1
      BY <1>1, <3>1
    <3> QED
      BY <3>1, <3>2
  <2> QED
    BY <1>2, <2>1, <2>2 DEF Precedes
<1>3. ASSUME NEW k \in 1..Len(q), k <= Len(p) + 1, k <= Len(p) => p[k] < q[k],
             \A j \in 1..(k - 1) : p[j] = q[j]
      PROVE  Precedes(p, q)
  <2>1. CASE k <= Len(p)
    <3>1. k \in 1..Len(p) /\ k <= Len(q) /\ p[k] < q[k]
      BY <1>1, <1>3, <2>1
    <3> QED
      BY <1>3, <3>1 DEF Precedes
  <2>2. CASE ~(k <= Len(p))
    <3>1. k = Len(p) + 1 /\ Len(p) < Len(q) /\ k - 1 = Len(p)
      BY <1>1, <1>3, <2>2
    <3> QED
      BY <1>3, <3>1 DEF Precedes
  <2> QED
    BY <2>1, <2>2
<1> QED
  BY <1>1, <1>2, <1>3

LEMMA PrecedesIsIrreflexive ==
    ASSUME NEW p \in Key
    PROVE  ~Precedes(p, p)
  BY PrecedesAt

LEMMA PrecedesIsTransitive ==
    ASSUME NEW p \in Key, NEW q \in Key, NEW r \in Key, Precedes(p, q), Precedes(q, r)
    PROVE  Precedes(p, r)
<1>1. PICK k \in 1..Len(q) : /\ k <= Len(p) + 1 /\ (k <= Len(p) => p[k] < q[k])
                             /\ \A j \in 1..(k - 1) : p[j] = q[j]
  BY PrecedesAt
<1>2. PICK m \in 1..Len(r) : /\ m <= Len(q) + 1 /\ (m <= Len(q) => q[m] < r[m])
                             /\ \A j \in 1..(m - 1) : q[j] = r[j]
  BY PrecedesAt
<1>3. /\ Len(p) \in Nat /\ Len(q) \in Nat /\ Len(r) \in Nat
      /\ \A i \in 1..Len(p) : p[i] \in Nat
      /\ \A i \in 1..Len(q) : q[i] \in Nat
      /\ \A i \in 1..Len(r) : r[i] \in Nat
  BY PrecedesAt
<1>4. CASE k <= m
  <2>1. k \in 1..Len(r)
    BY <1>1, <1>2, <1>3, <1>4
  <2>2. k <= Len(p) => p[k] < r[k]
    BY <1>1, <1>2, <1>3, <1>4
  <2>3. \A j \in 1..(k - 1) : p[j] = r[j]
    BY <1>1, <1>2, <1>3, <1>4
  <2> QED
    BY <1>1, <2>1, <2>2, <2>3, PrecedesAt
<1>5. CASE m < k
  <2>1. m \in 1..Len(r) /\ m <= Len(p) + 1 /\ m <= Len(q)
    BY <1>1, <1>2, <1>3, <1>5
  <2>2. m <= Len(p) => p[m] < r[m]
    BY <1>1, <1>2, <1>3, <1>5, <2>1
  <2>3. \A j \in 1..(m - 1) : p[j] = r[j]
    BY <1>1, <1>2, <1>3, <1>5
  <2> QED
    BY <2>1, <2>2, <2>3, PrecedesAt
<1> QED
  BY <1>1, <1>2, <1>4, <1>5

LEMMA PrecedesIsAsymmetric ==
    ASSUME NEW p \in Key, NEW q \in Key, Precedes(p, q)
    PROVE  ~Precedes(q, p)
  BY PrecedesIsIrreflexive, PrecedesIsTransitive

LEMMA PrecedesIsTotal ==
    ASSUME NEW p \in Key, NEW q \in Key, p # q
    PROVE  Precedes(p, q) \/ Precedes(q, p)
<1> DEFINE S == {k \in Nat \ {0} : k > Len(p) \/ k > Len(q) \/ p[k] # q[k]}
<1>1. /\ Len(p) \in Nat /\ Len(q) \in Nat
      /\ \A i \in 1..Len(p) : p[i] \in Nat
      /\ \A i \in 1..Len(q) : q[i] \in Nat
  BY PrecedesAt
<1>2. Len(p) + 1 \in S
  BY <1>1
<1>3. PICK k \in S : \A m \in S : k <= m
  BY <1>2, LeastNumber
<1>4. \A j \in 1..(k - 1) : j <= Len(p) /\ j <= Len(q) /\ p[j] = q[j]
  <2> SUFFICES ASSUME NEW j \in 1..(k - 1)
               PROVE  j <= Len(p) /\ j <= Len(q) /\ p[j] = q[j]
    OBVIOUS
  <2>1. j \in Nat \ {0} /\ ~(k <= j)
    BY <1>3
  <2> QED
    BY <1>1, <1>3, <2>1
<1>5. k \in Nat \ {0} /\ k <= Len(p) + 1 /\ k <= Len(q) + 1
  <2>1. k \in Nat \ {0} /\ (k = 1 \/ k - 1 \in 1..(k - 1))
    BY <1>3
  <2> QED
    BY <1>1, <1>4, <2>1
<1>6. CASE k <= Len(p) /\ k <= Len(q)
  <2>1. p[k] \in Nat /\ q[k] \in Nat /\ p[k] # q[k]
    BY <1>1, <1>3, <1>5, <1>6
  <2>2. CASE p[k] < q[k]
    BY <1>1, <1>4, <1>5, <1>6, <2>2, PrecedesAt
  <2>3. CASE q[k] < p[k]
    BY <1>1, <1>4, <1>5, <1>6, <2>3, PrecedesAt
  <2> QED
    BY <2>1, <2>2, <2>3
<1>7. CASE k > Len(p) /\ k <= Len(q)
  BY <1>1, <1>4, <1>5, <1>7, PrecedesAt
<1>8. CASE k > Len(q) /\ k <= Len(p)
  BY <1>1, <1>4, <1>5, <1>8, PrecedesAt
<1>9. CASE k > Len(p) /\ k > Len(q)
  <2>1. Len(p) = k - 1 /\ Len(q) = k - 1
    BY <1>1, <1>5, <1>9
  <2>2. p = q
    BY <1>4, <2>1 DEF Key
  <2> QED
    BY <2>2
<1> QED
  BY <1>1, <1>5, <1>6, <1>7, <1>8, <1>9

(* Keys that ascend from each to the next ascend. *)
LEMMA KeysAscend ==
    ASSUME NEW n \in Nat, NEW keys \in Seq(Key), Len(keys) = n,
           \A i \in 1..(n - 1) : Precedes(keys[i], keys[i + 1])
    PROVE  \A i, j \in 1..n : i < j => Precedes(keys[i], keys[j])
<1> DEFINE S == {k \in Nat : \A i, j \in 1..n : j = i + k + 1 =>
                                Precedes(keys[i], keys[j])}
<1>1. \A i \in 1..n : keys[i] \in Key
  OBVIOUS
<1>2. 0 \in S
  <2>1. ASSUME NEW i \in 1..n, NEW j \in 1..n, j = i + 0 + 1
        PROVE  Precedes(keys[i], keys[j])
    <3>1. i \in 1..(n - 1) /\ j = i + 1
      BY <2>1
    <3> QED
      BY <3>1
  <2> QED
    BY <2>1
<1>3. ASSUME NEW k \in S PROVE k + 1 \in S
  <2>1. ASSUME NEW i \in 1..n, NEW j \in 1..n, j = i + (k + 1) + 1
        PROVE  Precedes(keys[i], keys[j])
    <3>1. PICK m \in 1..n : m = i + k + 1 /\ m \in 1..(n - 1) /\ j = m + 1
      BY <2>1
    <3>2. Precedes(keys[i], keys[m]) /\ Precedes(keys[m], keys[j])
      BY <3>1
    <3> QED
      BY <1>1, <3>2, PrecedesIsTransitive
  <2> QED
    BY <2>1
<1> HIDE DEF S
<1>4. S = Nat
  <2>1. S \in SUBSET Nat
    BY DEF S
  <2> QED
    BY <1>2, <1>3, <2>1, SetInduction
<1> SUFFICES ASSUME NEW i \in 1..n, NEW j \in 1..n, i < j
             PROVE  Precedes(keys[i], keys[j])
  OBVIOUS
<1>5. j - i - 1 \in S /\ j = i + (j - i - 1) + 1
  BY <1>4
<1> QED
  BY <1>5 DEF S
=============================================================================
