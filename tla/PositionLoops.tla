--------------------------- MODULE PositionLoops ---------------------------
(***************************************************************************)
(* Between and Renormalize as the code runs them: the dispatch, the        *)
(* digit-by-digit loop of midpoint, the recursion of prepend, and the      *)
(* widening and encoding loops of Renormalize, one iteration a step.       *)
(***************************************************************************)
EXTENDS Position

CONSTANTS Bounds,    \* the positions a caller may pass, the open one included
          MaxCount   \* the largest sibling set renormalized

ASSUME LoopAssumption == /\ Bounds \subseteq Key \cup {Open}
                         /\ MaxCount \in Nat

VARIABLES prev, next,      \* the arguments of Between
          count,           \* the argument of Renormalize
          pc,              \* the loop that runs, "between" or "done"
          upper,           \* midpoint's upper bound; prepend's remaining tail
          result,          \* the digits emitted so far
          out,             \* the pair Between returned
          width, capacity, \* Renormalize's key width and its Base^width
          positions        \* the keys Renormalize has produced

vars == <<prev, next, count, pc, upper, result, out,
          width, capacity, positions>>
between == <<prev, next, upper, result, out>>
renormalize == <<width, capacity, positions>>

TypeOK ==
    /\ prev \in Bounds \cup {Open} /\ next \in Bounds \cup {Open}
    /\ count \in 0..MaxCount
    /\ pc \in {"between", "prepend", "midpoint", "widen", "encode", "done"}
    /\ upper \in Key \cup {Open}
    /\ result \in Seq(Digits)
    /\ out \in {Exhausted, InvalidBounds, Failed("none")}
          \cup [err : {"none"}, key : Key]
    /\ width \in Nat \ {0} /\ capacity \in Nat \ {0}
    /\ positions \in Seq(Key)

Init ==
    /\ upper = Open
    /\ result = <<>>
    /\ out = Failed("none")
    /\ width = 1 /\ capacity = Base
    /\ positions = <<>>
    /\ \/ pc = "between" /\ prev \in Bounds /\ next \in Bounds /\ count = 0
       \/ pc = "widen" /\ prev = Open /\ next = Open /\ count \in 1..MaxCount

Return(pair) ==
    /\ pc' = "done"
    /\ out' = pair
    /\ UNCHANGED <<prev, next, upper, result, count, renormalize>>

(* The cases of the switch that need no loop, Append1 included. *)
ReturnAtOnce ==
    /\ pc = "between"
    /\ \/ /\ prev = Open /\ next = Open
          /\ Return(Found(<<Base \div 2>>))
       \/ /\ prev # Open /\ next = Open
          /\ Return(Append1(prev))
       \/ /\ prev # Open /\ next # Open /\ ~Precedes(prev, next)
          /\ Return(InvalidBounds)

EnterLoop ==
    /\ pc = "between"
    /\ next # Open
    /\ \/ prev = Open /\ pc' = "prepend"
       \/ prev # Open /\ Precedes(prev, next) /\ pc' = "midpoint"
    /\ upper' = next
    /\ UNCHANGED <<prev, next, result, out, count, renormalize>>

(* The decisions of the two loops.  Each is preceded by a slip that could  *)
(* have been made in its place, which a property below has to notice.      *)

SlipHalvesFromOne == upper[1] > 0
LeavesRoom == upper[1] > 1

SlipUncapped == TRUE
PrependFits == Len(upper) + 1 <= MaxLen

SlipCapOneEarly == Len(result) + 1 >= MaxLen
AtCap == Len(result) >= MaxLen

SlipKeepsUpper == upper
UpperOnceBelow == Open

SlipForgetsDigit(digit) == result' = result
Emit(digit) == result' = Append(result, digit)

(* One call of the recursion; upper is its argument. *)
PrependStep ==
    /\ pc = "prepend"
    /\ \/ /\ LeavesRoom
          /\ Return(Found(Append(result, upper[1] \div 2)))
       \/ /\ ~LeavesRoom /\ ~PrependFits
          /\ Return(Exhausted)
       \/ /\ ~LeavesRoom /\ PrependFits /\ upper[1] = 1
          /\ Return(Found(result \o <<0, Base \div 2>>))
       \/ /\ ~LeavesRoom /\ PrependFits /\ upper[1] = 0
          /\ Emit(0)
          /\ upper' = Tail(upper)
          /\ UNCHANGED <<prev, next, pc, out, count, renormalize>>

(* One iteration of the loop; its index is Len(result). *)
MidpointStep ==
    LET place == Len(result) + 1
        low == LowDigit(prev, place)
        high == HighDigit(upper, place)
        mid == (low + high) \div 2
    IN  /\ pc = "midpoint"
        /\ \/ /\ AtCap
              /\ Return(Exhausted)
           \/ /\ ~AtCap /\ low = high
              /\ Emit(low)
              /\ UNCHANGED <<prev, next, pc, upper, out, count, renormalize>>
           \/ /\ ~AtCap /\ low # high /\ mid = low
              /\ Emit(low)
              /\ upper' = UpperOnceBelow
              /\ UNCHANGED <<prev, next, pc, out, count, renormalize>>
           \/ /\ ~AtCap /\ low # high /\ mid # low
              /\ Return(Found(Append(result, mid)))

(* Renormalize.  Its early return for no items is the empty sequence. *)

SlipWideEnough == capacity >= count + 1
WideEnough == capacity >= 2 * (count + 1)

Widen ==
    /\ pc = "widen"
    /\ IF WideEnough
       THEN pc' = "encode" /\ UNCHANGED <<width, capacity>>
       ELSE /\ capacity' = capacity * Base
            /\ width' = width + 1
            /\ pc' = pc
    /\ UNCHANGED <<between, count, positions>>

SlipNoNudge(value) == value
Nudged(value) == IF value % Base = 0 THEN value + 1 ELSE value

EncodeItem ==
    LET item == Len(positions) + 1
        value == Nudged(item * (capacity \div (count + 1)))
    IN  /\ pc = "encode"
        /\ positions' = Append(positions, EncodeFixedWidth(value, width))
        /\ pc' = IF item = count THEN "done" ELSE pc
        /\ UNCHANGED <<between, count, width, capacity>>

Returned == pc = "done" /\ UNCHANGED vars

Next == \/ ReturnAtOnce \/ EnterLoop \/ PrependStep \/ MidpointStep
        \/ Widen \/ EncodeItem \/ Returned

Spec == Init /\ [][Next]_vars /\ WF_vars(Next)
-----------------------------------------------------------------------------
Done == pc = "done"
BetweenDone == Done /\ count = 0
Succeeded == BetweenDone /\ out.err = "none"

(* The loops compute the closed forms that the other modules use in their  *)
(* place (position.go:62-168, :174-200).                                   *)
LoopsComputeClosedForms ==
    /\ BetweenDone => out = Between(prev, next)
    /\ Done /\ count > 0 => positions = Renormalize(count)

(* What every placement rests on: the key returned is a valid key strictly *)
(* between its bounds, whatever carries, common prefixes and adjacent      *)
(* digits the walk met (position.go:58-61, :163).                          *)
StrictlyBetween ==
    Succeeded => /\ out.key \in Key
                 /\ prev # Open => Precedes(prev, out.key)
                 /\ next # Open => Precedes(out.key, next)

(* Keys within the cap have descendants within the cap: it is checked on    *)
(* every path that lengthens a key (position.go:95, :109, :136).  And it is*)
(* the only limit: a renormalization, which rewrites a whole column, is    *)
(* asked for only when a neighbour has really reached it (:17-20).         *)
TheCapIsTheLimit ==
    /\ Succeeded /\ Len(prev) <= MaxLen /\ Len(next) <= MaxLen
          => Len(out.key) <= MaxLen
    /\ BetweenDone /\ out.err = "exhausted"
          => Len(prev) >= MaxLen \/ Len(next) >= MaxLen

(* Renormalized keys ascend even where the nudge off a trailing lowest     *)
(* digit narrows a gap, and a new key fits on both sides of each of them   *)
(* without asking for another renormalization (position.go:170-181).       *)
RenormalizedKeysAscendWithRoom ==
    Done /\ count > 0 /\ Width(count) < MaxLen =>
        \A i \in 0..count :
            LET low == IF i = 0 THEN Open ELSE positions[i]
                high == IF i = count THEN Open ELSE positions[i + 1]
                pair == Between(low, high)
            IN  /\ i \in 1..(count - 1) => Precedes(low, high)
                /\ pair.err = "none"

(* The loop "for index := 0; ; index++" has no condition of its own        *)
(* (position.go:135) and the widening loop none on the width: both return. *)
Returns == <>Done
=============================================================================
