-------------------------- MODULE BoardSyncProofs --------------------------
(***************************************************************************)
(* The viewer's cache, for any cards, columns and mutations, and whatever  *)
(* the bounds on commits and faults are.                                   *)
(*                                                                         *)
(* That a deleted card stays gone is not inductive: an answer read before  *)
(* the delete may be installed after it, and a late event may be applied   *)
(* to a tree that has lost the card.  SyncInv follows a delete from its    *)
(* commit to the cache (DeletesAreFinal): its card has no row and never    *)
(* gets one again, and an answer under way that still has the card was     *)
(* read before the delete, so that whoever installs it knows that it is    *)
(* overwriting something newer.                                            *)
(*                                                                         *)
(* That quiet views are true says nothing of views that are not quiet, so  *)
(* ViewInv says what such a view lacks: where neither a cause nor a        *)
(* mutation nor a new connection stands against it, a tree differs from    *)
(* the table only on cards for which an event is on its way that rights    *)
(* it, and so does an answer that is read and not yet installed, with an   *)
(* event later than the answer (TrueCache, TrueAnswer).                    *)
(***************************************************************************)
EXTENDS BoardSync, FiniteSetTheorems, SequenceTheorems, TLAPS
-----------------------------------------------------------------------------
(* Sequences *)

TotalOrder(S, R) ==
    /\ \A i \in S : <<i, i>> \in R
    /\ \A i, j \in S : <<i, j>> \in R \/ <<j, i>> \in R
    /\ \A i, j \in S : <<i, j>> \in R /\ <<j, i>> \in R => i = j
    /\ \A i, j, l \in S : <<i, j>> \in R /\ <<j, l>> \in R => <<i, l>> \in R

(* A total order gives each number an element: the places are different,   *)
(* hence all taken, and they are taken in the order.                       *)
LEMMA ListingLists ==
    ASSUME NEW S, NEW R, IsFiniteSet(S), TotalOrder(S, R)
    PROVE  /\ Cardinality(S) \in Nat
           /\ Listing(S, R) \in [1..Cardinality(S) -> S]
           /\ \A i \in S : \E n \in 1..Cardinality(S) : Listing(S, R)[n] = i
           /\ \A m, n \in 1..Cardinality(S) :
                 m < n => /\ Listing(S, R)[m] # Listing(S, R)[n]
                          /\ <<Listing(S, R)[m], Listing(S, R)[n]>> \in R
<1> DEFINE below(i) == {j \in S : <<j, i>> \in R}
           N == Cardinality(S)
           place == [i \in S |-> Cardinality(below(i))]
<1>1. N \in Nat
  BY FS_CardinalityType
<1>2. ASSUME NEW i \in S
      PROVE  IsFiniteSet(below(i)) /\ Cardinality(below(i)) \in 1..N
  <2>1. IsFiniteSet(below(i)) /\ Cardinality(below(i)) <= N
    <3>1. below(i) \in SUBSET S
      OBVIOUS
    <3> HIDE DEF below
    <3> QED
      BY <3>1, FS_Subset
  <2>2. i \in below(i)
    BY DEF TotalOrder
  <2>3. Cardinality(below(i)) \in Nat
    <3> HIDE DEF below
    <3> QED
      BY <2>1, FS_CardinalityType
  <2>4. Cardinality(below(i)) # 0
    <3> HIDE DEF below
    <3> QED
      BY <2>1, <2>2, FS_EmptySet
  <2> HIDE DEF below, N
  <2> QED
    BY <1>1, <2>1, <2>3, <2>4
<1>3. ASSUME NEW i \in S, NEW j \in S, place[i] = place[j], <<i, j>> \in R
      PROVE  i = j
  <2>1. below(i) \in SUBSET below(j)
    BY <1>3 DEF TotalOrder
  <2>2. IsFiniteSet(below(j)) /\ Cardinality(below(j)) = Cardinality(below(i))
    BY <1>2, <1>3
  <2>3. below(i) = below(j)
    <3> HIDE DEF below
    <3> QED
      BY <2>1, <2>2, FS_Subset
  <2>4. j \in below(j)
    BY DEF TotalOrder
  <2>5. <<j, i>> \in R
    BY <2>3, <2>4
  <2> QED
    BY <1>3, <2>5 DEF TotalOrder
<1>4. /\ place \in [S -> 1..N]
      /\ \A i, j \in S : place[i] = place[j] => i = j
  <2>1. place \in [S -> 1..N]
    <3> HIDE DEF below, N
    <3> QED
      BY <1>2
  <2>2. \A i, j \in S : place[i] = place[j] => i = j
    <3> HIDE DEF place
    <3> QED
      BY <1>3 DEF TotalOrder
  <2> QED
    BY <2>1, <2>2
<1>5. IsFiniteSet(1..N) /\ Cardinality(1..N) = N
  <2> HIDE DEF N
  <2>1. 1 \in Int /\ N \in Int
    BY <1>1
  <2>2. /\ IsFiniteSet(1..N)
        /\ Cardinality(1..N) = IF 1 > N THEN 0 ELSE N - 1 + 1
    BY <2>1, FS_Interval
  <2> QED
    BY <1>1, <2>2
<1>6. place \in Surjection(S, 1..N)
  <2> HIDE DEF place
  <2>1. place \in Injection(S, 1..N)
    <3> HIDE DEF N
    <3> QED
      BY <1>4 DEF Injection, IsInjective
  <2> QED
    BY <2>1, <1>5, FS_Injection
<1>7. \A n \in 1..N : \E i \in S : place[i] = n
  <2> HIDE DEF place, N
  <2> QED
    BY <1>6 DEF Surjection
<1> DEFINE L == Listing(S, R)
<1>8. L = [n \in 1..N |-> CHOOSE i \in S : Cardinality(below(i)) = n]
  BY DEF Listing
<1>9. \A n \in 1..N : L[n] \in S /\ place[L[n]] = n
  <2>1. \A n \in 1..N : \E i \in S : Cardinality(below(i)) = n
    BY <1>7
  <2>2. \A n \in 1..N : L[n] \in S /\ Cardinality(below(L[n])) = n
    <3> HIDE DEF below, N, L
    <3> QED
      BY <1>8, <2>1
  <2> HIDE DEF L, N
  <2> QED
    BY <2>2
<1>10. L \in [1..N -> S]
  <2> HIDE DEF below
  <2> QED
    BY <1>8, <1>9
<1>11. ASSUME NEW i \in S PROVE \E n \in 1..N : L[n] = i
  <2>1. place[i] \in 1..N /\ L[place[i]] \in S /\ place[L[place[i]]] = place[i]
    <3> HIDE DEF place, N, L
    <3> QED
      BY <1>4, <1>9
  <2> HIDE DEF place, N, L
  <2> QED
    BY <1>4, <2>1
<1>12. ASSUME NEW m \in 1..N, NEW n \in 1..N, m < n
       PROVE  L[m] # L[n] /\ <<L[m], L[n]>> \in R
  <2> HIDE DEF L, N
  <2>1. L[m] \in S /\ L[n] \in S /\ place[L[m]] = m /\ place[L[n]] = n
    BY <1>9
  <2>2. m \in Nat /\ n \in Nat
    BY <1>1
  <2>3. L[m] # L[n]
    <3> HIDE DEF place
    <3> QED
      BY <1>12, <2>1, <2>2
  <2>4. ASSUME <<L[n], L[m]>> \in R PROVE FALSE
    <3>1. below(L[n]) \in SUBSET below(L[m])
      BY <2>1, <2>4 DEF TotalOrder
    <3>2. IsFiniteSet(below(L[m]))
      BY <1>2, <2>1
    <3>3. Cardinality(below(L[n])) <= Cardinality(below(L[m]))
      <4> HIDE DEF below
      <4> QED
        BY <3>1, <3>2, FS_Subset
    <3>4. Cardinality(below(L[n])) = n /\ Cardinality(below(L[m])) = m
      BY <2>1
    <3> HIDE DEF below
    <3> QED
      BY <1>12, <2>2, <3>3, <3>4
  <2> QED
    BY <2>1, <2>3, <2>4 DEF TotalOrder
<1> HIDE DEF L, N
<1>13. /\ N \in Nat /\ L \in [1..N -> S]
       /\ \A i \in S : \E n \in 1..N : L[n] = i
       /\ \A m, n \in 1..N : m < n => L[m] # L[n] /\ <<L[m], L[n]>> \in R
  BY <1>1, <1>10, <1>11, <1>12
<1> QED
  BY <1>13 DEF L, N

(* Sorting takes each place once, in the order of the keys. *)
LEMMA SortedPlaces ==
    ASSUME NEW s \in Seq(Item)
    PROVE  \E order \in [1..Len(s) -> 1..Len(s)] :
              /\ Sorted(s) = [n \in 1..Len(s) |-> s[order[n]]]
              /\ \A i \in 1..Len(s) : \E n \in 1..Len(s) : order[n] = i
              /\ \A m, n \in 1..Len(s) :
                    m < n => /\ order[m] # order[n]
                             /\ s[order[m]].key <= s[order[n]].key
<1> DEFINE places == DOMAIN s
           upTo == {p \in places \X places :
                       \/ s[p[1]].key < s[p[2]].key
                       \/ s[p[1]].key = s[p[2]].key /\ p[1] <= p[2]}
           order == Listing(places, upTo)
<1>1. places = 1..Len(s) /\ Len(s) \in Nat
  OBVIOUS
<1>2. IsFiniteSet(places) /\ Cardinality(places) = Len(s)
  <2>1. 1 \in Int /\ Len(s) \in Int
    BY <1>1
  <2>2. /\ IsFiniteSet(1..Len(s))
        /\ Cardinality(1..Len(s)) = IF 1 > Len(s) THEN 0 ELSE Len(s) - 1 + 1
    BY <2>1, FS_Interval
  <2> HIDE DEF places
  <2> QED
    BY <1>1, <2>2
<1> DEFINE key == [i \in places |-> s[i].key]
<1>3. \A i \in places : key[i] \in Nat /\ i \in Nat
  <2>1. \A i \in places : s[i] \in Item /\ i \in Nat
    BY <1>1
  <2> QED
    BY <2>1, SyncAssumption DEF Item, Keys
<1>4. \A i, j \in places : <<i, j>> \in upTo <=>
            key[i] < key[j] \/ (key[i] = key[j] /\ i <= j)
  OBVIOUS
<1>5. TotalOrder(places, upTo)
  <2> HIDE DEF upTo, places, key
  <2> QED
    BY <1>3, <1>4 DEF TotalOrder
<1>6. /\ order \in [1..Len(s) -> places]
      /\ \A i \in places : \E n \in 1..Len(s) : order[n] = i
      /\ \A m, n \in 1..Len(s) :
            m < n => order[m] # order[n] /\ <<order[m], order[n]>> \in upTo
  <2> HIDE DEF places, upTo
  <2> QED
    BY <1>2, <1>5, ListingLists
<1>7. Sorted(s) = [n \in places |-> s[order[n]]]
  BY DEF Sorted
<1>8. \A i \in places : key[i] = s[i].key
  OBVIOUS
<1> HIDE DEF order, upTo, key, places
<1>9. ASSUME NEW m \in 1..Len(s), NEW n \in 1..Len(s), m < n
      PROVE  s[order[m]].key <= s[order[n]].key
  <2>1. order[m] \in places /\ order[n] \in places /\ <<order[m], order[n]>> \in upTo
    BY <1>6, <1>9
  <2>2. key[order[m]] <= key[order[n]]
    BY <1>3, <1>4, <2>1
  <2> QED
    BY <1>8, <2>1, <2>2
<1>10. order \in [1..Len(s) -> 1..Len(s)]
  BY <1>1, <1>6
<1>11. Sorted(s) = [n \in 1..Len(s) |-> s[order[n]]]
  BY <1>1, <1>7
<1>12. \A i \in 1..Len(s) : \E n \in 1..Len(s) : order[n] = i
  BY <1>1, <1>6
<1> QED
  BY <1>6, <1>9, <1>10, <1>11, <1>12

(* Sorting moves the elements and drops none of the places. *)
LEMMA SortedIsASequence ==
    ASSUME NEW s \in Seq(Item)
    PROVE  /\ Sorted(s) \in Seq(Item)
           /\ Range(Sorted(s)) \subseteq Range(s)
<1>1. PICK order \in [1..Len(s) -> 1..Len(s)] :
        Sorted(s) = [n \in 1..Len(s) |-> s[order[n]]]
  BY SortedPlaces
<1>2. DOMAIN s = 1..Len(s) /\ Len(s) \in Nat
  OBVIOUS
<1>3. \A n \in 1..Len(s) : s[order[n]] \in Item /\ s[order[n]] \in Range(s)
  BY <1>2 DEF Range
<1>4. Sorted(s) \in [1..Len(s) -> Item]
  BY <1>1, <1>3
<1>5. Sorted(s) \in Seq(Item) /\ DOMAIN Sorted(s) = 1..Len(s)
  BY <1>2, <1>4
<1> QED
  BY <1>1, <1>3, <1>5 DEF Range

(* Leaving a card out keeps the other places, in their order. *)
LEMMA OthersPlaces ==
    ASSUME NEW s \in Seq(Item), NEW c
    PROVE  \E N \in Nat : \E order \in [1..N -> 1..Len(s)] :
              /\ Others(s, c) = [n \in 1..N |-> s[order[n]]]
              /\ \A n \in 1..N : s[order[n]].card # c
              /\ \A i \in 1..Len(s) : s[i].card # c => \E n \in 1..N : order[n] = i
              /\ \A m, n \in 1..N : m < n => order[m] < order[n]
<1> DEFINE kept == {i \in DOMAIN s : s[i].card # c}
           upTo == {p \in kept \X kept : p[1] <= p[2]}
           order == Listing(kept, upTo)
           N == Cardinality(kept)
<1>1. DOMAIN s = 1..Len(s) /\ Len(s) \in Nat
  OBVIOUS
<1>2. IsFiniteSet(kept)
  <2>1. 1 \in Int /\ Len(s) \in Int
    BY <1>1
  <2>2. IsFiniteSet(1..Len(s))
    BY <2>1, FS_Interval
  <2>3. kept \in SUBSET (1..Len(s))
    BY <1>1
  <2> HIDE DEF kept
  <2> QED
    BY <2>2, <2>3, FS_Subset
<1>3. \A i \in kept : i \in Nat
  BY <1>1
<1>4. \A i, j \in kept : <<i, j>> \in upTo <=> i <= j
  OBVIOUS
<1>5. TotalOrder(kept, upTo)
  <2> HIDE DEF upTo, kept
  <2> QED
    BY <1>3, <1>4 DEF TotalOrder
<1>6. /\ N \in Nat /\ order \in [1..N -> kept]
      /\ \A i \in kept : \E n \in 1..N : order[n] = i
      /\ \A m, n \in 1..N :
            m < n => order[m] # order[n] /\ <<order[m], order[n]>> \in upTo
  <2> HIDE DEF kept, upTo
  <2> QED
    BY <1>2, <1>5, ListingLists
<1>7. Others(s, c) = [n \in 1..N |-> s[order[n]]]
  BY DEF Others
<1>8. kept \subseteq 1..Len(s) /\ \A i \in 1..Len(s) : i \in kept <=> s[i].card # c
  BY <1>1
<1> HIDE DEF order, upTo, N, kept
<1>9. ASSUME NEW m \in 1..N, NEW n \in 1..N, m < n PROVE order[m] < order[n]
  <2>1. order[m] \in kept /\ order[n] \in kept
    BY <1>6
  <2>2. order[m] # order[n] /\ order[m] <= order[n]
    BY <1>4, <1>6, <1>9, <2>1
  <2> QED
    BY <1>3, <2>1, <2>2
<1>10. order \in [1..N -> 1..Len(s)]
  BY <1>6, <1>8
<1>11. \A n \in 1..N : s[order[n]].card # c
  BY <1>6, <1>8
<1>12. \A i \in 1..Len(s) : s[i].card # c => \E n \in 1..N : order[n] = i
  BY <1>6, <1>8
<1> QED
  BY <1>6, <1>7, <1>9, <1>10, <1>11, <1>12

LEMMA OthersAreASequence ==
    ASSUME NEW s \in Seq(Item), NEW c
    PROVE  /\ Others(s, c) \in Seq(Item)
           /\ Range(Others(s, c)) \subseteq Range(s)
           /\ \A item \in Range(Others(s, c)) : item.card # c
<1>1. PICK N \in Nat : \E order \in [1..N -> 1..Len(s)] :
              /\ Others(s, c) = [n \in 1..N |-> s[order[n]]]
              /\ \A n \in 1..N : s[order[n]].card # c
              /\ \A i \in 1..Len(s) : s[i].card # c => \E n \in 1..N : order[n] = i
              /\ \A m, n \in 1..N : m < n => order[m] < order[n]
  BY OthersPlaces
<1>2. PICK order \in [1..N -> 1..Len(s)] :
              /\ Others(s, c) = [n \in 1..N |-> s[order[n]]]
              /\ \A n \in 1..N : s[order[n]].card # c
  BY <1>1
<1>3. DOMAIN s = 1..Len(s) /\ Len(s) \in Nat
  OBVIOUS
<1>4. \A n \in 1..N : s[order[n]] \in Item /\ s[order[n]] \in Range(s)
  BY <1>3 DEF Range
<1>5. Others(s, c) \in [1..N -> Item]
  BY <1>2, <1>4
<1>6. Others(s, c) \in Seq(Item) /\ DOMAIN Others(s, c) = 1..N
  BY <1>5
<1> QED
  BY <1>2, <1>4, <1>6 DEF Range
-----------------------------------------------------------------------------
(* Trees *)

LEMMA HoldsItem ==
    ASSUME NEW tree \in Tree, NEW c
    PROVE  /\ \A item \in ItemsOf(tree, c) : item \in Item /\ item.card = c
           /\ \A k \in Columns : \A item \in Range(tree[k]) : item \in Item
<1>1. \A k \in Columns : tree[k] \in Seq(Item)
  BY DEF Tree
<1>2. \A k \in Columns : Range(tree[k]) \in SUBSET Item
  BY <1>1, RangeOfSeq
<1> QED
  BY <1>2 DEF ItemsOf

(* A tree each of whose columns holds no more than the other's. *)
LEMMA NoMoreItems ==
    ASSUME NEW tree, NEW fewer, NEW c,
           \A k \in Columns : \A item \in Range(fewer[k]) :
              item.card = c => \E j \in Columns : item \in Range(tree[j])
    PROVE  ItemsOf(fewer, c) \subseteq ItemsOf(tree, c)
  BY DEF ItemsOf

LEMMA WithoutIsATree ==
    ASSUME NEW tree \in Tree, NEW c
    PROVE  /\ Without(tree, c) \in Tree
           /\ \A k \in Columns : /\ Range(Without(tree, c)[k]) \subseteq Range(tree[k])
                                 /\ \A item \in Range(Without(tree, c)[k]) :
                                       item.card # c
           /\ \A d : ItemsOf(Without(tree, c), d) \subseteq ItemsOf(tree, d)
<1>1. \A k \in Columns : tree[k] \in Seq(Item)
  BY DEF Tree
<1>2. \A k \in Columns : /\ Without(tree, c)[k] = Others(tree[k], c)
                         /\ Others(tree[k], c) \in Seq(Item)
                         /\ Range(Others(tree[k], c)) \subseteq Range(tree[k])
                         /\ \A item \in Range(Others(tree[k], c)) : item.card # c
  BY <1>1, OthersAreASequence DEF Without
<1>3. Without(tree, c) \in Tree
  BY <1>2 DEF Without, Tree
<1>4. \A k \in Columns : /\ Range(Without(tree, c)[k]) \subseteq Range(tree[k])
                         /\ \A item \in Range(Without(tree, c)[k]) : item.card # c
  BY <1>2
<1>5. \A d : ItemsOf(Without(tree, c), d) \subseteq ItemsOf(tree, d)
  BY <1>4 DEF ItemsOf
<1> QED
  BY <1>3, <1>4, <1>5

LEMMA AppendedRange ==
    ASSUME NEW s \in Seq(Item), NEW item \in Item
    PROVE  /\ Append(s, item) \in Seq(Item)
           /\ Range(Append(s, item)) \subseteq Range(s) \cup {item}
<1>1. /\ DOMAIN s = 1..Len(s) /\ Len(s) \in Nat
      /\ Append(s, item) \in Seq(Item)
      /\ DOMAIN Append(s, item) = 1..(Len(s) + 1)
      /\ \A i \in 1..Len(s) : Append(s, item)[i] = s[i]
      /\ Append(s, item)[Len(s) + 1] = item
  OBVIOUS
<1>2. \A i \in 1..(Len(s) + 1) : Append(s, item)[i] \in Range(s) \cup {item}
  <2>1. \A i \in 1..(Len(s) + 1) : i \in 1..Len(s) \/ i = Len(s) + 1
    BY <1>1
  <2> QED
    BY <1>1, <2>1 DEF Range
<1> QED
  BY <1>1, <1>2 DEF Range

LEMMA InsertedRange ==
    ASSUME NEW s \in Seq(Item), NEW item \in Item, NEW i \in 1..Len(s) + 1
    PROVE  /\ InsertAt(s, i, item) \in Seq(Item)
           /\ Range(InsertAt(s, i, item)) \subseteq Range(s) \cup {item}
<1> DEFINE a == SubSeq(s, 1, i - 1)
           b == SubSeq(s, i, Len(s))
<1>1. Len(s) \in Nat /\ i \in Nat /\ i # 0 /\ i <= Len(s) + 1 /\ DOMAIN s = 1..Len(s)
  OBVIOUS
<1>2. /\ a \in Seq(Item) /\ Len(a) = i - 1 /\ \A j \in 1..(i - 1) : a[j] = s[j]
      /\ b \in Seq(Item) /\ Len(b) = Len(s) - (i - 1)
      /\ \A j \in 1..Len(b) : b[j] = s[(i - 1) + j]
  BY <1>1
<1>3. InsertAt(s, i, item) = a \o <<item>> \o b
  BY DEF InsertAt
<1> HIDE DEF a, b
<1>4. Range(a) \subseteq Range(s) /\ Range(b) \subseteq Range(s)
  <2>1. DOMAIN a = 1..(i - 1) /\ DOMAIN b = 1..Len(b)
    BY <1>1, <1>2
  <2>2. \A j \in 1..(i - 1) : j \in 1..Len(s)
    BY <1>1
  <2>3. \A j \in 1..Len(b) : (i - 1) + j \in 1..Len(s)
    BY <1>1, <1>2
  <2> QED
    BY <1>1, <1>2, <2>1, <2>2, <2>3 DEF Range
<1> DEFINE o == <<item>>
           ao == a \o o
           all == ao \o b
<1>5. o \in Seq(Item) /\ Range(o) = {item}
  BY DEF Range
<1> HIDE DEF o
<1>6. ao \in Seq(Item) /\ Range(ao) = Range(a) \cup Range(o)
  BY <1>2, <1>5, RangeConcatenation
<1> HIDE DEF ao
<1>7. all \in Seq(Item) /\ Range(all) = Range(ao) \cup Range(b)
  BY <1>2, <1>6, RangeConcatenation
<1>8. InsertAt(s, i, item) = all
  BY <1>3 DEF ao, o
<1> HIDE DEF all
<1> QED
  BY <1>4, <1>5, <1>6, <1>7, <1>8

(* A frame that may be patched in. *)
LEMMA MovedIsATree ==
    ASSUME NEW tree \in Tree, NEW e, e.card \in Cards, e.column \in Columns,
           e.key \in Keys, e.n \in 0..MaxCommits
    PROVE  /\ ApplyCardMoved(tree, e) \in Tree
           /\ \A d : ItemsOf(tree, d) = {} => ItemsOf(ApplyCardMoved(tree, e), d) = {}
<1> DEFINE item == [card |-> e.card, key |-> e.key, n |-> e.n]
           w == Without(tree, e.card)
           s == Append(w[e.column], item)
           t == [w EXCEPT ![e.column] = Sorted(s)]
<1>1. item \in Item /\ item.card = e.card
  BY DEF Item
<1>2. w \in Tree /\ \A k \in Columns : Range(w[k]) \subseteq Range(tree[k])
  BY WithoutIsATree
<1>3. ApplyCardMoved(tree, e) = IF ItemsOf(tree, e.card) = {} THEN tree ELSE t
  BY DEF ApplyCardMoved
<1> HIDE DEF w, item
<1>4. w[e.column] \in Seq(Item)
  BY <1>2 DEF Tree
<1>5. s \in Seq(Item) /\ Range(s) \subseteq Range(w[e.column]) \cup {item}
  BY <1>1, <1>4, AppendedRange
<1> HIDE DEF s
<1>6. Sorted(s) \in Seq(Item) /\ Range(Sorted(s)) \subseteq Range(s)
  BY <1>5, SortedIsASequence
<1>7. t \in Tree
  BY <1>2, <1>6 DEF Tree
<1>8. \A k \in Columns : t[k] = IF k = e.column THEN Sorted(s) ELSE w[k]
  BY <1>2 DEF Tree
<1> HIDE DEF t
<1>9. ASSUME NEW d, ItemsOf(tree, d) = {}, ItemsOf(tree, e.card) # {}
      PROVE  ItemsOf(t, d) = {}
  <2>1. d # e.card
    BY <1>9
  <2>2. ASSUME NEW k \in Columns, NEW x \in Range(t[k]), x.card = d
        PROVE  \E j \in Columns : x \in Range(tree[j])
    <3>1. CASE k = e.column
      <4>1. x \in Range(s)
        BY <1>6, <1>8, <2>2, <3>1
      <4>2. x # item
        BY <1>1, <2>1, <2>2
      <4> QED
        BY <1>2, <1>5, <4>1, <4>2
    <3>2. CASE k # e.column
      BY <1>2, <1>8, <2>2, <3>2
    <3> QED
      BY <3>1, <3>2
  <2>3. ItemsOf(t, d) \subseteq ItemsOf(tree, d)
    BY <2>2, NoMoreItems
  <2> QED
    BY <1>9, <2>3
<1> QED
  BY <1>3, <1>7, <1>9

LEMMA DraggedIsATree ==
    ASSUME NEW tree \in Tree, NEW c, NEW k \in Columns, NEW index \in Nat \ {0},
           ItemsOf(tree, c) # {}
    PROVE  /\ MoveCardInTree(tree, c, k, index) \in Tree
           /\ \A d : ItemsOf(tree, d) = {} =>
                 ItemsOf(MoveCardInTree(tree, c, k, index), d) = {}
<1> DEFINE item == CHOOSE item \in ItemsOf(tree, c) : TRUE
           w == Without(tree, c)
           i == IF index > Len(w[k]) + 1 THEN Len(w[k]) + 1 ELSE index
           s == InsertAt(w[k], i, item)
           t == [w EXCEPT ![k] = s]
<1>1. item \in ItemsOf(tree, c)
  OBVIOUS
<1>2. item \in Item /\ item.card = c
  BY <1>1, HoldsItem
<1>3. w \in Tree /\ \A j \in Columns : Range(w[j]) \subseteq Range(tree[j])
  BY WithoutIsATree
<1>4. MoveCardInTree(tree, c, k, index) = t
  <2>1. w \in [Columns -> Seq(Item)]
    BY <1>3 DEF Tree
  <2> HIDE DEF w, item
  <2>2. t = [w EXCEPT ![k] = InsertAt(@, IF index > Len(@) + 1 THEN Len(@) + 1
                                         ELSE index, item)]
    BY <2>1
  <2> QED
    BY <2>2 DEF MoveCardInTree, w, item
<1> HIDE DEF w, item
<1>5. w[k] \in Seq(Item)
  BY <1>3 DEF Tree
<1>6. i \in 1..Len(w[k]) + 1
  <2>1. Len(w[k]) \in Nat
    BY <1>5
  <2> QED
    BY <2>1
<1> HIDE DEF i
<1>7. s \in Seq(Item) /\ Range(s) \subseteq Range(w[k]) \cup {item}
  BY <1>2, <1>5, <1>6, InsertedRange
<1> HIDE DEF s
<1>8. t \in Tree /\ \A j \in Columns : t[j] = IF j = k THEN s ELSE w[j]
  BY <1>3, <1>7 DEF Tree
<1> HIDE DEF t
<1>9. ASSUME NEW d, ItemsOf(tree, d) = {}
      PROVE  ItemsOf(t, d) = {}
  <2>1. d # c
    BY <1>9
  <2>2. ASSUME NEW j \in Columns, NEW x \in Range(t[j]), x.card = d
        PROVE  \E l \in Columns : x \in Range(tree[l])
    <3>1. CASE j = k
      BY <1>2, <1>3, <1>7, <1>8, <2>1, <2>2, <3>1
    <3>2. CASE j # k
      BY <1>3, <1>8, <2>2, <3>2
    <3> QED
      BY <3>1, <3>2
  <2>3. ItemsOf(t, d) \subseteq ItemsOf(tree, d)
    BY <2>2, NoMoreItems
  <2> QED
    BY <1>9, <2>3
<1> QED
  BY <1>4, <1>8, <1>9

(* What the server answers has the cards it has rows of. *)
LEMMA ServerTreeIsATree ==
    ASSUME rows \in [Cards -> Row \cup {Nothing}]
    PROVE  /\ ServerTree \in Tree
           /\ \A c \in Cards : rows[c] = Nothing => ItemsOf(ServerTree, c) = {}
<1> DEFINE items(k) == {[card |-> c, key |-> rows[c].key, n |-> rows[c].n] :
                           c \in InColumn(k)}
<1>1. ASSUME NEW k \in Columns
      PROVE  /\ Sorted(SetToSeq(items(k))) \in Seq(Item)
             /\ Range(Sorted(SetToSeq(items(k)))) \subseteq items(k)
  <2>1. items(k) \in SUBSET Item
    BY DEF InColumn, Item, Row
  <2>2. IsFiniteSet(items(k))
    <3> DEFINE f == [c \in InColumn(k) |->
                       [card |-> c, key |-> rows[c].key, n |-> rows[c].n]]
    <3>1. IsFiniteSet(InColumn(k))
      <4>1. InColumn(k) \in SUBSET Cards
        BY DEF InColumn
      <4> QED
        BY <4>1, FS_Subset, SyncAssumption
    <3>2. f \in Surjection(InColumn(k), items(k))
      <4>1. f \in [InColumn(k) -> items(k)]
        OBVIOUS
      <4>2. \A t \in items(k) : \E c \in InColumn(k) : f[c] = t
        OBVIOUS
      <4> QED
        BY <4>1, <4>2 DEF Surjection
    <3> HIDE DEF f
    <3> QED
      <4> HIDE DEF items
      <4> QED
        BY <3>1, <3>2, FS_Surjection
  <2> DEFINE N == Cardinality(items(k))
             s == SetToSeq(items(k))
  <2>3. N \in Nat /\ s \in [1..N -> items(k)]
    <3> HIDE DEF items
    <3>1. N \in Nat /\ ExistsBijection(1..N, items(k))
      BY <2>2, FS_CardinalityType
    <3>2. \E f \in [1..N -> items(k)] : IsInjective(f)
      BY <3>1 DEF ExistsBijection, Bijection, Injection
    <3> QED
      BY <3>1, <3>2 DEF SetToSeq
  <2> HIDE DEF N, s, items
  <2>4. s \in Seq(Item) /\ Range(s) \subseteq items(k)
    BY <2>1, <2>3 DEF Range
  <2> QED
    BY <2>4, SortedIsASequence DEF s
<1>2. ServerTree = [k \in Columns |-> Sorted(SetToSeq(items(k)))]
  BY DEF ServerTree
<1>3. ServerTree \in Tree
  <2> HIDE DEF items
  <2> QED
    BY <1>1, <1>2 DEF Tree
<1>4. ASSUME NEW c \in Cards, rows[c] = Nothing, NEW item \in ItemsOf(ServerTree, c)
      PROVE  FALSE
  <2>1. PICK k \in Columns : item \in Range(ServerTree[k])
    BY <1>4 DEF ItemsOf
  <2>2. item.card = c
    BY <1>4 DEF ItemsOf
  <2>3. item \in items(k)
    <3> HIDE DEF items
    <3> QED
      BY <1>1, <1>2, <2>1
  <2>4. item.card \in InColumn(k)
    BY <2>3
  <2> QED
    BY <1>4, <2>2, <2>4 DEF InColumn
<1> QED
  BY <1>3, <1>4
-----------------------------------------------------------------------------
(* The invariant *)

(* Only a fault ends a connection, so there are few of them; nothing is on *)
(* its way to a socket that is not open.                                   *)
Joined ==
    /\ joins <= (IF member THEN faults + 1 ELSE faults)
    /\ link \in {"connecting", "waiting"} => ~member /\ inbox = <<>>

(* A mutation under way says what it is about. *)
Addressed ==
    \A m \in Mutations :
        /\ mutation[m].type # "none" => mutation[m].card \in Cards
        /\ mutation[m].type \in {"moved", "created"} => mutation[m].column \in Columns

Frames == Range(pending) \cup Range(inbox)

Placed(e) == e.type \in {"created", "moved"} => e.column \in Columns /\ e.key \in Keys

WellFormed == \A e \in Frames : Placed(e)

Existing == \A c \in Cards : rows[c] # Nothing => c \in known

(* A card is created once: deleted, it has no row any more. *)
Deleted(c) == c \in known /\ rows[c] = Nothing

(* An answer under way that still has the card is older than commit n. *)
ReadBefore(c, n) ==
    fetch.state = "read" /\ ItemsOf(fetch.tree, c) # {} => fetch.n < n

DeletesAreFinal ==
    /\ fetch.n <= commits
    /\ \A e \in Frames : e.type = "deleted" =>
          Deleted(e.card) /\ ReadBefore(e.card, e.n)
    /\ \A c \in buried : Deleted(c) /\ ReadBefore(c, patched)

(* TypeOK by the parts that change together. *)
FetchType == [state : {"idle", "asked", "read"}, tree : Tree \cup {NoData},
              n : 0..MaxCommits, since : SUBSET Causes]
RowsType == rows \in [Cards -> Row \cup {Nothing}] /\ commits \in 0..MaxCommits
            /\ known \subseteq Cards
FramesType == pending \in Seq(Event) /\ inbox \in Seq(Event \cup Welcome)
LinkType == /\ member \in BOOLEAN /\ joins \in 0..MaxFaults + 1
            /\ faults \in 0..MaxFaults
            /\ link \in {"connecting", "registered", "live", "waiting"}
            /\ reconnected \in BOOLEAN /\ oldChannel \in BOOLEAN
            /\ connId \in Ids /\ stamp \in Ids
QueryType == /\ cache \in Tree \cup {NoData} /\ fetch \in FetchType
             /\ patched \in 0..MaxCommits
             /\ buried \subseteq Cards /\ causes \subseteq Causes
MutationType == mutation \in [Mutations -> Mutation]

SyncInv ==
    /\ RowsType /\ FramesType /\ LinkType /\ QueryType /\ MutationType
    /\ Joined /\ Addressed /\ WellFormed /\ Existing /\ DeletesAreFinal

LEMMA TypesTogether ==
    RowsType /\ FramesType /\ LinkType /\ QueryType /\ MutationType => TypeOK
  BY DEF TypeOK, RowsType, FramesType, LinkType, QueryType, MutationType, FetchType

LEMMA Assumed ==
    /\ MaxKey \in Nat /\ MaxCommits \in Nat /\ MaxFaults \in Nat
    /\ Nothing \notin Cards /\ Nothing \notin Columns /\ Nothing \notin Nat
  BY SyncAssumption

LEMMA RowsAreSomething ==
    ASSUME NEW k \in Columns, NEW key \in Nat, NEW n \in Nat
    PROVE  [column |-> k, key |-> key, n |-> n] # Nothing
<1>1. [column |-> k, key |-> key, n |-> n] \in [column : Columns, key : Nat, n : Nat]
  OBVIOUS
<1> QED
  BY <1>1, SyncAssumption

LEMMA MoreRoom ==
    ASSUME NEW j \in Nat, NEW f \in Nat, NEW g \in Nat, f <= g
    PROVE  (j <= f => j <= g) /\ (j <= f + 1 => j <= g + 1)
  OBVIOUS

LEMMA FrameTypes ==
    ASSUME NEW e \in Event
    PROVE  /\ e.type \in {"created", "moved", "deleted"} /\ e.card \in Cards
           /\ e.n \in 1..MaxCommits /\ e.n \in 0..MaxCommits /\ e.by \in Ids
           /\ e.type # "welcome"
  BY Assumed DEF Event

LEMMA InboxTypes ==
    ASSUME NEW e \in Event \cup Welcome
    PROVE  /\ e.type # "welcome" => e \in Event
           /\ e.type = "welcome" => e.id \in Ids
  BY DEF Event, Welcome, Ids

(* Parts of a queue hold nothing new. *)
LEMMA QueueParts ==
    ASSUME NEW S, NEW s \in Seq(S)
    PROVE  /\ s # <<>> => /\ Tail(s) \in Seq(S) /\ Range(Tail(s)) \subseteq Range(s)
                          /\ Head(s) \in S /\ Head(s) \in Range(s)
           /\ \A n \in 0..Len(s) : /\ SubSeq(s, 1, n) \in Seq(S)
                                   /\ Range(SubSeq(s, 1, n)) \subseteq Range(s)
           /\ \A i \in DOMAIN s : /\ RemoveAt(s, i) \in Seq(S)
                                  /\ Range(RemoveAt(s, i)) \subseteq Range(s)
                                  /\ s[i] \in S /\ s[i] \in Range(s)
           /\ \A x \in S : /\ Append(s, x) \in Seq(S)
                           /\ Range(Append(s, x)) \subseteq Range(s) \cup {x}
<1>1. Len(s) \in Nat /\ DOMAIN s = 1..Len(s) /\ \A i \in DOMAIN s : s[i] \in S
  OBVIOUS
<1>2. ASSUME s # <<>>
      PROVE  /\ Tail(s) \in Seq(S) /\ Range(Tail(s)) \subseteq Range(s)
             /\ Head(s) \in S /\ Head(s) \in Range(s)
  <2>1. /\ Tail(s) \in Seq(S) /\ DOMAIN Tail(s) = 1..(Len(s) - 1)
        /\ \A i \in 1..(Len(s) - 1) : Tail(s)[i] = s[i + 1]
        /\ Len(s) >= 1 /\ Head(s) = s[1]
    BY <1>2
  <2>2. \A i \in 1..(Len(s) - 1) : i + 1 \in DOMAIN s
    BY <1>1, <2>1
  <2>3. 1 \in DOMAIN s
    BY <1>1, <2>1
  <2> QED
    BY <1>1, <2>1, <2>2, <2>3 DEF Range
<1>3. ASSUME NEW n \in 0..Len(s)
      PROVE  /\ SubSeq(s, 1, n) \in Seq(S)
             /\ Range(SubSeq(s, 1, n)) \subseteq Range(s)
  <2> DEFINE t == SubSeq(s, 1, n)
  <2>1. t \in Seq(S) /\ DOMAIN t = 1..n /\ \A i \in 1..n : t[i] = s[i]
    BY <1>1
  <2> HIDE DEF t
  <2>2. \A i \in 1..n : i \in DOMAIN s
    BY <1>1
  <2>3. t \in Seq(S) /\ Range(t) \subseteq Range(s)
    BY <2>1, <2>2 DEF Range
  <2> QED
    BY <2>3 DEF t
<1>4. ASSUME NEW i \in DOMAIN s
      PROVE  /\ RemoveAt(s, i) \in Seq(S)
             /\ Range(RemoveAt(s, i)) \subseteq Range(s)
             /\ s[i] \in S /\ s[i] \in Range(s)
  <2> DEFINE a == SubSeq(s, 1, i - 1)
             b == SubSeq(s, i + 1, Len(s))
  <2>1. /\ a \in Seq(S) /\ DOMAIN a = 1..(i - 1)
        /\ \A j \in 1..(i - 1) : a[j] = s[j]
        /\ b \in Seq(S) /\ DOMAIN b = 1..(Len(s) - i)
        /\ \A j \in 1..(Len(s) - i) : b[j] = s[i + j]
    <3>1. Len(s) \in Nat /\ i \in 1..Len(s)
      BY <1>1
    <3>2. a \in Seq(S) /\ Len(a) = i - 1
      BY <3>1
    <3>3. \A j \in 1..(i - 1) : a[j] = s[j]
      BY <3>1
    <3>4. b \in Seq(S) /\ Len(b) = Len(s) - i
      BY <3>1
    <3>5. \A j \in 1..(Len(s) - i) : b[j] = s[i + j]
      BY <3>1
    <3> HIDE DEF a, b
    <3> QED
      BY <3>2, <3>3, <3>4, <3>5
  <2>2. RemoveAt(s, i) = a \o b
    BY DEF RemoveAt
  <2> HIDE DEF a, b
  <2>3. /\ \A j \in 1..(i - 1) : j \in DOMAIN s
        /\ \A j \in 1..(Len(s) - i) : i + j \in DOMAIN s
    BY <1>1
  <2>4. Range(a) \subseteq Range(s) /\ Range(b) \subseteq Range(s)
    BY <2>1, <2>3 DEF Range
  <2>5. a \o b \in Seq(S) /\ Range(a \o b) = Range(a) \cup Range(b)
    BY <2>1, RangeConcatenation
  <2> QED
    BY <1>1, <2>2, <2>4, <2>5 DEF Range
<1>5. ASSUME NEW x \in S
      PROVE  /\ Append(s, x) \in Seq(S)
             /\ Range(Append(s, x)) \subseteq Range(s) \cup {x}
  <2> DEFINE t == Append(s, x)
  <2>1. /\ t \in Seq(S) /\ DOMAIN t = 1..(Len(s) + 1)
        /\ \A i \in 1..Len(s) : t[i] = s[i]
        /\ t[Len(s) + 1] = x
    BY <1>1
  <2> HIDE DEF t
  <2>2. \A i \in 1..(Len(s) + 1) : i \in DOMAIN s \/ i = Len(s) + 1
    BY <1>1
  <2>3. t \in Seq(S) /\ Range(t) \subseteq Range(s) \cup {x}
    BY <1>1, <2>1, <2>2 DEF Range
  <2> QED
    BY <2>3 DEF t
<1> QED
  BY <1>2, <1>3, <1>4, <1>5
-----------------------------------------------------------------------------
(* The query's request *)

(* A read answer is the one that was read before, or there is none. *)
FetchKept ==
    /\ fetch' \in FetchType
    /\ fetch'.n \in {0, fetch.n}
    /\ fetch'.state = "read" =>
          fetch.state = "read" /\ fetch'.tree = fetch.tree /\ fetch'.n = fetch.n

LEMMA FetchFields ==
    ASSUME QueryType
    PROVE  /\ fetch = [state |-> fetch.state, tree |-> fetch.tree, n |-> fetch.n,
                       since |-> fetch.since]
           /\ fetch.state \in {"idle", "asked", "read"}
           /\ fetch.tree \in Tree \cup {NoData}
           /\ fetch.n \in 0..MaxCommits /\ fetch.n \in Nat
           /\ fetch.since \in SUBSET Causes
  BY Assumed DEF QueryType, FetchType

LEMMA FetchRestarts ==
    ASSUME QueryType, fetch' \in {Idle, Asked} \/ fetch' = fetch
    PROVE  FetchKept
<1>1. Idle \in FetchType /\ Idle.n = 0 /\ Idle.state # "read"
  BY Assumed DEF Idle, FetchType
<1>2. /\ Asked = [state |-> "asked", tree |-> NoData, n |-> 0, since |-> {}]
      /\ Asked \in FetchType /\ Asked.n = 0 /\ Asked.state # "read"
  BY Assumed DEF Asked, Idle, FetchType
<1> QED
  BY <1>1, <1>2 DEF FetchKept, QueryType

LEMMA FetchBlamed ==
    ASSUME QueryType, NEW since \in SUBSET Causes,
           fetch' = [fetch EXCEPT !.since = since]
    PROVE  FetchKept /\ fetch'.state = fetch.state
<1>1. fetch' = [state |-> fetch.state, tree |-> fetch.tree, n |-> fetch.n,
                since |-> since]
  BY FetchFields
<1> QED
  BY <1>1, FetchFields DEF FetchKept, FetchType

LEMMA InvalidatedKeeps ==
    ASSUME QueryType, fetch' = Invalidated
    PROVE  FetchKept
<1>1. CASE cache = NoData /\ fetch.state # "idle"
  <2> DEFINE since == IF fetch.state = "read" /\ commits > fetch.n
                      THEN fetch.since \cup {"early"} ELSE fetch.since
  <2>1. since \in SUBSET Causes
    BY FetchFields DEF Causes
  <2>2. fetch' = [fetch EXCEPT !.since = since]
    BY <1>1, FetchFields DEF Invalidated
  <2> HIDE DEF since
  <2> QED
    BY <2>1, <2>2, FetchBlamed
<1>2. CASE ~(cache = NoData /\ fetch.state # "idle")
  BY <1>2, FetchRestarts DEF Invalidated
<1> QED
  BY <1>1, <1>2

LEMMA BlameKeeps ==
    ASSUME QueryType, NEW cause \in SUBSET Causes, Blame(cause)
    PROVE  FetchKept /\ causes' \subseteq Causes
<1> DEFINE since == IF fetch.state = "read" THEN fetch.since \cup cause
                    ELSE fetch.since
<1>1. since \in SUBSET Causes /\ causes' \subseteq Causes
  BY FetchFields DEF Blame, QueryType
<1>2. fetch' = [fetch EXCEPT !.since = since]
  BY FetchFields DEF Blame
<1> HIDE DEF since
<1> QED
  BY <1>1, <1>2, FetchBlamed
-----------------------------------------------------------------------------
(* What each group of variables keeps of the invariant *)

LEMMA RowsKept ==
    ASSUME SyncInv, UNCHANGED <<rows, commits, known>>
    PROVE  /\ RowsType' /\ Existing'
           /\ commits' = commits /\ \A c : Deleted(c)' <=> Deleted(c)
  BY DEF SyncInv, RowsType, Existing, Deleted

LEMMA LinkKept ==
    ASSUME SyncInv, UNCHANGED <<member, joins, link, reconnected, oldChannel, connId,
                                stamp>>,
           faults' = faults \/ Fault,
           inbox = <<>> => inbox' = <<>> \/ member
    PROVE  LinkType' /\ Joined'
<1>1. LinkType /\ Joined
  BY DEF SyncInv
<1>2. faults' \in 0..MaxFaults /\ faults' \in Nat /\ faults \in Nat /\ faults <= faults'
      /\ joins \in Nat
  BY <1>1, Assumed DEF LinkType, Fault
<1>3. LinkType'
  BY <1>1, <1>2 DEF LinkType
<1>4. joins' <= (IF member' THEN faults' + 1 ELSE faults')
  <2>1. joins <= (IF member THEN faults + 1 ELSE faults)
    BY <1>1 DEF Joined
  <2>2. CASE member
    <3>1. joins <= faults + 1
      BY <2>1, <2>2
    <3>2. joins' <= faults' + 1
      BY <1>2, <3>1, MoreRoom
    <3> QED
      BY <2>2, <3>2
  <2>3. CASE ~member
    <3>1. joins <= faults
      BY <2>1, <2>3
    <3>2. joins' <= faults'
      BY <1>2, <3>1
    <3> QED
      BY <2>3, <3>2
  <2> QED
    BY <2>2, <2>3
<1>5. link' \in {"connecting", "waiting"} => ~member' /\ inbox' = <<>>
  BY <1>1 DEF Joined
<1> QED
  BY <1>3, <1>4, <1>5 DEF Joined

LEMMA MutationKept ==
    ASSUME SyncInv, UNCHANGED mutation
    PROVE  MutationType' /\ Addressed'
  BY DEF SyncInv, MutationType, Addressed

(* Fewer frames. *)
LEMMA FramesKept ==
    ASSUME SyncInv, Range(pending') \subseteq Range(pending),
           Range(inbox') \subseteq Frames \cup Welcome
    PROVE  /\ WellFormed'
           /\ \A e \in Frames' : e.type = "deleted" => e \in Frames
<1>1. \A e \in Welcome : e.type = "welcome"
  BY DEF Welcome
<1>2. \A e \in Frames' : e \in Frames \/ e.type = "welcome"
  BY <1>1 DEF Frames
<1>3. ASSUME NEW e \in Frames' PROVE Placed(e)
  <2>1. CASE e \in Frames
    BY <2>1 DEF SyncInv, WellFormed
  <2>2. CASE e.type = "welcome"
    BY <2>2 DEF Placed
  <2> QED
    BY <1>2, <2>1, <2>2
<1>4. WellFormed'
  BY <1>3 DEF WellFormed, Placed
<1> QED
  BY <1>2, <1>4

LEMMA DeletesKept ==
    ASSUME SyncInv, FetchKept, QueryType',
           UNCHANGED <<rows, commits, known, buried>>, patched <= patched',
           \A e \in Frames' : e.type = "deleted" => e \in Frames
    PROVE  DeletesAreFinal'
<1> USE DEF SyncInv, DeletesAreFinal
<1>1. \A c : Deleted(c)' <=> Deleted(c)
  BY DEF Deleted
<1>2. fetch'.n <= commits'
  BY Assumed DEF FetchKept, RowsType
<1>3. ASSUME NEW c, NEW n, ReadBefore(c, n) PROVE ReadBefore(c, n)'
  BY <1>3 DEF ReadBefore, FetchKept
<1>4. ASSUME NEW c, ReadBefore(c, patched) PROVE ReadBefore(c, patched)'
  <2>1. fetch.n \in Nat /\ patched \in Nat /\ patched' \in Nat
    BY Assumed, FetchFields DEF QueryType
  <2> QED
    BY <1>4, <2>1 DEF ReadBefore, FetchKept
<1>5. ASSUME NEW e \in Frames', e.type = "deleted"
      PROVE  Deleted(e.card)' /\ ReadBefore(e.card, e.n)'
  <2>1. e \in Frames /\ Deleted(e.card) /\ ReadBefore(e.card, e.n)
    BY <1>5
  <2> QED
    BY <1>1, <1>3, <2>1 DEF ReadBefore
<1>6. ASSUME NEW c \in buried' PROVE Deleted(c)' /\ ReadBefore(c, patched)'
  <2>1. Deleted(c) /\ ReadBefore(c, patched)
    BY <1>6
  <2> QED
    BY <1>1, <1>4, <2>1
<1> QED
  BY <1>2, <1>5, <1>6

(* Whatever goes on at the viewer's, without a commit. *)
LEMMA QueryStep ==
    ASSUME SyncInv, FetchKept, UNCHANGED <<rows, commits, known, pending, inbox>>,
           UNCHANGED <<member, joins, link, reconnected, oldChannel, connId, stamp>>,
           UNCHANGED buried, patched' = patched,
           cache' \in Tree \cup {NoData}, causes' \subseteq Causes,
           faults' = faults \/ Fault, MutationType', Addressed'
    PROVE  SyncInv'
<1>1. QueryType'
  BY DEF SyncInv, QueryType, FetchKept
<1>2. FramesType'
  BY DEF SyncInv, FramesType
<1>3. WellFormed' /\ \A e \in Frames' : e.type = "deleted" => e \in Frames
  <2>1. Range(pending') \subseteq Range(pending) /\ Range(inbox') \subseteq Frames
    BY DEF Frames
  <2> QED
    BY <2>1, FramesKept
<1>4. patched <= patched'
  BY Assumed DEF SyncInv, QueryType
<1>5. DeletesAreFinal'
  BY <1>1, <1>3, <1>4, DeletesKept
<1> QED
  BY <1>1, <1>2, <1>3, <1>5, RowsKept, LinkKept DEF SyncInv
-----------------------------------------------------------------------------
(* The query *)

LEMMA ReadKeeps ==
    ASSUME SyncInv, Read, UNCHANGED faults
    PROVE  SyncInv'
<1> USE DEF Read, server, channel
<1>1. fetch' = [state |-> "read", tree |-> ServerTree, n |-> commits,
                since |-> fetch.since]
  BY FetchFields DEF SyncInv
<1>2. /\ ServerTree \in Tree
      /\ \A c \in Cards : rows[c] = Nothing => ItemsOf(ServerTree, c) = {}
  BY ServerTreeIsATree DEF SyncInv, RowsType
<1>3. QueryType'
  BY <1>1, <1>2, FetchFields DEF SyncInv, QueryType, RowsType, FetchType
<1>4. FramesType' /\ WellFormed'
  BY DEF SyncInv, FramesType, WellFormed, Frames
<1>5. DeletesAreFinal'
  <2>1. fetch'.n <= commits'
    BY <1>1, Assumed DEF SyncInv, RowsType
  <2>2. ASSUME NEW c \in Cards, NEW n, Deleted(c) PROVE Deleted(c)' /\ ReadBefore(c, n)'
    BY <1>1, <1>2, <2>2 DEF Deleted, ReadBefore
  <2>3. ASSUME NEW e \in Frames', e.type = "deleted"
        PROVE  Deleted(e.card)' /\ ReadBefore(e.card, e.n)'
    <3>1. e \in Frames /\ Deleted(e.card)
      BY <2>3 DEF SyncInv, DeletesAreFinal, Frames
    <3>2. e.card \in Cards
      BY <3>1 DEF Deleted, SyncInv, RowsType
    <3> QED
      BY <2>2, <3>1, <3>2 DEF ReadBefore
  <2>4. ASSUME NEW c \in buried' PROVE Deleted(c)' /\ ReadBefore(c, patched)'
    <3>1. c \in Cards /\ Deleted(c)
      BY <2>4 DEF SyncInv, QueryType, DeletesAreFinal
    <3> QED
      BY <1>1, <1>2, <3>1 DEF Deleted, ReadBefore
  <2> QED
    BY <2>1, <2>3, <2>4 DEF DeletesAreFinal
<1> QED
  BY <1>3, <1>4, <1>5, RowsKept, LinkKept, MutationKept DEF SyncInv

(* The answer installed, none is under way. *)
LEMMA InstallKeeps ==
    ASSUME SyncInv, Install, UNCHANGED faults
    PROVE  SyncInv'
<1> USE DEF Install, server, channel
<1>1. FetchKept /\ Idle.state # "read" /\ Idle.n = 0
  BY FetchRestarts DEF SyncInv, Idle
<1>2. QueryType'
  <2>1. /\ cache' \in Tree \cup {NoData} /\ patched' \in 0..MaxCommits
        /\ causes' \subseteq Causes
    BY FetchFields DEF SyncInv, Causes
  <2> QED
    BY <1>1, <2>1 DEF SyncInv, QueryType, FetchKept
<1>3. FramesType' /\ WellFormed'
  BY DEF SyncInv, FramesType, WellFormed, Frames
<1>4. DeletesAreFinal'
  <2>1. \A c : Deleted(c)' <=> Deleted(c)
    BY DEF Deleted
  <2>2. \A c, n : ReadBefore(c, n)'
    BY <1>1 DEF ReadBefore
  <2>3. fetch'.n <= commits'
    BY <1>1, Assumed DEF SyncInv, RowsType
  <2>4. ASSUME NEW e \in Frames', e.type = "deleted"
        PROVE  Deleted(e.card)' /\ ReadBefore(e.card, e.n)'
    BY <1>1, <2>4 DEF SyncInv, DeletesAreFinal, Frames, Deleted, ReadBefore
  <2>5. ASSUME NEW c \in buried' PROVE Deleted(c)' /\ ReadBefore(c, patched)'
    BY <1>1, <2>1, <2>5 DEF SyncInv, DeletesAreFinal, ReadBefore
  <2> QED
    BY <2>3, <2>4, <2>5 DEF DeletesAreFinal
<1> QED
  BY <1>2, <1>3, <1>4, RowsKept, LinkKept, MutationKept DEF SyncInv

LEMMA FetchFailsKeeps ==
    ASSUME SyncInv, FetchFails
    PROVE  SyncInv'
<1> USE DEF FetchFails, server, channel
<1>1. FetchKept
  BY FetchRestarts DEF SyncInv
<1>2. cache' \in Tree \cup {NoData} /\ causes' \subseteq Causes
  BY DEF SyncInv, QueryType, Causes
<1> QED
  BY <1>1, <1>2, MutationKept, QueryStep
-----------------------------------------------------------------------------
(* Commits *)

Announced(e) ==
    /\ e \in Event /\ Placed(e) /\ e.n = commits + 1
    /\ commits' = commits + 1 /\ commits' \in 0..MaxCommits
    /\ pending' = Append(pending, e)

LEMMA AnnounceFacts ==
    ASSUME SyncInv, NEW type \in {"created", "moved", "deleted"}, NEW c \in Cards,
           NEW k \in Columns \cup {Nothing}, NEW key \in Keys \cup {Nothing},
           NEW by \in Ids, Announce(type, c, k, key, by),
           type # "deleted" => k \in Columns /\ key \in Keys
    PROVE  \E e : Announced(e) /\ e.type = type /\ e.card = c
<1> DEFINE e == [type |-> type, card |-> c, column |-> k, key |-> key,
                 n |-> commits + 1, by |-> by]
<1>1. commits' \in 0..MaxCommits /\ commits + 1 \in 1..MaxCommits
  BY Assumed DEF Announce, SyncInv, RowsType
<1>2. e \in Event
  BY <1>1 DEF Event
<1>3. Placed(e)
  BY DEF Placed
<1>4. pending' = Append(pending, e) /\ commits' = commits + 1
  BY DEF Announce
<1>5. Announced(e) /\ e.type = type /\ e.card = c
  BY <1>1, <1>2, <1>3, <1>4 DEF Announced
<1> QED
  BY <1>5

(* A commit announces itself, and what was deleted stays so. *)
Committed ==
    /\ \E e : Announced(e) /\ (e.type = "deleted" => Deleted(e.card)')
    /\ RowsType' /\ Existing'
    /\ \A c \in Cards : Deleted(c) => Deleted(c)'
    /\ \E cause \in SUBSET Causes : Blame(cause)

LEMMA PlaceFacts ==
    ASSUME SyncInv, NEW type \in {"created", "moved"}, NEW c \in Cards,
           NEW k \in Columns, NEW by \in Ids, NEW lost \in SUBSET Causes,
           Place(type, c, k, by, lost), ~Deleted(c), known' = known \cup {c}
    PROVE  Committed
<1>1. PICK p \in Placements(c, k) :
        /\ rows' = [d \in Cards |->
              IF d = c \/ (d \in DOMAIN p /\ d \in Rewritten(p, c))
              THEN [column |-> k, key |-> p[d], n |-> commits + 1] ELSE rows[d]]
        /\ Announce(type, c, k, p[c], by)
        /\ Blame(lost \cup (IF Rewritten(p, c) = {} THEN {} ELSE {"silent"}))
  BY DEF Place
<1>2. /\ DOMAIN p = (InColumn(k) \ {c}) \cup {c}
      /\ \A d \in DOMAIN p : p[d] \in Keys
  BY DEF Placements
<1>3. \A d \in DOMAIN p : d # c => d \in Cards /\ rows[d] # Nothing
  BY <1>2 DEF InColumn
<1>4. PICK e : Announced(e) /\ e.type = type /\ e.card = c
  BY <1>1, <1>2, AnnounceFacts
<1>5. commits' = commits + 1 /\ commits' \in 0..MaxCommits
  BY <1>4 DEF Announced
<1>6. rows' \in [Cards -> Row \cup {Nothing}]
  <2>1. ASSUME NEW d \in Cards, d \in DOMAIN p
        PROVE  [column |-> k, key |-> p[d], n |-> commits + 1] \in Row
    BY <1>2, <1>5, <2>1 DEF Row
  <2>2. c \in DOMAIN p
    BY <1>2
  <2> QED
    BY <1>1, <2>1, <2>2 DEF SyncInv, RowsType
<1>7. \A d \in Cards : d # c /\ rows[d] = Nothing => rows'[d] = Nothing
  BY <1>1, <1>3
<1>8. RowsType'
  BY <1>5, <1>6 DEF SyncInv, RowsType
<1>9. Existing'
  BY <1>7 DEF SyncInv, Existing
<1>10. \A d \in Cards : Deleted(d) => Deleted(d)'
  BY <1>7 DEF Deleted
<1>11. lost \cup (IF Rewritten(p, c) = {} THEN {} ELSE {"silent"}) \in SUBSET Causes
  BY DEF Causes
<1>12. \E cause \in SUBSET Causes : Blame(cause)
  BY <1>1, <1>11
<1>13. e.type # "deleted"
  BY <1>4
<1> QED
  BY <1>4, <1>8, <1>9, <1>10, <1>12, <1>13 DEF Committed

LEMMA MoveCommitted ==
    ASSUME SyncInv, NEW c \in Cards, NEW k \in Columns, NEW by \in Ids,
           NEW lost \in SUBSET Causes, CommitMove(c, k, by, lost)
    PROVE  Committed
<1>1. ~Deleted(c) /\ known' = known \cup {c} /\ Place("moved", c, k, by, lost)
  BY DEF CommitMove, Deleted, SyncInv, Existing
<1> QED
  BY <1>1, PlaceFacts

LEMMA CreateCommitted ==
    ASSUME SyncInv, NEW c \in Cards, NEW k \in Columns, NEW by \in Ids,
           NEW lost \in SUBSET Causes, CommitCreate(c, k, by, lost)
    PROVE  Committed
<1>1. ~Deleted(c) /\ known' = known \cup {c} /\ Place("created", c, k, by, lost)
  BY DEF CommitCreate, Deleted
<1> QED
  BY <1>1, PlaceFacts

LEMMA DeleteCommitted ==
    ASSUME SyncInv, NEW c \in Cards, NEW by \in Ids,
           NEW lost \in SUBSET Causes, CommitDelete(c, by, lost)
    PROVE  Committed
<1> USE DEF CommitDelete
<1>1. PICK e : Announced(e) /\ e.type = "deleted" /\ e.card = c
  BY AnnounceFacts
<1>2. commits' \in 0..MaxCommits
  BY <1>1 DEF Announced
<1>3. RowsType' /\ Existing' /\ \A d \in Cards : Deleted(d) => Deleted(d)'
  BY <1>2 DEF SyncInv, RowsType, Existing, Deleted
<1>4. Deleted(c)'
  BY DEF SyncInv, RowsType, Existing, Deleted
<1> QED
  BY <1>1, <1>3, <1>4 DEF Committed

LEMMA CommittedKeeps ==
    ASSUME SyncInv, Committed, UNCHANGED channel, UNCHANGED faults,
           UNCHANGED <<cache, patched, buried>>, MutationType', Addressed'
    PROVE  SyncInv'
<1> USE DEF channel
<1>1. FetchKept /\ causes' \subseteq Causes
  BY BlameKeeps DEF Committed, SyncInv
<1>2. QueryType'
  BY <1>1 DEF SyncInv, QueryType, FetchKept
<1>3. PICK e : Announced(e) /\ (e.type = "deleted" => Deleted(e.card)')
  BY DEF Committed
<1>4. /\ e \in Event /\ Placed(e) /\ e.n = commits + 1 /\ pending' = Append(pending, e)
      /\ commits' = commits + 1 /\ commits \in Nat
  BY <1>3, Assumed DEF Announced, SyncInv, RowsType
<1>5. pending' \in Seq(Event) /\ Range(pending') \subseteq Range(pending) \cup {e}
  BY <1>4, QueueParts DEF SyncInv, FramesType
<1>6. \A d \in Frames' : d \in Frames \/ d = e
  BY <1>5 DEF Frames
<1>7. FramesType' /\ WellFormed'
  BY <1>4, <1>5, <1>6 DEF SyncInv, FramesType, WellFormed, Placed
<1>8. fetch.n <= commits /\ fetch.n \in Nat /\ fetch'.n <= commits'
  BY <1>1, <1>4, FetchFields DEF SyncInv, DeletesAreFinal, FetchKept
<1>9. ASSUME NEW d \in Frames', d.type = "deleted"
      PROVE  Deleted(d.card)' /\ ReadBefore(d.card, d.n)'
  <2>1. CASE d = e
    <3>1. ReadBefore(d.card, d.n)'
      BY <1>1, <1>4, <1>8, <2>1 DEF ReadBefore, FetchKept
    <3> QED
      BY <1>3, <1>9, <2>1, <3>1
  <2>2. CASE d \in Frames
    <3>1. Deleted(d.card) /\ ReadBefore(d.card, d.n)
      BY <1>9, <2>2 DEF SyncInv, DeletesAreFinal
    <3>2. d.card \in Cards
      BY <3>1 DEF Deleted, SyncInv, RowsType
    <3>3. Deleted(d.card)'
      BY <3>1, <3>2 DEF Committed
    <3> QED
      BY <1>1, <3>1, <3>3 DEF ReadBefore, FetchKept
  <2> QED
    BY <1>6, <2>1, <2>2
<1>10. ASSUME NEW c \in buried' PROVE Deleted(c)' /\ ReadBefore(c, patched)'
  <2>1. c \in Cards /\ Deleted(c) /\ ReadBefore(c, patched)
    BY <1>10 DEF SyncInv, QueryType, DeletesAreFinal
  <2> QED
    BY <1>1, <2>1 DEF Committed, ReadBefore, FetchKept
<1>11. DeletesAreFinal'
  BY <1>8, <1>9, <1>10 DEF DeletesAreFinal
<1> QED
  BY <1>2, <1>7, <1>11, LinkKept DEF SyncInv, Committed

LEMMA PeerCommitsKeeps ==
    ASSUME SyncInv, PeerCommits, UNCHANGED faults
    PROVE  SyncInv'
<1>1. Nothing \in Ids /\ {} \in SUBSET Causes
  BY DEF Ids
<1>2. Committed
  BY <1>1, MoveCommitted, CreateCommitted, DeleteCommitted DEF PeerCommits
<1> QED
  BY <1>2, CommittedKeeps, MutationKept DEF PeerCommits

LEMMA ServerCommitsKeeps ==
    ASSUME SyncInv, NEW m \in Mutations, ServerCommits(m), UNCHANGED faults
    PROVE  SyncInv'
<1> DEFINE r == mutation[m]
<1>1. /\ mutation \in [Mutations -> Mutation] /\ r \in Mutation
  BY DEF SyncInv, MutationType
<1>2. r.by \in Ids
  BY <1>1 DEF Mutation
<1>3. /\ r.type # "none" => r.card \in Cards
      /\ r.type \in {"moved", "created"} => r.column \in Columns
  BY DEF SyncInv, Addressed
<1>4. PICK lost \in SUBSET Causes : CommitRequest(m, lost)
  <2>1. {} \in SUBSET Causes /\ {"unanswered"} \in SUBSET Causes
    BY DEF Causes
  <2> QED
    BY <2>1 DEF ServerCommits
<1>5. Committed
  BY <1>2, <1>3, <1>4, MoveCommitted, CreateCommitted, DeleteCommitted
     DEF CommitRequest
<1>6. PICK phase \in {"committed", "done"}, n \in 0..MaxCommits :
        mutation' = [mutation EXCEPT ![m] = [r EXCEPT !.phase = phase, !.n = n]]
  <2>1. commits + 1 \in 0..MaxCommits
    BY <1>5 DEF Committed, Announced
  <2>2. CASE r.phase = "sent"
    <3>1. mutation' = [mutation EXCEPT ![m] = [r EXCEPT !.phase = "committed",
                                                        !.n = commits + 1]]
      BY <1>1, <2>2 DEF ServerCommits
    <3> QED
      BY <2>1, <3>1
  <2>3. CASE r.phase # "sent"
    <3>1. mutation' = [mutation EXCEPT ![m] = [r EXCEPT !.phase = "done"]]
      BY <1>1, <2>3 DEF ServerCommits
    <3>2. r.n \in 0..MaxCommits
      BY <1>1 DEF Mutation
    <3>3. [r EXCEPT !.phase = "done"] = [r EXCEPT !.phase = "done", !.n = r.n]
      BY <1>1 DEF Mutation
    <3> QED
      BY <3>1, <3>2, <3>3
  <2> QED
    BY <2>2, <2>3
<1> DEFINE r2 == [r EXCEPT !.phase = phase, !.n = n]
<1>7. /\ r2 \in Mutation /\ r2.type = r.type /\ r2.card = r.card
      /\ r2.column = r.column
  BY <1>1, <1>6 DEF Mutation
<1> HIDE DEF r2
<1>8. mutation' = [mutation EXCEPT ![m] = r2]
  BY <1>6 DEF r2
<1>9. MutationType' /\ Addressed'
  BY <1>1, <1>7, <1>8 DEF SyncInv, MutationType, Addressed
<1> QED
  BY <1>5, <1>9, CommittedKeeps DEF ServerCommits
-----------------------------------------------------------------------------
(* Events and the channel *)

(* Steps that only take from the queues, or move an event between them. *)
LEMMA FramesStep ==
    ASSUME SyncInv, UNCHANGED <<rows, commits, known, cache, patched, buried>>,
           FetchKept, causes' \subseteq Causes, MutationType', Addressed',
           FramesType', LinkType', Joined',
           Range(pending') \subseteq Range(pending),
           Range(inbox') \subseteq Frames \cup Welcome
    PROVE  SyncInv'
<1>1. QueryType'
  BY DEF SyncInv, QueryType, FetchKept
<1>2. WellFormed' /\ \A e \in Frames' : e.type = "deleted" => e \in Frames
  BY FramesKept
<1>3. patched <= patched' /\ UNCHANGED buried
  BY Assumed DEF SyncInv, QueryType
<1>4. DeletesAreFinal'
  BY <1>1, <1>2, <1>3, DeletesKept
<1> QED
  BY <1>1, <1>2, <1>4, RowsKept DEF SyncInv

LEMMA PublishKeeps ==
    ASSUME SyncInv, Publish, UNCHANGED faults
    PROVE  SyncInv'
<1> USE DEF Publish
<1>1. PICK i \in DOMAIN pending :
          /\ pending' = RemoveAt(pending, i)
          /\ inbox' = IF member THEN Append(inbox, pending[i]) ELSE inbox
  OBVIOUS
<1>2. FetchKept /\ causes' \subseteq Causes
  <2>1. (IF joins = 0 THEN {"early"} ELSE {}) \in SUBSET Causes
    BY DEF Causes
  <2> QED
    BY <2>1, BlameKeeps DEF SyncInv
<1>3. /\ pending' \in Seq(Event) /\ Range(pending') \subseteq Range(pending)
      /\ pending[i] \in Event /\ pending[i] \in Range(pending)
  BY <1>1, QueueParts DEF SyncInv, FramesType
<1>4. /\ inbox' \in Seq(Event \cup Welcome)
      /\ Range(inbox') \subseteq Range(inbox) \cup {pending[i]}
  <2>1. inbox \in Seq(Event \cup Welcome) /\ pending[i] \in Event \cup Welcome
    BY <1>3 DEF SyncInv, FramesType
  <2>2. /\ Append(inbox, pending[i]) \in Seq(Event \cup Welcome)
        /\ Range(Append(inbox, pending[i])) \subseteq Range(inbox) \cup {pending[i]}
    BY <2>1, QueueParts
  <2> QED
    BY <1>1, <2>1, <2>2
<1>5. LinkType' /\ Joined'
  <2>1. inbox = <<>> => inbox' = <<>> \/ member
    BY <1>1
  <2> QED
    BY <2>1, LinkKept
<1>6. FramesType' /\ Range(inbox') \subseteq Frames \cup Welcome
  BY <1>3, <1>4 DEF FramesType, Frames
<1> QED
  BY <1>2, <1>3, <1>5, <1>6, MutationKept, FramesStep

LEMMA DropEventKeeps ==
    ASSUME SyncInv, DropEvent
    PROVE  SyncInv'
<1> USE DEF DropEvent, channel
<1>1. PICK i \in DOMAIN pending : pending' = RemoveAt(pending, i)
  OBVIOUS
<1>2. FetchKept /\ causes' \subseteq Causes
  <2>1. {"dropped"} \in SUBSET Causes
    BY DEF Causes
  <2> QED
    BY <2>1, BlameKeeps DEF SyncInv
<1>3. pending' \in Seq(Event) /\ Range(pending') \subseteq Range(pending)
  BY <1>1, QueueParts DEF SyncInv, FramesType
<1>4. FramesType' /\ Range(inbox') \subseteq Frames \cup Welcome
  BY <1>3 DEF SyncInv, FramesType, Frames
<1> QED
  BY <1>2, <1>3, <1>4, LinkKept, MutationKept, FramesStep

LEMMA JoinKeeps ==
    ASSUME SyncInv, Join, UNCHANGED faults
    PROVE  SyncInv'
<1> USE DEF Join, server, query
<1> DEFINE w == [type |-> "welcome", id |-> joins + 1]
<1>1. ~member /\ joins <= faults
  BY DEF SyncInv, Joined
<1>2. joins + 1 \in 1..MaxFaults + 1 /\ joins' = joins + 1 /\ joins + 1 <= faults + 1
  BY <1>1, Assumed DEF SyncInv, LinkType
<1>3. w \in Welcome
  BY <1>2 DEF Welcome
<1>4. inbox' = <<w>>
  OBVIOUS
<1> HIDE DEF w
<1>5. inbox' \in Seq(Event \cup Welcome) /\ Range(inbox') \subseteq Welcome
  BY <1>3, <1>4 DEF Range
<1>6. LinkType' /\ Joined'
  <2>1. joins' \in 0..MaxFaults + 1
    BY <1>2, Assumed
  <2>2. LinkType'
    BY <2>1 DEF SyncInv, LinkType
  <2>3. member' = TRUE /\ link' = "registered" /\ joins' <= faults' + 1
    BY <1>2
  <2> QED
    BY <2>2, <2>3 DEF Joined
<1>7. FetchKept
  BY FetchRestarts DEF SyncInv
<1>8. FramesType' /\ causes' \subseteq Causes
  BY <1>5 DEF SyncInv, FramesType, QueryType
<1> QED
  BY <1>5, <1>6, <1>7, <1>8, MutationKept, FramesStep

LEMMA LeaveKeeps ==
    ASSUME SyncInv, Leave
    PROVE  SyncInv'
<1> USE DEF Leave, server, query
<1>1. PICK n \in 0..Len(inbox) : inbox' = SubSeq(inbox, 1, n)
  OBVIOUS
<1>2. inbox' \in Seq(Event \cup Welcome) /\ Range(inbox') \subseteq Range(inbox)
  BY <1>1, QueueParts DEF SyncInv, FramesType
<1>3. /\ faults' = faults + 1 /\ faults' \in 0..MaxFaults /\ faults \in Nat
      /\ joins <= faults + 1 /\ link \notin {"connecting", "waiting"}
  BY Assumed DEF SyncInv, LinkType, Joined, Fault
<1>4. LinkType' /\ Joined'
  <2>1. LinkType'
    BY <1>3 DEF SyncInv, LinkType
  <2>2. member' = FALSE /\ joins' <= faults'
    BY <1>3
  <2> QED
    BY <1>3, <2>1, <2>2 DEF Joined
<1>5. FetchKept
  BY FetchRestarts DEF SyncInv
<1>6. /\ FramesType' /\ causes' \subseteq Causes
      /\ Range(inbox') \subseteq Frames \cup Welcome
  BY <1>2 DEF SyncInv, FramesType, QueryType, Frames
<1> QED
  BY <1>4, <1>5, <1>6, MutationKept, FramesStep

(* Close, ConnectFails, Reconnect and OldChannelCloses, when nothing is on *)
(* its way. *)
LEMMA LinkStep ==
    ASSUME SyncInv,
           \/ (Close \/ Reconnect) /\ UNCHANGED faults
           \/ ConnectFails \/ OldChannelCloses
    PROVE  SyncInv'
<1> USE DEF Close, Reconnect, ConnectFails, OldChannelCloses, Onclose, server, query
<1>1. UNCHANGED <<server, query, mutation, member, inbox, joins>>
  OBVIOUS
<1>2. faults' \in 0..MaxFaults /\ faults <= faults' /\ faults \in Nat /\ faults' \in Nat
  BY Assumed DEF SyncInv, LinkType, Fault
<1>3. LinkType'
  <2>1. Nothing \in Ids
    BY DEF Ids
  <2> QED
    BY <1>2, <2>1 DEF SyncInv, LinkType
<1>4. link' \in {"connecting", "waiting"} => ~member' /\ inbox' = <<>>
  BY DEF SyncInv, Joined
<1>5. joins' <= (IF member' THEN faults' + 1 ELSE faults')
  <2>1. joins \in Nat /\ joins' = joins /\ member' = member
    BY <1>1, Assumed DEF SyncInv, LinkType
  <2>2. CASE member
    <3>1. joins <= faults + 1
      BY <2>2 DEF SyncInv, Joined
    <3>2. joins' <= faults' + 1
      BY <1>2, <2>1, <3>1, MoreRoom
    <3> QED
      BY <2>1, <2>2, <3>2
  <2>3. CASE ~member
    <3>1. joins <= faults
      BY <2>3 DEF SyncInv, Joined
    <3>2. joins' <= faults'
      BY <1>2, <2>1, <3>1
    <3> QED
      BY <2>1, <2>3, <3>2
  <2> QED
    BY <2>2, <2>3
<1>6. Joined'
  BY <1>4, <1>5 DEF Joined
<1>7. FetchKept
  BY <1>1, FetchRestarts DEF SyncInv
<1>8. /\ FramesType' /\ causes' \subseteq Causes
      /\ Range(inbox') \subseteq Frames \cup Welcome
      /\ Range(pending') \subseteq Range(pending)
  BY <1>1 DEF SyncInv, FramesType, QueryType, Frames
<1>9. UNCHANGED <<rows, commits, known, cache, patched, buried>>
  BY <1>1
<1> QED
  BY <1>1, <1>3, <1>6, <1>7, <1>8, <1>9, MutationKept, FramesStep

(* A frame is taken from the inbox. *)
LEMMA InboxTaken ==
    ASSUME SyncInv, inbox # <<>>, inbox' = Tail(inbox), pending' = pending
    PROVE  /\ Frame \in Event \cup Welcome /\ Frame \in Frames
           /\ FramesType' /\ Range(pending') \subseteq Range(pending)
           /\ Range(inbox') \subseteq Frames \cup Welcome
           /\ link \in {"registered", "live"}
<1>1. /\ Head(inbox) \in Event \cup Welcome /\ Head(inbox) \in Range(inbox)
      /\ Tail(inbox) \in Seq(Event \cup Welcome)
      /\ Range(Tail(inbox)) \subseteq Range(inbox)
  BY QueueParts DEF SyncInv, FramesType
<1>2. link \in {"registered", "live"}
  BY DEF SyncInv, Joined, LinkType
<1> QED
  BY <1>1, <1>2 DEF SyncInv, FramesType, Frames, Frame

LEMMA HearWelcomeKeeps ==
    ASSUME SyncInv, HearWelcome, UNCHANGED faults
    PROVE  SyncInv'
<1> USE DEF HearWelcome, server
<1>1. /\ Frame \in Event \cup Welcome
      /\ FramesType' /\ Range(pending') \subseteq Range(pending)
      /\ Range(inbox') \subseteq Frames \cup Welcome
  BY InboxTaken
<1>2. connId' \in Ids /\ stamp' \in Ids
  BY <1>1, InboxTypes DEF Frame
<1>3. LinkType' /\ Joined'
  <2>1. LinkType'
    BY <1>2 DEF SyncInv, LinkType
  <2> QED
    BY <2>1 DEF SyncInv, Joined
<1>4. FetchKept
  BY InvalidatedKeeps, FetchRestarts DEF SyncInv
<1>5. causes' \subseteq Causes
  BY DEF SyncInv, QueryType
<1> QED
  BY <1>1, <1>3, <1>4, <1>5, MutationKept, FramesStep

LEMMA SuppressEchoKeeps ==
    ASSUME SyncInv, SuppressEcho, UNCHANGED faults
    PROVE  SyncInv'
<1> USE DEF SuppressEcho, Hears, server, query
<1>1. /\ FramesType' /\ Range(pending') \subseteq Range(pending)
      /\ Range(inbox') \subseteq Frames \cup Welcome
  BY InboxTaken
<1>2. LinkType' /\ Joined'
  BY LinkKept
<1>3. FetchKept /\ causes' \subseteq Causes
  BY FetchRestarts DEF SyncInv, QueryType
<1> QED
  BY <1>1, <1>2, <1>3, MutationKept, FramesStep

LEMMA ResyncKeeps ==
    ASSUME SyncInv, Resync, UNCHANGED faults
    PROVE  SyncInv'
<1> USE DEF Resync, Hears, server
<1>1. /\ FramesType' /\ Range(pending') \subseteq Range(pending)
      /\ Range(inbox') \subseteq Frames \cup Welcome
  BY InboxTaken
<1>2. LinkType' /\ Joined'
  BY LinkKept
<1>3. FetchKept /\ causes' \subseteq Causes
  BY InvalidatedKeeps DEF SyncInv, QueryType
<1> QED
  BY <1>1, <1>2, <1>3, MutationKept, FramesStep

(* A delete that is patched in was committed before, for good. *)
LEMMA PatchFacts ==
    ASSUME SyncInv, Patch
    PROVE  /\ cache \in Tree /\ cache' \in Tree /\ Frame \in Event /\ Frame \in Frames
           /\ \A c : ItemsOf(cache, c) = {} => ItemsOf(cache', c) = {}
           /\ patched' \in 0..MaxCommits /\ patched <= patched' /\ Frame.n <= patched'
           /\ buried' \subseteq buried \cup {Frame.card}
           /\ Frame.type # "deleted" => buried' = buried
           /\ causes' \subseteq Causes
<1> USE DEF Patch, Hears, server
<1>1. Frame \in Event \cup Welcome /\ Frame \in Frames
  BY InboxTaken
<1>2. /\ Frame \in Event
      /\ Frame.card \in Cards /\ Frame.n \in 1..MaxCommits /\ Frame.n \in 0..MaxCommits
  BY <1>1, InboxTypes, FrameTypes
<1>3. cache \in Tree
  BY DEF SyncInv, QueryType
<1>4. cache' \in Tree /\ \A c : ItemsOf(cache, c) = {} => ItemsOf(cache', c) = {}
  <2>1. CASE Frame.type = "moved"
    <3>1. Frame.column \in Columns /\ Frame.key \in Keys
      BY <1>1, <2>1 DEF SyncInv, WellFormed, Placed
    <3>2. cache' = ApplyCardMoved(cache, Frame)
      BY <2>1
    <3>3. /\ ApplyCardMoved(cache, Frame) \in Tree
          /\ \A c : ItemsOf(cache, c) = {} => ItemsOf(ApplyCardMoved(cache, Frame), c) = {}
      BY <1>2, <1>3, <3>1, MovedIsATree
    <3> QED
      BY <3>2, <3>3
  <2>2. CASE Frame.type = "deleted"
    <3>1. cache' = Without(cache, Frame.card)
      BY <2>2 DEF ApplyCardDeleted
    <3> QED
      BY <1>3, <3>1, WithoutIsATree
  <2> QED
    BY <2>1, <2>2
<1>5. patched' \in 0..MaxCommits /\ patched <= patched' /\ Frame.n <= patched'
  <2>1. patched \in 0..MaxCommits /\ patched' = IF Frame.n > patched THEN Frame.n
                                                ELSE patched
    BY DEF SyncInv, QueryType
  <2> QED
    BY <1>2, <2>1, Assumed
<1>6. causes' \subseteq Causes
  BY DEF SyncInv, QueryType, Causes
<1> QED
  BY <1>1, <1>2, <1>3, <1>4, <1>5, <1>6

LEMMA PatchKeeps ==
    ASSUME SyncInv, Patch, UNCHANGED faults
    PROVE  SyncInv'
<1> USE DEF Patch, Hears, server
<1>1. /\ FramesType' /\ Range(pending') \subseteq Range(pending)
      /\ Range(inbox') \subseteq Frames \cup Welcome
  BY InboxTaken
<1>2. LinkType' /\ Joined'
  BY LinkKept
<1>3. FetchKept /\ fetch' = fetch
  BY FetchRestarts DEF SyncInv
<1>4. Frame.card \in Cards /\ Frame.n \in Nat
  BY PatchFacts, FrameTypes, Assumed
<1>5. QueryType'
  BY <1>3, <1>4, PatchFacts DEF SyncInv, QueryType
<1>6. WellFormed' /\ \A e \in Frames' : e.type = "deleted" => e \in Frames
  BY <1>1, FramesKept
<1>7. \A c : Deleted(c)' <=> Deleted(c)
  BY DEF Deleted
<1>8. DeletesAreFinal'
  <2>1. fetch'.n <= commits'
    BY <1>3 DEF SyncInv, DeletesAreFinal
  <2>2. \A c, n : ReadBefore(c, n)' <=> ReadBefore(c, n)
    BY <1>3 DEF ReadBefore
  <2>3. ASSUME NEW e \in Frames', e.type = "deleted"
        PROVE  Deleted(e.card)' /\ ReadBefore(e.card, e.n)'
    <3>1. Deleted(e.card) /\ ReadBefore(e.card, e.n)
      BY <1>6, <2>3 DEF SyncInv, DeletesAreFinal
    <3> QED
      BY <1>3, <1>7, <3>1 DEF ReadBefore
  <2>4. ASSUME NEW c \in buried' PROVE Deleted(c)' /\ ReadBefore(c, patched)'
    <3>1. fetch.n \in Nat /\ patched \in Nat /\ patched' \in Nat
      BY FetchFields, PatchFacts, Assumed DEF SyncInv, QueryType
    <3>2. PICK n \in Nat : Deleted(c) /\ ReadBefore(c, n) /\ n <= patched'
      <4>1. CASE c \in buried
        <5>1. Deleted(c) /\ ReadBefore(c, patched)
          BY <4>1 DEF SyncInv, DeletesAreFinal
        <5> QED
          BY <3>1, <5>1, PatchFacts
      <4>2. CASE c \notin buried
        <5>1. c = Frame.card /\ Frame.type = "deleted" /\ Frame \in Frames
          BY <2>4, <4>2, PatchFacts
        <5>2. Deleted(Frame.card) /\ ReadBefore(Frame.card, Frame.n)
          BY <5>1 DEF SyncInv, DeletesAreFinal
        <5> QED
          BY <1>4, <5>1, <5>2, PatchFacts
      <4> QED
        BY <4>1, <4>2
    <3>3. Deleted(c)'
      BY <1>7, <3>2
    <3>4. ReadBefore(c, patched)'
      BY <1>3, <3>1, <3>2 DEF ReadBefore
    <3> QED
      BY <3>3, <3>4
  <2> QED
    BY <2>1, <2>3, <2>4 DEF DeletesAreFinal
<1> QED
  BY <1>1, <1>2, <1>5, <1>6, <1>8, RowsKept, MutationKept DEF SyncInv
-----------------------------------------------------------------------------
(* The viewer's mutations *)

(* A mutation's record replaced by one that says what it is about.         *)
LEMMA MutationChanged ==
    ASSUME SyncInv, NEW m \in Mutations, NEW r \in Mutation,
           mutation' = [mutation EXCEPT ![m] = r],
           r.type # "none" => r.card \in Cards,
           r.type \in {"moved", "created"} => r.column \in Columns
    PROVE  MutationType' /\ Addressed'
  BY DEF SyncInv, MutationType, Addressed

LEMMA MutationFields ==
    ASSUME SyncInv, NEW m \in Mutations
    PROVE  /\ mutation \in [Mutations -> Mutation] /\ mutation[m] \in Mutation
           /\ mutation[m].previous \in Tree \cup {NoData}
           /\ mutation[m].type # "none" => mutation[m].card \in Cards
           /\ mutation[m].type \in {"moved", "created"} =>
                 mutation[m].column \in Columns
  BY DEF SyncInv, MutationType, Addressed, Mutation

LEMMA SendKeeps ==
    ASSUME SyncInv, NEW m \in Mutations, NEW type \in {"created", "moved", "deleted"},
           NEW c \in Cards, NEW k \in Columns \cup {Nothing},
           NEW previous \in Tree \cup {NoData}, Send(m, type, c, k, previous),
           type # "deleted" => k \in Columns
    PROVE  MutationType' /\ Addressed'
<1> DEFINE r == [phase |-> "sent", type |-> type, card |-> c, column |-> k, n |-> 0,
                 by |-> stamp, previous |-> previous]
<1>1. r \in Mutation
  BY Assumed DEF Mutation, SyncInv, LinkType
<1>2. mutation' = [mutation EXCEPT ![m] = r] /\ r.type = type /\ r.card = c
      /\ r.column = k
  BY DEF Send
<1> HIDE DEF r
<1> QED
  BY <1>1, <1>2, MutationChanged

LEMMA FinishKeeps ==
    ASSUME SyncInv, NEW m \in Mutations, Finish(m)
    PROVE  MutationType' /\ Addressed'
<1> DEFINE r == [NoMutation EXCEPT !.phase = "done"]
<1>1. r = [phase |-> "done", type |-> "none", card |-> Nothing, column |-> Nothing,
           n |-> 0, by |-> Nothing, previous |-> NoData]
  BY DEF NoMutation
<1>2. r \in Mutation /\ r.type = "none"
  BY <1>1, Assumed DEF Mutation, Ids
<1>3. mutation' = [mutation EXCEPT ![m] = r]
  BY DEF Finish
<1> HIDE DEF r
<1> QED
  BY <1>2, <1>3, MutationChanged

(* A card of the tree has an item there. *)
LEMMA CardsOfTheTree ==
    ASSUME NEW tree \in Tree,
           NEW c \in {item.card : item \in UNION {Range(tree[j]) : j \in Columns}}
    PROVE  c \in Cards /\ ItemsOf(tree, c) # {}
<1>1. PICK item \in UNION {Range(tree[j]) : j \in Columns} : c = item.card
  OBVIOUS
<1>2. item \in Item
  BY <1>1, HoldsItem
<1>3. c \in Cards
  BY <1>1, <1>2 DEF Item
<1>4. item \in ItemsOf(tree, c)
  BY <1>1 DEF ItemsOf
<1> QED
  BY <1>3, <1>4

LEMMA DragFacts ==
    ASSUME SyncInv, NEW m \in Mutations, DragCard(m)
    PROVE  /\ MutationType' /\ Addressed' /\ cache \in Tree /\ cache' \in Tree
           /\ \A d : ItemsOf(cache, d) = {} => ItemsOf(cache', d) = {}
<1>1. cache \in Tree
  BY DEF DragCard, SyncInv, QueryType
<1>2. PICK k \in Columns,
           c \in {item.card : item \in UNION {Range(cache[j]) : j \in Columns}} :
              \E index \in 1..Len(cache[k]) + 1 :
                 /\ Send(m, "moved", c, k, cache)
                 /\ cache' = MoveCardInTree(cache, c, k, index)
  BY DEF DragCard
<1>3. c \in Cards /\ ItemsOf(cache, c) # {}
  BY <1>1, CardsOfTheTree
<1>4. PICK index \in Nat \ {0} :
        Send(m, "moved", c, k, cache) /\ cache' = MoveCardInTree(cache, c, k, index)
  <2>1. Len(cache[k]) \in Nat
    BY <1>1 DEF Tree
  <2> QED
    BY <1>2, <2>1
<1>5. /\ cache' \in Tree
      /\ \A d : ItemsOf(cache, d) = {} => ItemsOf(cache', d) = {}
  BY <1>1, <1>3, <1>4, DraggedIsATree
<1>6. MutationType' /\ Addressed'
  BY <1>1, <1>3, <1>4, SendKeeps
<1> QED
  BY <1>1, <1>5, <1>6

LEMMA DragCardKeeps ==
    ASSUME SyncInv, NEW m \in Mutations, DragCard(m), UNCHANGED faults
    PROVE  SyncInv'
<1>1. FetchKept /\ causes' \subseteq Causes
  BY FetchRestarts DEF DragCard, SyncInv, QueryType
<1> QED
  BY <1>1, DragFacts, QueryStep DEF DragCard, server, channel

LEMMA ClickCardKeeps ==
    ASSUME SyncInv, NEW m \in Mutations, ClickCard(m), UNCHANGED faults
    PROVE  SyncInv'
<1>1. cache \in Tree
  BY DEF ClickCard, SyncInv, QueryType
<1>2. MutationType' /\ Addressed'
  <2>1. CASE \E c \in {item.card :
                       item \in UNION {Range(cache[j]) : j \in Columns}} :
                Send(m, "deleted", c, Nothing, NoData)
    BY <1>1, <2>1, CardsOfTheTree, SendKeeps
  <2>2. CASE \E c \in Cards \ known, k \in Columns : Send(m, "created", c, k, NoData)
    BY <2>2, SendKeeps
  <2> QED
    BY <2>1, <2>2 DEF ClickCard
<1>3. FetchKept /\ causes' \subseteq Causes
  BY FetchRestarts DEF ClickCard, query, SyncInv, QueryType
<1> QED
  BY <1>1, <1>2, <1>3, QueryStep DEF ClickCard, server, channel, query

LEMMA ServerRefusesKeeps ==
    ASSUME SyncInv, NEW m \in Mutations, ServerRefuses(m), UNCHANGED faults
    PROVE  SyncInv'
<1> DEFINE r == mutation[m]
           r2 == [r EXCEPT !.phase = "refused"]
<1>1. mutation \in [Mutations -> Mutation] /\ r \in Mutation
  BY MutationFields
<1>2. /\ r2 \in Mutation /\ r2.type = r.type /\ r2.card = r.card
      /\ r2.column = r.column
  BY <1>1 DEF Mutation
<1>3. mutation' = [mutation EXCEPT ![m] = r2]
  BY DEF ServerRefuses
<1> HIDE DEF r2
<1>4. MutationType' /\ Addressed'
  BY <1>2, <1>3, MutationFields, MutationChanged
<1>5. FetchKept /\ cache' \in Tree \cup {NoData} /\ causes' \subseteq Causes
  BY FetchRestarts DEF ServerRefuses, query, SyncInv, QueryType
<1> QED
  BY <1>4, <1>5, QueryStep DEF ServerRefuses, server, channel, query

LEMMA SucceedKeeps ==
    ASSUME SyncInv, NEW m \in Mutations, Succeed(m), UNCHANGED faults
    PROVE  SyncInv'
<1>1. FetchKept /\ cache' \in Tree \cup {NoData} /\ causes' \subseteq Causes
  BY InvalidatedKeeps DEF Succeed, SyncInv, QueryType
<1>2. MutationType' /\ Addressed'
  BY FinishKeeps DEF Succeed
<1> QED
  BY <1>1, <1>2, QueryStep DEF Succeed, server, channel

(* A rollback is followed by a refetch. *)
LEMMA SettleFacts ==
    ASSUME SyncInv, NEW m \in Mutations, Settle(m)
    PROVE  /\ FetchKept /\ cache' \in Tree \cup {NoData} /\ causes' \subseteq Causes
           /\ cache' # cache => fetch'.state = "asked"
<1>1. CASE mutation[m].type = "moved"
  <2>1. Asked.state = "asked"
    BY DEF Asked, Idle
  <2>2. cache' = mutation[m].previous /\ fetch' = Asked /\ causes' = causes
    BY <1>1 DEF Settle
  <2>3. FetchKept
    BY <2>2, FetchRestarts DEF SyncInv
  <2> QED
    BY <2>1, <2>2, <2>3, MutationFields DEF SyncInv, QueryType
<1>2. CASE mutation[m].type # "moved"
  <2> DEFINE cause == IF mutation[m].phase = "committed" THEN {"unanswered"} ELSE {}
  <2>1. cause \in SUBSET Causes
    BY DEF Causes
  <2>2. cache' = cache /\ Blame(cause)
    BY <1>2 DEF Settle
  <2> HIDE DEF cause
  <2> QED
    BY <2>1, <2>2, BlameKeeps DEF SyncInv, QueryType
<1> QED
  BY <1>1, <1>2

LEMMA HearErrorKeeps ==
    ASSUME SyncInv, NEW m \in Mutations, HearError(m), UNCHANGED faults
    PROVE  SyncInv'
<1>1. Settle(m) /\ Finish(m)
  BY DEF HearError
<1> QED
  BY <1>1, SettleFacts, FinishKeeps, QueryStep DEF HearError, server, channel

LEMMA LoseAnswerKeeps ==
    ASSUME SyncInv, NEW m \in Mutations, LoseAnswer(m)
    PROVE  SyncInv'
<1>1. Settle(m) /\ Finish(m) /\ Fault
  BY DEF LoseAnswer
<1> QED
  BY <1>1, SettleFacts, FinishKeeps, QueryStep DEF LoseAnswer, server, channel

LEMMA LoseRequestKeeps ==
    ASSUME SyncInv, NEW m \in Mutations, LoseRequest(m)
    PROVE  SyncInv'
<1> DEFINE r == mutation[m]
           r2 == [r EXCEPT !.phase = "orphan", !.previous = NoData]
<1>1. mutation \in [Mutations -> Mutation] /\ r \in Mutation
  BY MutationFields
<1>2. /\ r2 \in Mutation /\ r2.type = r.type /\ r2.card = r.card
      /\ r2.column = r.column
  BY <1>1 DEF Mutation
<1>3. mutation' = [mutation EXCEPT ![m] = r2]
  BY <1>1 DEF LoseRequest
<1> HIDE DEF r2
<1>4. MutationType' /\ Addressed'
  BY <1>2, <1>3, MutationFields, MutationChanged
<1>5. Settle(m) /\ Fault
  BY DEF LoseRequest
<1> QED
  BY <1>4, <1>5, SettleFacts, QueryStep DEF LoseRequest, server, channel
-----------------------------------------------------------------------------
(* The specification *)

LEMMA NothingRead ==
    Asked \in FetchType /\ Asked.n = 0 /\ Asked.state = "asked"
<1>1. Asked = [state |-> "asked", tree |-> NoData, n |-> 0, since |-> {}]
  BY DEF Asked, Idle
<1> QED
  BY <1>1, Assumed DEF FetchType

LEMMA InitSyncs ==
    ASSUME Init
    PROVE  SyncInv
<1> USE DEF Init
<1>1. RowsType /\ Existing
  <2>1. rows \in [Cards -> [column : Columns, key : 1..MaxKey, n : {0}] \cup {Nothing}]
    BY SyncAssumption
  <2>2. [column : Columns, key : 1..MaxKey, n : {0}] \subseteq Row
    BY Assumed DEF Row, Keys
  <2> QED
    BY <2>1, <2>2, Assumed DEF RowsType, Existing
<1>2. FramesType /\ Frames = {}
  BY DEF FramesType, Frames, Range
<1>3. LinkType /\ Joined
  <2>1. Nothing \in Ids /\ 0 \in 0..MaxFaults + 1 /\ 0 \in 0..MaxFaults
    BY Assumed DEF Ids
  <2>2. LinkType
    BY <2>1 DEF LinkType
  <2>3. Joined
    BY DEF Joined
  <2> QED
    BY <2>2, <2>3
<1>4. Asked \in FetchType /\ Asked.n = 0 /\ Asked.state = "asked"
  BY NothingRead
<1>5. QueryType
  BY <1>4, Assumed DEF QueryType
<1>6. NoMutation \in Mutation /\ NoMutation.type = "none"
  BY Assumed DEF NoMutation, Mutation, Ids
<1>7. MutationType /\ Addressed
  BY <1>6 DEF MutationType, Addressed
<1>8. WellFormed
  BY <1>2 DEF WellFormed
<1>9. DeletesAreFinal
  BY <1>2, <1>4 DEF DeletesAreFinal
<1> QED
  BY <1>1, <1>2, <1>3, <1>5, <1>7, <1>8, <1>9 DEF SyncInv

LEMMA StutterKeeps ==
    ASSUME SyncInv, UNCHANGED vars
    PROVE  SyncInv'
<1>1. FetchKept /\ cache' \in Tree \cup {NoData} /\ causes' \subseteq Causes
  BY FetchRestarts DEF SyncInv, QueryType, vars, query
<1> QED
  BY <1>1, MutationKept, QueryStep DEF vars, server, channel, query

LEMMA NextKeeps ==
    ASSUME SyncInv, [Next]_vars
    PROVE  SyncInv'
<1>1. ASSUME Step, UNCHANGED faults PROVE SyncInv'
  <2>1. CASE Read \/ Install
    BY <1>1, <2>1, ReadKeeps, InstallKeeps
  <2>2. CASE PeerCommits \/ Publish
    BY <1>1, <2>2, PeerCommitsKeeps, PublishKeeps
  <2>3. CASE Join \/ Close \/ Reconnect
    BY <1>1, <2>3, JoinKeeps, LinkStep
  <2>4. CASE HearWelcome \/ SuppressEcho
    BY <1>1, <2>4, HearWelcomeKeeps, SuppressEchoKeeps
  <2>5. CASE Patch \/ Resync
    BY <1>1, <2>5, PatchKeeps, ResyncKeeps
  <2>6. ASSUME NEW m \in Mutations,
               \/ DragCard(m) \/ ClickCard(m)
               \/ ServerCommits(m) \/ ServerRefuses(m)
               \/ Succeed(m) \/ HearError(m)
        PROVE  SyncInv'
    BY <1>1, <2>6, DragCardKeeps, ClickCardKeeps, ServerCommitsKeeps,
       ServerRefusesKeeps, SucceedKeeps, HearErrorKeeps
  <2> QED
    BY <1>1, <2>1, <2>2, <2>3, <2>4, <2>5, <2>6 DEF Step
<1>2. ASSUME Failure PROVE SyncInv'
  <2>1. CASE FetchFails \/ DropEvent \/ Leave
    BY <2>1, FetchFailsKeeps, DropEventKeeps, LeaveKeeps
  <2>2. CASE ConnectFails \/ OldChannelCloses
    BY <2>2, LinkStep
  <2>3. ASSUME NEW m \in Mutations, LoseAnswer(m) \/ LoseRequest(m) PROVE SyncInv'
    BY <2>3, LoseAnswerKeeps, LoseRequestKeeps
  <2> QED
    BY <1>2, <2>1, <2>2, <2>3 DEF Failure
<1> QED
  BY <1>1, <1>2, StutterKeeps DEF Next

LEMMA SyncInvariance == Spec => []SyncInv
<1>1. Init => SyncInv
  BY InitSyncs
<1>2. SyncInv /\ [Next]_vars => SyncInv'
  BY NextKeeps
<1> QED
  BY <1>1, <1>2, PTL DEF Spec

(* Every variable of the viewer's cache, his channel and his mutations, and *)
(* of the table they follow, keeps its type (hooks.ts, useBoardChannel.ts). *)
THEOREM SyncTypes == Spec => []TypeOK
<1>1. SyncInv => TypeOK
  BY TypesTogether DEF SyncInv
<1> QED
  BY <1>1, SyncInvariance, PTL

-----------------------------------------------------------------------------
(* Deleted cards *)

GoneStaysGone ==
    \A c \in buried :
        cache' # cache /\ ItemsOf(cache, c) = {} /\ ItemsOf(cache', c) # {}
        => "overwritten" \in causes' \/ fetch'.state = "asked"

LEMMA InstallingAnOldAnswer ==
    ASSUME SyncInv, Install
    PROVE  GoneStaysGone
<1> SUFFICES ASSUME NEW c \in buried, ItemsOf(cache', c) # {}
             PROVE  "overwritten" \in causes'
  BY DEF GoneStaysGone
<1>1. ReadBefore(c, patched)
  BY DEF SyncInv, DeletesAreFinal
<1>2. fetch.n < patched
  BY <1>1 DEF Install, ReadBefore
<1>3. fetch.n \in Nat /\ patched \in Nat
  BY FetchFields, Assumed DEF SyncInv, QueryType
<1> QED
  BY <1>2, <1>3 DEF Install

LEMMA OnlyAnswersBringBack ==
    ASSUME SyncInv, [Next]_vars
    PROVE  GoneStaysGone
<1>1. CASE Install
  BY <1>1, InstallingAnOldAnswer
<1>2. CASE Patch
  BY <1>2, PatchFacts DEF GoneStaysGone
<1>3. ASSUME NEW m \in Mutations, DragCard(m) PROVE GoneStaysGone
  BY <1>3, DragFacts DEF GoneStaysGone
<1>4. ASSUME NEW m \in Mutations, HearError(m) \/ LoseAnswer(m) \/ LoseRequest(m)
      PROVE  GoneStaysGone
  BY <1>4, SettleFacts DEF HearError, LoseAnswer, LoseRequest, GoneStaysGone
<1>5. ASSUME UNCHANGED cache PROVE GoneStaysGone
  BY <1>5 DEF GoneStaysGone
<1>6. CASE Read \/ PeerCommits \/ Publish \/ Join \/ Close \/ Reconnect
  BY <1>5, <1>6 DEF Read, PeerCommits, Publish, Join, Close, Onclose, Reconnect, query
<1>7. CASE HearWelcome \/ SuppressEcho \/ Resync
  BY <1>5, <1>7 DEF HearWelcome, SuppressEcho, Resync, query
<1>8. CASE FetchFails \/ DropEvent \/ Leave \/ ConnectFails \/ OldChannelCloses
  BY <1>5, <1>8 DEF FetchFails, DropEvent, Leave, ConnectFails, Onclose,
                    OldChannelCloses, query
<1>9. ASSUME NEW m \in Mutations,
             ClickCard(m) \/ ServerCommits(m) \/ ServerRefuses(m) \/ Succeed(m)
      PROVE  GoneStaysGone
  BY <1>5, <1>9 DEF ClickCard, ServerCommits, ServerRefuses, Succeed, query
<1>10. CASE UNCHANGED vars
  BY <1>5, <1>10 DEF vars, query
<1> QED
  BY <1>1, <1>2, <1>3, <1>4, <1>6, <1>7, <1>8, <1>9, <1>10 DEF Next, Step, Failure

(* A card whose delete the viewer has applied comes back to his cache only *)
(* with an answer older than the delete, or in the rollback of a failed    *)
(* move that a refetch follows: no late "card.moved" brings it back        *)
(* (useBoardChannel.ts:55, treeUpdates.ts, hooks.ts).                      *)
THEOREM DeletedStayGone == Spec => DeletedCardsStayGone
<1>1. SyncInv /\ [Next]_vars => [GoneStaysGone]_vars
  BY OnlyAnswersBringBack
<1>2. Spec => [][GoneStaysGone]_vars
  BY <1>1, SyncInvariance, PTL DEF Spec
<1> QED
  BY <1>2 DEF DeletedCardsStayGone, GoneStaysGone
-----------------------------------------------------------------------------
(* What trees show, and in which order *)

(* What a card shows in a column of a tree.                                *)
Shown(tree, k, c) == {item \in Range(tree[k]) : item.card = c}

(* A column in order, with no card twice.                                  *)
InOrder(s) ==
    \A i, j \in DOMAIN s : i < j => s[i].key <= s[j].key /\ s[i].card # s[j].card

OneEach(s) == \A i, j \in DOMAIN s : i # j => s[i].card # s[j].card

LEMMA ItemFields ==
    ASSUME NEW item \in Item
    PROVE  /\ item = [card |-> item.card, key |-> item.key, n |-> item.n]
           /\ item.card \in Cards /\ item.key \in Nat /\ item.n \in Nat
           /\ item.key \in Keys /\ item.n \in 0..MaxCommits
  BY Assumed DEF Item, Keys

LEMMA SortedInOrder ==
    ASSUME NEW s \in Seq(Item)
    PROVE  /\ Range(Sorted(s)) = Range(s)
           /\ OneEach(s) => InOrder(Sorted(s))
<1>1. PICK order \in [1..Len(s) -> 1..Len(s)] :
              /\ Sorted(s) = [n \in 1..Len(s) |-> s[order[n]]]
              /\ \A i \in 1..Len(s) : \E n \in 1..Len(s) : order[n] = i
              /\ \A m, n \in 1..Len(s) :
                    m < n => /\ order[m] # order[n]
                             /\ s[order[m]].key <= s[order[n]].key
  BY SortedPlaces
<1>2. DOMAIN s = 1..Len(s) /\ DOMAIN Sorted(s) = 1..Len(s)
  BY <1>1
<1>3. Range(s) \subseteq Range(Sorted(s))
  BY <1>1, <1>2 DEF Range
<1>4. Range(Sorted(s)) \subseteq Range(s)
  BY SortedIsASequence
<1>5. ASSUME OneEach(s), NEW i \in 1..Len(s), NEW j \in 1..Len(s), i < j
      PROVE  /\ Sorted(s)[i].key <= Sorted(s)[j].key
             /\ Sorted(s)[i].card # Sorted(s)[j].card
  <2>1. Sorted(s)[i] = s[order[i]] /\ Sorted(s)[j] = s[order[j]]
    BY <1>1
  <2>2. order[i] \in DOMAIN s /\ order[j] \in DOMAIN s /\ order[i] # order[j]
    BY <1>1, <1>2, <1>5
  <2> QED
    BY <1>1, <1>5, <2>1, <2>2 DEF OneEach
<1> QED
  BY <1>2, <1>3, <1>4, <1>5 DEF InOrder

LEMMA OthersInOrder ==
    ASSUME NEW s \in Seq(Item), NEW c
    PROVE  /\ Range(Others(s, c)) = {item \in Range(s) : item.card # c}
           /\ InOrder(s) => InOrder(Others(s, c))
<1>1. PICK N \in Nat : \E order \in [1..N -> 1..Len(s)] :
              /\ Others(s, c) = [n \in 1..N |-> s[order[n]]]
              /\ \A n \in 1..N : s[order[n]].card # c
              /\ \A i \in 1..Len(s) : s[i].card # c => \E n \in 1..N : order[n] = i
              /\ \A m, n \in 1..N : m < n => order[m] < order[n]
  BY OthersPlaces
<1>2. PICK order \in [1..N -> 1..Len(s)] :
              /\ Others(s, c) = [n \in 1..N |-> s[order[n]]]
              /\ \A n \in 1..N : s[order[n]].card # c
              /\ \A i \in 1..Len(s) : s[i].card # c => \E n \in 1..N : order[n] = i
              /\ \A m, n \in 1..N : m < n => order[m] < order[n]
  BY <1>1
<1>3. DOMAIN s = 1..Len(s) /\ DOMAIN Others(s, c) = 1..N
  BY <1>2
<1>4. ASSUME NEW item \in Range(s), item.card # c PROVE item \in Range(Others(s, c))
  <2>1. PICK i \in 1..Len(s) : s[i] = item
    BY <1>3 DEF Range
  <2>2. PICK n \in 1..N : order[n] = i
    BY <1>2, <1>4, <2>1
  <2>3. Others(s, c)[n] = item
    BY <1>2, <2>1, <2>2
  <2> QED
    BY <1>3, <2>3 DEF Range
<1>5. Range(Others(s, c)) \subseteq {item \in Range(s) : item.card # c}
  BY OthersAreASequence
<1>6. ASSUME InOrder(s), NEW i \in 1..N, NEW j \in 1..N, i < j
      PROVE  /\ Others(s, c)[i].key <= Others(s, c)[j].key
             /\ Others(s, c)[i].card # Others(s, c)[j].card
  <2>1. Others(s, c)[i] = s[order[i]] /\ Others(s, c)[j] = s[order[j]]
    BY <1>2
  <2>2. order[i] \in DOMAIN s /\ order[j] \in DOMAIN s /\ order[i] < order[j]
    BY <1>2, <1>3, <1>6
  <2> QED
    BY <1>6, <2>1, <2>2 DEF InOrder
<1> QED
  BY <1>3, <1>4, <1>5, <1>6 DEF InOrder

LEMMA InOrderIsOneEach ==
    ASSUME NEW s \in Seq(Item), InOrder(s)
    PROVE  OneEach(s)
<1> SUFFICES ASSUME NEW i \in DOMAIN s, NEW j \in DOMAIN s, i # j
             PROVE  s[i].card # s[j].card
  BY DEF OneEach
<1>1. i \in Nat /\ j \in Nat
  OBVIOUS
<1> QED
  BY <1>1 DEF InOrder

LEMMA AppendedOneEach ==
    ASSUME NEW s \in Seq(Item), NEW item \in Item, OneEach(s),
           \A x \in Range(s) : x.card # item.card
    PROVE  /\ OneEach(Append(s, item))
           /\ Range(Append(s, item)) = Range(s) \cup {item}
<1> DEFINE t == Append(s, item)
<1>1. /\ DOMAIN s = 1..Len(s) /\ Len(s) \in Nat
      /\ DOMAIN t = 1..(Len(s) + 1)
      /\ \A i \in 1..Len(s) : t[i] = s[i]
      /\ t[Len(s) + 1] = item
  OBVIOUS
<1> HIDE DEF t
<1>2. \A i \in 1..(Len(s) + 1) : i \in 1..Len(s) \/ i = Len(s) + 1
  BY <1>1
<1>3. \A i \in 1..Len(s) : s[i].card # item.card /\ i \in 1..(Len(s) + 1)
  BY <1>1 DEF Range
<1>4. OneEach(t)
  <2> SUFFICES ASSUME NEW i \in 1..(Len(s) + 1), NEW j \in 1..(Len(s) + 1), i # j
               PROVE  t[i].card # t[j].card
    BY <1>1 DEF OneEach
  <2>1. CASE i \in 1..Len(s) /\ j \in 1..Len(s)
    BY <1>1, <2>1 DEF OneEach
  <2>2. CASE i \in 1..Len(s) /\ j = Len(s) + 1
    BY <1>1, <1>3, <2>2
  <2>3. CASE i = Len(s) + 1 /\ j \in 1..Len(s)
    BY <1>1, <1>3, <2>3
  <2> QED
    BY <1>2, <2>1, <2>2, <2>3
<1>5. Range(s) \cup {item} \subseteq Range(t)
  <2>1. Len(s) + 1 \in 1..(Len(s) + 1)
    BY <1>1
  <2> QED
    BY <1>1, <1>3, <2>1 DEF Range
<1>6. Range(t) \subseteq Range(s) \cup {item}
  BY AppendedRange DEF t
<1> QED
  BY <1>4, <1>5, <1>6 DEF t
-----------------------------------------------------------------------------
(* A column in order is determined by what it holds, if no two cards are at *)
(* one position: the i-th item is the one with i keys up to its own.        *)
LEMMA UpToAPlace ==
    ASSUME NEW s \in Seq(Item), InOrder(s), NEW i \in DOMAIN s,
           \A x, y \in Range(s) : x.key = y.key => x = y
    PROVE  Cardinality({x \in Range(s) : x.key <= s[i].key}) = i
<1> DEFINE upTo == {x \in Range(s) : x.key <= s[i].key}
           f == [j \in 1..i |-> s[j]]
<1>1. DOMAIN s = 1..Len(s) /\ i \in Nat /\ 1..i \subseteq DOMAIN s
  OBVIOUS
<1>2. \A j \in DOMAIN s : s[j] \in Item /\ s[j].key \in Nat /\ j \in Nat /\ s[j] \in Range(s)
  BY ItemFields DEF Range
<1>3. f \in [1..i -> upTo]
  <2>1. ASSUME NEW j \in 1..i PROVE s[j] \in upTo
    <3>1. j \in DOMAIN s
      BY <1>1
    <3>2. j = i \/ j < i
      BY <1>1
    <3>3. s[j].key <= s[i].key
      BY <1>2, <3>1, <3>2 DEF InOrder
    <3> QED
      BY <1>2, <3>1, <3>3
  <2> HIDE DEF upTo
  <2> QED
    BY <2>1
<1>4. \A x \in upTo : \E j \in 1..i : f[j] = x
  <2> SUFFICES ASSUME NEW x \in upTo PROVE \E j \in 1..i : s[j] = x
    OBVIOUS
  <2>1. PICK j \in DOMAIN s : s[j] = x
    BY DEF Range
  <2>2. x.key <= s[i].key
    OBVIOUS
  <2>3. CASE j <= i
    BY <1>1, <1>2, <2>1, <2>3
  <2>4. CASE i < j
    <3>1. s[i].key <= s[j].key /\ s[i].card # s[j].card
      BY <2>4 DEF InOrder
    <3>2. s[i].key = s[j].key
      BY <1>2, <2>1, <2>2, <3>1
    <3>3. s[i] = s[j]
      BY <1>2, <3>2
    <3> QED
      BY <3>1, <3>3
  <2> QED
    BY <1>1, <1>2, <2>3, <2>4
<1>5. \A j, l \in 1..i : f[j] = f[l] => j = l
  <2> SUFFICES ASSUME NEW j \in 1..i, NEW l \in 1..i, s[j] = s[l] PROVE j = l
    OBVIOUS
  <2>1. OneEach(s)
    BY InOrderIsOneEach
  <2> QED
    BY <1>1, <2>1 DEF OneEach
<1>6. IsFiniteSet(1..i) /\ Cardinality(1..i) = i
  <2>1. 1 \in Int /\ i \in Int /\ i >= 1
    BY <1>1
  <2>2. IsFiniteSet(1..i) /\ Cardinality(1..i) = IF 1 > i THEN 0 ELSE i - 1 + 1
    BY <2>1, FS_Interval
  <2> QED
    BY <2>1, <2>2
<1> HIDE DEF f, upTo
<1>7. f \in Surjection(1..i, upTo) /\ f \in Injection(1..i, upTo)
  BY <1>3, <1>4, <1>5 DEF Surjection, Injection, IsInjective
<1>8. ExistsBijection(1..i, upTo)
  BY <1>7 DEF ExistsBijection, Bijection
<1>9. Cardinality(upTo) = Cardinality(1..i)
  BY <1>6, <1>8, FS_Bijection
<1> QED
  BY <1>6, <1>9 DEF upTo

LEMMA SameColumn ==
    ASSUME NEW s \in Seq(Item), NEW t \in Seq(Item), InOrder(s), InOrder(t),
           Range(s) = Range(t), \A x, y \in Range(s) : x.key = y.key => x = y
    PROVE  s = t
<1>1. ASSUME NEW u \in Seq(Item), NEW v \in Seq(Item), InOrder(u), InOrder(v),
             Range(u) = Range(v), \A x, y \in Range(u) : x.key = y.key => x = y,
             NEW i \in DOMAIN u
      PROVE  i \in DOMAIN v /\ v[i] = u[i]
  <2>1. PICK j \in DOMAIN v : v[j] = u[i]
    <3>1. u[i] \in Range(u)
      BY DEF Range
    <3>2. u[i] \in Range(v)
      BY <1>1, <3>1
    <3> QED
      BY <3>2 DEF Range
  <2>2. Cardinality({x \in Range(u) : x.key <= u[i].key}) = i
    BY <1>1, UpToAPlace
  <2>3. Cardinality({x \in Range(v) : x.key <= v[j].key}) = j
    BY <1>1, UpToAPlace
  <2>4. {x \in Range(u) : x.key <= u[i].key} = {x \in Range(v) : x.key <= v[j].key}
    BY <1>1, <2>1
  <2>5. i = j
    BY <2>2, <2>3, <2>4
  <2> QED
    BY <2>1, <2>5
<1>2. \A i \in DOMAIN s : i \in DOMAIN t /\ t[i] = s[i]
  BY <1>1
<1>3. \A i \in DOMAIN t : i \in DOMAIN s
  BY <1>1
<1>4. DOMAIN s = DOMAIN t
  BY <1>2, <1>3
<1>5. s = [i \in DOMAIN s |-> s[i]] /\ t = [i \in DOMAIN t |-> t[i]]
  OBVIOUS
<1> QED
  BY <1>2, <1>4, <1>5
-----------------------------------------------------------------------------
(* Trees in order *)

Ordered(tree) == \A k \in Columns : InOrder(tree[k])

LEMMA ItemsAreShown ==
    ASSUME NEW tree, NEW c
    PROVE  ItemsOf(tree, c) = {} <=> \A k \in Columns : Shown(tree, k, c) = {}
  BY DEF ItemsOf, Shown

LEMMA WithoutShows ==
    ASSUME NEW tree \in Tree, NEW c
    PROVE  /\ \A k \in Columns : \A d :
                 Shown(Without(tree, c), k, d) = IF d = c THEN {} ELSE Shown(tree, k, d)
           /\ Ordered(tree) => Ordered(Without(tree, c))
<1>1. \A k \in Columns : tree[k] \in Seq(Item) /\ Without(tree, c)[k] = Others(tree[k], c)
  BY DEF Tree, Without
<1>2. \A k \in Columns :
        /\ Range(Without(tree, c)[k]) = {item \in Range(tree[k]) : item.card # c}
        /\ InOrder(tree[k]) => InOrder(Without(tree, c)[k])
  BY <1>1, OthersInOrder
<1> QED
  BY <1>2 DEF Shown, Ordered

(* A "card.moved" puts the card where it says, and leaves the others alone. *)
LEMMA MovedShows ==
    ASSUME NEW tree \in Tree, NEW e, e.card \in Cards, e.column \in Columns,
           e.key \in Keys, e.n \in 0..MaxCommits, ItemsOf(tree, e.card) # {},
           Ordered(tree)
    PROVE  /\ Ordered(ApplyCardMoved(tree, e))
           /\ \A k \in Columns : \A d :
                 Shown(ApplyCardMoved(tree, e), k, d) =
                    IF d # e.card THEN Shown(tree, k, d)
                    ELSE IF k = e.column
                         THEN {[card |-> e.card, key |-> e.key, n |-> e.n]} ELSE {}
<1> DEFINE item == [card |-> e.card, key |-> e.key, n |-> e.n]
           w == Without(tree, e.card)
           s == Append(w[e.column], item)
           t == [w EXCEPT ![e.column] = Sorted(s)]
<1>1. item \in Item /\ item.card = e.card
  BY DEF Item
<1>2. /\ w \in Tree /\ Ordered(w)
      /\ \A k \in Columns : \A d :
            Shown(w, k, d) = IF d = e.card THEN {} ELSE Shown(tree, k, d)
  <2>1. Without(tree, e.card) \in Tree
    BY WithoutIsATree
  <2>2. Ordered(Without(tree, e.card))
    BY WithoutShows
  <2>3. \A k \in Columns : \A d :
          Shown(Without(tree, e.card), k, d) =
             IF d = e.card THEN {} ELSE Shown(tree, k, d)
    BY WithoutShows
  <2> QED
    BY <2>1, <2>2, <2>3
<1>3. ApplyCardMoved(tree, e) = t
  BY DEF ApplyCardMoved
<1> HIDE DEF w, item
<1>4. w[e.column] \in Seq(Item) /\ OneEach(w[e.column])
  BY <1>2, InOrderIsOneEach DEF Tree, Ordered
<1>5. \A x \in Range(w[e.column]) : x.card # item.card
  <2>1. Shown(w, e.column, e.card) = {}
    BY <1>2
  <2> QED
    BY <1>1, <2>1 DEF Shown
<1>6. s \in Seq(Item) /\ OneEach(s) /\ Range(s) = Range(w[e.column]) \cup {item}
  BY <1>1, <1>4, <1>5, AppendedOneEach, AppendedRange
<1> HIDE DEF s
<1>7. Range(Sorted(s)) = Range(w[e.column]) \cup {item} /\ InOrder(Sorted(s))
  BY <1>6, SortedInOrder
<1>8. \A k \in Columns : t[k] = IF k = e.column THEN Sorted(s) ELSE w[k]
  BY <1>2 DEF Tree
<1> HIDE DEF t
<1>9. Ordered(t)
  BY <1>2, <1>7, <1>8 DEF Ordered
<1>10. ASSUME NEW k \in Columns, NEW d
       PROVE  Shown(t, k, d) = IF d # e.card THEN Shown(tree, k, d)
                               ELSE IF k = e.column THEN {item} ELSE {}
  <2>1. CASE k = e.column
    <3>1. Range(t[k]) = Range(w[k]) \cup {item}
      BY <1>7, <1>8, <2>1
    <3>2. Shown(t, k, d) = Shown(w, k, d) \cup (IF d = e.card THEN {item} ELSE {})
      BY <1>1, <3>1 DEF Shown
    <3> QED
      BY <1>2, <2>1, <3>2
  <2>2. CASE k # e.column
    <3>1. Shown(t, k, d) = Shown(w, k, d)
      BY <1>8, <2>2 DEF Shown
    <3> QED
      BY <1>2, <2>2, <3>1
  <2> QED
    BY <2>1, <2>2
<1> QED
  BY <1>3, <1>9, <1>10 DEF item
-----------------------------------------------------------------------------
(* A tree and a table *)

(* What table R has of a card in a column.                                 *)
Stored(R, k, c) ==
    IF R[c] # Nothing /\ R[c].column = k
    THEN {[card |-> c, key |-> R[c].key, n |-> R[c].n]} ELSE {}

Agrees(R, tree, c) == \A k \in Columns : Shown(tree, k, c) = Stored(R, k, c)

UniqueIn(R) ==
    \A c, d \in Cards :
        c # d /\ R[c] # Nothing /\ R[d] # Nothing /\ R[c].column = R[d].column
        => R[c].key # R[d].key

TableType(R) == R \in [Cards -> Row \cup {Nothing}]

LEMMA RowFields ==
    ASSUME NEW R, TableType(R), NEW c \in Cards, R[c] # Nothing
    PROVE  /\ R[c].column \in Columns /\ R[c].key \in Keys /\ R[c].key \in Nat
           /\ R[c].n \in 0..MaxCommits /\ R[c].n \in Nat
           /\ [card |-> c, key |-> R[c].key, n |-> R[c].n] \in Item
<1>1. R[c] \in Row
  BY DEF TableType
<1>2. R[c].column \in Columns /\ R[c].key \in Keys /\ R[c].n \in 0..MaxCommits
  BY <1>1 DEF Row
<1> QED
  BY <1>2, Assumed DEF Item, Keys

LEMMA SetsAsSequences ==
    ASSUME NEW S, IsFiniteSet(S)
    PROVE  /\ SetToSeq(S) \in Seq(S) /\ Range(SetToSeq(S)) = S
           /\ \A i, j \in DOMAIN SetToSeq(S) :
                 i # j => SetToSeq(S)[i] # SetToSeq(S)[j]
<1> DEFINE N == Cardinality(S)
           s == SetToSeq(S)
<1>1. N \in Nat /\ ExistsBijection(1..N, S)
  BY FS_CardinalityType
<1>2. \E f \in [1..N -> S] : IsInjective(f)
  BY <1>1 DEF ExistsBijection, Bijection, Injection
<1>3. s \in [1..N -> S] /\ IsInjective(s)
  BY <1>1, <1>2 DEF SetToSeq
<1> HIDE DEF s
<1>4. IsFiniteSet(1..N) /\ Cardinality(1..N) = N
  <2>1. 1 \in Int /\ N \in Int
    BY <1>1
  <2>2. IsFiniteSet(1..N) /\ Cardinality(1..N) = IF 1 > N THEN 0 ELSE N - 1 + 1
    BY <2>1, FS_Interval
  <2> QED
    BY <1>1, <2>2
<1>5. s \in Surjection(1..N, S)
  <2>1. s \in Injection(1..N, S)
    BY <1>3 DEF Injection
  <2> QED
    BY <2>1, <1>4, FS_Injection
<1>6. \A x \in S : \E i \in 1..N : s[i] = x
  BY <1>5 DEF Surjection
<1> HIDE DEF N
<1>7. s \in Seq(S) /\ DOMAIN s = 1..N
  BY <1>1, <1>3
<1>8. Range(s) = S
  BY <1>3, <1>6, <1>7 DEF Range
<1>9. \A i, j \in DOMAIN s : i # j => s[i] # s[j]
  BY <1>3, <1>7 DEF IsInjective
<1> QED
  BY <1>7, <1>8, <1>9 DEF s

(* The answer of the server shows the table.                               *)
LEMMA ServerTreeShows ==
    ASSUME RowsType
    PROVE  /\ Ordered(ServerTree)
           /\ \A c \in Cards : Agrees(rows, ServerTree, c)
<1> DEFINE itemOf(c) == [card |-> c, key |-> rows[c].key, n |-> rows[c].n]
           items(k) == {itemOf(c) : c \in InColumn(k)}
<1>1. ASSUME NEW k \in Columns
      PROVE  /\ InOrder(Sorted(SetToSeq(items(k))))
             /\ Range(Sorted(SetToSeq(items(k)))) = items(k)
  <2>1. items(k) \in SUBSET Item
    BY RowFields DEF InColumn, RowsType, TableType
  <2>2. IsFiniteSet(items(k))
    <3> DEFINE f == [c \in InColumn(k) |-> itemOf(c)]
    <3>1. IsFiniteSet(InColumn(k))
      <4>1. InColumn(k) \in SUBSET Cards
        BY DEF InColumn
      <4> QED
        BY <4>1, FS_Subset, SyncAssumption
    <3>2. f \in Surjection(InColumn(k), items(k))
      <4>1. f \in [InColumn(k) -> items(k)]
        OBVIOUS
      <4>2. \A t \in items(k) : \E c \in InColumn(k) : f[c] = t
        OBVIOUS
      <4> QED
        BY <4>1, <4>2 DEF Surjection
    <3> HIDE DEF f
    <3> QED
      <4> HIDE DEF items
      <4> QED
        BY <3>1, <3>2, FS_Surjection
  <2> DEFINE s == SetToSeq(items(k))
  <2>3. /\ s \in Seq(items(k)) /\ Range(s) = items(k)
        /\ \A i, j \in DOMAIN s : i # j => s[i] # s[j]
    <3> HIDE DEF items
    <3> QED
      BY <2>2, SetsAsSequences
  <2>4. \A x, y \in items(k) : x # y => x.card # y.card
    OBVIOUS
  <2> HIDE DEF s, items
  <2>5. s \in Seq(Item)
    BY <2>1, <2>3
  <2>6. OneEach(s)
    <3>1. \A i \in DOMAIN s : s[i] \in items(k)
      BY <2>3
    <3> QED
      BY <2>3, <2>4, <3>1 DEF OneEach
  <2> QED
    BY <2>3, <2>5, <2>6, SortedInOrder DEF s
<1>2. \A k \in Columns : ServerTree[k] = Sorted(SetToSeq(items(k)))
  BY DEF ServerTree
<1>3. Ordered(ServerTree)
  <2> HIDE DEF items
  <2> QED
    BY <1>1, <1>2 DEF Ordered
<1>4. ASSUME NEW c \in Cards, NEW k \in Columns
      PROVE  Shown(ServerTree, k, c) = Stored(rows, k, c)
  <2>1. Range(ServerTree[k]) = items(k)
    <3> HIDE DEF items
    <3> QED
      BY <1>1, <1>2
  <2>2. Shown(ServerTree, k, c) = {item \in items(k) : item.card = c}
    <3> HIDE DEF items
    <3> QED
      BY <2>1 DEF Shown
  <2>3. {item \in items(k) : item.card = c} = IF c \in InColumn(k) THEN {itemOf(c)} ELSE {}
    OBVIOUS
  <2>4. (IF c \in InColumn(k) THEN {itemOf(c)} ELSE {}) = Stored(rows, k, c)
    BY DEF InColumn, Stored
  <2> HIDE DEF items, itemOf
  <2> QED
    BY <2>2, <2>3, <2>4
<1> QED
  BY <1>3, <1>4 DEF Agrees

(* A tree in order that agrees with the table on every card is the answer  *)
(* that the server would give.                                             *)
LEMMA AgreeingIsTheTree ==
    ASSUME RowsType, UniqueIn(rows), NEW tree \in Tree, Ordered(tree),
           \A c \in Cards : Agrees(rows, tree, c)
    PROVE  tree = ServerTree
<1>1. ServerTree \in Tree
  BY ServerTreeIsATree DEF RowsType
<1>2. ASSUME NEW k \in Columns PROVE tree[k] = ServerTree[k]
  <2> DEFINE s == tree[k]
             t == ServerTree[k]
  <2>1. s \in Seq(Item) /\ t \in Seq(Item) /\ InOrder(s) /\ InOrder(t)
    BY <1>1, ServerTreeShows DEF Tree, Ordered
  <2>2. \A c \in Cards : /\ {x \in Range(s) : x.card = c} = Stored(rows, k, c)
                         /\ {x \in Range(t) : x.card = c} = Stored(rows, k, c)
    BY ServerTreeShows DEF Agrees, Shown
  <2> HIDE DEF s, t
  <2>3. \A x \in Range(s) \cup Range(t) : x \in Item /\ x.card \in Cards
    <3>1. Range(s) \in SUBSET Item /\ Range(t) \in SUBSET Item
      BY <2>1, RangeOfSeq
    <3> QED
      BY <3>1, ItemFields
  <2>4. Range(s) = Range(t)
    <3>1. ASSUME NEW u, NEW v, NEW x \in u, x.card \in Cards,
                 {z \in u : z.card = x.card} = {z \in v : z.card = x.card}
          PROVE  x \in v
      BY <3>1
    <3>2. \A x \in Range(s) : x \in Range(t)
      BY <2>2, <2>3, <3>1
    <3>3. \A x \in Range(t) : x \in Range(s)
      BY <2>2, <2>3, <3>1
    <3> QED
      BY <3>2, <3>3
  <2>5. ASSUME NEW x \in Range(s), NEW y \in Range(s), x.key = y.key PROVE x = y
    <3>1. x \in Stored(rows, k, x.card) /\ y \in Stored(rows, k, y.card)
          /\ x.card \in Cards /\ y.card \in Cards
      BY <2>2, <2>3
    <3> DEFINE c == x.card
               d == y.card
    <3>2. /\ rows[c] # Nothing /\ rows[c].column = k
          /\ x = [card |-> c, key |-> rows[c].key, n |-> rows[c].n]
          /\ rows[d] # Nothing /\ rows[d].column = k
          /\ y = [card |-> d, key |-> rows[d].key, n |-> rows[d].n]
      BY <3>1 DEF Stored
    <3>3. x.key = rows[c].key /\ y.key = rows[d].key
      BY <3>2
    <3>4. c = d
      BY <2>5, <3>1, <3>2, <3>3 DEF UniqueIn
    <3> QED
      BY <3>2, <3>4
  <2>6. s = t
    BY <2>1, <2>4, <2>5, SameColumn
  <2> QED
    BY <2>6 DEF s, t
<1>3. tree = [k \in Columns |-> tree[k]] /\ ServerTree = [k \in Columns |-> ServerTree[k]]
  BY <1>1 DEF Tree
<1> QED
  BY <1>2, <1>3
-----------------------------------------------------------------------------
(* What is on its way to the viewer *)

(* The events that no tab takes for an echo. *)
Told(F) == {e \in F : e.type # "welcome" /\ e.by = Nothing}

(* Such an event is going to right what a tree shows of a card: it brings  *)
(* a refetch, or it is the card's last one and applies to the tree.        *)
Rights(R, tree, c, e) ==
    \/ e.type = "created"
    \/ /\ ItemsOf(tree, c) # {}
       /\ IF R[c] = Nothing THEN e.type = "deleted" ELSE e.n = R[c].n

Coming(R, F, tree, c, base) ==
    \E e \in Told(F) : e.card = c /\ e.n > base /\ Rights(R, tree, c, e)

(* Frames F, those after commit base, are all that tree lacks of table R.  *)
Good(R, F, tree, base) ==
    /\ Ordered(tree)
    /\ \A c \in Cards : Agrees(R, tree, c) \/ Coming(R, F, tree, c, base)

LEMMA MoreIsGood ==
    ASSUME NEW R, NEW F, NEW G, NEW tree, NEW base \in Nat, NEW less \in Nat,
           Good(R, F, tree, base), less <= base,
           \A e \in Told(F) : e \in G /\ e.n \in Nat
    PROVE  Good(R, G, tree, less)
<1>1. \A e \in Told(F) : e \in Told(G) /\ (e.n > base => e.n > less)
  BY DEF Told
<1>2. \A c \in Cards : Coming(R, F, tree, c, base) => Coming(R, G, tree, c, less)
  BY <1>1 DEF Coming
<1> QED
  BY <1>2 DEF Good

LEMMA TheAnswerIsGood ==
    ASSUME RowsType, NEW F, NEW base
    PROVE  Good(rows, F, ServerTree, base)
  BY ServerTreeShows DEF Good

(* A mutation that ends in a refetch or in a cause. *)
Unsettled(m) ==
    \/ mutation[m].phase = "committed"
    \/ mutation[m].type = "moved" /\ mutation[m].phase \in {"sent", "refused"}

(* The refetch of a new connection is still to come. *)
Behind == (joins > 0 /\ ~member) \/ (reconnected /\ link # "live")

Owed == Behind \/ \E m \in Mutations : Unsettled(m)

TrueCache ==
    fetch.state = "idle" /\ cache # NoData /\ causes = {} /\ ~Owed
    => Good(rows, Frames, cache, 0)

(* An answer that may be installed: its commits are in it, later ones come.*)
TrueAnswer ==
    fetch.state = "read" /\ fetch.since = {} /\ patched <= fetch.n /\ ~Owed
    => Good(rows, Frames, fetch.tree, fetch.n)

CurrentAnswer ==
    fetch.state = "read" /\ fetch.n = commits => fetch.tree = ServerTree

(* A row is as the last event of its card says, if that is still on its way. *)
Dated ==
    \A e \in Frames : e.type \in {"created", "moved"} /\ rows[e.card] # Nothing =>
        /\ e.n <= rows[e.card].n
        /\ e.n = rows[e.card].n =>
              e.column = rows[e.card].column /\ e.key = rows[e.card].key

Past ==
    /\ \A e \in Frames : e.type # "welcome" => e.n \in 1..commits
    /\ \A c \in Cards : rows[c] # Nothing => rows[c].n <= commits

Connected ==
    /\ member => joins > 0
    /\ link = "connecting" /\ ~reconnected => joins = 0

RowsInv == UniqueIn(rows) /\ Dated /\ Past

ViewInv == RowsInv /\ Connected /\ CurrentAnswer /\ TrueCache /\ TrueAnswer

LEMMA NothingIsComing ==
    ASSUME SyncInv, ViewInv
    PROVE  QuietViewsAreTrue
<1> SUFFICES ASSUME Quiet, cache # NoData, causes = {}
             PROVE  cache = ServerTree
  BY DEF QuietViewsAreTrue
<1>1. ~Owed
  BY DEF Quiet, Finished, Owed, Unsettled, Behind
<1>2. Frames = {}
  BY DEF Quiet, Frames, Range
<1>3. Good(rows, {}, cache, 0)
  BY <1>1, <1>2 DEF ViewInv, TrueCache, Quiet
<1>4. Ordered(cache) /\ \A c \in Cards : Agrees(rows, cache, c)
  BY <1>3 DEF Good, Coming, Told
<1> QED
  BY <1>4, AgreeingIsTheTree DEF SyncInv, QueryType, ViewInv, RowsInv
-----------------------------------------------------------------------------
(* Steps after which nothing is claimed, or the same as before *)

Excused ==
    \/ Owed \/ fetch.state = "asked"
    \/ causes # {} /\ (fetch.state = "read" => fetch.since # {})

LEMMA NothingClaimed ==
    ASSUME Excused'
    PROVE  TrueCache' /\ TrueAnswer'
  BY DEF Excused, TrueCache, TrueAnswer

(* A mutation's part in what is owed. *)
LEMMA OwedStill ==
    ASSUME UNCHANGED <<joins, member, reconnected, link>>,
           \A m \in Mutations : Unsettled(m) => Unsettled(m)'
    PROVE  Owed => Owed'
  BY DEF Owed, Behind

LEMMA StillTrue ==
    ASSUME SyncInv, ViewInv, rows' = rows, cache' = cache, patched' = patched,
           fetch'.state = fetch.state, fetch'.tree = fetch.tree, fetch'.n = fetch.n,
           fetch.since \subseteq fetch'.since, causes \subseteq causes',
           Owed => Owed', \A e \in Told(Frames) : e \in Frames'
    PROVE  TrueCache' /\ TrueAnswer'
<1>1. \A e \in Told(Frames) : e \in Frames' /\ e.n \in Nat
  BY DEF ViewInv, RowsInv, Past, Told
<1>2. fetch.n \in Nat
  BY FetchFields DEF SyncInv
<1>3. TrueCache'
  <2> SUFFICES ASSUME fetch'.state = "idle", cache' # NoData, causes' = {}, ~Owed'
               PROVE  Good(rows', Frames', cache', 0)
    BY DEF TrueCache
  <2>1. Good(rows, Frames, cache, 0)
    BY DEF ViewInv, TrueCache
  <2> QED
    BY <1>1, <2>1, MoreIsGood
<1>4. TrueAnswer'
  <2> SUFFICES ASSUME fetch'.state = "read", fetch'.since = {}, patched' <= fetch'.n,
                      ~Owed'
               PROVE  Good(rows', Frames', fetch'.tree, fetch'.n)
    BY DEF TrueAnswer
  <2>1. Good(rows, Frames, fetch.tree, fetch.n)
    BY DEF ViewInv, TrueAnswer
  <2>2. fetch.n <= fetch.n
    BY <1>2
  <2> QED
    BY <1>1, <1>2, <2>1, <2>2, MoreIsGood
<1> QED
  BY <1>3, <1>4

(* The table and the frames' relation to it, while nobody commits. *)
LEMMA RowsInvKept ==
    ASSUME ViewInv, UNCHANGED <<rows, commits>>,
           \A e \in Frames' : e \in Frames \/ e.type = "welcome"
    PROVE  RowsInv'
<1> USE DEF ViewInv, RowsInv
<1>1. UniqueIn(rows)'
  BY DEF UniqueIn
<1>2. Dated'
  BY DEF Dated
<1>3. Past'
  BY DEF Past
<1> QED
  BY <1>1, <1>2, <1>3

LEMMA SameAnswer ==
    ASSUME UNCHANGED rows
    PROVE  ServerTree' = ServerTree
<1>1. \A k : InColumn(k)' = InColumn(k)
  BY DEF InColumn
<1> QED
  BY <1>1 DEF ServerTree, InColumn

LEMMA CurrentAnswerKept ==
    ASSUME ViewInv, UNCHANGED <<rows, commits>>, FetchKept
    PROVE  CurrentAnswer'
  BY SameAnswer DEF ViewInv, CurrentAnswer, FetchKept

LEMMA ConnectedKept ==
    ASSUME ViewInv, UNCHANGED <<member, joins, link, reconnected>>
    PROVE  Connected'
  BY DEF ViewInv, Connected

(* An invalidation starts the fetch anew, or marks the answer it has read, *)
(* or finds that answer to be the table as it is.                          *)
LEMMA InvalidatedViews ==
    ASSUME SyncInv, ViewInv, fetch' = Invalidated, UNCHANGED <<rows, commits, cache>>
    PROVE  TrueCache' /\ TrueAnswer'
<1>1. CASE cache = NoData /\ fetch.state = "read"
  <2>1. TrueCache'
    BY <1>1 DEF TrueCache
  <2> DEFINE since == IF commits > fetch.n THEN fetch.since \cup {"early"}
                      ELSE fetch.since
  <2>2. fetch' = [state |-> "read", tree |-> fetch.tree, n |-> fetch.n,
                  since |-> since]
    BY <1>1, FetchFields DEF Invalidated, SyncInv
  <2>3. CASE commits > fetch.n
    BY <2>1, <2>2, <2>3 DEF TrueAnswer
  <2>4. CASE ~(commits > fetch.n)
    <3>1. fetch.n = commits
      BY <2>4, FetchFields, Assumed DEF SyncInv, DeletesAreFinal, RowsType
    <3>2. fetch'.tree = ServerTree
      BY <1>1, <2>2, <3>1 DEF ViewInv, CurrentAnswer
    <3>3. Good(rows', Frames', fetch'.tree, fetch'.n)
      BY <3>2, TheAnswerIsGood DEF SyncInv
    <3> QED
      BY <2>1, <3>3 DEF TrueAnswer
  <2> QED
    BY <2>3, <2>4
<1>2. CASE ~(cache = NoData /\ fetch.state = "read")
  <2>1. Asked.state = "asked"
    BY NothingRead
  <2>2. fetch'.state = "asked" \/ (fetch' = [fetch EXCEPT !.since = fetch.since] /\ fetch.state = "asked")
    BY <1>2, <2>1, FetchFields DEF Invalidated, SyncInv
  <2>3. fetch'.state = "asked"
    BY <2>2, FetchFields DEF SyncInv
  <2> QED
    BY <2>3, NothingClaimed DEF Excused
<1> QED
  BY <1>1, <1>2

(* A cause is held against the tree and the answer. *)
LEMMA BlamedViews ==
    ASSUME QueryType, NEW cause, Blame(cause)
    PROVE  /\ fetch'.state = fetch.state /\ fetch'.tree = fetch.tree
           /\ fetch'.n = fetch.n
           /\ fetch.since \subseteq fetch'.since /\ causes \subseteq causes'
           /\ cause # {} => causes' # {} /\ (fetch'.state = "read" => fetch'.since # {})
<1> DEFINE since == IF fetch.state = "read" THEN fetch.since \cup cause
                    ELSE fetch.since
<1>1. fetch' = [state |-> fetch.state, tree |-> fetch.tree, n |-> fetch.n,
                since |-> since]
  BY FetchFields DEF Blame
<1> QED
  BY <1>1 DEF Blame
-----------------------------------------------------------------------------
(* What queues go on holding *)

LEMMA QueueHolds ==
    ASSUME NEW S, NEW s \in Seq(S)
    PROVE  /\ s # <<>> => \A e \in Range(s) : e = Head(s) \/ e \in Range(Tail(s))
           /\ \A i \in DOMAIN s : \A e \in Range(s) :
                 e = s[i] \/ e \in Range(RemoveAt(s, i))
           /\ \A x \in S : /\ x \in Range(Append(s, x))
                           /\ \A e \in Range(s) : e \in Range(Append(s, x))
<1>1. Len(s) \in Nat /\ DOMAIN s = 1..Len(s)
  OBVIOUS
<1>2. ASSUME s # <<>>, NEW e \in Range(s)
      PROVE  e = Head(s) \/ e \in Range(Tail(s))
  <2>1. PICK j \in 1..Len(s) : e = s[j]
    BY <1>1, <1>2 DEF Range
  <2>2. /\ DOMAIN Tail(s) = 1..(Len(s) - 1)
        /\ \A i \in 1..(Len(s) - 1) : Tail(s)[i] = s[i + 1]
        /\ Head(s) = s[1]
    BY <1>2
  <2>3. CASE j = 1
    BY <2>1, <2>2, <2>3
  <2>4. CASE j # 1
    <3>1. j - 1 \in 1..(Len(s) - 1) /\ (j - 1) + 1 = j
      BY <1>1, <2>1, <2>4
    <3>2. Tail(s)[j - 1] = e
      BY <2>1, <2>2, <3>1
    <3> QED
      BY <2>2, <3>1, <3>2 DEF Range
  <2> QED
    BY <2>3, <2>4
<1>3. ASSUME NEW i \in DOMAIN s, NEW e \in Range(s)
      PROVE  e = s[i] \/ e \in Range(RemoveAt(s, i))
  <2> DEFINE a == SubSeq(s, 1, i - 1)
             b == SubSeq(s, i + 1, Len(s))
  <2>1. i \in 1..Len(s)
    BY <1>1
  <2>2. PICK j \in 1..Len(s) : e = s[j]
    BY <1>1 DEF Range
  <2>3. a \in Seq(S) /\ DOMAIN a = 1..(i - 1)
    BY <1>1, <2>1
  <2>4. \A l \in 1..(i - 1) : a[l] = s[l]
    BY <1>1, <2>1
  <2>5. b \in Seq(S) /\ DOMAIN b = 1..(Len(s) - i)
    BY <1>1, <2>1
  <2>6. \A l \in 1..(Len(s) - i) : b[l] = s[i + l]
    BY <1>1, <2>1
  <2>7. RemoveAt(s, i) = a \o b
    BY DEF RemoveAt
  <2> HIDE DEF a, b
  <2>8. Range(a \o b) = Range(a) \cup Range(b)
    BY <2>3, <2>5, RangeConcatenation
  <2>9. CASE j < i
    <3>1. j \in 1..(i - 1)
      BY <1>1, <2>1, <2>9
    <3>2. e \in Range(a)
      BY <2>2, <2>3, <2>4, <3>1 DEF Range
    <3> QED
      BY <2>7, <2>8, <3>2
  <2>10. CASE j > i
    <3>1. j - i \in 1..(Len(s) - i) /\ i + (j - i) = j
      BY <1>1, <2>1, <2>10
    <3>2. b[j - i] = e
      BY <2>2, <2>6, <3>1
    <3>3. e \in Range(b)
      BY <2>5, <3>1, <3>2 DEF Range
    <3> QED
      BY <2>7, <2>8, <3>3
  <2>11. CASE j = i
    BY <2>2, <2>11
  <2> QED
    BY <1>1, <2>1, <2>9, <2>10, <2>11
<1>4. ASSUME NEW x \in S
      PROVE  /\ x \in Range(Append(s, x))
             /\ \A e \in Range(s) : e \in Range(Append(s, x))
  <2> DEFINE t == Append(s, x)
  <2>1. /\ DOMAIN t = 1..(Len(s) + 1)
        /\ \A i \in 1..Len(s) : t[i] = s[i]
        /\ t[Len(s) + 1] = x
    BY <1>1
  <2> HIDE DEF t
  <2>2. Len(s) + 1 \in DOMAIN t /\ \A i \in DOMAIN s : i \in DOMAIN t
    BY <1>1, <2>1
  <2>3. x \in Range(t) /\ \A e \in Range(s) : e \in Range(t)
    BY <1>1, <2>1, <2>2 DEF Range
  <2> QED
    BY <2>3 DEF t
<1> QED
  BY <1>2, <1>3, <1>4

LEMMA FramesUnchanged ==
    ASSUME UNCHANGED <<pending, inbox>>
    PROVE  /\ Frames' = Frames
           /\ \A e \in Told(Frames) : e \in Frames'
           /\ \A e \in Frames' : e \in Frames \/ e.type = "welcome"
  BY DEF Frames, Told

(* A frame taken from the inbox is the only one that is no longer there.   *)
LEMMA OneFrameLess ==
    ASSUME SyncInv, inbox # <<>>, inbox' = Tail(inbox), UNCHANGED pending
    PROVE  /\ Frame \in Frames
           /\ \A e \in Frames : e = Frame \/ e \in Frames'
           /\ \A e \in Frames' : e \in Frames
<1>1. /\ Head(inbox) \in Range(inbox) /\ Range(Tail(inbox)) \subseteq Range(inbox)
      /\ \A e \in Range(inbox) : e = Head(inbox) \/ e \in Range(Tail(inbox))
  BY QueueParts, QueueHolds DEF SyncInv, FramesType
<1> QED
  BY <1>1 DEF Frames, Frame

(* Whatever goes on at the viewer's, without a commit or a frame.          *)
LEMMA QueryViews ==
    ASSUME ViewInv, FetchKept, UNCHANGED <<rows, commits, pending, inbox>>,
           UNCHANGED <<member, joins, link, reconnected>>,
           TrueCache' /\ TrueAnswer'
    PROVE  ViewInv'
  BY FramesUnchanged, RowsInvKept, CurrentAnswerKept, ConnectedKept DEF ViewInv

(* A frame less, or one passed on. *)
LEMMA FramesViews ==
    ASSUME ViewInv, FetchKept, UNCHANGED <<rows, commits>>,
           \A e \in Frames' : e \in Frames \/ e.type = "welcome",
           Connected', TrueCache' /\ TrueAnswer'
    PROVE  ViewInv'
  BY RowsInvKept, CurrentAnswerKept DEF ViewInv
-----------------------------------------------------------------------------
(* The query and the channel *)

LEMMA ReadSees ==
    ASSUME SyncInv, ViewInv, Read
    PROVE  ViewInv'
<1> USE DEF Read, server, channel
<1>1. fetch' = [state |-> "read", tree |-> ServerTree, n |-> commits,
                since |-> fetch.since]
  BY FetchFields DEF SyncInv
<1>2. Good(rows', Frames', fetch'.tree, fetch'.n)
  BY <1>1, TheAnswerIsGood DEF SyncInv
<1>3. TrueCache' /\ TrueAnswer'
  BY <1>1, <1>2 DEF TrueCache, TrueAnswer
<1>4. CurrentAnswer'
  BY <1>1, SameAnswer DEF CurrentAnswer
<1> QED
  BY <1>3, <1>4, FramesUnchanged, RowsInvKept, ConnectedKept DEF ViewInv

LEMMA InstallSees ==
    ASSUME SyncInv, ViewInv, Install
    PROVE  ViewInv'
<1> USE DEF Install, server, channel
<1>1. Idle.state = "idle" /\ FetchKept
  BY FetchRestarts DEF SyncInv, Idle
<1>2. TrueAnswer'
  BY <1>1 DEF TrueAnswer
<1>3. TrueCache'
  <2> SUFFICES ASSUME causes' = {}, ~Owed' PROVE Good(rows', Frames', cache', 0)
    BY DEF TrueCache
  <2>1. fetch.since = {} /\ ~(patched > fetch.n)
    OBVIOUS
  <2>2. patched <= fetch.n /\ fetch.n \in Nat /\ 0 <= fetch.n
    BY <2>1, FetchFields, Assumed DEF SyncInv, QueryType
  <2>3. ~Owed
    BY DEF Owed, Behind, Unsettled
  <2>4. Good(rows, Frames, fetch.tree, fetch.n)
    BY <2>1, <2>2, <2>3 DEF ViewInv, TrueAnswer
  <2>5. \A e \in Told(Frames) : e \in Frames' /\ e.n \in Nat
    BY FramesUnchanged DEF ViewInv, RowsInv, Past, Told
  <2> QED
    BY <2>2, <2>4, <2>5, MoreIsGood
<1> QED
  BY <1>1, <1>2, <1>3, QueryViews

LEMMA FetchFailsSees ==
    ASSUME SyncInv, ViewInv, FetchFails
    PROVE  ViewInv'
<1> USE DEF FetchFails, server, channel
<1>1. Idle.state = "idle" /\ FetchKept
  BY FetchRestarts DEF SyncInv, Idle
<1>2. Excused'
  BY <1>1 DEF Excused
<1> QED
  BY <1>1, <1>2, NothingClaimed, QueryViews

LEMMA PublishedFrames ==
    ASSUME SyncInv, NEW i \in DOMAIN pending, pending' = RemoveAt(pending, i),
           inbox' = inbox \/ (member /\ inbox' = Append(inbox, pending[i]))
    PROVE  /\ \A e \in Frames' : e \in Frames
           /\ inbox' = Append(inbox, pending[i]) => \A e \in Frames : e \in Frames'
<1>1. /\ pending[i] \in Event /\ pending[i] \in Range(pending)
      /\ Range(pending') \subseteq Range(pending)
      /\ \A e \in Range(pending) : e = pending[i] \/ e \in Range(pending')
  BY QueueParts, QueueHolds DEF SyncInv, FramesType
<1>2. CASE inbox' = Append(inbox, pending[i])
  <2>1. inbox \in Seq(Event \cup Welcome) /\ pending[i] \in Event \cup Welcome
    BY <1>1 DEF SyncInv, FramesType
  <2>2. /\ Range(inbox') \subseteq Range(inbox) \cup {pending[i]}
        /\ pending[i] \in Range(inbox') /\ \A e \in Range(inbox) : e \in Range(inbox')
    BY <1>2, <2>1, QueueParts, QueueHolds
  <2> QED
    BY <1>1, <2>2 DEF Frames
<1>3. CASE inbox' = inbox
  BY <1>1, <1>3 DEF Frames
<1> QED
  BY <1>2, <1>3

LEMMA PublishSees ==
    ASSUME SyncInv, ViewInv, Publish
    PROVE  ViewInv'
<1> USE DEF Publish
<1>1. PICK i \in DOMAIN pending :
          /\ pending' = RemoveAt(pending, i)
          /\ inbox' = IF member THEN Append(inbox, pending[i]) ELSE inbox
  OBVIOUS
<1> DEFINE cause == IF joins = 0 THEN {"early"} ELSE {}
<1>2. Blame(cause) /\ cause \in SUBSET Causes
  BY DEF Causes
<1>3. FetchKept
  BY <1>2, BlameKeeps DEF SyncInv
<1>4. \A e \in Frames' : e \in Frames
  BY <1>1, PublishedFrames
<1>5. TrueCache' /\ TrueAnswer'
  <2>1. CASE joins = 0
    <3>1. Excused'
      BY <1>2, <2>1, BlamedViews DEF Excused, SyncInv
    <3> QED
      BY <3>1, NothingClaimed
  <2>2. CASE joins # 0 /\ ~member
    <3>1. Owed'
      BY <2>2, Assumed DEF Owed, Behind, SyncInv, LinkType
    <3> QED
      BY <3>1, NothingClaimed DEF Excused
  <2>3. CASE member
    <3>1. \A e \in Frames : e \in Frames'
      BY <1>1, <2>3, PublishedFrames
    <3>2. Owed => Owed'
      BY OwedStill DEF Unsettled
    <3> QED
      BY <1>2, <3>1, <3>2, BlamedViews, StillTrue DEF SyncInv, Told
  <2> QED
    BY <2>1, <2>2, <2>3
<1>6. Connected'
  BY ConnectedKept
<1> QED
  BY <1>3, <1>4, <1>5, <1>6, FramesViews

LEMMA DropEventSees ==
    ASSUME SyncInv, ViewInv, DropEvent
    PROVE  ViewInv'
<1> USE DEF DropEvent, channel
<1>1. PICK i \in DOMAIN pending : pending' = RemoveAt(pending, i)
  OBVIOUS
<1>2. {"dropped"} \in SUBSET Causes /\ Blame({"dropped"})
  BY DEF Causes
<1>3. FetchKept
  BY <1>2, BlameKeeps DEF SyncInv
<1>4. \A e \in Frames' : e \in Frames
  BY <1>1, PublishedFrames
<1>5. Excused'
  BY <1>2, BlamedViews DEF Excused, SyncInv
<1>6. Connected'
  BY ConnectedKept
<1> QED
  BY <1>3, <1>4, <1>5, <1>6, NothingClaimed, FramesViews

LEMMA JoinSees ==
    ASSUME SyncInv, ViewInv, Join
    PROVE  ViewInv'
<1> USE DEF Join, server, query
<1> DEFINE w == [type |-> "welcome", id |-> joins + 1]
<1>1. inbox = <<>> /\ joins \in Nat
  BY Assumed DEF SyncInv, Joined, LinkType
<1>2. inbox' = <<w>> /\ w.type = "welcome"
  OBVIOUS
<1> HIDE DEF w
<1>3. /\ \A e \in Frames' : e \in Frames \/ e.type = "welcome"
      /\ \A e \in Frames : e \in Frames'
  BY <1>1, <1>2 DEF Frames, Range
<1>4. Connected'
  BY <1>1 DEF Connected
<1>5. Owed => Owed'
  <2>1. Behind => Behind'
    BY DEF Behind, ViewInv, Connected
  <2> QED
    BY <2>1 DEF Owed, Unsettled
<1>6. FetchKept
  BY FetchRestarts DEF SyncInv
<1>7. TrueCache' /\ TrueAnswer'
  BY <1>3, <1>5, StillTrue DEF Told
<1> QED
  BY <1>3, <1>4, <1>6, <1>7, FramesViews

LEMMA LeaveSees ==
    ASSUME SyncInv, ViewInv, Leave
    PROVE  ViewInv'
<1> USE DEF Leave, server, query
<1>1. PICK n \in 0..Len(inbox) : inbox' = SubSeq(inbox, 1, n)
  OBVIOUS
<1>2. \A e \in Frames' : e \in Frames
  <2>1. Range(inbox') \subseteq Range(inbox)
    BY <1>1, QueueParts DEF SyncInv, FramesType
  <2> QED
    BY <2>1 DEF Frames
<1>3. Connected' /\ Excused'
  BY DEF ViewInv, Connected, Excused, Owed, Behind
<1>4. FetchKept
  BY FetchRestarts DEF SyncInv
<1> QED
  BY <1>2, <1>3, <1>4, NothingClaimed, FramesViews

LEMMA LinkSees ==
    ASSUME SyncInv, ViewInv, Close \/ Reconnect \/ ConnectFails \/ OldChannelCloses
    PROVE  ViewInv'
<1> USE DEF Close, Reconnect, ConnectFails, OldChannelCloses, Onclose, server, query
<1>1. UNCHANGED <<rows, commits, cache, fetch, patched, causes, mutation>>
      /\ UNCHANGED <<pending, inbox, member, joins>>
  OBVIOUS
<1>2. Connected'
  BY DEF ViewInv, Connected
<1>3. FetchKept
  BY <1>1, FetchRestarts DEF SyncInv
<1>4. /\ \A e \in Told(Frames) : e \in Frames'
      /\ \A e \in Frames' : e \in Frames \/ e.type = "welcome"
  BY <1>1, FramesUnchanged
<1>5. Owed => Owed'
  <2>1. Behind => Behind'
    BY DEF Behind
  <2> QED
    BY <1>1, <2>1 DEF Owed, Unsettled
<1>6. TrueCache' /\ TrueAnswer'
  BY <1>1, <1>4, <1>5, StillTrue
<1> QED
  BY <1>1, <1>2, <1>3, <1>4, <1>6, FramesViews

LEMMA HearWelcomeSees ==
    ASSUME SyncInv, ViewInv, HearWelcome
    PROVE  ViewInv'
<1> USE DEF HearWelcome, server
<1>1. /\ \A e \in Frames : e = Frame \/ e \in Frames'
      /\ \A e \in Frames' : e \in Frames
  BY OneFrameLess
<1>2. \A e \in Told(Frames) : e \in Frames'
  BY <1>1 DEF Told, Frame
<1>3. Connected'
  BY DEF ViewInv, Connected
<1>4. FetchKept
  BY InvalidatedKeeps, FetchRestarts DEF SyncInv
<1>5. CASE reconnected
  <2>1. TrueCache' /\ TrueAnswer'
    BY <1>5, InvalidatedViews
  <2> QED
    BY <1>1, <1>3, <1>4, <2>1, FramesViews
<1>6. CASE ~reconnected
  <2>1. Owed => Owed'
    BY <1>6 DEF Owed, Behind, Unsettled
  <2>2. TrueCache' /\ TrueAnswer'
    BY <1>2, <1>6, <2>1, StillTrue
  <2> QED
    BY <1>1, <1>3, <1>4, <2>2, FramesViews
<1> QED
  BY <1>5, <1>6

LEMMA SuppressEchoSees ==
    ASSUME SyncInv, ViewInv, SuppressEcho
    PROVE  ViewInv'
<1> USE DEF SuppressEcho, Hears, server, query
<1>1. /\ \A e \in Frames : e = Frame \/ e \in Frames'
      /\ \A e \in Frames' : e \in Frames
  BY OneFrameLess
<1>2. \A e \in Told(Frames) : e \in Frames'
  BY <1>1 DEF Told, IsEcho
<1>3. FetchKept /\ Connected'
  BY FetchRestarts, ConnectedKept DEF SyncInv
<1>4. Owed => Owed'
  BY DEF Owed, Behind, Unsettled
<1>5. TrueCache' /\ TrueAnswer'
  BY <1>2, <1>4, StillTrue
<1> QED
  BY <1>1, <1>3, <1>5, FramesViews

LEMMA ResyncSees ==
    ASSUME SyncInv, ViewInv, Resync
    PROVE  ViewInv'
<1> USE DEF Resync, Hears, server
<1>1. \A e \in Frames' : e \in Frames
  BY OneFrameLess
<1>2. FetchKept /\ Connected'
  BY InvalidatedKeeps, ConnectedKept DEF SyncInv
<1>3. TrueCache' /\ TrueAnswer'
  BY InvalidatedViews
<1> QED
  BY <1>1, <1>2, <1>3, FramesViews
-----------------------------------------------------------------------------
(* Patches *)

LEMMA TreeUnchangedThere ==
    ASSUME NEW R, NEW tree, NEW other, NEW c,
           \A k \in Columns : Shown(other, k, c) = Shown(tree, k, c)
    PROVE  /\ Agrees(R, tree, c) => Agrees(R, other, c)
           /\ \A F, base : Coming(R, F, tree, c, base) => Coming(R, F, other, c, base)
<1>1. ItemsOf(tree, c) = {} <=> ItemsOf(other, c) = {}
  BY ItemsAreShown
<1>2. \A e : Rights(R, tree, c, e) => Rights(R, other, c, e)
  BY <1>1 DEF Rights
<1> QED
  BY <1>2 DEF Agrees, Coming

LEMMA ComingWithout ==
    ASSUME NEW R, NEW F, NEW G, NEW tree, NEW c, NEW base, NEW x,
           Coming(R, F, tree, c, base), \A e \in F : e = x \/ e \in G,
           x.card # c \/ ~Rights(R, tree, c, x)
    PROVE  Coming(R, G, tree, c, base)
  BY DEF Coming, Told

(* A "card.moved" that is patched in: it is the card's last one, or a      *)
(* later one is to come, or the card was newer (useBoardChannel.ts:55).    *)
LEMMA MovedPatchIsGood ==
    ASSUME SyncInv, ViewInv, Patch, Frame.type = "moved", causes' = {},
           Good(rows, Frames, cache, 0)
    PROVE  Good(rows', Frames', cache', 0)
<1> USE DEF Patch, Hears, server
<1> DEFINE e == Frame
           c == e.card
           t == ApplyCardMoved(cache, e)
<1>1. /\ cache \in Tree /\ e \in Event /\ e \in Frames
      /\ c \in Cards /\ e.n \in 0..MaxCommits /\ e.n \in Nat
  BY PatchFacts, FrameTypes, Assumed
<1>2. e.column \in Columns /\ e.key \in Keys
  BY <1>1 DEF SyncInv, WellFormed, Placed
<1>3. /\ rows' = rows /\ cache' = t /\ ~Outdated
      /\ \A f \in Frames : f = e \/ f \in Frames'
  BY OneFrameLess
<1>4. Ordered(cache) /\ \A d \in Cards : Agrees(rows, cache, d) \/ Coming(rows, Frames, cache, d, 0)
  BY DEF Good
<1>5. CASE ItemsOf(cache, c) = {}
  <2>1. t = cache
    BY <1>5 DEF ApplyCardMoved
  <2>2. ASSUME NEW d \in Cards
        PROVE  Agrees(rows, cache, d) \/ Coming(rows, Frames', cache, d, 0)
    <3>1. c # d \/ ~Rights(rows, cache, d, e)
      BY <1>5 DEF Rights
    <3> QED
      BY <1>3, <1>4, <3>1, ComingWithout
  <2> QED
    BY <1>3, <1>4, <2>1, <2>2 DEF Good
<1>6. CASE ItemsOf(cache, c) # {}
  <2> HIDE DEF t
  <2>1. /\ Ordered(t)
        /\ \A k \in Columns : \A d :
              Shown(t, k, d) = IF d # c THEN Shown(cache, k, d)
                               ELSE IF k = e.column
                                    THEN {[card |-> c, key |-> e.key, n |-> e.n]} ELSE {}
    BY <1>1, <1>2, <1>4, <1>6, MovedShows DEF t
  <2>2. ASSUME NEW d \in Cards, d # c
        PROVE  Agrees(rows, t, d) \/ Coming(rows, Frames', t, d, 0)
    <3>1. \A k \in Columns : Shown(t, k, d) = Shown(cache, k, d)
      BY <2>1, <2>2
    <3>2. Agrees(rows, cache, d) \/ Coming(rows, Frames', cache, d, 0)
      BY <1>3, <1>4, <2>2, ComingWithout
    <3> QED
      BY <3>1, <3>2, TreeUnchangedThere
  <2>3. ItemsOf(t, c) # {}
    <3>1. Shown(t, e.column, c) # {}
      BY <1>2, <2>1
    <3> QED
      BY <1>2, <3>1, ItemsAreShown
  <2>4. ASSUME Coming(rows, Frames, cache, c, 0), ~Rights(rows, cache, c, e)
        PROVE  Coming(rows, Frames', t, c, 0)
    <3>1. PICK f \in Told(Frames) : f.card = c /\ f.n > 0 /\ Rights(rows, cache, c, f)
      BY <2>4 DEF Coming
    <3>2. f # e
      BY <2>4, <3>1
    <3>3. f \in Told(Frames')
      BY <1>3, <3>1, <3>2 DEF Told
    <3>4. Rights(rows, t, c, f)
      BY <2>3, <3>1 DEF Rights
    <3> QED
      BY <3>1, <3>3, <3>4 DEF Coming
  <2>5. CASE rows[c] = Nothing
    <3>1. ~Agrees(rows, cache, c)
      <4>1. PICK k \in Columns : Shown(cache, k, c) # {}
        BY <1>6, ItemsAreShown
      <4> QED
        BY <2>5, <4>1 DEF Agrees, Stored
    <3>2. ~Rights(rows, cache, c, e)
      BY <2>5 DEF Rights
    <3> QED
      BY <1>1, <1>3, <1>4, <2>1, <2>2, <2>4, <3>1, <3>2 DEF Good
  <2>6. CASE rows[c] # Nothing
    <3>1. /\ e.n <= rows[c].n
          /\ e.n = rows[c].n => e.column = rows[c].column /\ e.key = rows[c].key
      BY <1>1, <2>6 DEF ViewInv, RowsInv, Dated
    <3>2. rows[c].n \in Nat /\ rows[c].column \in Columns
      BY <1>1, <2>6, RowFields DEF SyncInv, RowsType, TableType
    <3>3. CASE e.n = rows[c].n
      <4>1. Agrees(rows, t, c)
        BY <2>1, <2>6, <3>1, <3>3 DEF Agrees, Stored
      <4> QED
        BY <1>1, <1>3, <2>1, <2>2, <4>1 DEF Good
    <3>4. CASE e.n # rows[c].n
      <4>1. ~Rights(rows, cache, c, e)
        BY <2>6, <3>4 DEF Rights
      <4>2. ~Agrees(rows, cache, c)
        <5>1. SUFFICES ASSUME Agrees(rows, cache, c) PROVE FALSE
          OBVIOUS
        <5> DEFINE item == [card |-> c, key |-> rows[c].key, n |-> rows[c].n]
        <5>2. item \in Shown(cache, rows[c].column, c)
          BY <2>6, <3>2, <5>1 DEF Agrees, Stored
        <5>3. item \in ItemsOf(cache, c) /\ item.n = rows[c].n
          BY <3>2, <5>2 DEF Shown, ItemsOf
        <5>4. item.n > e.n
          BY <1>1, <3>1, <3>2, <3>4, <5>3
        <5> HIDE DEF item
        <5> QED
          BY <1>3, <5>3, <5>4 DEF Outdated
      <4> QED
        BY <1>1, <1>3, <1>4, <2>1, <2>2, <2>4, <4>1, <4>2 DEF Good
    <3> QED
      BY <3>3, <3>4
  <2> QED
    BY <2>5, <2>6
<1> QED
  BY <1>5, <1>6

LEMMA DeletedPatchIsGood ==
    ASSUME SyncInv, ViewInv, Patch, Frame.type = "deleted",
           Good(rows, Frames, cache, 0)
    PROVE  Good(rows', Frames', cache', 0)
<1> USE DEF Patch, Hears, server
<1> DEFINE e == Frame
           c == e.card
           t == Without(cache, c)
<1>1. cache \in Tree /\ e \in Frames /\ c \in Cards
  BY PatchFacts, FrameTypes
<1>2. /\ rows' = rows /\ cache' = t
      /\ \A f \in Frames : f = e \/ f \in Frames'
  BY OneFrameLess DEF ApplyCardDeleted
<1>3. /\ Ordered(cache)
      /\ \A d \in Cards : Agrees(rows, cache, d) \/ Coming(rows, Frames, cache, d, 0)
  BY DEF Good
<1> HIDE DEF t
<1>4. /\ Ordered(t)
      /\ \A k \in Columns : \A d :
            Shown(t, k, d) = IF d = c THEN {} ELSE Shown(cache, k, d)
  <2> HIDE DEF c
  <2>1. \A k \in Columns : \A d :
          Shown(Without(cache, c), k, d) = IF d = c THEN {} ELSE Shown(cache, k, d)
    BY <1>1, WithoutShows
  <2>2. Ordered(Without(cache, c))
    BY <1>1, <1>3, WithoutShows
  <2> QED
    BY <2>1, <2>2 DEF t
<1>5. ASSUME NEW d \in Cards, d # c
      PROVE  Agrees(rows, t, d) \/ Coming(rows, Frames', t, d, 0)
  <2>1. \A k \in Columns : Shown(t, k, d) = Shown(cache, k, d)
    BY <1>4, <1>5
  <2>2. Agrees(rows, cache, d) \/ Coming(rows, Frames', cache, d, 0)
    BY <1>2, <1>3, <1>5, ComingWithout
  <2> QED
    BY <2>1, <2>2, TreeUnchangedThere
<1>6. rows[c] = Nothing
  BY <1>1 DEF SyncInv, DeletesAreFinal, Deleted
<1>7. Agrees(rows, t, c)
  BY <1>4, <1>6 DEF Agrees, Stored
<1> QED
  BY <1>2, <1>4, <1>5, <1>7 DEF Good

LEMMA PatchSees ==
    ASSUME SyncInv, ViewInv, Patch
    PROVE  ViewInv'
<1> USE DEF Patch, Hears, server
<1>1. /\ Frame \in Frames /\ \A e \in Frames : e = Frame \/ e \in Frames'
      /\ \A e \in Frames' : e \in Frames
  BY OneFrameLess
<1>2. FetchKept /\ Connected'
  BY FetchRestarts, ConnectedKept DEF SyncInv
<1>3. Owed' <=> Owed
  BY DEF Owed, Behind, Unsettled
<1>4. TrueCache'
  <2> SUFFICES ASSUME fetch'.state = "idle", causes' = {}, ~Owed'
               PROVE  Good(rows', Frames', cache', 0)
    BY DEF TrueCache
  <2>1. Good(rows, Frames, cache, 0)
    BY <1>3 DEF ViewInv, TrueCache
  <2> QED
    BY <2>1, MovedPatchIsGood, DeletedPatchIsGood
<1>5. TrueAnswer'
  <2> SUFFICES ASSUME fetch'.state = "read", fetch'.since = {}, patched' <= fetch'.n,
                      ~Owed'
               PROVE  Good(rows', Frames', fetch'.tree, fetch'.n)
    BY DEF TrueAnswer
  <2>1. /\ patched \in Nat /\ patched' \in Nat /\ fetch.n \in Nat /\ Frame.n \in Nat
        /\ patched <= patched' /\ Frame.n <= patched'
    BY PatchFacts, FetchFields, FrameTypes, Assumed DEF SyncInv, QueryType
  <2>2. patched <= fetch.n /\ Frame.n <= fetch.n
    BY <2>1
  <2>3. Good(rows, Frames, fetch.tree, fetch.n)
    BY <1>3, <2>2 DEF ViewInv, TrueAnswer
  <2>4. ASSUME NEW c \in Cards, Coming(rows, Frames, fetch.tree, c, fetch.n)
        PROVE  Coming(rows, Frames', fetch.tree, c, fetch.n)
    <3>1. PICK e \in Told(Frames) : e.card = c /\ e.n > fetch.n /\ Rights(rows, fetch.tree, c, e)
      BY <2>4 DEF Coming
    <3>2. e # Frame
      BY <2>1, <2>2, <3>1
    <3>3. e \in Told(Frames')
      BY <1>1, <3>1, <3>2 DEF Told
    <3> QED
      BY <3>1, <3>3 DEF Coming
  <2> QED
    BY <2>3, <2>4 DEF Good
<1> QED
  BY <1>1, <1>2, <1>4, <1>5, FramesViews
-----------------------------------------------------------------------------
(* Commits *)

(* What a commit writes: the row that its event tells of, and others only  *)
(* as a cause of the tree's differing from the table.                      *)
Written(e, cause) ==
    /\ Announced(e) /\ Blame(cause) /\ cause \in SUBSET Causes
    /\ e.type # "created" => rows[e.card] # Nothing
    /\ rows'[e.card] = IF e.type = "deleted" THEN Nothing
                       ELSE [column |-> e.column, key |-> e.key, n |-> e.n]
    /\ \A d \in Cards \ {e.card} :
          rows'[d] # rows[d] => cause # {} /\ rows'[d] # Nothing /\ rows'[d].n = e.n
    /\ UniqueIn(rows')

LEMMA PlaceWrites ==
    ASSUME SyncInv, UniqueIn(rows), NEW type \in {"created", "moved"}, NEW c \in Cards,
           NEW k \in Columns, NEW by \in Ids, NEW lost \in SUBSET Causes,
           Place(type, c, k, by, lost), type = "moved" => rows[c] # Nothing
    PROVE  \E e, cause : Written(e, cause) /\ e.by = by /\ lost \subseteq cause
<1>1. PICK p \in Placements(c, k) :
        /\ rows' = [d \in Cards |->
              IF d = c \/ (d \in DOMAIN p /\ d \in Rewritten(p, c))
              THEN [column |-> k, key |-> p[d], n |-> commits + 1] ELSE rows[d]]
        /\ Announce(type, c, k, p[c], by)
        /\ Blame(lost \cup (IF Rewritten(p, c) = {} THEN {} ELSE {"silent"}))
  BY DEF Place
<1>2. /\ DOMAIN p = (InColumn(k) \ {c}) \cup {c}
      /\ \A d \in DOMAIN p : p[d] \in Keys
      /\ \A d, g \in DOMAIN p : p[d] = p[g] => d = g
  BY DEF Placements
<1> DEFINE e == [type |-> type, card |-> c, column |-> k, key |-> p[c],
                 n |-> commits + 1, by |-> by]
           cause == lost \cup (IF Rewritten(p, c) = {} THEN {} ELSE {"silent"})
           row(d) == [column |-> k, key |-> p[d], n |-> commits + 1]
<1>3. Announced(e)
  <2>1. commits' \in 0..MaxCommits /\ commits + 1 \in 1..MaxCommits
    BY <1>1, Assumed DEF Announce, SyncInv, RowsType
  <2>2. e \in Event
    BY <1>2, <2>1 DEF Event
  <2>3. Placed(e)
    BY <1>2 DEF Placed
  <2>4. pending' = Append(pending, e) /\ commits' = commits + 1 /\ e.n = commits + 1
    BY <1>1 DEF Announce
  <2> HIDE DEF e
  <2> QED
    BY <2>1, <2>2, <2>3, <2>4 DEF Announced
<1>4. Blame(cause) /\ cause \in SUBSET Causes /\ lost \subseteq cause
      /\ (Rewritten(p, c) # {} => cause # {})
  BY <1>1 DEF Causes
<1>5. /\ e.type = type /\ e.card = c /\ e.column = k /\ e.key = p[c]
      /\ e.n = commits + 1 /\ e.by = by
  OBVIOUS
<1>6. \A d \in Cards : row(d).column = k /\ row(d).key = p[d] /\ row(d).n = commits + 1
  OBVIOUS
<1>7. \A d \in DOMAIN p : row(d) # Nothing
  <2>1. commits + 1 \in Nat /\ \A d \in DOMAIN p : p[d] \in Nat
    BY <1>2, <1>3, Assumed DEF Announced, Keys
  <2> QED
    BY <2>1, RowsAreSomething
<1>8. \A d \in Cards : rows'[d] = IF d = c \/ (d \in DOMAIN p /\ d \in Rewritten(p, c))
                                  THEN row(d) ELSE rows[d]
  BY <1>1
<1> HIDE DEF e, cause, row
<1>9. rows'[c] = [column |-> e.column, key |-> e.key, n |-> e.n]
  BY <1>5, <1>8 DEF row
<1>10. ASSUME NEW d \in Cards \ {c}, rows'[d] # rows[d]
       PROVE  cause # {} /\ rows'[d] # Nothing /\ rows'[d].n = e.n
  <2>1. d \in DOMAIN p /\ d \in Rewritten(p, c) /\ rows'[d] = row(d)
    BY <1>8, <1>10
  <2> QED
    BY <1>4, <1>5, <1>6, <1>7, <2>1
<1>11. ASSUME NEW d \in Cards, rows'[d] # Nothing, rows'[d].column = k
       PROVE  d \in DOMAIN p /\ rows'[d].key = p[d]
  <2>1. CASE d = c
    BY <1>2, <1>6, <1>8, <2>1
  <2>2. CASE d # c /\ d \in DOMAIN p /\ d \in Rewritten(p, c)
    BY <1>6, <1>8, <2>2
  <2>3. CASE d # c /\ ~(d \in DOMAIN p /\ d \in Rewritten(p, c))
    <3>1. rows'[d] = rows[d]
      BY <1>8, <2>3
    <3>2. d \in DOMAIN p
      BY <1>2, <1>11, <2>3, <3>1 DEF InColumn
    <3> QED
      BY <2>3, <3>1, <3>2 DEF Rewritten
  <2> QED
    BY <2>1, <2>2, <2>3
<1>12. \A d \in Cards : rows'[d] # Nothing /\ rows'[d].column # k => rows'[d] = rows[d]
  BY <1>6, <1>8
<1>13. UniqueIn(rows')
  <2> SUFFICES ASSUME NEW d \in Cards, NEW g \in Cards, d # g,
                      rows'[d] # Nothing, rows'[g] # Nothing,
                      rows'[d].column = rows'[g].column
               PROVE  rows'[d].key # rows'[g].key
    BY DEF UniqueIn
  <2>1. CASE rows'[d].column = k
    BY <1>2, <1>11, <2>1
  <2>2. CASE rows'[d].column # k
    BY <1>12, <2>2 DEF UniqueIn
  <2> QED
    BY <2>1, <2>2
<1>14. Written(e, cause)
  BY <1>3, <1>4, <1>5, <1>9, <1>10, <1>13 DEF Written
<1> QED
  BY <1>4, <1>5, <1>14

LEMMA DeleteWrites ==
    ASSUME SyncInv, UniqueIn(rows), NEW c \in Cards, NEW by \in Ids,
           NEW lost \in SUBSET Causes, CommitDelete(c, by, lost)
    PROVE  \E e, cause : Written(e, cause) /\ e.by = by /\ lost \subseteq cause
<1> USE DEF CommitDelete
<1> DEFINE e == [type |-> "deleted", card |-> c, column |-> Nothing, key |-> Nothing,
                 n |-> commits + 1, by |-> by]
<1>1. Announced(e)
  <2>1. commits' \in 0..MaxCommits /\ commits + 1 \in 1..MaxCommits
    BY Assumed DEF Announce, SyncInv, RowsType
  <2>2. e \in Event
    BY <2>1 DEF Event
  <2>3. Placed(e)
    BY DEF Placed
  <2>4. pending' = Append(pending, e) /\ commits' = commits + 1 /\ e.n = commits + 1
    BY DEF Announce
  <2> HIDE DEF e
  <2> QED
    BY <2>1, <2>2, <2>3, <2>4 DEF Announced
<1>2. e.type = "deleted" /\ e.card = c /\ e.by = by
  OBVIOUS
<1> HIDE DEF e
<1>3. \A d \in Cards : rows'[d] = IF d = c THEN Nothing ELSE rows[d]
  BY DEF SyncInv, RowsType
<1>4. UniqueIn(rows')
  BY <1>3 DEF UniqueIn
<1>5. Written(e, lost)
  BY <1>1, <1>2, <1>3, <1>4 DEF Written
<1> QED
  BY <1>2, <1>5

LEMMA CommitWrites ==
    ASSUME SyncInv, UniqueIn(rows), NEW c \in Cards, NEW by \in Ids,
           NEW lost \in SUBSET Causes,
           \/ \E k \in Columns : CommitMove(c, k, by, lost) \/ CommitCreate(c, k, by, lost)
           \/ CommitDelete(c, by, lost)
    PROVE  \E e, cause : Written(e, cause) /\ e.by = by /\ lost \subseteq cause
<1>1. ASSUME NEW k \in Columns, CommitMove(c, k, by, lost)
      PROVE  \E e, cause : Written(e, cause) /\ e.by = by /\ lost \subseteq cause
  BY <1>1, PlaceWrites DEF CommitMove
<1>2. ASSUME NEW k \in Columns, CommitCreate(c, k, by, lost)
      PROVE  \E e, cause : Written(e, cause) /\ e.by = by /\ lost \subseteq cause
  BY <1>2, PlaceWrites DEF CommitCreate
<1> QED
  BY <1>1, <1>2, DeleteWrites

LEMMA WrittenFrames ==
    ASSUME SyncInv, NEW e, NEW cause, Written(e, cause), UNCHANGED inbox
    PROVE  /\ e \in Event /\ e \in Frames' /\ e.card \in Cards
           /\ e.n = commits + 1 /\ commits' = commits + 1 /\ commits \in Nat
           /\ \A f \in Frames' : f \in Frames \/ f = e
           /\ \A f \in Frames : f \in Frames'
<1>1. e \in Event /\ pending' = Append(pending, e) /\ e.card \in Cards
      /\ e.n = commits + 1 /\ commits' = commits + 1 /\ commits \in Nat
  BY FrameTypes, Assumed DEF Written, Announced, SyncInv, RowsType
<1>2. /\ Range(pending') \subseteq Range(pending) \cup {e}
      /\ e \in Range(pending') /\ \A f \in Range(pending) : f \in Range(pending')
  BY <1>1, QueueParts, QueueHolds DEF SyncInv, FramesType
<1> QED
  BY <1>1, <1>2 DEF Frames

(* The last commit is after every frame and every row. *)
LEMMA WrittenRows ==
    ASSUME SyncInv, ViewInv, SyncInv', NEW e, NEW cause, Written(e, cause),
           UNCHANGED inbox
    PROVE  RowsInv'
<1>1. UniqueIn(rows)'
  BY DEF Written
<1>2. Past'
  <2>1. ASSUME NEW f \in Frames', f.type # "welcome" PROVE f.n \in 1..commits'
    <3>1. CASE f = e
      BY <3>1, WrittenFrames
    <3>2. CASE f \in Frames
      <4>1. f.n \in 1..commits
        BY <2>1, <3>2 DEF ViewInv, RowsInv, Past
      <4> QED
        BY <4>1, WrittenFrames
    <3> QED
      BY <3>1, <3>2, WrittenFrames
  <2>2. ASSUME NEW c \in Cards, rows'[c] # Nothing PROVE rows'[c].n <= commits'
    <3>1. CASE rows'[c] = rows[c]
      <4>1. rows[c].n <= commits /\ rows[c].n \in Nat
        BY <2>2, <3>1, RowFields DEF ViewInv, RowsInv, Past, SyncInv, RowsType, TableType
      <4> QED
        BY <3>1, <4>1, WrittenFrames
    <3>2. CASE rows'[c] # rows[c]
      <4>1. rows'[c].n = e.n
        BY <2>2, <3>2 DEF Written
      <4> QED
        BY <4>1, WrittenFrames
    <3> QED
      BY <3>1, <3>2
  <2> QED
    BY <2>1, <2>2 DEF Past
<1>3. Dated'
  <2> SUFFICES ASSUME NEW f \in Frames', f.type \in {"created", "moved"},
                      rows'[f.card] # Nothing
               PROVE  /\ f.n <= rows'[f.card].n
                      /\ f.n = rows'[f.card].n =>
                            f.column = rows'[f.card].column /\ f.key = rows'[f.card].key
    BY DEF Dated
  <2>1. CASE f = e
    <3>1. rows'[e.card] = [column |-> e.column, key |-> e.key, n |-> e.n]
      BY <2>1 DEF Written
    <3>2. e.n \in Nat
      BY WrittenFrames
    <3> QED
      BY <2>1, <3>1, <3>2
  <2>2. CASE f \in Frames
    <3>1. f.n \in 1..commits /\ f.card \in Cards
      <4>1. f \in Event \cup Welcome
        BY <2>2, RangeOfSeq DEF Frames, SyncInv, FramesType
      <4> QED
        BY <2>2, <4>1, InboxTypes, FrameTypes DEF ViewInv, RowsInv, Past
    <3>2. CASE rows'[f.card] = rows[f.card]
      BY <2>2, <3>2 DEF ViewInv, RowsInv, Dated
    <3>3. CASE rows'[f.card] # rows[f.card]
      <4>1. rows'[f.card].n = e.n
        BY <3>1, <3>3 DEF Written
      <4>2. e.n = commits + 1 /\ commits \in Nat
        BY WrittenFrames
      <4> QED
        BY <3>1, <4>1, <4>2
    <3> QED
      BY <3>2, <3>3
  <2> QED
    BY <2>1, <2>2, WrittenFrames
<1> QED
  BY <1>1, <1>2, <1>3 DEF RowsInv

(* A tree that is good stays so: the card has its event on its way, and    *)
(* none else has changed.                                                  *)
LEMMA WrittenIsGood ==
    ASSUME SyncInv, ViewInv, NEW e, Written(e, {}), UNCHANGED inbox, e.by = Nothing,
           NEW tree, NEW base \in Nat, base <= commits, Good(rows, Frames, tree, base)
    PROVE  Good(rows', Frames', tree, base)
<1> DEFINE c == e.card
<1>1. /\ e \in Told(Frames') /\ c \in Cards /\ e.n > base
      /\ e.type \in {"created", "moved", "deleted"}
      /\ \A f \in Told(Frames) : f \in Told(Frames')
  BY WrittenFrames, FrameTypes DEF Told
<1>2. \A d \in Cards \ {c} : rows'[d] = rows[d]
  BY DEF Written
<1>3. ASSUME NEW d \in Cards, d # c
      PROVE  Agrees(rows', tree, d) \/ Coming(rows', Frames', tree, d, base)
  <2>1. rows'[d] = rows[d]
    BY <1>2, <1>3
  <2>2. CASE Agrees(rows, tree, d)
    BY <2>1, <2>2 DEF Agrees, Stored
  <2>3. CASE Coming(rows, Frames, tree, d, base)
    <3>1. PICK f \in Told(Frames) : f.card = d /\ f.n > base /\ Rights(rows, tree, d, f)
      BY <2>3 DEF Coming
    <3>2. Rights(rows', tree, d, f)
      BY <2>1, <3>1 DEF Rights
    <3> QED
      BY <1>1, <3>1, <3>2 DEF Coming
  <2> QED
    BY <2>2, <2>3 DEF Good
<1>4. Agrees(rows', tree, c) \/ Coming(rows', Frames', tree, c, base)
  <2>1. CASE e.type = "created" \/ ItemsOf(tree, c) # {}
    <3>1. Rights(rows', tree, c, e)
      <4>1. CASE e.type = "created"
        BY <4>1 DEF Rights
      <4>2. CASE e.type = "deleted" /\ ItemsOf(tree, c) # {}
        BY <4>2 DEF Rights, Written
      <4>3. CASE e.type = "moved" /\ ItemsOf(tree, c) # {}
        <5>1. rows'[c] = [column |-> e.column, key |-> e.key, n |-> e.n]
          BY <4>3 DEF Written
        <5>2. rows'[c].n = e.n
          BY <5>1
        <5>3. rows'[c] # Nothing
          <6>1. e.column \in Columns /\ e.key \in Nat /\ e.n \in Nat
            BY <4>3, WrittenFrames, Assumed DEF Written, Announced, Placed, Keys
          <6> QED
            BY <5>1, <6>1, RowsAreSomething
        <5> QED
          BY <4>3, <5>2, <5>3 DEF Rights
      <4> QED
        BY <1>1, <2>1, <4>1, <4>2, <4>3
    <3> QED
      BY <1>1, <3>1 DEF Coming
  <2>2. CASE e.type = "deleted" /\ ItemsOf(tree, c) = {}
    <3>1. \A k \in Columns : Shown(tree, k, c) = {}
      BY <2>2, ItemsAreShown
    <3>2. rows'[c] = Nothing
      BY <2>2 DEF Written
    <3> QED
      BY <3>1, <3>2 DEF Agrees, Stored
  <2>3. CASE e.type = "moved" /\ ItemsOf(tree, c) = {}
    <3>1. rows[c] # Nothing
      BY <2>3 DEF Written
    <3>2. ~Agrees(rows, tree, c)
      <4>1. rows[c].column \in Columns
        BY <1>1, <3>1, RowFields DEF SyncInv, RowsType, TableType
      <4>2. Stored(rows, rows[c].column, c) # {}
        BY <3>1 DEF Stored
      <4>3. Shown(tree, rows[c].column, c) = {}
        BY <2>3, <4>1, ItemsAreShown
      <4> QED
        BY <4>1, <4>2, <4>3 DEF Agrees
    <3>3. PICK f \in Told(Frames) : f.card = c /\ f.n > base /\ Rights(rows, tree, c, f)
      BY <1>1, <3>2 DEF Good, Coming
    <3>4. Rights(rows', tree, c, f)
      BY <2>3, <3>3 DEF Rights
    <3> QED
      BY <1>1, <3>3, <3>4 DEF Coming
  <2> QED
    BY <1>1, <2>1, <2>2, <2>3
<1> QED
  BY <1>3, <1>4 DEF Good
LEMMA CommitSees ==
    ASSUME SyncInv, ViewInv, SyncInv', NEW e, NEW cause, Written(e, cause),
           UNCHANGED channel, UNCHANGED <<cache, patched>>,
           Owed' \/ cause # {} \/ (e.by = Nothing /\ UNCHANGED mutation)
    PROVE  ViewInv'
<1> USE DEF channel
<1>1. /\ fetch'.state = fetch.state /\ fetch'.tree = fetch.tree /\ fetch'.n = fetch.n
      /\ fetch.since \subseteq fetch'.since /\ causes \subseteq causes'
      /\ cause # {} => causes' # {} /\ (fetch'.state = "read" => fetch'.since # {})
  BY BlamedViews DEF Written, SyncInv
<1>2. /\ fetch.n <= commits /\ fetch.n \in Nat /\ commits \in Nat
      /\ commits' = commits + 1
  BY WrittenFrames, FetchFields DEF SyncInv, DeletesAreFinal
<1>3. RowsInv' /\ Connected'
  BY WrittenRows, ConnectedKept
<1>4. CurrentAnswer'
  BY <1>1, <1>2 DEF CurrentAnswer
<1>5. CASE Owed' \/ cause # {}
  BY <1>1, <1>3, <1>4, <1>5, NothingClaimed DEF ViewInv, Excused
<1>6. CASE cause = {} /\ e.by = Nothing /\ UNCHANGED mutation
  <2>1. Owed => Owed'
    BY <1>6, OwedStill DEF Unsettled
  <2>2. TrueCache'
    <3> SUFFICES ASSUME fetch'.state = "idle", cache' # NoData, causes' = {}, ~Owed'
                 PROVE  Good(rows', Frames', cache', 0)
      BY DEF TrueCache
    <3>1. Good(rows, Frames, cache, 0)
      BY <1>1, <2>1 DEF ViewInv, TrueCache
    <3>2. 0 \in Nat /\ 0 <= commits
      BY <1>2
    <3> QED
      BY <1>6, <3>1, <3>2, WrittenIsGood
  <2>3. TrueAnswer'
    <3> SUFFICES ASSUME fetch'.state = "read", fetch'.since = {},
                        patched' <= fetch'.n, ~Owed'
                 PROVE  Good(rows', Frames', fetch'.tree, fetch'.n)
      BY DEF TrueAnswer
    <3>1. Good(rows, Frames, fetch.tree, fetch.n)
      BY <1>1, <2>1 DEF ViewInv, TrueAnswer
    <3>2. Good(rows', Frames', fetch.tree, fetch.n)
      BY <1>2, <1>6, <3>1, WrittenIsGood
    <3> QED
      BY <1>1, <3>2
  <2> QED
    BY <1>3, <1>4, <2>2, <2>3 DEF ViewInv
<1> QED
  BY <1>5, <1>6

LEMMA PeerCommitsSees ==
    ASSUME SyncInv, ViewInv, SyncInv', PeerCommits
    PROVE  ViewInv'
<1>1. Nothing \in Ids /\ {} \in SUBSET Causes
  BY DEF Ids
<1>2. PICK e, cause : Written(e, cause) /\ e.by = Nothing /\ {} \subseteq cause
  BY <1>1, CommitWrites DEF PeerCommits, ViewInv, RowsInv
<1> QED
  BY <1>2, CommitSees DEF PeerCommits

LEMMA ServerCommitsSees ==
    ASSUME SyncInv, ViewInv, SyncInv', NEW m \in Mutations, ServerCommits(m)
    PROVE  ViewInv'
<1> DEFINE r == mutation[m]
<1>1. /\ r.by \in Ids
      /\ r.type # "none" => r.card \in Cards
      /\ r.type \in {"moved", "created"} => r.column \in Columns
  BY MutationFields DEF Mutation
<1>2. ASSUME NEW lost \in SUBSET Causes, CommitRequest(m, lost)
      PROVE  \E e, cause : Written(e, cause) /\ lost \subseteq cause
  <2>1. UniqueIn(rows)
    BY DEF ViewInv, RowsInv
  <2>2. PICK c \in Cards :
           \/ \E k \in Columns :
                 CommitMove(c, k, r.by, lost) \/ CommitCreate(c, k, r.by, lost)
           \/ CommitDelete(c, r.by, lost)
    BY <1>1, <1>2 DEF CommitRequest
  <2> HIDE DEF r
  <2> QED
    BY <1>1, <2>1, <2>2, CommitWrites
<1>3. {} \in SUBSET Causes /\ {"unanswered"} \in SUBSET Causes
  BY DEF Causes
<1>4. CASE r.phase = "sent"
  <2>1. PICK e, cause : Written(e, cause)
    BY <1>2, <1>3, <1>4 DEF ServerCommits
  <2>2. Unsettled(m)'
    <3>1. mutation' = [mutation EXCEPT ![m].phase = "committed", ![m].n = commits + 1]
      BY <1>4 DEF ServerCommits
    <3>2. mutation'[m].phase = "committed"
      BY <3>1, MutationFields DEF Mutation
    <3> QED
      BY <3>2 DEF Unsettled
  <2> QED
    BY <2>1, <2>2, CommitSees DEF ServerCommits, Owed
<1>5. CASE r.phase # "sent"
  <2>1. PICK e, cause : Written(e, cause) /\ {"unanswered"} \subseteq cause
    BY <1>2, <1>3, <1>5 DEF ServerCommits
  <2> QED
    BY <2>1, CommitSees DEF ServerCommits
<1> QED
  BY <1>4, <1>5
-----------------------------------------------------------------------------
(* The viewer's mutations *)

(* A mutation that owed nothing and owes nothing, or owed before as well.  *)
LEMMA OwedByOthers ==
    ASSUME SyncInv, NEW m \in Mutations, NEW r, mutation' = [mutation EXCEPT ![m] = r],
           UNCHANGED <<joins, member, reconnected, link>>,
           Unsettled(m) => \/ r.phase = "committed"
                           \/ r.type = "moved" /\ r.phase \in {"sent", "refused"}
    PROVE  Owed => Owed'
<1>1. \A i \in Mutations : mutation'[i] = IF i = m THEN r ELSE mutation[i]
  BY MutationFields
<1>2. \A i \in Mutations : Unsettled(i) => Unsettled(i)'
  BY <1>1 DEF Unsettled
<1> QED
  BY <1>2, OwedStill

LEMMA DragCardSees ==
    ASSUME SyncInv, ViewInv, NEW m \in Mutations, DragCard(m)
    PROVE  ViewInv'
<1>1. PICK c, k, previous : Send(m, "moved", c, k, previous)
  BY DEF DragCard
<1>2. mutation'[m].type = "moved" /\ mutation'[m].phase = "sent"
  BY <1>1, MutationFields DEF Send
<1>3. Excused'
  BY <1>2 DEF Excused, Owed, Unsettled
<1>4. FetchKept
  BY FetchRestarts DEF DragCard, SyncInv
<1> QED
  BY <1>3, <1>4, NothingClaimed, QueryViews DEF DragCard, server, channel

(* Steps that leave the query and the events alone. *)
LEMMA MutationViews ==
    ASSUME SyncInv, ViewInv, UNCHANGED <<server, channel, cache, fetch, patched>>,
           causes' = causes, Owed => Owed'
    PROVE  ViewInv'
<1> USE DEF server, channel
<1>1. FetchKept
  BY FetchRestarts DEF SyncInv
<1>2. TrueCache' /\ TrueAnswer'
  BY FramesUnchanged, StillTrue
<1> QED
  BY <1>1, <1>2, QueryViews

LEMMA ClickCardSees ==
    ASSUME SyncInv, ViewInv, NEW m \in Mutations, ClickCard(m)
    PROVE  ViewInv'
<1>1. PICK r : mutation' = [mutation EXCEPT ![m] = r]
  BY DEF ClickCard, Send
<1>2. ~Unsettled(m)
  BY DEF ClickCard, Unsettled
<1>3. Owed => Owed'
  BY <1>1, <1>2, OwedByOthers DEF ClickCard, channel
<1> QED
  BY <1>3, MutationViews DEF ClickCard, query

LEMMA ServerRefusesSees ==
    ASSUME SyncInv, ViewInv, NEW m \in Mutations, ServerRefuses(m)
    PROVE  ViewInv'
<1> DEFINE r == [mutation[m] EXCEPT !.phase = "refused"]
<1>1. mutation' = [mutation EXCEPT ![m] = r]
  BY DEF ServerRefuses
<1>2. r.phase = "refused" /\ r.type = mutation[m].type /\ mutation[m].phase = "sent"
  BY MutationFields DEF ServerRefuses, Mutation
<1> HIDE DEF r
<1>3. Owed => Owed'
  BY <1>1, <1>2, OwedByOthers DEF ServerRefuses, channel, Unsettled
<1> QED
  BY <1>3, MutationViews DEF ServerRefuses, query

LEMMA SucceedSees ==
    ASSUME SyncInv, ViewInv, NEW m \in Mutations, Succeed(m)
    PROVE  ViewInv'
<1>1. FetchKept
  BY InvalidatedKeeps DEF Succeed, SyncInv
<1>2. TrueCache' /\ TrueAnswer'
  BY InvalidatedViews DEF Succeed, server
<1> QED
  BY <1>1, <1>2, QueryViews DEF Succeed, server, channel

(* A rollback asks anew; a change that was not confirmed is a cause, if it *)
(* was made.                                                               *)
LEMMA SettleSees ==
    ASSUME SyncInv, ViewInv, NEW m \in Mutations, Settle(m), NEW r,
           mutation' = [mutation EXCEPT ![m] = r],
           UNCHANGED <<server, channel, patched>>
    PROVE  ViewInv'
<1> USE DEF server, channel
<1>1. FetchKept
  BY SettleFacts
<1>2. CASE mutation[m].type = "moved"
  <2>1. Excused'
    BY <1>2, NothingRead DEF Settle, Excused
  <2> QED
    BY <1>1, <2>1, NothingClaimed, QueryViews
<1>3. CASE mutation[m].type # "moved" /\ mutation[m].phase = "committed"
  <2>1. Blame({"unanswered"})
    BY <1>3 DEF Settle
  <2>2. Excused'
    BY <2>1, BlamedViews DEF Excused, SyncInv
  <2> QED
    BY <1>1, <2>2, NothingClaimed, QueryViews
<1>4. CASE mutation[m].type # "moved" /\ mutation[m].phase # "committed"
  <2>1. Blame({}) /\ UNCHANGED cache
    BY <1>4 DEF Settle
  <2>2. Owed => Owed'
    BY <1>4, OwedByOthers DEF Unsettled
  <2>3. TrueCache' /\ TrueAnswer'
    BY <2>1, <2>2, BlamedViews, FramesUnchanged, StillTrue DEF SyncInv
  <2> QED
    BY <1>1, <2>3, QueryViews
<1> QED
  BY <1>2, <1>3, <1>4

LEMMA SettlesSee ==
    ASSUME SyncInv, ViewInv, NEW m \in Mutations,
           HearError(m) \/ LoseAnswer(m) \/ LoseRequest(m)
    PROVE  ViewInv'
<1>1. PICK r : mutation' = [mutation EXCEPT ![m] = r]
  <2>1. CASE HearError(m) \/ LoseAnswer(m)
    BY <2>1 DEF HearError, LoseAnswer, Finish
  <2>2. CASE LoseRequest(m)
    <3>1. mutation' = [mutation EXCEPT ![m] = [mutation[m] EXCEPT !.phase = "orphan",
                                                                  !.previous = NoData]]
      BY <2>2, MutationFields DEF LoseRequest
    <3> QED
      BY <3>1
  <2> QED
    BY <2>1, <2>2
<1>2. Settle(m) /\ UNCHANGED <<server, channel, patched>>
  BY DEF HearError, LoseAnswer, LoseRequest
<1> QED
  BY <1>1, <1>2, SettleSees
-----------------------------------------------------------------------------
(* The specification *)

LEMMA InitViews ==
    ASSUME Init
    PROVE  ViewInv
<1> USE DEF Init
<1>1. Frames = {} /\ Asked.state = "asked" /\ Asked.n = 0
  BY NothingRead DEF Frames, Range
<1>2. UniqueIn(rows)
  <2> SUFFICES ASSUME NEW c \in Cards, NEW d \in Cards, c # d, rows[c] # Nothing,
                      rows[d] # Nothing, rows[c].column = rows[d].column,
                      rows[c].key = rows[d].key
               PROVE  FALSE
    BY DEF UniqueIn
  <2>1. /\ rows \in [Cards -> [column : Columns, key : 1..MaxKey, n : {0}] \cup {Nothing}]
        /\ rows[c] # rows[d]
    BY SyncAssumption
  <2>2. /\ rows[c] \in [column : Columns, key : 1..MaxKey, n : {0}]
        /\ rows[d] \in [column : Columns, key : 1..MaxKey, n : {0}]
    BY <2>1
  <2>3. rows[c] = rows[d]
    BY <2>2
  <2> QED
    BY <2>1, <2>3
<1>3. Dated /\ Past
  <2>1. rows \in [Cards -> [column : Columns, key : 1..MaxKey, n : {0}] \cup {Nothing}]
    BY SyncAssumption
  <2>2. \A c \in Cards : rows[c] # Nothing => rows[c].n = 0
    BY <2>1
  <2> QED
    BY <1>1, <2>2 DEF Dated, Past
<1>4. Connected
  BY DEF Connected
<1>5. CurrentAnswer /\ TrueCache /\ TrueAnswer
  BY <1>1 DEF CurrentAnswer, TrueCache, TrueAnswer
<1> QED
  BY <1>2, <1>3, <1>4, <1>5 DEF ViewInv, RowsInv

LEMMA NextSees ==
    ASSUME SyncInv, ViewInv, [Next]_vars
    PROVE  ViewInv'
<1>1. SyncInv'
  BY NextKeeps
<1>2. CASE Step
  <2>1. CASE Read \/ Install \/ PeerCommits \/ Publish
    BY <1>1, <2>1, ReadSees, InstallSees, PeerCommitsSees, PublishSees
  <2>2. CASE Join \/ Close \/ Reconnect \/ HearWelcome
    BY <2>2, JoinSees, LinkSees, HearWelcomeSees
  <2>3. CASE SuppressEcho \/ Patch \/ Resync
    BY <2>3, SuppressEchoSees, PatchSees, ResyncSees
  <2>4. ASSUME NEW m \in Mutations,
               \/ DragCard(m) \/ ClickCard(m)
               \/ ServerCommits(m) \/ ServerRefuses(m)
               \/ Succeed(m) \/ HearError(m)
        PROVE  ViewInv'
    BY <1>1, <2>4, DragCardSees, ClickCardSees, ServerCommitsSees, ServerRefusesSees,
       SucceedSees, SettlesSee
  <2> QED
    BY <1>2, <2>1, <2>2, <2>3, <2>4 DEF Step
<1>3. CASE Failure
  <2>1. CASE FetchFails \/ DropEvent \/ Leave \/ ConnectFails \/ OldChannelCloses
    BY <2>1, FetchFailsSees, DropEventSees, LeaveSees, LinkSees
  <2>2. ASSUME NEW m \in Mutations, LoseAnswer(m) \/ LoseRequest(m) PROVE ViewInv'
    BY <2>2, SettlesSee
  <2> QED
    BY <1>3, <2>1, <2>2 DEF Failure
<1>4. CASE UNCHANGED vars
  <2>1. Owed => Owed'
    BY <1>4 DEF vars, channel, Owed, Behind, Unsettled
  <2> QED
    BY <1>4, <2>1, MutationViews DEF vars, query
<1> QED
  BY <1>2, <1>3, <1>4 DEF Next

(* Whatever the viewer and his peers do, in whatever order the events reach *)
(* him and the answers to his requests: when nothing is under way any more, *)
(* his cache is the table, unless a fault or a race has happened that no    *)
(* code of the client can notice (useBoardChannel.ts:4-5, hooks.ts).        *)
THEOREM QuietViewsTellTheTruth == Spec => []QuietViewsAreTrue
<1>1. Init => ViewInv
  BY InitViews
<1>2. SyncInv /\ ViewInv /\ [Next]_vars => ViewInv'
  BY NextSees
<1>3. SyncInv /\ ViewInv => QuietViewsAreTrue
  BY NothingIsComing
<1> QED
  BY <1>1, <1>2, <1>3, SyncInvariance, PTL DEF Spec
=============================================================================
