-------------------------- MODULE AnalysisProofs --------------------------
(***************************************************************************)
(* The weighted interval program finds the selection it is said to find,   *)
(* the search of a QUEUE_AWARE analysis tries every maximal selection and  *)
(* nothing else, no answer leaves room for another session, the gaps of a  *)
(* document are the gaps there are, and the reducer keeps its books on     *)
(* every selection the search and the service run it on.                   *)
(***************************************************************************)
EXTENDS DocumentProperties, LedgerProofs

-----------------------------------------------------------------------------
(***************************************************************************)
(* Finite sets in a strict order, given as the set R of its pairs.         *)
(***************************************************************************)

Orders(R, S) ==
    /\ \A x \in S : <<x, x>> \notin R
    /\ \A x, y, z \in S : <<x, y>> \in R /\ <<y, z>> \in R => <<x, z>> \in R
    /\ \A x, y \in S : x # y => <<x, y>> \in R \/ <<y, x>> \in R

Below(R, S, x) == {y \in S : <<y, x>> \in R}

\* What comes later has more before it.
LEMMA MoreBelow ==
    ASSUME NEW S, IsFiniteSet(S), NEW R, Orders(R, S),
           NEW x \in S, NEW y \in S, <<x, y>> \in R
    PROVE  Cardinality(Below(R, S, x)) < Cardinality(Below(R, S, y))
<1> DEFINE A == Below(R, S, x)
           B == Below(R, S, y)
<1>1. A \subseteq B /\ x \in B /\ x \notin A
  BY DEF Below, Orders
<1>2. B \subseteq S
  BY DEF Below
<1>3. IsFiniteSet(B) /\ Cardinality(B) \in Nat
  BY <1>2, FS_Subset, FS_CardinalityType
<1> HIDE DEF A, B
<1>4. IsFiniteSet(A) /\ Cardinality(A) <= Cardinality(B) /\ Cardinality(A) # Cardinality(B)
  BY <1>1, <1>3, FS_Subset
<1>5. Cardinality(A) \in Nat
  BY <1>4, FS_CardinalityType
<1> QED
  BY <1>3, <1>4, <1>5 DEF A, B

\* An element is told by how many come before it.
LEMMA BelowTells ==
    ASSUME NEW S, IsFiniteSet(S), NEW R, Orders(R, S), NEW x \in S, NEW y \in S,
           Cardinality(Below(R, S, x)) = Cardinality(Below(R, S, y))
    PROVE  x = y
<1> SUFFICES ASSUME x # y PROVE FALSE
  OBVIOUS
<1>1. <<x, y>> \in R \/ <<y, x>> \in R
  BY DEF Orders
<1>2. Cardinality(Below(R, S, x)) \in Nat
  <2>1. IsFiniteSet(Below(R, S, x))
    BY FS_Subset DEF Below
  <2> QED
    BY <2>1, FS_CardinalityType
<1> QED
  BY <1>1, <1>2, MoreBelow

\* At every place there is one.
LEMMA EveryPlaceTaken ==
    ASSUME NEW S, IsFiniteSet(S), NEW R, Orders(R, S), NEW n \in 0 .. Cardinality(S) - 1
    PROVE  \E x \in S : Cardinality(Below(R, S, x)) = n
<1> DEFINE c == Cardinality(S)
           T == 0 .. c - 1
           f == [x \in S |-> Cardinality(Below(R, S, x))]
<1>1. c \in Nat
  BY FS_CardinalityType
<1>2. IsFiniteSet(T) /\ Cardinality(T) = c
  BY <1>1, FS_Interval
<1>3. \A x \in S : Cardinality(Below(R, S, x)) \in T
  <2> TAKE x \in S
  <2> DEFINE A == Below(R, S, x)
  <2>1. A \in SUBSET S /\ x \notin A
    BY DEF Below, Orders
  <2> HIDE DEF A
  <2>2. IsFiniteSet(A) /\ Cardinality(A) <= c /\ Cardinality(A) # c
    BY <2>1, FS_Subset
  <2>3. Cardinality(A) \in Nat
    BY <2>2, FS_CardinalityType
  <2> HIDE DEF c
  <2>4. Cardinality(A) \in T
    BY <1>1, <2>2, <2>3
  <2> QED
    BY <2>4 DEF A
<1>4. f \in Injection(S, T)
  <2> HIDE DEF T
  <2>1. \A x, y \in S : Cardinality(Below(R, S, x)) = Cardinality(Below(R, S, y)) => x = y
    BY BelowTells
  <2> QED
    BY <1>3, <2>1 DEF Injection, IsInjective
<1>5. f \in Surjection(S, T)
  <2> HIDE DEF T, f, c
  <2> QED
    BY <1>2, <1>4, FS_Injection DEF c
<1>6. n \in T
  OBVIOUS
<1> HIDE DEF T
<1>7. \E x \in S : f[x] = n
  BY <1>5, <1>6 DEF Surjection
<1> QED
  BY <1>7

\* The elements of S, one at each place.
Placed(R, S, f) ==
    /\ \A i \in 1 .. Cardinality(S) : f[i] \in S /\ Cardinality(Below(R, S, f[i])) = i - 1
    /\ \A x \in S : \E i \in 1 .. Cardinality(S) : f[i] = x
    /\ \A i, j \in 1 .. Cardinality(S) : i < j => <<f[i], f[j]>> \in R

\* The place of each is the number of those before it.
LEMMA PlacedByNumber ==
    ASSUME NEW S, IsFiniteSet(S), NEW R, Orders(R, S), NEW f,
           \A i \in 1 .. Cardinality(S) :
               f[i] = CHOOSE x \in S : Cardinality(Below(R, S, x)) = i - 1
    PROVE  Placed(R, S, f)
<1> DEFINE n == Cardinality(S)
<1>1. n \in Nat
  BY FS_CardinalityType
<1>2. ASSUME NEW i \in 1 .. n PROVE f[i] \in S /\ Cardinality(Below(R, S, f[i])) = i - 1
  <2>1. i - 1 \in 0 .. Cardinality(S) - 1
    BY <1>1
  <2>2. \E x \in S : Cardinality(Below(R, S, x)) = i - 1
    BY <2>1, EveryPlaceTaken
  <2>3. f[i] = CHOOSE x \in S : Cardinality(Below(R, S, x)) = i - 1
    OBVIOUS
  <2> QED
    BY <2>2, <2>3
<1>3. ASSUME NEW x \in S PROVE \E i \in 1 .. n : f[i] = x
  <2> DEFINE k == Cardinality(Below(R, S, x))
  <2>1. Below(R, S, x) \subseteq S /\ x \notin Below(R, S, x)
    BY DEF Below, Orders
  <2>2. k \in Nat /\ k <= n /\ k # n
    BY <2>1, FS_Subset, FS_CardinalityType
  <2>3. k + 1 \in 1 .. n
    BY <1>1, <2>2
  <2>4. f[k + 1] \in S /\ Cardinality(Below(R, S, f[k + 1])) = k
    BY <1>2, <2>2, <2>3
  <2>5. f[k + 1] = x
    BY <2>4, BelowTells
  <2> QED
    BY <2>3, <2>5
<1>4. ASSUME NEW i \in 1 .. n, NEW j \in 1 .. n, i < j PROVE <<f[i], f[j]>> \in R
  <2>1. /\ f[i] \in S /\ Cardinality(Below(R, S, f[i])) = i - 1
        /\ f[j] \in S /\ Cardinality(Below(R, S, f[j])) = j - 1
    BY <1>2
  <2>2. f[i] # f[j]
    BY <1>4, <2>1
  <2>3. <<f[j], f[i]>> \notin R
    <3> SUFFICES ASSUME <<f[j], f[i]>> \in R PROVE FALSE
      OBVIOUS
    <3>1. Cardinality(Below(R, S, f[j])) < Cardinality(Below(R, S, f[i]))
      BY <2>1, MoreBelow
    <3> QED
      BY <1>4, <2>1, <3>1
  <2> QED
    BY <2>1, <2>2, <2>3 DEF Orders
<1> QED
  BY <1>2, <1>3, <1>4 DEF Placed

\* One of them is first.
LEMMA FirstOfAll ==
    ASSUME NEW S, IsFiniteSet(S), S # {}, NEW R, Orders(R, S)
    PROVE  \E x \in S : \A y \in S \ {x} : <<x, y>> \in R
<1>1. Cardinality(S) \in Nat /\ Cardinality(S) # 0
  BY FS_CardinalityType, FS_EmptySet
<1>2. 0 \in 0 .. Cardinality(S) - 1
  BY <1>1
<1>3. PICK x \in S : Cardinality(Below(R, S, x)) = 0
  BY <1>2, EveryPlaceTaken
<1>4. IsFiniteSet(Below(R, S, x))
  BY FS_Subset DEF Below
<1>5. Below(R, S, x) = {}
  BY <1>3, <1>4, FS_EmptySet
<1>6. \A y \in S \ {x} : <<x, y>> \in R
  BY <1>5 DEF Below, Orders
<1> QED
  BY <1>6

-----------------------------------------------------------------------------
(***************************************************************************)
(* The two orders of candidates.                                           *)
(***************************************************************************)

KeysApart(C) == \A a, b \in C : TieBreakKey(a) = TieBreakKey(b) => a = b

CandidatesOK(C) == IsFiniteSet(C) /\ (\A c \in C : CandidateOK(c)) /\ KeysApart(C)

\* A subset of candidates is one.
LEMMA FewerCandidates ==
    ASSUME NEW C, CandidatesOK(C), NEW S, S \subseteq C
    PROVE  CandidatesOK(S)
<1>1. IsFiniteSet(S)
  BY FS_Subset DEF CandidatesOK
<1> QED
  BY <1>1 DEF CandidatesOK, KeysApart

Lesser(a1, a2, a3, a4, a5, b1, b2, b3, b4, b5) ==
    \/ a1 < b1
    \/ a1 = b1 /\ a2 < b2
    \/ a1 = b1 /\ a2 = b2 /\ a3 < b3
    \/ a1 = b1 /\ a2 = b2 /\ a3 = b3 /\ a4 < b4
    \/ a1 = b1 /\ a2 = b2 /\ a3 = b3 /\ a4 = b4 /\ a5 < b5

\* The lexicographic order of five numbers, spelled out.
LEMMA PrecedesFive ==
    ASSUME NEW a1 \in Int, NEW a2 \in Int, NEW a3 \in Int, NEW a4 \in Int, NEW a5 \in Int,
           NEW b1 \in Int, NEW b2 \in Int, NEW b3 \in Int, NEW b4 \in Int, NEW b5 \in Int
    PROVE  Precedes(<<a1, a2, a3, a4, a5>>, <<b1, b2, b3, b4, b5>>) <=>
              Lesser(a1, a2, a3, a4, a5, b1, b2, b3, b4, b5)
<1> DEFINE a == <<a1, a2, a3, a4, a5>>
           b == <<b1, b2, b3, b4, b5>>
<1>1. DOMAIN a = 1 .. 5
  OBVIOUS
<1>2. /\ a[1] = a1 /\ a[2] = a2 /\ a[3] = a3 /\ a[4] = a4 /\ a[5] = a5
      /\ b[1] = b1 /\ b[2] = b2 /\ b[3] = b3 /\ b[4] = b4 /\ b[5] = b5
  OBVIOUS
<1> HIDE DEF a, b
<1>3. Precedes(a, b) <=> \E i \in 1 .. 5 : a[i] < b[i] /\ \A j \in 1 .. i - 1 : a[j] = b[j]
  BY <1>1 DEF Precedes
<1>4. 1 .. 5 = {1, 2, 3, 4, 5}
  OBVIOUS
<1>5. 1 .. 1 - 1 = {} /\ 1 .. 2 - 1 = {1} /\ 1 .. 3 - 1 = {1, 2} /\ 1 .. 4 - 1 = {1, 2, 3}
      /\ 1 .. 5 - 1 = {1, 2, 3, 4}
  OBVIOUS
<1>6. Precedes(a, b) <=>
        \/ a[1] < b[1]
        \/ a[2] < b[2] /\ \A j \in {1} : a[j] = b[j]
        \/ a[3] < b[3] /\ \A j \in {1, 2} : a[j] = b[j]
        \/ a[4] < b[4] /\ \A j \in {1, 2, 3} : a[j] = b[j]
        \/ a[5] < b[5] /\ \A j \in {1, 2, 3, 4} : a[j] = b[j]
  BY <1>3, <1>4, <1>5
<1> QED
  BY <1>2, <1>6 DEF a, b, Lesser

\* What the tie-break compares.
LEMMA TieBreaksIs ==
    ASSUME NEW x, CandidateOK(x), NEW y, CandidateOK(y)
    PROVE  TieBreaks(x, y) <=>
              \/ x.rank < y.rank
              \/ x.rank = y.rank /\ x.end < y.end
              \/ x.rank = y.rank /\ x.end = y.end /\ x.start < y.start
              \/ x.rank = y.rank /\ x.end = y.end /\ x.start = y.start /\ x.station < y.station
              \/ /\ x.rank = y.rank /\ x.end = y.end /\ x.start = y.start
                 /\ x.station = y.station /\ x.key < y.key
<1>1. /\ x.rank \in Int /\ x.end \in Int /\ x.start \in Int /\ x.station \in Int /\ x.key \in Int
      /\ y.rank \in Int /\ y.end \in Int /\ y.start \in Int /\ y.station \in Int /\ y.key \in Int
  BY DEF CandidateOK
<1>2. Precedes(<<x.rank, x.end, x.start, x.station, x.key>>,
                 <<y.rank, y.end, y.start, y.station, y.key>>)
        <=> Lesser(x.rank, x.end, x.start, x.station, x.key,
                   y.rank, y.end, y.start, y.station, y.key)
  BY <1>1, PrecedesFive, Zenon
<1> QED
  BY <1>2 DEF TieBreaks, TieBreakKey, Lesser

\* What the order of the program compares.
LEMMA EndsBeforeIs ==
    ASSUME NEW x, CandidateOK(x), NEW y, CandidateOK(y)
    PROVE  EndsBefore(x, y) <=>
              \/ x.end < y.end
              \/ x.end = y.end /\ x.start < y.start
              \/ x.end = y.end /\ x.start = y.start /\ x.rank < y.rank
              \/ x.end = y.end /\ x.start = y.start /\ x.rank = y.rank /\ x.station < y.station
              \/ /\ x.end = y.end /\ x.start = y.start /\ x.rank = y.rank
                 /\ x.station = y.station /\ x.key < y.key
<1>1. /\ x.rank \in Int /\ x.end \in Int /\ x.start \in Int /\ x.station \in Int /\ x.key \in Int
      /\ y.rank \in Int /\ y.end \in Int /\ y.start \in Int /\ y.station \in Int /\ y.key \in Int
  BY DEF CandidateOK
<1>2. Precedes(<<x.end, x.start, x.rank, x.station, x.key>>,
                 <<y.end, y.start, y.rank, y.station, y.key>>)
        <=> Lesser(x.end, x.start, x.rank, x.station, x.key,
                   y.end, y.start, y.rank, y.station, y.key)
  BY <1>1, PrecedesFive, Zenon
<1> QED
  BY <1>2 DEF EndsBefore, Lesser

TieOrder(C) == {p \in C \X C : TieBreaks(p[1], p[2])}
EndOrder(C) == {p \in C \X C : EndsBefore(p[1], p[2])}

\* Different candidates differ in their keys.
LEMMA KeysDiffer ==
    ASSUME NEW C, CandidatesOK(C), NEW x \in C, NEW y \in C, x # y
    PROVE  ~(/\ x.rank = y.rank /\ x.end = y.end /\ x.start = y.start
             /\ x.station = y.station /\ x.key = y.key)
BY DEF CandidatesOK, KeysApart, TieBreakKey

\* The tie-break is a strict order of candidates.
LEMMA TieStrict ==
    ASSUME NEW C, CandidatesOK(C)
    PROVE  /\ \A x \in C : ~TieBreaks(x, x)
           /\ \A x, y, z \in C : TieBreaks(x, y) /\ TieBreaks(y, z) => TieBreaks(x, z)
           /\ \A x, y \in C : x # y => TieBreaks(x, y) \/ TieBreaks(y, x)
<1>1. ASSUME NEW x \in C PROVE ~TieBreaks(x, x)
  <2>1. CandidateOK(x)
    BY DEF CandidatesOK
  <2> QED
    BY <2>1, TieBreaksIs DEF CandidateOK
<1>2. ASSUME NEW x \in C, NEW y \in C, NEW z \in C, TieBreaks(x, y), TieBreaks(y, z)
      PROVE  TieBreaks(x, z)
  <2>1. CandidateOK(x) /\ CandidateOK(y) /\ CandidateOK(z)
    BY DEF CandidatesOK
  <2> QED
    BY <1>2, <2>1, TieBreaksIs DEF CandidateOK
<1>3. ASSUME NEW x \in C, NEW y \in C, x # y PROVE TieBreaks(x, y) \/ TieBreaks(y, x)
  <2>1. CandidateOK(x) /\ CandidateOK(y)
    BY DEF CandidatesOK
  <2> QED
    BY <1>3, <2>1, KeysDiffer, TieBreaksIs DEF CandidateOK
<1> QED
  BY <1>1, <1>2, <1>3

\* The same, of the set of its pairs.
LEMMA TieOrders ==
    ASSUME NEW C, CandidatesOK(C)
    PROVE  /\ Orders(TieOrder(C), C)
           /\ \A x, y \in C : <<x, y>> \in TieOrder(C) <=> TieBreaks(x, y)
<1>1. \A x, y \in C : <<x, y>> \in TieOrder(C) <=> TieBreaks(x, y)
  BY DEF TieOrder
<1>2. /\ \A x \in C : ~TieBreaks(x, x)
      /\ \A x, y, z \in C : TieBreaks(x, y) /\ TieBreaks(y, z) => TieBreaks(x, z)
      /\ \A x, y \in C : x # y => TieBreaks(x, y) \/ TieBreaks(y, x)
  BY TieStrict
<1> QED
  BY <1>1, <1>2 DEF Orders

\* So is the order of the program.
LEMMA EndOrders ==
    ASSUME NEW C, CandidatesOK(C)
    PROVE  /\ Orders(EndOrder(C), C)
           /\ \A x, y \in C : <<x, y>> \in EndOrder(C) <=> EndsBefore(x, y)
<1>1. \A x, y \in C : <<x, y>> \in EndOrder(C) <=> EndsBefore(x, y)
  BY DEF EndOrder
<1>2. ASSUME NEW x \in C PROVE ~EndsBefore(x, x)
  <2>1. CandidateOK(x)
    BY DEF CandidatesOK
  <2> QED
    BY <2>1, EndsBeforeIs DEF CandidateOK
<1>3. ASSUME NEW x \in C, NEW y \in C, NEW z \in C, EndsBefore(x, y), EndsBefore(y, z)
      PROVE  EndsBefore(x, z)
  <2>1. CandidateOK(x) /\ CandidateOK(y) /\ CandidateOK(z)
    BY DEF CandidatesOK
  <2> QED
    BY <1>3, <2>1, EndsBeforeIs DEF CandidateOK
<1>4. ASSUME NEW x \in C, NEW y \in C, x # y PROVE EndsBefore(x, y) \/ EndsBefore(y, x)
  <2>1. CandidateOK(x) /\ CandidateOK(y)
    BY DEF CandidatesOK
  <2> QED
    BY <1>4, <2>1, KeysDiffer, EndsBeforeIs DEF CandidateOK
<1> QED
  BY <1>1, <1>2, <1>3, <1>4 DEF Orders

\* The order of the program is by end.
LEMMA EndsInOrder ==
    ASSUME NEW x, CandidateOK(x), NEW y, CandidateOK(y), EndsBefore(x, y)
    PROVE  x.end <= y.end
BY EndsBeforeIs DEF CandidateOK

-----------------------------------------------------------------------------
(***************************************************************************)
(* Candidates by end, and the bytes of a selection.                        *)
(***************************************************************************)

Item(C, i)   == ByEnd(C)[i]
Prefix(C, i) == {Item(C, j) : j \in 1 .. i}

\* The candidates by end, one at each place.
LEMMA ByEndPlaces ==
    ASSUME NEW C, CandidatesOK(C)
    PROVE  Placed(EndOrder(C), C, ByEnd(C))
<1> DEFINE n == Cardinality(C)
<1>1. IsFiniteSet(C) /\ Orders(EndOrder(C), C)
  BY EndOrders DEF CandidatesOK
<1>2. \A x \in C : {d \in C : EndsBefore(d, x)} = Below(EndOrder(C), C, x)
  BY EndOrders DEF Below
<1>3. ByEnd(C) = [i \in 1 .. n |->
                    CHOOSE x \in C : Cardinality({d \in C : EndsBefore(d, x)}) = i - 1]
  BY DEF ByEnd, Sorted
<1>4. \A i \in 1 .. n :
        (CHOOSE x \in C : Cardinality({d \in C : EndsBefore(d, x)}) = i - 1)
        = (CHOOSE x \in C : Cardinality(Below(EndOrder(C), C, x)) = i - 1)
  BY <1>2
<1>5. \A i \in 1 .. n :
        ByEnd(C)[i] = CHOOSE x \in C : Cardinality(Below(EndOrder(C), C, x)) = i - 1
  BY <1>3, <1>4
<1> QED
  BY <1>1, <1>5, PlacedByNumber

\* What that means for the program.
LEMMA Items ==
    ASSUME NEW C, CandidatesOK(C)
    PROVE  /\ Cardinality(C) \in Nat
           /\ \A i \in 1 .. Cardinality(C) : Item(C, i) \in C /\ CandidateOK(Item(C, i))
           /\ \A x \in C : \E i \in 1 .. Cardinality(C) : Item(C, i) = x
           /\ \A i, j \in 1 .. Cardinality(C) : i < j =>
                 /\ EndsBefore(Item(C, i), Item(C, j)) /\ Item(C, i) # Item(C, j)
                 /\ Item(C, i).end <= Item(C, j).end
<1> DEFINE n == Cardinality(C)
<1>1. n \in Nat
  BY FS_CardinalityType DEF CandidatesOK
<1>2. Placed(EndOrder(C), C, ByEnd(C))
  BY ByEndPlaces
<1>3. \A i \in 1 .. n : Item(C, i) \in C /\ CandidateOK(Item(C, i))
  BY <1>2 DEF Placed, Item, CandidatesOK
<1>4. \A x \in C : \E i \in 1 .. n : Item(C, i) = x
  BY <1>2 DEF Placed, Item
<1>5. ASSUME NEW i \in 1 .. n, NEW j \in 1 .. n, i < j
      PROVE  /\ EndsBefore(Item(C, i), Item(C, j)) /\ Item(C, i) # Item(C, j)
             /\ Item(C, i).end <= Item(C, j).end
  <2>1. <<Item(C, i), Item(C, j)>> \in EndOrder(C)
    BY <1>2, <1>5 DEF Placed, Item
  <2>2. EndsBefore(Item(C, i), Item(C, j))
    BY <1>3, <2>1, EndOrders
  <2>3. Item(C, i) # Item(C, j)
    BY <1>3, <2>1, EndOrders DEF Orders
  <2>4. Item(C, i).end <= Item(C, j).end
    BY <1>3, <2>2, EndsInOrder
  <2> QED
    BY <2>2, <2>3, <2>4
<1> QED
  BY <1>1, <1>3, <1>4, <1>5

\* One more candidate in front.
LEMMA PrefixNext ==
    ASSUME NEW C, CandidatesOK(C), NEW i \in 1 .. Cardinality(C)
    PROVE  /\ Prefix(C, i) = Prefix(C, i - 1) \cup {Item(C, i)}
           /\ Item(C, i) \notin Prefix(C, i - 1)
           /\ \A s \in Prefix(C, i - 1) : EndsBefore(s, Item(C, i))
           /\ Prefix(C, i) \subseteq C
<1>1. i \in Nat /\ Cardinality(C) \in Nat
  BY Items
<1>2. 1 .. i = (1 .. i - 1) \cup {i}
  BY <1>1
<1>3. Prefix(C, i) = Prefix(C, i - 1) \cup {Item(C, i)}
  BY <1>2 DEF Prefix
<1>4. \A j \in 1 .. i - 1 : j \in 1 .. Cardinality(C) /\ j < i
  BY <1>1
<1>5. \A j \in 1 .. i - 1 : EndsBefore(Item(C, j), Item(C, i)) /\ Item(C, j) # Item(C, i)
  BY <1>4, Items
<1>6. \A j \in 1 .. i : j \in 1 .. Cardinality(C)
  BY <1>1
<1>7. Prefix(C, i) \subseteq C
  BY <1>6, Items DEF Prefix
<1> QED
  BY <1>3, <1>5, <1>7 DEF Prefix

\* Nothing and everything.
LEMMA PrefixEnds ==
    ASSUME NEW C, CandidatesOK(C)
    PROVE  Prefix(C, 0) = {} /\ Prefix(C, Cardinality(C)) = C
<1>1. Prefix(C, 0) = {}
  BY DEF Prefix
<1>2. Prefix(C, Cardinality(C)) = C
  BY Items DEF Prefix
<1> QED
  BY <1>1, <1>2

\* Nothing weighs nothing.
LEMMA WeightOfNothing == Weight({}) = 0
<1>1. Cardinality({}) = 0
  BY FS_EmptySet
<1> QED
  BY <1>1, SumNext DEF Weight

\* A candidate after all of a selection adds its bytes.
LEMMA WeightNext ==
    ASSUME NEW C, CandidatesOK(C), NEW S, NEW x \in C, C = S \cup {x}, x \notin S,
           \A s \in S : EndsBefore(s, x)
    PROVE  Weight(C) = Weight(S) + x.cap
<1> DEFINE n == Cardinality(S)
<1>1. CandidatesOK(S) /\ IsFiniteSet(S) /\ n \in Nat
  BY FewerCandidates, FS_CardinalityType DEF CandidatesOK
<1>2. Cardinality(C) = n + 1
  BY <1>1, FS_AddElement
<1> HIDE DEF n
<1>3. Placed(EndOrder(C), C, ByEnd(C)) /\ Placed(EndOrder(S), S, ByEnd(S))
  BY <1>1, ByEndPlaces
<1>4. Orders(EndOrder(C), C) /\ (\A a, b \in C : <<a, b>> \in EndOrder(C) <=> EndsBefore(a, b))
      /\ (\A a, b \in S : <<a, b>> \in EndOrder(S) <=> EndsBefore(a, b))
  BY <1>1, EndOrders
<1>5. \A s \in S : Below(EndOrder(C), C, s) = Below(EndOrder(S), S, s)
  <2>1. \A s \in S : <<x, s>> \notin EndOrder(C)
    BY <1>4 DEF Orders
  <2> QED
    BY <1>4, <2>1 DEF Below
<1>6. Below(EndOrder(C), C, x) = S
  BY <1>4 DEF Below, Orders
<1>7. ASSUME NEW i \in 1 .. n PROVE ByEnd(C)[i] = ByEnd(S)[i]
  <2>1. i \in 1 .. n + 1
    BY <1>1
  <2>2. /\ ByEnd(C)[i] \in C /\ Cardinality(Below(EndOrder(C), C, ByEnd(C)[i])) = i - 1
        /\ ByEnd(S)[i] \in S /\ Cardinality(Below(EndOrder(S), S, ByEnd(S)[i])) = i - 1
    BY <1>2, <1>3, <2>1 DEF Placed, n
  <2>3. Cardinality(Below(EndOrder(C), C, ByEnd(S)[i])) = i - 1
    BY <1>5, <2>2
  <2>4. IsFiniteSet(C)
    BY DEF CandidatesOK
  <2> QED
    BY <1>4, <2>2, <2>3, <2>4, BelowTells
<1>8. ByEnd(C)[n + 1] = x
  <2>1. n + 1 \in 1 .. n + 1
    BY <1>1
  <2>2. ByEnd(C)[n + 1] \in C /\ Cardinality(Below(EndOrder(C), C, ByEnd(C)[n + 1])) = n
    <3>1. \A i \in 1 .. n + 1 :
            ByEnd(C)[i] \in C /\ Cardinality(Below(EndOrder(C), C, ByEnd(C)[i])) = i - 1
      BY <1>2, <1>3 DEF Placed
    <3>2. (n + 1) - 1 = n
      BY <1>1
    <3> QED
      BY <2>1, <3>1, <3>2
  <2>3. Cardinality(Below(EndOrder(C), C, x)) = n
    BY <1>6 DEF n
  <2>4. IsFiniteSet(C)
    BY DEF CandidatesOK
  <2> QED
    BY <1>4, <2>2, <2>3, <2>4, BelowTells
<1> DEFINE f == [i \in 1 .. n |-> ByEnd(S)[i].cap]
           g == [i \in 1 .. n + 1 |-> ByEnd(C)[i].cap]
<1>9. Weight(S) = Sum(f, n) /\ Weight(C) = Sum(g, n + 1)
  BY <1>2 DEF Weight, n
<1>10. \A i \in 1 .. n : g[i] = f[i]
  <2> TAKE i \in 1 .. n
  <2>1. ByEnd(C)[i] = ByEnd(S)[i]
    BY <1>7
  <2>2. i \in 1 .. n + 1
    BY <1>1
  <2> QED
    BY <2>1, <2>2
<1>11. g[n + 1] = x.cap
  BY <1>1, <1>8
<1> HIDE DEF f, g
<1>12. Sum(g, n + 1) = Sum(f, n) + g[n + 1]
  BY <1>1, <1>10, SumAppend
<1> QED
  BY <1>9, <1>11, <1>12

\* The last candidate of a prefix is in a selection, or it is not.
LEMMA LastItem ==
    ASSUME NEW C, CandidatesOK(C), NEW i \in 1 .. Cardinality(C), NEW A, A \subseteq Prefix(C, i)
    PROVE  /\ Item(C, i) \notin A => A \subseteq Prefix(C, i - 1)
           /\ Item(C, i) \in A =>
                 /\ A \ {Item(C, i)} \subseteq Prefix(C, i - 1)
                 /\ Weight(A) = Weight(A \ {Item(C, i)}) + Item(C, i).cap
<1> DEFINE x == Item(C, i)
           R == A \ {x}
<1>1. Prefix(C, i) = Prefix(C, i - 1) \cup {x} /\ Prefix(C, i) \subseteq C
      /\ \A s \in Prefix(C, i - 1) : EndsBefore(s, x)
  BY PrefixNext
<1>2. R \subseteq Prefix(C, i - 1)
  BY <1>1
<1>3. ASSUME x \in A PROVE Weight(A) = Weight(R) + x.cap
  <2>1. A = R \cup {x} /\ x \notin R /\ \A s \in R : EndsBefore(s, x)
    BY <1>1, <1>2, <1>3
  <2>2. CandidatesOK(A)
    BY <1>1, FewerCandidates
  <2> HIDE DEF R, x
  <2> QED
    BY <1>3, <2>1, <2>2, WeightNext
<1> QED
  BY <1>1, <1>2, <1>3

\* Less weighs less.
LEMMA WeightGrows ==
    ASSUME NEW C, CandidatesOK(C)
    PROVE  /\ \A A \in SUBSET C : Weight(A) \in Nat
           /\ \A A, B \in SUBSET C : A \subseteq B /\ A # B => Weight(A) < Weight(B)
<1> DEFINE n == Cardinality(C)
           D == {i \in Nat : i <= n =>
                    /\ \A A \in SUBSET Prefix(C, i) : Weight(A) \in Nat
                    /\ \A A, B \in SUBSET Prefix(C, i) :
                          A \subseteq B /\ A # B => Weight(A) < Weight(B)}
<1>1. n \in Nat
  BY Items
<1>2. 0 \in D
  <2>1. \A A \in SUBSET Prefix(C, 0) : A = {}
    BY PrefixEnds
  <2>2. \A A \in SUBSET Prefix(C, 0) : Weight(A) \in Nat
    BY <2>1, WeightOfNothing
  <2>3. \A A, B \in SUBSET Prefix(C, 0) : A = B
    BY <2>1
  <2> QED
    BY <2>2, <2>3
<1>3. ASSUME NEW k \in Nat, k \in D PROVE k + 1 \in D
  <2> SUFFICES ASSUME k + 1 <= n
               PROVE  /\ \A A \in SUBSET Prefix(C, k + 1) : Weight(A) \in Nat
                      /\ \A A, B \in SUBSET Prefix(C, k + 1) :
                            A \subseteq B /\ A # B => Weight(A) < Weight(B)
    OBVIOUS
  <2> DEFINE x == Item(C, k + 1)
             P == Prefix(C, k)
  <2>1. k + 1 \in 1 .. n /\ (k + 1) - 1 = k /\ k <= n
    BY <1>1
  <2>2. /\ \A A \in SUBSET P : Weight(A) \in Nat
        /\ \A A, B \in SUBSET P : A \subseteq B /\ A # B => Weight(A) < Weight(B)
    BY <1>3, <2>1
  <2>3. x.cap \in Nat \ {0}
    BY <2>1, Items DEF CandidateOK
  <2>4. \A A \in SUBSET Prefix(C, k + 1) :
          /\ x \notin A => A \in SUBSET P
          /\ x \in A => A \ {x} \in SUBSET P /\ Weight(A) = Weight(A \ {x}) + x.cap
    BY <2>1, LastItem
  <2> HIDE DEF x, P
  <2>5. ASSUME NEW A \in SUBSET Prefix(C, k + 1) PROVE Weight(A) \in Nat
    <3>1. CASE x \notin A
      BY <2>2, <2>4, <3>1
    <3>2. CASE x \in A
      <4>1. Weight(A \ {x}) \in Nat /\ Weight(A) = Weight(A \ {x}) + x.cap
        BY <2>2, <2>4, <3>2
      <4> QED
        BY <2>3, <4>1
    <3> QED
      BY <3>1, <3>2
  <2>6. ASSUME NEW A \in SUBSET Prefix(C, k + 1), NEW B \in SUBSET Prefix(C, k + 1),
               A \subseteq B, A # B
        PROVE  Weight(A) < Weight(B)
    <3>1. CASE x \notin B
      <4>1. A \in SUBSET P /\ B \in SUBSET P
        BY <2>4, <2>6, <3>1
      <4> QED
        BY <2>2, <2>6, <4>1
    <3>2. CASE x \in B /\ x \notin A
      <4>1. A \in SUBSET P /\ B \ {x} \in SUBSET P /\ A \subseteq B \ {x}
            /\ Weight(B) = Weight(B \ {x}) + x.cap
        BY <2>4, <2>6, <3>2
      <4>2. Weight(A) \in Nat /\ Weight(B \ {x}) \in Nat
        BY <2>2, <4>1
      <4>3. Weight(A) <= Weight(B \ {x})
        <5>1. CASE A = B \ {x}
          BY <4>2, <5>1
        <5>2. CASE A # B \ {x}
          <6>1. Weight(A) < Weight(B \ {x})
            BY <2>2, <4>1, <5>2
          <6> QED
            BY <4>2, <6>1
        <5> QED
          BY <5>1, <5>2
      <4> QED
        BY <2>3, <4>1, <4>2, <4>3
    <3>3. CASE x \in A
      <4>1. x \in B
        BY <2>6, <3>3
      <4>2. /\ A \ {x} \in SUBSET P /\ Weight(A) = Weight(A \ {x}) + x.cap
            /\ B \ {x} \in SUBSET P /\ Weight(B) = Weight(B \ {x}) + x.cap
        BY <2>4, <3>3, <4>1
      <4>3. A \ {x} \subseteq B \ {x} /\ A \ {x} # B \ {x}
        BY <2>6, <3>3, <4>1
      <4>4. /\ Weight(A \ {x}) \in Nat /\ Weight(B \ {x}) \in Nat
            /\ Weight(A \ {x}) < Weight(B \ {x})
        BY <2>2, <4>2, <4>3
      <4> QED
        BY <2>3, <4>2, <4>4
    <3> QED
      BY <3>1, <3>2, <3>3
  <2> QED
    BY <2>5, <2>6
<1> HIDE DEF D
<1>4. n \in D
  BY <1>1, <1>2, <1>3, NaturalsBySteps
<1>5. n <= n
  BY <1>1
<1> QED
  BY <1>4, <1>5, PrefixEnds DEF D

-----------------------------------------------------------------------------
(***************************************************************************)
(* Which of two selections is better.                                      *)
(***************************************************************************)

\* The first candidate that is in one of the two and not the other is in S.
FirstIn(S, T) ==
    \E c \in S \ T : \A d \in ((S \ T) \cup (T \ S)) \ {c} : TieBreaks(c, d)

\* More bytes, or as many and an earlier tie-break.
Wins(S, T) == Weight(S) > Weight(T) \/ (Weight(S) = Weight(T) /\ FirstIn(S, T))

\* Of two selections one has the first candidate that tells them apart.
LEMMA FirstIsSomewhere ==
    ASSUME NEW C, CandidatesOK(C), NEW S, S \subseteq C, NEW T, T \subseteq C, S # T
    PROVE  FirstIn(S, T) \/ FirstIn(T, S)
<1> DEFINE D == (S \ T) \cup (T \ S)
<1>1. D \subseteq C /\ D # {}
  OBVIOUS
<1>2. CandidatesOK(D)
  BY <1>1, FewerCandidates
<1> HIDE DEF D
<1>3. IsFiniteSet(D) /\ Orders(TieOrder(D), D)
      /\ \A a, b \in D : <<a, b>> \in TieOrder(D) <=> TieBreaks(a, b)
  BY <1>2, TieOrders DEF CandidatesOK
<1>4. PICK c \in D : \A d \in D \ {c} : <<c, d>> \in TieOrder(D)
  BY <1>1, <1>3, FirstOfAll
<1>5. \A d \in D \ {c} : TieBreaks(c, d)
  BY <1>3, <1>4
<1> QED
  BY <1>4, <1>5 DEF FirstIn, D

\* What comes first stays first.
LEMMA FirstPassesOn ==
    ASSUME NEW C, CandidatesOK(C), NEW S, S \subseteq C, NEW T, T \subseteq C,
           NEW U, U \subseteq C, FirstIn(S, T), FirstIn(T, U)
    PROVE  FirstIn(S, U)
<1>1. PICK a \in S \ T : \A d \in ((S \ T) \cup (T \ S)) \ {a} : TieBreaks(a, d)
  BY DEF FirstIn
<1>2. PICK b \in T \ U : \A d \in ((T \ U) \cup (U \ T)) \ {b} : TieBreaks(b, d)
  BY DEF FirstIn
<1>3. a \in C /\ b \in C /\ a # b
  OBVIOUS
<1>4. /\ \A x \in C : ~TieBreaks(x, x)
      /\ \A x, y, z \in C : TieBreaks(x, y) /\ TieBreaks(y, z) => TieBreaks(x, z)
      /\ \A x, y \in C : x # y => TieBreaks(x, y) \/ TieBreaks(y, x)
  BY TieStrict
<1>5. CASE TieBreaks(a, b)
  <2>1. ~TieBreaks(b, a)
    BY <1>3, <1>4, <1>5
  <2>2. a \in S \ U
    BY <1>2, <1>3, <2>1
  <2>3. ASSUME NEW d \in ((S \ U) \cup (U \ S)) \ {a} PROVE TieBreaks(a, d)
    <3>1. d \in C
      OBVIOUS
    <3>2. CASE d \in (S \ T) \cup (T \ S)
      BY <1>1, <2>3, <3>2
    <3>3. CASE d \in (T \ U) \cup (U \ T)
      <4>1. d = b \/ TieBreaks(b, d)
        BY <1>2, <3>3
      <4> QED
        BY <1>3, <1>4, <1>5, <3>1, <4>1
    <3> QED
      BY <2>3, <3>2, <3>3
  <2> QED
    BY <2>2, <2>3 DEF FirstIn
<1>6. CASE TieBreaks(b, a)
  <2>1. ~TieBreaks(a, b)
    BY <1>3, <1>4, <1>6
  <2>2. b \in S \ U
    BY <1>1, <1>3, <2>1
  <2>3. ASSUME NEW d \in ((S \ U) \cup (U \ S)) \ {b} PROVE TieBreaks(b, d)
    <3>1. d \in C
      OBVIOUS
    <3>2. CASE d \in (T \ U) \cup (U \ T)
      BY <1>2, <2>3, <3>2
    <3>3. CASE d \in (S \ T) \cup (T \ S)
      <4>1. d = a \/ TieBreaks(a, d)
        BY <1>1, <3>3
      <4> QED
        BY <1>3, <1>4, <1>6, <3>1, <4>1
    <3> QED
      BY <2>3, <3>2, <3>3
  <2> QED
    BY <2>2, <2>3 DEF FirstIn
<1> QED
  BY <1>3, <1>4, <1>5, <1>6

\* One of two selections wins.
LEMMA OneWins ==
    ASSUME NEW C, CandidatesOK(C), NEW S, S \subseteq C, NEW T, T \subseteq C, S # T
    PROVE  Wins(S, T) \/ Wins(T, S)
<1>1. Weight(S) \in Nat /\ Weight(T) \in Nat
  BY WeightGrows
<1>2. FirstIn(S, T) \/ FirstIn(T, S)
  BY FirstIsSomewhere
<1> QED
  BY <1>1, <1>2 DEF Wins

\* Winning is passed on.
LEMMA WinsPassOn ==
    ASSUME NEW C, CandidatesOK(C), NEW S, S \subseteq C, NEW T, T \subseteq C,
           NEW U, U \subseteq C, Wins(S, T), Wins(T, U)
    PROVE  Wins(S, U)
<1>1. Weight(S) \in Nat /\ Weight(T) \in Nat /\ Weight(U) \in Nat
  BY WeightGrows
<1>2. CASE Weight(S) = Weight(T) /\ Weight(T) = Weight(U)
  <2>1. FirstIn(S, T) /\ FirstIn(T, U)
    BY <1>1, <1>2 DEF Wins
  <2>2. FirstIn(S, U)
    BY <2>1, FirstPassesOn
  <2> QED
    BY <1>2, <2>2 DEF Wins
<1>3. CASE ~(Weight(S) = Weight(T) /\ Weight(T) = Weight(U))
  BY <1>1, <1>3 DEF Wins
<1> QED
  BY <1>2, <1>3

\* The comparison of the program, of selections of equal weight.
LEMMA BeforeIsFirst ==
    ASSUME NEW C, CandidatesOK(C), NEW S, S \subseteq C, NEW T, T \subseteq C, S # T,
           Weight(S) = Weight(T)
    PROVE  SelectionBefore(S, T) <=> FirstIn(S, T)
<1>1. S \ T # {} /\ T \ S # {}
  <2>1. Weight(S) \in Nat /\ Weight(T) \in Nat
    BY WeightGrows
  <2>2. ~(S \subseteq T) /\ ~(T \subseteq S)
    BY <2>1, WeightGrows
  <2> QED
    BY <2>2
<1>2. /\ \A x \in C : ~TieBreaks(x, x)
      /\ \A x, y, z \in C : TieBreaks(x, y) /\ TieBreaks(y, z) => TieBreaks(x, z)
  BY TieStrict
<1> DEFINE D == (S \ T) \cup (T \ S)
           First(c) == \A d \in D \ {c} : TieBreaks(c, d)
           first == CHOOSE c \in D : First(c)
<1>3. D = (S \ T) \cup (T \ S) /\ D \subseteq C
  OBVIOUS
<1>4. FirstIn(S, T) <=> \E c \in S \ T : First(c)
  BY DEF FirstIn
<1>5. FirstIn(T, S) <=> \E c \in T \ S : First(c)
  BY DEF FirstIn
<1>6. SelectionBefore(S, T) <=>
        IF first \in S THEN \E t \in T : TieBreaks(first, t) ELSE \A s \in S : TieBreaks(s, first)
  <2>1. D = (S \ T) \cup (T \ S)
    BY <1>3
  <2> QED
    BY DEF SelectionBefore
<1>7. first \in D /\ First(first)
  <2>1. \E c \in D : First(c)
    BY <1>3, <1>4, <1>5, FirstIsSomewhere
  <2> HIDE DEF First
  <2> QED
    BY <2>1
<1>8. \A c, d \in D : First(c) /\ First(d) => c = d
  BY <1>2, <1>3
<1>9. \A c \in D : First(c) => \A d \in D : d # c => TieBreaks(c, d)
  OBVIOUS
<1> HIDE DEF First, first, D
<1>10. CASE first \in S
  <2>1. first \in S \ T
    BY <1>3, <1>7, <1>10
  <2>2. PICK t \in T \ S : TRUE
    BY <1>1
  <2>3. t \in D /\ t # first
    BY <1>3, <2>1, <2>2
  <2>4. TieBreaks(first, t)
    BY <1>7, <1>9, <2>3
  <2> QED
    BY <1>4, <1>6, <1>7, <1>10, <2>1, <2>2, <2>4
<1>11. CASE first \notin S
  <2>1. PICK s \in S \ T : TRUE
    BY <1>1
  <2>2. s \in D /\ s # first /\ s \in C /\ first \in C
    BY <1>3, <1>7, <1>11, <2>1
  <2>3. ~TieBreaks(s, first)
    BY <1>2, <1>7, <1>9, <2>2
  <2>4. ~FirstIn(S, T)
    BY <1>3, <1>4, <1>7, <1>8, <1>11
  <2> QED
    BY <1>6, <1>11, <2>1, <2>3, <2>4
<1> QED
  BY <1>10, <1>11

\* The better of two selections wins.
LEMMA BetterWins ==
    ASSUME NEW C, CandidatesOK(C), NEW S, S \subseteq C, NEW T, T \subseteq C, S # T
    PROVE  (Better(S, T) = S /\ Wins(S, T)) \/ (Better(S, T) = T /\ Wins(T, S))
<1>1. Weight(S) \in Nat /\ Weight(T) \in Nat
  BY WeightGrows
<1>2. CASE Weight(S) # Weight(T)
  BY <1>1, <1>2 DEF Better, Wins
<1>3. CASE Weight(S) = Weight(T)
  <2>1. SelectionBefore(S, T) <=> FirstIn(S, T)
    BY <1>3, BeforeIsFirst
  <2>2. FirstIn(S, T) \/ FirstIn(T, S)
    BY FirstIsSomewhere
  <2> QED
    BY <1>3, <2>1, <2>2 DEF Better, Wins
<1> QED
  BY <1>2, <1>3

\* A candidate after all of both changes nothing between them.
LEMMA WinsWithOneMore ==
    ASSUME NEW C, CandidatesOK(C), NEW i \in 1 .. Cardinality(C),
           NEW S, S \subseteq Prefix(C, i - 1), NEW T, T \subseteq Prefix(C, i - 1), Wins(S, T)
    PROVE  Wins(S \cup {Item(C, i)}, T \cup {Item(C, i)})
<1> DEFINE x == Item(C, i)
<1>1. /\ Prefix(C, i) = Prefix(C, i - 1) \cup {x} /\ x \notin Prefix(C, i - 1)
      /\ Prefix(C, i) \subseteq C
  BY PrefixNext
<1>2. /\ S \cup {x} \subseteq Prefix(C, i) /\ T \cup {x} \subseteq Prefix(C, i)
      /\ (S \cup {x}) \ {x} = S /\ (T \cup {x}) \ {x} = T /\ x \notin S /\ x \notin T
      /\ S \subseteq C /\ T \subseteq C
  BY <1>1
<1>3. Weight(S \cup {x}) = Weight(S) + x.cap /\ Weight(T \cup {x}) = Weight(T) + x.cap
  <2>1. \A A : A \subseteq Prefix(C, i) /\ x \in A => Weight(A) = Weight(A \ {x}) + x.cap
    BY LastItem
  <2> HIDE DEF x
  <2>2. Weight(S \cup {x}) = Weight((S \cup {x}) \ {x}) + x.cap
    BY <1>2, <2>1
  <2>3. Weight(T \cup {x}) = Weight((T \cup {x}) \ {x}) + x.cap
    BY <1>2, <2>1
  <2> QED
    BY <1>2, <2>2, <2>3
<1>4. Weight(S) \in Nat /\ Weight(T) \in Nat /\ x.cap \in Nat
  BY <1>2, WeightGrows, Items DEF CandidateOK
<1>5. (S \cup {x}) \ (T \cup {x}) = S \ T /\ (T \cup {x}) \ (S \cup {x}) = T \ S
  BY <1>2
<1>6. FirstIn(S, T) => FirstIn(S \cup {x}, T \cup {x})
  BY <1>5 DEF FirstIn
<1> HIDE DEF x
<1> QED
  BY <1>3, <1>4, <1>6 DEF Wins, x

-----------------------------------------------------------------------------
(***************************************************************************)
(* The program itself.                                                     *)
(***************************************************************************)

Latest(C, i) == Greatest({0} \cup {j \in 1 .. i - 1 : Compatible(Item(C, j), Item(C, i))})

\* The program's last compatible candidate, and that all compatible ones are before it.
LEMMA LatestIs ==
    ASSUME NEW C, CandidatesOK(C), NEW i \in 1 .. Cardinality(C)
    PROVE  /\ Latest(C, i) \in 0 .. i - 1
           /\ Latest(C, i) # 0 => Compatible(Item(C, Latest(C, i)), Item(C, i))
           /\ \A j \in 1 .. i - 1 : Compatible(Item(C, j), Item(C, i)) => j <= Latest(C, i)
<1> DEFINE L == {0} \cup {j \in 1 .. i - 1 : Compatible(Item(C, j), Item(C, i))}
<1>1. Cardinality(C) \in Nat /\ i \in Nat /\ i - 1 \in Nat
  <2>1. Cardinality(C) \in Nat
    BY Items
  <2> QED
    BY <2>1
<1>2. L \subseteq 0 .. i - 1 /\ 0 \in L
  BY <1>1
<1>3. IsFiniteSet(0 .. i - 1)
  BY <1>1, FS_Interval
<1>4. \A j \in 1 .. i - 1 : Compatible(Item(C, j), Item(C, i)) => j \in L
  OBVIOUS
<1>5. \A j \in L : j # 0 => Compatible(Item(C, j), Item(C, i))
  OBVIOUS
<1>6. Latest(C, i) = Greatest(L)
  BY DEF Latest
<1> HIDE DEF L
<1>7. IsFiniteSet(L) /\ L # {} /\ L \subseteq Nat
  <2>1. L \in SUBSET (0 .. i - 1) /\ L # {}
    BY <1>2
  <2>2. IsFiniteSet(L)
    BY <1>3, <2>1, FS_Subset, Zenon
  <2>3. \A j \in 0 .. i - 1 : j \in Nat
    OBVIOUS
  <2> QED
    BY <2>1, <2>2, <2>3
<1>8. Greatest(L) \in L /\ \A j \in L : j <= Greatest(L)
  BY <1>7, GreatestOfFinite
<1> QED
  BY <1>2, <1>4, <1>5, <1>6, <1>8

\* The candidates up to the last compatible one are those that end in time.
LEMMA InTime ==
    ASSUME NEW C, CandidatesOK(C), NEW i \in 1 .. Cardinality(C), NEW y \in Prefix(C, i - 1)
    PROVE  /\ y \in Prefix(C, Latest(C, i)) <=> y.end <= Item(C, i).start
           /\ ~Overlaps(y, Item(C, i)) <=> y.end <= Item(C, i).start
           /\ ~Overlaps(Item(C, i), y) <=> y.end <= Item(C, i).start
<1> DEFINE x == Item(C, i)
           l == Latest(C, i)
<1>1. Cardinality(C) \in Nat
  BY Items
<1>2. PICK j \in 1 .. i - 1 : y = Item(C, j)
  BY DEF Prefix
<1>3. j \in 1 .. Cardinality(C) /\ j < i
  BY <1>1
<1>4. CandidateOK(x) /\ CandidateOK(y) /\ y.end <= x.end
  BY <1>2, <1>3, Items
<1>5. y.end <= x.start => y \in Prefix(C, l)
  <2> SUFFICES ASSUME y.end <= x.start PROVE y \in Prefix(C, l)
    OBVIOUS
  <2>1. Compatible(Item(C, j), x)
    BY <1>2 DEF Compatible
  <2>2. l \in 0 .. i - 1 /\ j <= l
    BY <2>1, LatestIs
  <2>3. j \in 1 .. l
    BY <1>1, <2>2
  <2> QED
    BY <1>2, <2>3 DEF Prefix
<1>6. y \in Prefix(C, l) => y.end <= x.start
  <2> SUFFICES ASSUME y \in Prefix(C, l) PROVE y.end <= x.start
    OBVIOUS
  <2>1. l \in 0 .. i - 1
    BY LatestIs
  <2>2. PICK k \in 1 .. l : y = Item(C, k)
    BY DEF Prefix
  <2>3. l # 0 /\ l \in 1 .. Cardinality(C) /\ k \in 1 .. Cardinality(C)
    BY <1>1, <2>1
  <2>4. Compatible(Item(C, l), x)
    BY <2>3, LatestIs
  <2>5. Item(C, l).end <= x.start
    BY <2>4 DEF Compatible
  <2>6. CandidateOK(Item(C, l))
    BY <2>3, Items
  <2>7. y.end <= Item(C, l).end
    <3>1. CASE k = l
      BY <2>2, <2>6, <3>1 DEF CandidateOK
    <3>2. CASE k # l
      <4>1. k < l
        BY <2>1, <3>2
      <4> QED
        BY <2>2, <2>3, <4>1, Items
    <3> QED
      BY <3>1, <3>2
  <2> QED
    BY <1>4, <2>5, <2>6, <2>7 DEF CandidateOK
<1>7. /\ ~Overlaps(y, x) <=> y.end <= x.start
      /\ ~Overlaps(x, y) <=> y.end <= x.start
  BY <1>4 DEF CandidateOK, Overlaps
<1> QED
  BY <1>5, <1>6, <1>7

\* B is the best feasible selection of the first i candidates.
BestOf(C, i, B) ==
    /\ B \subseteq Prefix(C, i)
    /\ Feasible(B)
    /\ \A T \in SUBSET Prefix(C, i) : Feasible(T) /\ T # B => Wins(B, T)

\* Prefixes grow, and stay within the candidates.
LEMMA PrefixGrows ==
    ASSUME NEW C, CandidatesOK(C), NEW i \in 0 .. Cardinality(C), NEW j \in 0 .. i
    PROVE  Prefix(C, j) \subseteq Prefix(C, i) /\ Prefix(C, i) \subseteq C
<1>1. Cardinality(C) \in Nat
  BY Items
<1>2. 1 .. j \subseteq 1 .. i /\ 1 .. i \subseteq 1 .. Cardinality(C)
  BY <1>1
<1> QED
  BY <1>2, Items DEF Prefix

\* The step of the program: with the item or without it.
LEMMA BestNext ==
    ASSUME NEW C, CandidatesOK(C), NEW i \in 1 .. Cardinality(C),
           NEW A, BestOf(C, Latest(C, i), A), NEW B, BestOf(C, i - 1, B)
    PROVE  BestOf(C, i, Better(A \cup {Item(C, i)}, B))
<1> DEFINE x == Item(C, i)
           l == Latest(C, i)
           P == Prefix(C, i - 1)
           W == A \cup {x}
<1>1. Cardinality(C) \in Nat /\ l \in 0 .. i - 1
  BY Items, LatestIs
<1>2. /\ Prefix(C, l) \subseteq P /\ P \subseteq C
      /\ Prefix(C, i) = P \cup {x} /\ x \notin P /\ Prefix(C, i) \subseteq C
  <2>1. i - 1 \in 0 .. Cardinality(C)
    BY <1>1
  <2>2. Prefix(C, l) \subseteq P /\ P \subseteq C
    BY <1>1, <2>1, PrefixGrows
  <2> QED
    BY <2>2, PrefixNext
<1>3. \A y \in P : /\ y \in Prefix(C, l) <=> y.end <= x.start
                   /\ ~Overlaps(y, x) <=> y.end <= x.start
                   /\ ~Overlaps(x, y) <=> y.end <= x.start
  BY InTime
<1>4. /\ A \subseteq Prefix(C, l) /\ Feasible(A)
      /\ \A T \in SUBSET Prefix(C, l) : Feasible(T) /\ T # A => Wins(A, T)
  BY DEF BestOf
<1>5. /\ B \subseteq P /\ Feasible(B)
      /\ \A T \in SUBSET P : Feasible(T) /\ T # B => Wins(B, T)
  BY DEF BestOf
<1>6. \A S, T : S \subseteq P /\ T \subseteq P /\ Wins(S, T) => Wins(S \cup {x}, T \cup {x})
  BY WinsWithOneMore
<1> HIDE DEF x, l, P
<1>7. W \subseteq Prefix(C, i) /\ Feasible(W)
  <2>1. \A a \in A : ~Overlaps(a, x) /\ ~Overlaps(x, a)
    BY <1>2, <1>3, <1>4
  <2> QED
    BY <1>2, <1>4, <2>1 DEF Feasible
<1>8. ASSUME NEW T \in SUBSET Prefix(C, i), Feasible(T), x \in T, T # W PROVE Wins(W, T)
  <2> DEFINE R == T \ {x}
  <2>1. R \subseteq P /\ T = R \cup {x}
    BY <1>2, <1>8
  <2>2. \A y \in R : ~Overlaps(y, x)
    BY <1>8 DEF Feasible
  <2>3. R \in SUBSET Prefix(C, l)
    BY <1>3, <2>1, <2>2
  <2>4. Feasible(R)
    BY <1>8 DEF Feasible
  <2>5. R # A
    BY <1>8, <2>1
  <2> HIDE DEF R
  <2>6. Wins(A, R)
    BY <1>4, <2>3, <2>4, <2>5
  <2>7. A \subseteq P
    BY <1>2, <1>4
  <2>8. Wins(A \cup {x}, R \cup {x})
    BY <1>6, <2>1, <2>6, <2>7
  <2> QED
    BY <2>1, <2>8
<1>9. \A T \in SUBSET Prefix(C, i) : x \notin T => T \in SUBSET P
  BY <1>2
<1>10. W # B /\ W \subseteq C /\ B \subseteq C /\ B \subseteq Prefix(C, i)
  BY <1>2, <1>5, <1>7
<1> HIDE DEF W
<1>11. (Better(W, B) = W /\ Wins(W, B)) \/ (Better(W, B) = B /\ Wins(B, W))
  BY <1>10, BetterWins
<1>12. CASE Better(W, B) = W /\ Wins(W, B)
  <2>1. ASSUME NEW T \in SUBSET Prefix(C, i), Feasible(T), T # W PROVE Wins(W, T)
    <3>1. CASE x \in T
      BY <1>8, <2>1, <3>1
    <3>2. CASE T = B
      BY <1>12, <3>2
    <3>3. CASE x \notin T /\ T # B
      <4>1. Wins(B, T) /\ T \subseteq C
        BY <1>2, <1>5, <1>9, <2>1, <3>3
      <4> QED
        BY <1>10, <1>12, <4>1, WinsPassOn
    <3> QED
      BY <3>1, <3>2, <3>3
  <2>2. BestOf(C, i, W)
    BY <1>7, <2>1 DEF BestOf
  <2> QED
    BY <1>12, <2>2 DEF W, x
<1>13. CASE Better(W, B) = B /\ Wins(B, W)
  <2>1. ASSUME NEW T \in SUBSET Prefix(C, i), Feasible(T), T # B PROVE Wins(B, T)
    <3>1. CASE x \notin T
      BY <1>5, <1>9, <2>1, <3>1
    <3>2. CASE T = W
      BY <1>13, <3>2
    <3>3. CASE x \in T /\ T # W
      <4>1. Wins(W, T) /\ T \subseteq C
        BY <1>2, <1>8, <2>1, <3>3
      <4> QED
        BY <1>10, <1>13, <4>1, WinsPassOn
    <3> QED
      BY <3>1, <3>2, <3>3
  <2>2. BestOf(C, i, B)
    BY <1>5, <1>10, <2>1 DEF BestOf
  <2> QED
    BY <1>13, <2>2 DEF W, x
<1> QED
  BY <1>11, <1>12, <1>13

Solves(C, f) ==
    f = [i \in 0 .. Cardinality(C) |->
            IF i = 0 THEN {} ELSE Better(f[Latest(C, i)] \cup {Item(C, i)}, f[i - 1])]

\* The recursion up to k.
Fills(C, k, f) ==
    /\ f[0] = {}
    /\ \A i \in 1 .. k : f[i] = Better(f[Latest(C, i)] \cup {Item(C, i)}, f[i - 1])

\* The table of the program can be filled.
LEMMA TableFills ==
    ASSUME NEW C, CandidatesOK(C)
    PROVE  \E f \in [0 .. Cardinality(C) -> SUBSET C] : Fills(C, Cardinality(C), f)
<1> DEFINE n == Cardinality(C)
           D == {k \in Nat : k <= n => \E f \in [0 .. k -> SUBSET C] : Fills(C, k, f)}
<1>1. n \in Nat /\ n <= n
  <2>1. n \in Nat
    BY Items
  <2> QED
    BY <2>1
<1>2. 0 \in D
  <2> DEFINE f == [i \in 0 .. 0 |-> {}]
  <2>1. f \in [0 .. 0 -> SUBSET C] /\ f[0] = {}
    OBVIOUS
  <2>2. 1 .. 0 = {}
    OBVIOUS
  <2> HIDE DEF f
  <2>3. Fills(C, 0, f)
    BY <2>1, <2>2 DEF Fills
  <2> QED
    BY <2>1, <2>3
<1>3. ASSUME NEW k \in Nat, k \in D PROVE k + 1 \in D
  <2> SUFFICES ASSUME k + 1 <= n
               PROVE  \E f \in [0 .. k + 1 -> SUBSET C] : Fills(C, k + 1, f)
    OBVIOUS
  <2>1. k <= n
    BY <1>1
  <2>2. PICK f \in [0 .. k -> SUBSET C] : Fills(C, k, f)
    BY <1>3, <2>1
  <2> DEFINE l == Latest(C, k + 1)
             next == Better(f[l] \cup {Item(C, k + 1)}, f[k])
             g == [i \in 0 .. k + 1 |-> IF i = k + 1 THEN next ELSE f[i]]
  <2>3. k + 1 \in 1 .. n /\ (k + 1) - 1 = k
    BY <1>1
  <2>4. l \in 0 .. k /\ Item(C, k + 1) \in C
    BY <2>3, LatestIs, Items
  <2>5. next \in SUBSET C
    <3>1. f[l] \cup {Item(C, k + 1)} \in SUBSET C /\ f[k] \in SUBSET C
      BY <2>2, <2>4
    <3> QED
      BY <3>1 DEF Better
  <2>6. f[0] = {} /\ \A i \in 1 .. k : f[i] = Better(f[Latest(C, i)] \cup {Item(C, i)}, f[i - 1])
    BY <2>2 DEF Fills
  <2> HIDE DEF next
  <2>7. g \in [0 .. k + 1 -> SUBSET C]
    BY <2>2, <2>5
  <2>8. g[k + 1] = next /\ \A i \in 0 .. k : g[i] = f[i]
    OBVIOUS
  <2> HIDE DEF g
  <2>9. ASSUME NEW i \in 1 .. k + 1
        PROVE  g[i] = Better(g[Latest(C, i)] \cup {Item(C, i)}, g[i - 1])
    <3>1. CASE i = k + 1
      <4>1. g[l] = f[l] /\ g[k] = f[k]
        BY <2>4, <2>8
      <4>2. i - 1 = k
        BY <3>1
      <4> QED
        BY <2>8, <3>1, <4>1, <4>2, Zenon DEF next
    <3>2. CASE i \in 1 .. k
      <4>1. i \in 1 .. n /\ i \in 0 .. k /\ i - 1 \in 0 .. k
        BY <1>1, <2>1, <3>2
      <4>2. Latest(C, i) \in 0 .. i - 1
        BY <4>1, LatestIs
      <4>3. Latest(C, i) \in 0 .. k
        BY <3>2, <4>2
      <4>4. g[i] = f[i] /\ g[i - 1] = f[i - 1] /\ g[Latest(C, i)] = f[Latest(C, i)]
        BY <2>8, <4>1, <4>3
      <4>5. f[i] = Better(f[Latest(C, i)] \cup {Item(C, i)}, f[i - 1])
        BY <2>6, <3>2
      <4> QED
        BY <4>4, <4>5
    <3> QED
      BY <3>1, <3>2
  <2>10. g[0] = {}
    BY <2>6, <2>8
  <2> QED
    BY <2>7, <2>9, <2>10 DEF Fills
<1> HIDE DEF D
<1>4. n \in D
  BY <1>1, <1>2, <1>3, NaturalsBySteps
<1> QED
  BY <1>1, <1>4 DEF D

\* What the program returns is the last entry of a filled table.
LEMMA MaximumFromTable ==
    ASSUME NEW C, CandidatesOK(C)
    PROVE  \E f : Fills(C, Cardinality(C), f) /\ MaximumNonoverlap(C) = f[Cardinality(C)]
<1> DEFINE n == Cardinality(C)
<1>1. n \in Nat
  BY Items
<1>2. PICK f \in [0 .. n -> SUBSET C] : Fills(C, n, f)
  BY TableFills
<1>3. Solves(C, f)
  <2> DEFINE g == [i \in 0 .. n |-> IF i = 0 THEN {}
                                    ELSE Better(f[Latest(C, i)] \cup {Item(C, i)}, f[i - 1])]
  <2>1. \A i \in 0 .. n : f[i] = g[i]
    <3> TAKE i \in 0 .. n
    <3>1. g[i] = IF i = 0 THEN {} ELSE Better(f[Latest(C, i)] \cup {Item(C, i)}, f[i - 1])
      OBVIOUS
    <3> HIDE DEF g
    <3>2. CASE i = 0
      BY <1>2, <3>1, <3>2 DEF Fills
    <3>3. CASE i # 0
      <4>1. i \in 1 .. n
        BY <1>1, <3>3
      <4>2. f[i] = Better(f[Latest(C, i)] \cup {Item(C, i)}, f[i - 1])
        BY <1>2, <4>1 DEF Fills
      <4> QED
        BY <3>1, <3>3, <4>2, Zenon
    <3> QED
      BY <3>2, <3>3
  <2>2. f = [i \in 0 .. n |-> f[i]] /\ g = [i \in 0 .. n |-> g[i]]
    OBVIOUS
  <2> HIDE DEF g
  <2>3. f = g
    BY <2>1, <2>2
  <2> QED
    BY <2>3 DEF g, Solves
<1> DEFINE h == CHOOSE t : Solves(C, t)
<1>4. MaximumNonoverlap(C) = h[n]
  BY DEF MaximumNonoverlap, Solves, Latest, Item
<1>5. Solves(C, h)
  BY <1>3
<1> HIDE DEF h
<1>6. Fills(C, n, h)
  <2>1. h = [i \in 0 .. n |-> IF i = 0 THEN {}
                              ELSE Better(h[Latest(C, i)] \cup {Item(C, i)}, h[i - 1])]
    BY <1>5 DEF Solves
  <2>2. 0 \in 0 .. n /\ \A i \in 1 .. n : i \in 0 .. n /\ i # 0
    BY <1>1
  <2> QED
    BY <2>1, <2>2 DEF Fills
<1> QED
  BY <1>4, <1>6

\* It is the best feasible selection of all candidates.
LEMMA MaximumIsBest ==
    ASSUME NEW C, CandidatesOK(C)
    PROVE  BestOf(C, Cardinality(C), MaximumNonoverlap(C))
<1> DEFINE n == Cardinality(C)
<1>1. n \in Nat
  BY Items
<1>2. PICK f : Fills(C, n, f) /\ MaximumNonoverlap(C) = f[n]
  BY MaximumFromTable
<1>3. f[0] = {} /\ \A i \in 1 .. n : f[i] = Better(f[Latest(C, i)] \cup {Item(C, i)}, f[i - 1])
  BY <1>2 DEF Fills
<1> DEFINE D == {k \in Nat : k <= n => \A i \in 0 .. k : BestOf(C, i, f[i])}
<1>4. 0 \in D
  <2>1. Prefix(C, 0) = {}
    BY PrefixEnds
  <2>2. BestOf(C, 0, {})
    BY <2>1 DEF BestOf, Feasible
  <2>3. \A i \in 0 .. 0 : i = 0
    OBVIOUS
  <2> QED
    BY <1>3, <2>2, <2>3
<1>5. ASSUME NEW k \in Nat, k \in D PROVE k + 1 \in D
  <2> SUFFICES ASSUME k + 1 <= n, NEW i \in 0 .. k + 1 PROVE BestOf(C, i, f[i])
    OBVIOUS
  <2>1. \A j \in 0 .. k : BestOf(C, j, f[j])
    BY <1>1, <1>5
  <2>2. CASE i \in 0 .. k
    BY <2>1, <2>2
  <2>3. CASE i = k + 1
    <3>1. i \in 1 .. n /\ i - 1 \in 0 .. k
      BY <1>1, <2>3
    <3>2. Latest(C, i) \in 0 .. i - 1
      BY <3>1, LatestIs
    <3>3. Latest(C, i) \in 0 .. k
      BY <2>3, <3>2
    <3>4. BestOf(C, i - 1, f[i - 1]) /\ BestOf(C, Latest(C, i), f[Latest(C, i)])
      BY <2>1, <3>1, <3>3
    <3>5. f[i] = Better(f[Latest(C, i)] \cup {Item(C, i)}, f[i - 1])
      BY <1>3, <3>1
    <3>6. BestOf(C, i, Better(f[Latest(C, i)] \cup {Item(C, i)}, f[i - 1]))
      BY <3>1, <3>4, BestNext
    <3> QED
      BY <3>5, <3>6
  <2> QED
    BY <2>2, <2>3
<1> HIDE DEF D
<1>6. n \in D
  BY <1>1, <1>4, <1>5, NaturalsBySteps
<1>7. n <= n /\ n \in 0 .. n
  BY <1>1
<1> QED
  BY <1>2, <1>6, <1>7 DEF D

FeasibleOf(C) == {S \in SUBSET C : Feasible(S)}

\* Of the most bytes, and first by the tie-break among all those of the most bytes.
LEMMA MaximumIsExact ==
    ASSUME NEW C, CandidatesOK(C)
    PROVE  LET chosen == MaximumNonoverlap(C)
               best   == {S \in FeasibleOf(C) : \A T \in FeasibleOf(C) : Weight(S) >= Weight(T)}
           IN  chosen \in best /\ \A S \in best \ {chosen} : SelectionBefore(chosen, S)
<1> DEFINE chosen == MaximumNonoverlap(C)
           best   == {S \in FeasibleOf(C) : \A T \in FeasibleOf(C) : Weight(S) >= Weight(T)}
<1>1. Prefix(C, Cardinality(C)) = C
  BY PrefixEnds
<1>2. /\ chosen \in SUBSET C /\ Feasible(chosen)
      /\ \A T \in SUBSET C : Feasible(T) /\ T # chosen => Wins(chosen, T)
  BY <1>1, MaximumIsBest DEF BestOf
<1> HIDE DEF chosen
<1>3. \A S \in SUBSET C : Weight(S) \in Nat
  BY WeightGrows
<1>4. chosen \in FeasibleOf(C)
  BY <1>2 DEF FeasibleOf
<1>5. \A T \in FeasibleOf(C) : Weight(chosen) >= Weight(T)
  <2> TAKE T \in FeasibleOf(C)
  <2>1. Weight(chosen) \in Nat /\ Weight(T) \in Nat
    BY <1>2, <1>3 DEF FeasibleOf
  <2>2. CASE T = chosen
    BY <2>1, <2>2
  <2>3. CASE T # chosen
    <3>1. Wins(chosen, T)
      BY <1>2, <2>3 DEF FeasibleOf
    <3> QED
      BY <2>1, <3>1 DEF Wins
  <2> QED
    BY <2>2, <2>3
<1>6. ASSUME NEW S \in best, S # chosen PROVE SelectionBefore(chosen, S)
  <2>1. S \in SUBSET C /\ Feasible(S) /\ Weight(S) >= Weight(chosen)
    BY <1>4 DEF FeasibleOf
  <2>2. Wins(chosen, S)
    BY <1>2, <1>6, <2>1
  <2>3. Weight(chosen) \in Nat /\ Weight(S) \in Nat
    BY <1>2, <1>3, <2>1
  <2>4. Weight(chosen) = Weight(S) /\ FirstIn(chosen, S)
    BY <2>1, <2>2, <2>3 DEF Wins
  <2> QED
    BY <1>2, <1>6, <2>1, <2>4, BeforeIsFirst
<1>7. chosen \in best /\ \A S \in best \ {chosen} : SelectionBefore(chosen, S)
  BY <1>4, <1>5, <1>6
<1> QED
  BY <1>7 DEF chosen

-----------------------------------------------------------------------------
(***************************************************************************)
(* Selections to which nothing can be added.                               *)
(***************************************************************************)

Packs(S, A) == S \subseteq A /\ Feasible(S) /\ \A c \in A \ S : \E s \in S : Overlaps(c, s)

\* Packed is feasible and maximal.
LEMMA PackedIsMaximal ==
    ASSUME NEW A, NEW S
    PROVE  Packs(S, A) <=> /\ S \in SUBSET A /\ Feasible(S)
                           /\ \A c \in A \ S : ~Feasible(S \cup {c})
<1>1. ASSUME Packs(S, A), NEW c \in A \ S PROVE ~Feasible(S \cup {c})
  <2>1. PICK s \in S : Overlaps(c, s)
    BY <1>1 DEF Packs
  <2> QED
    BY <2>1 DEF Feasible
<1>2. ASSUME S \in SUBSET A, Feasible(S), \A c \in A \ S : ~Feasible(S \cup {c}), NEW c \in A \ S
      PROVE  \E s \in S : Overlaps(c, s)
  <2>1. PICK a \in S \cup {c}, b \in S \cup {c} : a # b /\ Overlaps(a, b)
    BY <1>2 DEF Feasible
  <2>2. ~(a \in S /\ b \in S)
    BY <1>2, <2>1 DEF Feasible
  <2>3. CASE a = c
    BY <2>1, <2>3
  <2>4. CASE b = c
    <3>1. a \in S /\ Overlaps(c, a)
      BY <2>1, <2>4 DEF Overlaps
    <3> QED
      BY <3>1
  <2> QED
    BY <2>1, <2>2, <2>3, <2>4
<1> QED
  BY <1>1, <1>2 DEF Packs

\* The program packs: one more session would be more bytes.
LEMMA MaximumPacks ==
    ASSUME NEW C, CandidatesOK(C)
    PROVE  Packs(MaximumNonoverlap(C), C)
<1> DEFINE chosen == MaximumNonoverlap(C)
<1>1. /\ chosen \in FeasibleOf(C)
      /\ \A T \in FeasibleOf(C) : Weight(chosen) >= Weight(T)
  BY MaximumIsExact
<1> HIDE DEF chosen
<1>2. ASSUME NEW c \in C \ chosen PROVE ~Feasible(chosen \cup {c})
  <2> SUFFICES ASSUME Feasible(chosen \cup {c}) PROVE FALSE
    OBVIOUS
  <2>1. chosen \in SUBSET C /\ chosen \cup {c} \in SUBSET C /\ chosen # chosen \cup {c}
    BY <1>1, <1>2 DEF FeasibleOf
  <2>2. Weight(chosen) \in Nat /\ Weight(chosen \cup {c}) \in Nat
        /\ Weight(chosen) < Weight(chosen \cup {c})
    BY <2>1, WeightGrows
  <2>3. Weight(chosen) >= Weight(chosen \cup {c})
    BY <1>1, <2>1 DEF FeasibleOf
  <2> QED
    BY <2>2, <2>3
<1>3. Packs(chosen, C)
  BY <1>1, <1>2, PackedIsMaximal DEF FeasibleOf
<1> QED
  BY <1>3 DEF chosen

\* One more of a sequence, kept when it fits.
Kept(q, i, S) == IF \E k \in S : Overlaps(q[i], k) THEN S ELSE S \cup {q[i]}

KeepsWhatFits(q, n, h) == h = [i \in 0 .. n |-> IF i = 0 THEN {} ELSE Kept(q, i, h[i - 1])]

\* What is kept of the first i of a sequence.
KeptUpTo(q, i, S) ==
    /\ S \subseteq {q[j] : j \in 1 .. i}
    /\ Feasible(S)
    /\ \A j \in 1 .. i : q[j] \in S \/ \E s \in S : Overlaps(q[j], s)

\* One more of a sequence is kept or overlaps what is.
LEMMA KeptNext ==
    ASSUME NEW q, NEW k \in Nat, NEW S, KeptUpTo(q, k, S)
    PROVE  KeptUpTo(q, k + 1, Kept(q, k + 1, S))
<1> DEFINE x == q[k + 1]
<1>1. 1 .. k + 1 = (1 .. k) \cup {k + 1}
  OBVIOUS
<1>2. CASE \E s \in S : Overlaps(x, s)
  <2>1. Kept(q, k + 1, S) = S
    BY <1>2 DEF Kept
  <2>2. KeptUpTo(q, k + 1, S)
    BY <1>1, <1>2 DEF KeptUpTo
  <2> QED
    BY <2>1, <2>2
<1>3. CASE ~\E s \in S : Overlaps(x, s)
  <2>1. Kept(q, k + 1, S) = S \cup {x}
    BY <1>3 DEF Kept
  <2>2. Feasible(S \cup {x})
    <3>1. Feasible(S)
      BY DEF KeptUpTo
    <3>2. \A s \in S : ~Overlaps(x, s) /\ ~Overlaps(s, x)
      BY <1>3 DEF Overlaps
    <3> HIDE DEF x
    <3> QED
      BY <3>1, <3>2 DEF Feasible
  <2>3. KeptUpTo(q, k + 1, S \cup {x})
    BY <1>1, <2>2 DEF KeptUpTo
  <2> QED
    BY <2>1, <2>3
<1> QED
  BY <1>2, <1>3

\* Keeping what fits packs what is in the sequence.
LEMMA GreedyPacks ==
    ASSUME NEW q, Len(q) \in Nat
    PROVE  Packs(Greedy(q), {q[j] : j \in 1 .. Len(q)})
<1> DEFINE n == Len(q)
           Q == SUBSET {q[j] : j \in 1 .. n}
           step == [p \in (1 .. n) \X Q |-> Kept(q, p[1], p[2])]
<1>1. {} \in Q
  OBVIOUS
<1>2. \A i \in 1 .. n, S \in Q : Kept(q, i, S) \in Q
  BY DEF Kept
<1> HIDE DEF Q
<1>3. step \in [(1 .. n) \X Q -> Q]
  BY <1>2
<1>4. \A i \in 1 .. n, S \in Q : step[<<i, S>>] = Kept(q, i, S)
  OBVIOUS
<1> HIDE DEF step
<1>5. PICK f : IsRecursion(f, Q, {}, n, step)
  BY <1>1, <1>3, RecursionDefined
<1>6. \A i \in 0 .. n :
        (IF i = 0 THEN {} ELSE step[<<i, f[i - 1]>>]) = IF i = 0 THEN {} ELSE Kept(q, i, f[i - 1])
  <2> TAKE i \in 0 .. n
  <2>1. CASE i = 0
    BY <2>1
  <2>2. CASE i # 0
    <3>1. i \in 1 .. n /\ f[i - 1] \in Q
      BY <1>5, <2>2 DEF IsRecursion
    <3> QED
      BY <1>4, <2>2, <3>1
  <2> QED
    BY <2>1, <2>2
<1>7. KeepsWhatFits(q, n, f)
  BY <1>5, <1>6 DEF IsRecursion, KeepsWhatFits
<1> DEFINE h == CHOOSE t : KeepsWhatFits(q, n, t)
<1>8. Greedy(q) = h[n]
  BY DEF Greedy, KeepsWhatFits, Kept
<1>9. KeepsWhatFits(q, n, h)
  BY <1>7
<1> HIDE DEF h
<1>10. h[0] = {} /\ \A i \in 1 .. n : h[i] = Kept(q, i, h[i - 1])
  <2>1. 0 \in 0 .. n /\ \A i \in 1 .. n : i \in 0 .. n /\ i # 0
    OBVIOUS
  <2> QED
    BY <1>9, <2>1 DEF KeepsWhatFits
<1> DEFINE E == {k \in Nat : k <= n => KeptUpTo(q, k, h[k])}
<1>11. 0 \in E
  <2>1. 1 .. 0 = {}
    OBVIOUS
  <2>2. KeptUpTo(q, 0, {})
    BY <2>1 DEF KeptUpTo, Feasible
  <2> QED
    BY <1>10, <2>2
<1>12. ASSUME NEW k \in Nat, k \in E PROVE k + 1 \in E
  <2> SUFFICES ASSUME k + 1 <= n PROVE KeptUpTo(q, k + 1, h[k + 1])
    OBVIOUS
  <2>1. KeptUpTo(q, k, h[k])
    BY <1>12
  <2>2. k + 1 \in 1 .. n /\ (k + 1) - 1 = k
    OBVIOUS
  <2>3. h[k + 1] = Kept(q, k + 1, h[k])
    BY <1>10, <2>2
  <2> QED
    BY <2>1, <2>3, KeptNext
<1> HIDE DEF E
<1>13. n \in E
  BY <1>11, <1>12, NaturalsBySteps
<1>14. KeptUpTo(q, n, h[n])
  BY <1>13 DEF E
<1> QED
  BY <1>8, <1>14 DEF KeptUpTo, Packs

-----------------------------------------------------------------------------
(***************************************************************************)
(* The two greedy orders.                                                  *)
(***************************************************************************)

FinishOrder(C) ==
    {p \in C \X C : Precedes(<<p[1].end, p[1].start>> \o TieBreakKey(p[1]),
                             <<p[2].end, p[2].start>> \o TieBreakKey(p[2]))}

Denser(a, b) ==
    LET left  == a.cap * (b.end - b.start)
        right == b.cap * (a.end - a.start)
    IN  left > right \/ (left = right /\ TieBreaks(a, b))

DensityOrder(C) == {p \in C \X C : Denser(p[1], p[2])}

\* A function on the first numbers is a sequence.
LEMMA AsSequence ==
    ASSUME NEW C, NEW n \in Nat, NEW q \in [1 .. n -> C]
    PROVE  q \in Seq(C) /\ Len(q) = n
OBVIOUS

\* q lists C in the order R.
Lists(q, R, C) ==
    /\ q = [i \in 1 .. Cardinality(C) |-> q[i]]
    /\ \A i \in 1 .. Cardinality(C) :
          q[i] = CHOOSE x \in C : Cardinality(Below(R, C, x)) = i - 1

\* A sequence in the order of a relation packs what it orders.
LEMMA GreedyInOrder ==
    ASSUME NEW C, IsFiniteSet(C), NEW R, Orders(R, C), NEW q, Lists(q, R, C)
    PROVE  Packs(Greedy(q), C)
<1>1. Placed(R, C, q)
  BY PlacedByNumber DEF Lists
<1>2. Cardinality(C) \in Nat
  BY FS_CardinalityType
<1>3. q \in Seq(C) /\ Len(q) = Cardinality(C)
  <2>1. \A i \in 1 .. Cardinality(C) : q[i] \in C
    BY <1>1 DEF Placed
  <2>2. q \in [1 .. Cardinality(C) -> C]
    BY <2>1 DEF Lists
  <2> QED
    BY <1>2, <2>2, AsSequence
<1>4. {q[j] : j \in 1 .. Len(q)} = C
  BY <1>1, <1>3 DEF Placed
<1>5. Packs(Greedy(q), {q[j] : j \in 1 .. Len(q)})
  BY <1>2, <1>3, GreedyPacks
<1> QED
  BY <1>4, <1>5

\* The order by end is strict: it ends with the tie-break.
LEMMA FinishOrders ==
    ASSUME NEW C, CandidatesOK(C)
    PROVE  Orders(FinishOrder(C), C)
<1> DEFINE F(a, b) == Precedes(<<a.end, a.start>> \o TieBreakKey(a),
                               <<b.end, b.start>> \o TieBreakKey(b))
<1>1. ASSUME NEW x \in C, NEW y \in C
      PROVE  <<x, y>> \in FinishOrder(C) <=>
                \/ x.end < y.end
                \/ x.end = y.end /\ x.start < y.start
                \/ x.end = y.end /\ x.start = y.start /\ TieBreaks(x, y)
  <2>1. CandidateOK(x) /\ CandidateOK(y)
    BY DEF CandidatesOK
  <2> DEFINE a == <<x.end, x.start>> \o TieBreakKey(x)
             b == <<y.end, y.start>> \o TieBreakKey(y)
             k == TieBreakKey(x)
             l == TieBreakKey(y)
  <2>2. /\ DOMAIN a = 1 .. 7 /\ DOMAIN k = 1 .. 5
        /\ a[1] = x.end /\ a[2] = x.start /\ b[1] = y.end /\ b[2] = y.start
        /\ \A i \in 1 .. 5 : a[i + 2] = k[i] /\ b[i + 2] = l[i]
    BY DEF TieBreakKey
  <2>3. <<x, y>> \in FinishOrder(C) <=> Precedes(a, b)
    BY DEF FinishOrder
  <2>4. TieBreaks(x, y) <=> Precedes(k, l)
    BY DEF TieBreaks
  <2> HIDE DEF a, b, k, l
  <2>5. Precedes(a, b) <=> \E i \in 1 .. 7 : a[i] < b[i] /\ \A j \in 1 .. i - 1 : a[j] = b[j]
    BY <2>2 DEF Precedes
  <2>6. Precedes(k, l) <=> \E i \in 1 .. 5 : k[i] < l[i] /\ \A j \in 1 .. i - 1 : k[j] = l[j]
    BY <2>2 DEF Precedes
  <2>7. ASSUME NEW i \in 1 .. 7, a[i] < b[i], \A j \in 1 .. i - 1 : a[j] = b[j]
        PROVE  \/ x.end < y.end
               \/ x.end = y.end /\ x.start < y.start
               \/ x.end = y.end /\ x.start = y.start /\ Precedes(k, l)
    <3>1. CASE i = 1
      BY <2>2, <2>7, <3>1
    <3>2. CASE i = 2
      <4>1. 1 \in 1 .. i - 1
        BY <3>2
      <4> QED
        BY <2>2, <2>7, <3>2, <4>1
    <3>3. CASE i \in 3 .. 7
      <4>1. 1 \in 1 .. i - 1 /\ 2 \in 1 .. i - 1 /\ i - 2 \in 1 .. 5 /\ (i - 2) + 2 = i
        BY <3>3
      <4>2. k[i - 2] < l[i - 2]
        BY <2>2, <2>7, <4>1
      <4>3. ASSUME NEW j \in 1 .. (i - 2) - 1 PROVE k[j] = l[j]
        <5>1. j \in 1 .. 5 /\ j + 2 \in 1 .. i - 1
          BY <3>3
        <5> QED
          BY <2>2, <2>7, <5>1
      <4>4. Precedes(k, l)
        BY <2>6, <4>1, <4>2, <4>3
      <4> QED
        BY <2>2, <2>7, <4>1, <4>4
    <3> QED
      BY <3>1, <3>2, <3>3
  <2>8. ASSUME x.end < y.end PROVE Precedes(a, b)
    <3>1. 1 \in 1 .. 7 /\ 1 .. 1 - 1 = {}
      OBVIOUS
    <3> QED
      BY <2>2, <2>5, <2>8, <3>1
  <2>9. ASSUME x.end = y.end, x.start < y.start PROVE Precedes(a, b)
    <3>1. 2 \in 1 .. 7 /\ 1 .. 2 - 1 = {1}
      OBVIOUS
    <3> QED
      BY <2>2, <2>5, <2>9, <3>1
  <2>10. ASSUME x.end = y.end, x.start = y.start, Precedes(k, l) PROVE Precedes(a, b)
    <3>1. PICK i \in 1 .. 5 : k[i] < l[i] /\ \A j \in 1 .. i - 1 : k[j] = l[j]
      BY <2>6, <2>10
    <3>2. i + 2 \in 1 .. 7 /\ a[i + 2] < b[i + 2]
      BY <2>2, <3>1
    <3>3. ASSUME NEW j \in 1 .. (i + 2) - 1 PROVE a[j] = b[j]
      <4>1. CASE j = 1 \/ j = 2
        BY <2>2, <2>10, <4>1
      <4>2. CASE j # 1 /\ j # 2
        <5>1. j - 2 \in 1 .. i - 1 /\ j - 2 \in 1 .. 5 /\ (j - 2) + 2 = j
          BY <4>2
        <5> QED
          BY <2>2, <3>1, <5>1
      <4> QED
        BY <4>1, <4>2
    <3> QED
      BY <2>5, <3>2, <3>3
  <2> QED
    BY <2>3, <2>4, <2>5, <2>7, <2>8, <2>9, <2>10
<1>2. /\ \A x \in C : ~TieBreaks(x, x)
      /\ \A x, y, z \in C : TieBreaks(x, y) /\ TieBreaks(y, z) => TieBreaks(x, z)
      /\ \A x, y \in C : x # y => TieBreaks(x, y) \/ TieBreaks(y, x)
  BY TieStrict
<1>3. \A x \in C : x.end \in Nat /\ x.start \in Nat
  BY DEF CandidatesOK, CandidateOK
<1> QED
  BY <1>1, <1>2, <1>3 DEF Orders

\* Equal factors leave an order alone.
LEMMA TimesMonotone ==
    ASSUME NEW l \in Nat \ {0}, NEW p \in Nat, NEW q \in Nat
    PROVE  (p <= q => l * p <= l * q) /\ (p < q => l * p < l * q)
<1>1. l * q = l * p + l * (q - p)
  OBVIOUS
<1>2. p < q => l * (q - p) > 0
  <2> SUFFICES ASSUME p < q PROVE l * (q - p) > 0
    OBVIOUS
  <2>1. q - p \in Nat \ {0}
    OBVIOUS
  <2>2. \A d \in Nat \ {0} : l * d > 0
    OBVIOUS
  <2> QED
    BY <2>1, <2>2
<1>3. l * p \in Nat /\ l * (q - p) \in Int /\ l * q \in Nat
  OBVIOUS
<1>4. p = q => l * p = l * q
  OBVIOUS
<1>5. p <= q => p = q \/ p < q
  OBVIOUS
<1> QED
  BY <1>1, <1>2, <1>3, <1>4, <1>5

\* The order of fractions is transitive: a/k, b/l and c/m, compared crosswise.
LEMMA Crosswise ==
    ASSUME NEW a \in Nat \ {0}, NEW b \in Nat \ {0}, NEW c \in Nat \ {0},
           NEW k \in Nat \ {0}, NEW l \in Nat \ {0}, NEW m \in Nat \ {0},
           a * l >= b * k, b * m >= c * l
    PROVE  /\ a * m >= c * k
           /\ a * l > b * k \/ b * m > c * l => a * m > c * k
<1> DEFINE al == a * l
           bk == b * k
           bm == b * m
           cl == c * l
           am == a * m
           ck == c * k
<1>1. /\ al \in Nat /\ bk \in Nat /\ bm \in Nat /\ cl \in Nat /\ am \in Nat /\ ck \in Nat
      /\ al >= bk /\ bm >= cl
  OBVIOUS
<1>2. m * al = l * am /\ m * bk = k * bm /\ k * cl = l * ck
  OBVIOUS
<1> HIDE DEF al, bk, bm, cl, am, ck
<1>3. m * bk <= m * al /\ (bk < al => m * bk < m * al)
  BY <1>1, TimesMonotone
<1>4. k * cl <= k * bm /\ (cl < bm => k * cl < k * bm)
  BY <1>1, TimesMonotone
<1>5. (am <= ck => l * am <= l * ck) /\ (am < ck => l * am < l * ck)
  BY <1>1, TimesMonotone
<1>6. m * al \in Nat /\ m * bk \in Nat /\ k * cl \in Nat /\ l * am \in Nat /\ l * ck \in Nat
  BY <1>1
<1>7. l * ck <= l * am
  BY <1>2, <1>3, <1>4, <1>6
<1>8. al > bk \/ bm > cl => l * ck < l * am
  BY <1>1, <1>2, <1>3, <1>4, <1>6
<1>9. am >= ck /\ (al > bk \/ bm > cl => am > ck)
  BY <1>1, <1>5, <1>6, <1>7, <1>8
<1> QED
  BY <1>9 DEF al, bk, bm, cl, am, ck

\* The order by density is strict.
LEMMA DensityOrders ==
    ASSUME NEW C, CandidatesOK(C)
    PROVE  Orders(DensityOrder(C), C)
<1>1. /\ \A x \in C : ~TieBreaks(x, x)
      /\ \A x, y, z \in C : TieBreaks(x, y) /\ TieBreaks(y, z) => TieBreaks(x, z)
      /\ \A x, y \in C : x # y => TieBreaks(x, y) \/ TieBreaks(y, x)
  BY TieStrict
<1>2. \A x \in C : x.cap \in Nat \ {0} /\ x.end - x.start \in Nat \ {0}
  BY DEF CandidatesOK, CandidateOK
<1> DEFINE Area(x, y) == x.cap * (y.end - y.start)
<1>3. \A x, y \in C : <<x, y>> \in DensityOrder(C) <=>
        Area(x, y) > Area(y, x) \/ (Area(x, y) = Area(y, x) /\ TieBreaks(x, y))
  BY DEF DensityOrder, Denser
<1>4. \A x, y \in C : Area(x, y) \in Nat
  BY <1>2
<1>5. ASSUME NEW x \in C, NEW y \in C, NEW z \in C,
             Area(x, y) >= Area(y, x), Area(y, z) >= Area(z, y)
      PROVE  /\ Area(x, z) >= Area(z, x)
             /\ Area(x, y) > Area(y, x) \/ Area(y, z) > Area(z, y) => Area(x, z) > Area(z, x)
  <2>1. /\ x.cap \in Nat \ {0} /\ y.cap \in Nat \ {0} /\ z.cap \in Nat \ {0}
        /\ x.end - x.start \in Nat \ {0} /\ y.end - y.start \in Nat \ {0}
        /\ z.end - z.start \in Nat \ {0}
    BY <1>2
  <2> QED
    BY <1>5, <2>1, Crosswise
<1> HIDE DEF Area
<1>6. ASSUME NEW x \in C PROVE <<x, x>> \notin DensityOrder(C)
  BY <1>1, <1>3, <1>4
<1>7. ASSUME NEW x \in C, NEW y \in C, NEW z \in C,
             <<x, y>> \in DensityOrder(C), <<y, z>> \in DensityOrder(C)
      PROVE  <<x, z>> \in DensityOrder(C)
  <2>1. /\ Area(x, y) \in Nat /\ Area(y, x) \in Nat /\ Area(y, z) \in Nat /\ Area(z, y) \in Nat
        /\ Area(x, z) \in Nat /\ Area(z, x) \in Nat
    BY <1>4
  <2>2. /\ Area(x, y) > Area(y, x) \/ (Area(x, y) = Area(y, x) /\ TieBreaks(x, y))
        /\ Area(y, z) > Area(z, y) \/ (Area(y, z) = Area(z, y) /\ TieBreaks(y, z))
    BY <1>3, <1>7
  <2>3. Area(x, y) >= Area(y, x) /\ Area(y, z) >= Area(z, y)
    BY <2>1, <2>2
  <2>4. /\ Area(x, z) >= Area(z, x)
        /\ Area(x, y) > Area(y, x) \/ Area(y, z) > Area(z, y) => Area(x, z) > Area(z, x)
    BY <1>5, <2>3
  <2>5. CASE Area(x, y) > Area(y, x) \/ Area(y, z) > Area(z, y)
    BY <1>3, <2>4, <2>5
  <2>6. CASE TieBreaks(x, y) /\ TieBreaks(y, z)
    <3>1. TieBreaks(x, z)
      BY <1>1, <2>6
    <3>2. Area(x, z) > Area(z, x) \/ Area(x, z) = Area(z, x)
      BY <2>1, <2>4
    <3> QED
      BY <1>3, <3>1, <3>2
  <2> QED
    BY <2>2, <2>5, <2>6
<1>8. ASSUME NEW x \in C, NEW y \in C, x # y
      PROVE  <<x, y>> \in DensityOrder(C) \/ <<y, x>> \in DensityOrder(C)
  <2>1. Area(x, y) \in Nat /\ Area(y, x) \in Nat
    BY <1>4
  <2>2. TieBreaks(x, y) \/ TieBreaks(y, x)
    BY <1>1, <1>8
  <2> QED
    BY <1>3, <2>1, <2>2
<1> QED
  BY <1>6, <1>7, <1>8 DEF Orders

\* Every policy packs what it is offered.
LEMMA PoliciesPack ==
    ASSUME NEW C, CandidatesOK(C), NEW S \in Policies(C)
    PROVE  Packs(S, C)
<1> DEFINE n == Cardinality(C)
<1>1. IsFiniteSet(C)
  BY DEF CandidatesOK
<1>2. Packs(EarliestFinish(C), C)
  <2> DEFINE R == FinishOrder(C)
             Earlier(d, x) == Precedes(<<d.end, d.start>> \o TieBreakKey(d),
                                       <<x.end, x.start>> \o TieBreakKey(x))
             At(i) == CHOOSE x \in C : Cardinality({d \in C : Earlier(d, x)}) = i - 1
             f == [i \in 1 .. n |-> At(i)]
  <2>1. \A x \in C : {d \in C : Earlier(d, x)} = Below(R, C, x)
    BY DEF Below, FinishOrder
  <2>2. EarliestFinish(C) = Greedy(f)
    BY DEF EarliestFinish, Sorted
  <2>3. Orders(R, C)
    BY FinishOrders
  <2> HIDE DEF R
  <2>4. \A i \in 1 .. n : At(i) = CHOOSE x \in C : Cardinality(Below(R, C, x)) = i - 1
    BY <2>1
  <2> HIDE DEF At
  <2>5. f = [i \in 1 .. n |-> f[i]] /\ \A i \in 1 .. n : f[i] = At(i)
    OBVIOUS
  <2> HIDE DEF f
  <2>6. Lists(f, R, C)
    BY <2>4, <2>5 DEF Lists
  <2>7. Packs(Greedy(f), C)
    BY <1>1, <2>3, <2>6, GreedyInOrder
  <2> QED
    BY <2>2, <2>7
<1>3. Packs(DensestFirst(C), C)
  <2> DEFINE R == DensityOrder(C)
             At(i) == CHOOSE x \in C : Cardinality({d \in C : Denser(d, x)}) = i - 1
             f == [i \in 1 .. n |-> At(i)]
  <2>1. \A x \in C : {d \in C : Denser(d, x)} = Below(R, C, x)
    BY DEF Below, DensityOrder
  <2>2. DensestFirst(C) = Greedy(f)
    BY DEF DensestFirst, Sorted, Denser
  <2>3. Orders(R, C)
    BY DensityOrders
  <2> HIDE DEF R
  <2>4. \A i \in 1 .. n : At(i) = CHOOSE x \in C : Cardinality(Below(R, C, x)) = i - 1
    BY <2>1
  <2> HIDE DEF At
  <2>5. f = [i \in 1 .. n |-> f[i]] /\ \A i \in 1 .. n : f[i] = At(i)
    OBVIOUS
  <2> HIDE DEF f
  <2>6. Lists(f, R, C)
    BY <2>4, <2>5 DEF Lists
  <2>7. Packs(Greedy(f), C)
    BY <1>1, <2>3, <2>6, GreedyInOrder
  <2> QED
    BY <2>2, <2>7
<1> QED
  BY <1>2, <1>3, MaximumPacks DEF Policies

-----------------------------------------------------------------------------
(***************************************************************************)
(* Recursion from later instants to earlier ones.                          *)
(***************************************************************************)

\* step at t looks at later instants only.
LooksAhead(I, V, step) ==
    /\ step \in [I \X [I -> V] -> V]
    /\ \A t \in I, f, g \in [I -> V] :
          (\A u \in I : u > t => f[u] = g[u]) => step[<<t, f>>] = step[<<t, g>>]

IsDescent(f, I, V, step) ==
    /\ f \in [I -> V]
    /\ \A t \in I : f[t] = step[<<t, f>>]

\* A recursion over bounded instants that looks ahead has a solution.
LEMMA DescentDefined ==
    ASSUME NEW I \in SUBSET Nat, NEW M \in Nat, \A t \in I : t <= M,
           NEW V, V # {}, NEW step, LooksAhead(I, V, step)
    PROVE  \E f : IsDescent(f, I, V, step)
<1> DEFINE D == {k \in Nat : \E f \in [I -> V] :
                    \A t \in I : t + k > M => f[t] = step[<<t, f>>]}
<1>1. 0 \in D
  <2>1. PICK v \in V : TRUE
    OBVIOUS
  <2>2. [t \in I |-> v] \in [I -> V]
    OBVIOUS
  <2>3. \A t \in I : ~(t + 0 > M)
    OBVIOUS
  <2> QED
    BY <2>2, <2>3
<1>2. ASSUME NEW k \in Nat, k \in D PROVE k + 1 \in D
  <2>1. PICK f \in [I -> V] : \A t \in I : t + k > M => f[t] = step[<<t, f>>]
    BY <1>2
  <2> DEFINE g == [t \in I |-> IF t + k = M THEN step[<<t, f>>] ELSE f[t]]
  <2>2. \A t \in I : step[<<t, f>>] \in V
    BY DEF LooksAhead
  <2>3. g \in [I -> V]
    BY <2>2
  <2>4. \A t \in I : g[t] = IF t + k = M THEN step[<<t, f>>] ELSE f[t]
    OBVIOUS
  <2> HIDE DEF g
  <2>5. ASSUME NEW t \in I, t + (k + 1) > M PROVE g[t] = step[<<t, g>>]
    <3>1. t \in Nat /\ \A u \in I : u \in Nat
      OBVIOUS
    <3>2. ASSUME NEW u \in I, u > t PROVE f[u] = g[u]
      <4>1. u + k # M
        BY <2>5, <3>1, <3>2
      <4> QED
        BY <2>4, <4>1
    <3>3. step[<<t, f>>] = step[<<t, g>>]
      BY <2>3, <3>2 DEF LooksAhead
    <3>4. CASE t + k = M
      <4>1. g[t] = step[<<t, f>>]
        BY <2>4, <3>4
      <4> QED
        BY <3>3, <4>1
    <3>5. CASE t + k # M
      <4>1. t + k > M
        BY <2>5, <3>1, <3>5
      <4>2. g[t] = f[t]
        BY <2>4, <3>5
      <4>3. f[t] = step[<<t, f>>]
        BY <2>1, <4>1
      <4> QED
        BY <3>3, <4>2, <4>3
    <3> QED
      BY <3>4, <3>5
  <2> QED
    BY <2>3, <2>5
<1> HIDE DEF D
<1>3. M + 1 \in D
  BY <1>1, <1>2, NaturalsBySteps
<1>4. PICK f \in [I -> V] : \A t \in I : t + (M + 1) > M => f[t] = step[<<t, f>>]
  BY <1>3 DEF D
<1>5. \A t \in I : t + (M + 1) > M
  OBVIOUS
<1> QED
  BY <1>4, <1>5 DEF IsDescent

\* What holds at an instant when it holds at all later ones holds at them all.
LEMMA ByDescent ==
    ASSUME NEW I \in SUBSET Nat, NEW M \in Nat, \A t \in I : t <= M, NEW H,
           \A t \in I : (\A u \in I : u > t => u \in H) => t \in H
    PROVE  I \subseteq H
<1> DEFINE D == {k \in Nat : \A t \in I : t + k > M => t \in H}
<1>1. 0 \in D
  <2>1. \A t \in I : ~(t + 0 > M)
    OBVIOUS
  <2> QED
    BY <2>1
<1>2. ASSUME NEW k \in Nat, k \in D PROVE k + 1 \in D
  <2> SUFFICES ASSUME NEW t \in I, t + (k + 1) > M PROVE t \in H
    OBVIOUS
  <2>1. t \in Nat /\ \A u \in I : u \in Nat
    OBVIOUS
  <2>2. \A u \in I : u > t => u + k > M
    BY <2>1
  <2>3. \A u \in I : u > t => u \in H
    BY <1>2, <2>2
  <2> QED
    BY <2>3
<1> HIDE DEF D
<1>3. M + 1 \in D
  BY <1>1, <1>2, NaturalsBySteps
<1>4. \A t \in I : t + (M + 1) > M => t \in H
  BY <1>3 DEF D
<1>5. \A t \in I : t + (M + 1) > M
  OBVIOUS
<1> QED
  BY <1>4, <1>5

-----------------------------------------------------------------------------
(***************************************************************************)
(* The maximal sets of a component.                                        *)
(***************************************************************************)

\* A finite set of candidates has a latest instant.
LEMMA InstantsBounded ==
    ASSUME NEW C, CandidatesOK(C)
    PROVE  /\ Instants(C) \in SUBSET Nat
           /\ \E M \in Nat : \A t \in Instants(C) : t <= M
<1> DEFINE n == Cardinality(C)
<1>1. \A c \in C : c.end \in Nat
  BY DEF CandidatesOK, CandidateOK
<1>2. Instants(C) \in SUBSET Nat
  BY <1>1 DEF Instants
<1>3. CASE C = {}
  <2>1. \A t \in Instants(C) : t <= 0
    BY <1>3 DEF Instants
  <2> QED
    BY <1>2, <2>1
<1>4. CASE C # {}
  <2>1. n \in Nat /\ n # 0
    BY <1>4, FS_EmptySet, Items DEF CandidatesOK
  <2>2. n \in 1 .. n
    BY <2>1
  <2> DEFINE m == Item(C, n).end
  <2>3. m \in Nat
    BY <2>2, Items DEF CandidateOK
  <2>4. ASSUME NEW c \in C PROVE c.end <= m
    <3>1. PICK j \in 1 .. n : Item(C, j) = c
      BY Items
    <3>2. j < n \/ j = n
      BY <2>1
    <3>3. CASE j < n
      BY <2>2, <3>1, <3>3, Items
    <3>4. CASE j = n
      BY <2>3, <3>1, <3>4
    <3> QED
      BY <3>2, <3>3, <3>4
  <2> HIDE DEF m
  <2>5. ASSUME NEW t \in Instants(C) PROVE t <= m
    <3>1. t = 0 \/ \E c \in C : t = c.end
      BY DEF Instants
    <3>2. 0 <= m
      BY <2>3
    <3> QED
      BY <2>4, <3>1, <3>2
  <2> QED
    BY <1>2, <2>3, <2>5
<1> QED
  BY <1>3, <1>4

Begins(S, C, t) ==
    \E c \in Viable(C, t) : \E rest : Packs(rest, Available(C, c.end)) /\ S = {c} \cup rest

\* A packing is a viable first session and a packing of what is left after it.
LEMMA PackStep ==
    ASSUME NEW C, CandidatesOK(C), NEW t \in Nat, Available(C, t) # {}, NEW S
    PROVE  Packs(S, Available(C, t)) <=> Begins(S, C, t)
<1>1. \A c \in C : c.start \in Nat /\ c.end \in Nat /\ c.start < c.end
  BY DEF CandidatesOK, CandidateOK
<1>2. Available(C, t) \subseteq C /\ \A c \in C : c \in Available(C, t) <=> c.start >= t
  BY DEF Available
<1>3. ASSUME NEW c \in Viable(C, t), NEW rest, Packs(rest, Available(C, c.end))
      PROVE  Packs({c} \cup rest, Available(C, t))
  <2>1. /\ c \in Available(C, t) /\ \A d \in Available(C, t) : c.start < d.end
        /\ c \in C /\ c.start >= t
    BY <1>2 DEF Viable
  <2>2. /\ rest \subseteq C /\ \A s \in rest : s.start >= c.end
        /\ Feasible(rest)
        /\ \A d \in C : d.start >= c.end /\ d \notin rest => \E s \in rest : Overlaps(d, s)
    <3>1. \A s : s \in Available(C, c.end) <=> s \in C /\ s.start >= c.end
      BY DEF Available
    <3>2. /\ rest \subseteq Available(C, c.end) /\ Feasible(rest)
          /\ \A d \in Available(C, c.end) \ rest : \E s \in rest : Overlaps(d, s)
      BY <1>3 DEF Packs
    <3> QED
      BY <3>1, <3>2
  <2>3. \A s \in rest : s.start >= t
    <3> TAKE s \in rest
    <3>1. s \in C /\ s.start >= c.end
      BY <2>2
    <3>2. s.start \in Nat /\ c.end \in Nat /\ c.start \in Nat /\ c.start < c.end
      BY <1>1, <2>1, <3>1
    <3> QED
      BY <2>1, <3>1, <3>2
  <2>4. {c} \cup rest \subseteq Available(C, t)
    BY <1>2, <2>1, <2>2, <2>3
  <2>5. Feasible({c} \cup rest)
    <3>1. \A s \in rest : ~Overlaps(c, s) /\ ~Overlaps(s, c)
      BY <1>1, <1>2, <2>1, <2>2 DEF Overlaps
    <3> QED
      BY <2>2, <3>1 DEF Feasible
  <2>6. ASSUME NEW d \in Available(C, t) \ ({c} \cup rest)
        PROVE  \E s \in {c} \cup rest : Overlaps(d, s)
    <3>1. CASE d.start >= c.end
      BY <1>2, <2>2, <3>1
    <3>2. CASE ~(d.start >= c.end)
      <4>1. d.start < c.end /\ c.start < d.end
        BY <1>1, <1>2, <2>1, <3>2
      <4> QED
        BY <4>1 DEF Overlaps
    <3> QED
      BY <3>1, <3>2
  <2> QED
    BY <2>4, <2>5, <2>6 DEF Packs
<1>4. ASSUME Packs(S, Available(C, t))
      PROVE  Begins(S, C, t)
  <2>1. /\ S \subseteq Available(C, t) /\ S \subseteq C /\ Feasible(S)
        /\ \A d \in Available(C, t) \ S : \E s \in S : Overlaps(d, s)
    BY <1>2, <1>4 DEF Packs
  <2>2. S # {}
    BY <2>1
  <2> DEFINE starts == {s.start : s \in S}
  <2>3. starts \in SUBSET Nat /\ starts # {}
    BY <1>1, <2>1, <2>2
  <2>4. \E m \in starts : \A n \in starts : m <= n
    BY <2>3, LeastNatural
  <2>5. PICK c \in S : \A s \in S : c.start <= s.start
    BY <2>4
  <2> DEFINE rest == S \ {c}
  <2>6. c \in C /\ \A s \in S : s \in C
    BY <2>1
  <2>7. ASSUME NEW s \in rest PROVE s.start >= c.end
    <3>1. s \in S /\ s # c /\ s \in C
      BY <2>6
    <3>2. ~Overlaps(c, s)
      BY <2>1, <3>1 DEF Feasible
    <3> QED
      BY <1>1, <2>5, <2>6, <3>1, <3>2 DEF Overlaps
  <2>8. c \in Viable(C, t)
    <3>1. ASSUME NEW d \in Available(C, t) PROVE c.start < d.end
      <4>1. d \in C
        BY <1>2
      <4> SUFFICES ASSUME d.end <= c.start PROVE FALSE
        BY <1>1, <2>6, <4>1
      <4>2. d \notin S
        BY <1>1, <2>5, <2>6, <4>1
      <4>3. PICK s \in S : Overlaps(d, s)
        BY <2>1, <4>2
      <4>4. s.start < d.end /\ c.start <= s.start
        BY <2>5, <4>3 DEF Overlaps
      <4> QED
        BY <1>1, <2>6, <4>1, <4>4
    <3> QED
      BY <2>1, <3>1 DEF Viable
  <2>9. Packs(rest, Available(C, c.end))
    <3>1. rest \subseteq Available(C, c.end)
      BY <2>6, <2>7 DEF Available
    <3>2. Feasible(rest)
      BY <2>1 DEF Feasible
    <3>3. ASSUME NEW d \in Available(C, c.end) \ rest PROVE \E s \in rest : Overlaps(d, s)
      <4>1. d \in C /\ d.start >= c.end
        BY DEF Available
      <4>2. d # c
        BY <1>1, <2>6, <4>1
      <4>3. d \notin S
        BY <4>2
      <4>4. t <= c.start
        BY <1>2, <2>1
      <4>5. d.start >= t
        BY <1>1, <2>6, <4>1, <4>4
      <4>6. d \in Available(C, t) \ S
        BY <1>2, <4>1, <4>3, <4>5
      <4>7. PICK s \in S : Overlaps(d, s)
        BY <2>1, <4>6
      <4>8. s # c
        BY <1>1, <2>6, <4>1, <4>7 DEF Overlaps
      <4> QED
        BY <4>7, <4>8
    <3> QED
      BY <3>1, <3>2, <3>3 DEF Packs
  <2>10. S = {c} \cup rest
    OBVIOUS
  <2> QED
    BY <2>8, <2>9, <2>10 DEF Begins
<1> QED
  BY <1>3, <1>4 DEF Begins

Extended(C, f, t) ==
    IF Available(C, t) = {} THEN {{}}
    ELSE UNION {{{c} \cup rest : rest \in f[c.end]} : c \in Viable(C, t)}

DefinesSets(C, h) == h = [t \in Instants(C) |-> Extended(C, h, t)]

\* What is extended is what is left after later instants.
LEMMA ExtendedLooksAhead ==
    ASSUME NEW C, CandidatesOK(C), NEW step,
           step = [p \in Instants(C) \X [Instants(C) -> SUBSET SUBSET C] |-> Extended(C, p[2], p[1])]
    PROVE  /\ LooksAhead(Instants(C), SUBSET SUBSET C, step)
           /\ \A t \in Instants(C), f \in [Instants(C) -> SUBSET SUBSET C] :
                 step[<<t, f>>] = Extended(C, f, t)
<1> DEFINE I == Instants(C)
           V == SUBSET SUBSET C
<1>1. I \in SUBSET Nat
  BY InstantsBounded
<1>2. ASSUME NEW t \in I, NEW c \in Viable(C, t)
      PROVE  c \in C /\ c.end \in I /\ c.end > t
  <2>1. c \in C /\ c.start >= t
    BY DEF Viable, Available
  <2>2. c.start \in Nat /\ c.end \in Nat /\ c.start < c.end
    BY <2>1 DEF CandidatesOK, CandidateOK
  <2>3. c.end \in I
    BY <2>1 DEF Instants
  <2>4. t \in Nat
    BY <1>1
  <2> QED
    BY <2>1, <2>2, <2>3, <2>4
<1> HIDE DEF I
<1>3. ASSUME NEW t \in I, NEW f \in [I -> V] PROVE Extended(C, f, t) \in V
  <2>1. ASSUME NEW c \in Viable(C, t), NEW rest \in f[c.end] PROVE {c} \cup rest \in SUBSET C
    <3>1. f[c.end] \in SUBSET SUBSET C
      BY <1>2
    <3> QED
      BY <1>2, <3>1
  <2> QED
    BY <2>1 DEF Extended
<1>4. ASSUME NEW t \in I, NEW f \in [I -> V], NEW g \in [I -> V],
             \A u \in I : u > t => f[u] = g[u]
      PROVE  Extended(C, f, t) = Extended(C, g, t)
  <2>1. \A c \in Viable(C, t) : f[c.end] = g[c.end]
    BY <1>2, <1>4
  <2> DEFINE F(c) == {{c} \cup rest : rest \in f[c.end]}
             G(c) == {{c} \cup rest : rest \in g[c.end]}
  <2>2. \A c \in Viable(C, t) : F(c) = G(c)
    BY <2>1
  <2>3. /\ Extended(C, f, t) = IF Available(C, t) = {} THEN {{}}
                                ELSE UNION {F(c) : c \in Viable(C, t)}
        /\ Extended(C, g, t) = IF Available(C, t) = {} THEN {{}}
                                ELSE UNION {G(c) : c \in Viable(C, t)}
    BY DEF Extended
  <2> HIDE DEF F, G
  <2>4. {F(c) : c \in Viable(C, t)} = {G(c) : c \in Viable(C, t)}
    BY <2>2
  <2> QED
    BY <2>3, <2>4
<1> HIDE DEF V
<1>5. step = [p \in I \X [I -> V] |-> Extended(C, p[2], p[1])]
  BY DEF I, V
<1>6. \A t \in I, f \in [I -> V] : step[<<t, f>>] = Extended(C, f, t)
  BY <1>5
<1>7. step \in [I \X [I -> V] -> V]
  <2>1. \A p \in I \X [I -> V] : Extended(C, p[2], p[1]) \in V
    BY <1>3
  <2> QED
    BY <1>5, <2>1
<1>8. LooksAhead(I, V, step)
  BY <1>4, <1>6, <1>7 DEF LooksAhead
<1> QED
  BY <1>6, <1>8 DEF I, V

\* The maximal sets are the sets that pack, every one of them and nothing else.
LEMMA MaximalSetsPack ==
    ASSUME NEW C, CandidatesOK(C)
    PROVE  \A S : S \in MaximalSets(C) <=> Packs(S, C)
<1> DEFINE I == Instants(C)
           V == SUBSET SUBSET C
           step == [p \in I \X [I -> V] |-> Extended(C, p[2], p[1])]
<1>1. /\ LooksAhead(I, V, step)
      /\ \A t \in I, f \in [I -> V] : step[<<t, f>>] = Extended(C, f, t)
  BY ExtendedLooksAhead
<1>2. I \in SUBSET Nat /\ 0 \in I
  BY InstantsBounded DEF Instants
<1>3. PICK M \in Nat : \A t \in I : t <= M
  BY InstantsBounded
<1>4. ASSUME NEW t \in I, NEW c \in Viable(C, t)
      PROVE  c \in C /\ c.end \in I /\ c.end > t
  <2>1. c \in C /\ c.start >= t
    BY DEF Viable, Available
  <2>2. c.start \in Nat /\ c.end \in Nat /\ c.start < c.end
    BY <2>1 DEF CandidatesOK, CandidateOK
  <2>3. c.end \in I
    BY <2>1 DEF Instants
  <2>4. t \in Nat
    BY <1>2
  <2> QED
    BY <2>1, <2>2, <2>3, <2>4
<1>5. V # {}
  OBVIOUS
<1> HIDE DEF V, step
<1>6. \E f : IsDescent(f, I, V, step)
  BY <1>1, <1>2, <1>3, <1>5, DescentDefined
<1>7. PICK f : IsDescent(f, I, V, step)
  BY <1>6
<1>8. f \in [I -> V] /\ \A t \in I : f[t] = Extended(C, f, t)
  BY <1>1, <1>7 DEF IsDescent
<1>9. DefinesSets(C, f)
  BY <1>8 DEF DefinesSets
<1> DEFINE h == CHOOSE g : DefinesSets(C, g)
<1>10. MaximalSets(C) = h[0]
  BY DEF MaximalSets, DefinesSets, Extended
<1>11. DefinesSets(C, h)
  BY <1>9
<1> HIDE DEF h
<1>12. \A t \in I : h[t] = Extended(C, h, t)
  BY <1>11 DEF DefinesSets
<1> DEFINE H == {t \in I : \A S : S \in h[t] <=> Packs(S, Available(C, t))}
<1>13. ASSUME NEW t \in I, \A u \in I : u > t => u \in H PROVE t \in H
  <2>1. CASE Available(C, t) = {}
    <3>1. h[t] = {{}}
      BY <1>12, <2>1 DEF Extended
    <3>2. \A S : Packs(S, Available(C, t)) <=> S = {}
      BY <2>1 DEF Packs, Feasible
    <3> QED
      BY <3>1, <3>2
  <2>2. CASE Available(C, t) # {}
    <3>1. h[t] = UNION {{{c} \cup rest : rest \in h[c.end]} : c \in Viable(C, t)}
      BY <1>12, <2>2 DEF Extended
    <3>2. \A c \in Viable(C, t) : \A rest :
             rest \in h[c.end] <=> Packs(rest, Available(C, c.end))
      BY <1>4, <1>13
    <3>3. ASSUME NEW S PROVE S \in h[t] <=> Packs(S, Available(C, t))
      <4>1. t \in Nat
        BY <1>2
      <4>2. Packs(S, Available(C, t)) <=> Begins(S, C, t)
        BY <2>2, <4>1, PackStep
      <4>3. S \in h[t] <=> \E c \in Viable(C, t) : \E rest \in h[c.end] : S = {c} \cup rest
        BY <3>1
      <4> QED
        BY <3>2, <4>2, <4>3 DEF Begins
    <3> QED
      BY <3>3
  <2> QED
    BY <2>1, <2>2
<1>14. H \subseteq I
  OBVIOUS
<1> HIDE DEF H
<1>15. I \subseteq H
  BY <1>2, <1>3, <1>13, ByDescent
<1>16. \A S : S \in h[0] <=> Packs(S, Available(C, 0))
  BY <1>2, <1>15 DEF H
<1>17. Available(C, 0) = C
  BY DEF Available, CandidatesOK, CandidateOK
<1> QED
  BY <1>10, <1>16, <1>17

-----------------------------------------------------------------------------
(***************************************************************************)
(* The conflict components.                                                *)
(***************************************************************************)

\* No two candidates share the fields the sweep orders them by.
StartsApart(C) == \A a, b \in C : a.start = b.start /\ a.end = b.end /\ a.key = b.key => a = b

StartsBefore(a, b) == Precedes(<<a.start, a.end, a.key>>, <<b.start, b.end, b.key>>)
StartOrder(C)      == {p \in C \X C : StartsBefore(p[1], p[2])}
StartItem(C, i)    == ByStart(C)[i]

Least(a1, a2, a3, b1, b2, b3) ==
    \/ a1 < b1
    \/ a1 = b1 /\ a2 < b2
    \/ a1 = b1 /\ a2 = b2 /\ a3 < b3

\* The lexicographic order of three numbers, spelled out.
LEMMA PrecedesThree ==
    ASSUME NEW a1 \in Int, NEW a2 \in Int, NEW a3 \in Int,
           NEW b1 \in Int, NEW b2 \in Int, NEW b3 \in Int
    PROVE  Precedes(<<a1, a2, a3>>, <<b1, b2, b3>>) <=> Least(a1, a2, a3, b1, b2, b3)
<1> DEFINE a == <<a1, a2, a3>>
           b == <<b1, b2, b3>>
<1>1. DOMAIN a = 1 .. 3
  OBVIOUS
<1>2. /\ a[1] = a1 /\ a[2] = a2 /\ a[3] = a3
      /\ b[1] = b1 /\ b[2] = b2 /\ b[3] = b3
  OBVIOUS
<1> HIDE DEF a, b
<1>3. Precedes(a, b) <=> \E i \in 1 .. 3 : a[i] < b[i] /\ \A j \in 1 .. i - 1 : a[j] = b[j]
  BY <1>1 DEF Precedes
<1>4. 1 .. 3 = {1, 2, 3} /\ 1 .. 1 - 1 = {} /\ 1 .. 2 - 1 = {1} /\ 1 .. 3 - 1 = {1, 2}
  OBVIOUS
<1>5. Precedes(a, b) <=>
        \/ a[1] < b[1]
        \/ a[2] < b[2] /\ \A j \in {1} : a[j] = b[j]
        \/ a[3] < b[3] /\ \A j \in {1, 2} : a[j] = b[j]
  BY <1>3, <1>4
<1> QED
  BY <1>2, <1>5 DEF a, b, Least

\* What the sweep compares.
LEMMA StartsBeforeIs ==
    ASSUME NEW x, CandidateOK(x), NEW y, CandidateOK(y)
    PROVE  StartsBefore(x, y) <=>
              \/ x.start < y.start
              \/ x.start = y.start /\ x.end < y.end
              \/ x.start = y.start /\ x.end = y.end /\ x.key < y.key
<1>1. /\ x.start \in Int /\ x.end \in Int /\ x.key \in Int
      /\ y.start \in Int /\ y.end \in Int /\ y.key \in Int
  BY DEF CandidateOK
<1>2. Precedes(<<x.start, x.end, x.key>>, <<y.start, y.end, y.key>>)
        <=> Least(x.start, x.end, x.key, y.start, y.end, y.key)
  BY <1>1, PrecedesThree, Zenon
<1> QED
  BY <1>2 DEF StartsBefore, Least

\* The order of the sweep is strict.
LEMMA StartOrders ==
    ASSUME NEW C, CandidatesOK(C), StartsApart(C)
    PROVE  Orders(StartOrder(C), C)
<1>1. \A x, y \in C : <<x, y>> \in StartOrder(C) <=> StartsBefore(x, y)
  BY DEF StartOrder
<1>2. ASSUME NEW x \in C PROVE ~StartsBefore(x, x)
  <2>1. CandidateOK(x)
    BY DEF CandidatesOK
  <2> QED
    BY <2>1, StartsBeforeIs DEF CandidateOK
<1>3. ASSUME NEW x \in C, NEW y \in C, NEW z \in C, StartsBefore(x, y), StartsBefore(y, z)
      PROVE  StartsBefore(x, z)
  <2>1. CandidateOK(x) /\ CandidateOK(y) /\ CandidateOK(z)
    BY DEF CandidatesOK
  <2> QED
    BY <1>3, <2>1, StartsBeforeIs DEF CandidateOK
<1>4. ASSUME NEW x \in C, NEW y \in C, x # y PROVE StartsBefore(x, y) \/ StartsBefore(y, x)
  <2>1. CandidateOK(x) /\ CandidateOK(y)
    BY DEF CandidatesOK
  <2>2. ~(x.start = y.start /\ x.end = y.end /\ x.key = y.key)
    BY <1>4 DEF StartsApart
  <2> QED
    BY <2>1, <2>2, StartsBeforeIs DEF CandidateOK
<1> QED
  BY <1>1, <1>2, <1>3, <1>4 DEF Orders

\* What that means for the sweep.
LEMMA StartItems ==
    ASSUME NEW C, CandidatesOK(C), StartsApart(C)
    PROVE  /\ \A i \in 1 .. Cardinality(C) : StartItem(C, i) \in C /\ CandidateOK(StartItem(C, i))
           /\ \A x \in C : \E i \in 1 .. Cardinality(C) : StartItem(C, i) = x
           /\ \A i, j \in 1 .. Cardinality(C) : i < j =>
                 /\ StartItem(C, i).start <= StartItem(C, j).start
                 /\ StartItem(C, i) # StartItem(C, j)
<1> DEFINE n == Cardinality(C)
           R == StartOrder(C)
           At(i) == CHOOSE x \in C : Cardinality({d \in C : StartsBefore(d, x)}) = i - 1
           f == ByStart(C)
<1>1. \A x \in C : {d \in C : StartsBefore(d, x)} = Below(R, C, x)
  BY DEF Below, StartOrder
<1>2. f = [i \in 1 .. n |-> At(i)]
  BY DEF ByStart, Sorted, StartsBefore
<1>3. IsFiniteSet(C) /\ Orders(R, C)
  BY StartOrders DEF CandidatesOK
<1> HIDE DEF R
<1>4. \A i \in 1 .. n : At(i) = CHOOSE x \in C : Cardinality(Below(R, C, x)) = i - 1
  BY <1>1
<1> HIDE DEF At
<1>5. \A i \in 1 .. n : f[i] = At(i)
  BY <1>2
<1> HIDE DEF f
<1>6. \A i \in 1 .. n : f[i] = CHOOSE x \in C : Cardinality(Below(R, C, x)) = i - 1
  BY <1>4, <1>5
<1>7. Placed(R, C, f)
  BY <1>3, <1>6, PlacedByNumber
<1>8. \A i \in 1 .. n : StartItem(C, i) \in C /\ CandidateOK(StartItem(C, i))
  BY <1>7 DEF Placed, f, StartItem, CandidatesOK
<1>9. \A x \in C : \E i \in 1 .. n : StartItem(C, i) = x
  BY <1>7 DEF Placed, f, StartItem
<1>10. ASSUME NEW i \in 1 .. n, NEW j \in 1 .. n, i < j
       PROVE  /\ StartItem(C, i).start <= StartItem(C, j).start
              /\ StartItem(C, i) # StartItem(C, j)
  <2>1. <<StartItem(C, i), StartItem(C, j)>> \in R
    BY <1>7, <1>10 DEF Placed, f, StartItem
  <2>2. StartsBefore(StartItem(C, i), StartItem(C, j))
    BY <2>1 DEF R, StartOrder
  <2>3. CandidateOK(StartItem(C, i)) /\ CandidateOK(StartItem(C, j))
    BY <1>8
  <2>4. StartItem(C, i).start <= StartItem(C, j).start
    BY <2>2, <2>3, StartsBeforeIs DEF CandidateOK
  <2>5. StartItem(C, i) # StartItem(C, j)
    BY <1>3, <1>8, <2>1 DEF Orders
  <2> QED
    BY <2>4, <2>5
<1> QED
  BY <1>8, <1>9, <1>10

\* The greater of two numbers.
LEMMA GreaterOfTwo ==
    ASSUME NEW a \in Nat, NEW b \in Nat
    PROVE  /\ Greatest({a, b}) \in Nat
           /\ a <= Greatest({a, b}) /\ b <= Greatest({a, b})
<1>1. {a, b} \subseteq Nat /\ {a, b} # {}
  OBVIOUS
<1>2. IsFiniteSet({a, b})
  <2>1. IsFiniteSet({a})
    BY FS_Singleton
  <2>2. IsFiniteSet({a} \cup {b})
    BY <2>1, FS_AddElement
  <2>3. {a, b} = {a} \cup {b}
    OBVIOUS
  <2> QED
    BY <2>2, <2>3
<1>3. Greatest({a, b}) \in {a, b} /\ \A n \in {a, b} : n <= Greatest({a, b})
  BY <1>1, <1>2, GreatestOfFinite
<1> QED
  BY <1>3

SweepRecords(C) == [closed : SUBSET SUBSET C, current : SUBSET C, frontier : Nat]

StartPrefix(C, i) == {StartItem(C, j) : j \in 1 .. i}

Apart(A, B) == \A x \in A, y \in B : ~Overlaps(x, y)

\* Where the sweep stands after the first i candidates.
SweptTo(C, i, r) ==
    /\ r \in SweepRecords(C)
    /\ i = 0 => r.closed = {}
    /\ i > 0 => r.current # {}
    /\ (UNION r.closed) \cup r.current = StartPrefix(C, i)
    /\ \A A, B \in r.closed : A # B => Apart(A, B)
    /\ \A x \in UNION r.closed, y \in r.current : x.end <= y.start
    /\ \A x \in StartPrefix(C, i) : x.end <= r.frontier

\* The sweep makes records of sets of candidates.
LEMMA SweepType ==
    ASSUME NEW C, CandidatesOK(C), NEW r \in SweepRecords(C), NEW c \in C
    PROVE  Sweep(r, c) \in SweepRecords(C)
<1>1. c.end \in Nat
  BY DEF CandidatesOK, CandidateOK
<1>2. /\ r.closed \in SUBSET SUBSET C /\ r.current \in SUBSET C /\ r.frontier \in Nat
  BY DEF SweepRecords
<1>3. Greatest({r.frontier, c.end}) \in Nat
  BY <1>1, <1>2, GreaterOfTwo
<1>4. CASE c.start < r.frontier
  <2>1. Sweep(r, c) = [closed |-> r.closed, current |-> r.current \cup {c},
                       frontier |-> Greatest({r.frontier, c.end})]
    BY <1>4 DEF Sweep
  <2>2. r.current \cup {c} \in SUBSET C
    BY <1>2
  <2> QED
    BY <1>2, <1>3, <2>1, <2>2 DEF SweepRecords
<1>5. CASE ~(c.start < r.frontier)
  <2>1. Sweep(r, c) = [closed |-> r.closed \cup {r.current}, current |-> {c},
                       frontier |-> c.end]
    BY <1>5 DEF Sweep
  <2>2. r.closed \cup {r.current} \in SUBSET SUBSET C /\ {c} \in SUBSET C
    BY <1>2
  <2> QED
    BY <1>1, <2>1, <2>2 DEF SweepRecords
<1> QED
  BY <1>4, <1>5

\* One more candidate.
LEMMA SweepNext ==
    ASSUME NEW C, CandidatesOK(C), StartsApart(C), NEW k \in Nat, k + 1 <= Cardinality(C),
           NEW r, SweptTo(C, k, r)
    PROVE  SweptTo(C, k + 1, Sweep(r, StartItem(C, k + 1)))
<1> DEFINE c == StartItem(C, k + 1)
           n == Cardinality(C)
<1>1. n \in Nat /\ k + 1 \in 1 .. n /\ \A j \in 1 .. k : j \in 1 .. n /\ j < k + 1
  BY FS_CardinalityType DEF CandidatesOK
<1>2. c \in C /\ CandidateOK(c) /\ \A x \in StartPrefix(C, k) : x \in C /\ x.start <= c.start
  BY <1>1, StartItems DEF StartPrefix
<1>3. StartPrefix(C, k + 1) = StartPrefix(C, k) \cup {c}
  <2>1. 1 .. k + 1 = (1 .. k) \cup {k + 1}
    OBVIOUS
  <2> QED
    BY <2>1 DEF StartPrefix
<1>4. \A x \in C : x.start \in Nat /\ x.end \in Nat /\ x.start < x.end
  BY DEF CandidatesOK, CandidateOK
<1> DEFINE s == Sweep(r, c)
<1>5. s \in SweepRecords(C)
  BY <1>2, SweepType DEF SweptTo
<1>6. /\ r.closed \in SUBSET SUBSET C /\ r.current \in SUBSET C /\ r.frontier \in Nat
      /\ (UNION r.closed) \cup r.current = StartPrefix(C, k)
      /\ \A A, B \in r.closed : A # B => Apart(A, B)
      /\ \A x \in UNION r.closed, y \in r.current : x.end <= y.start
      /\ \A x \in StartPrefix(C, k) : x.end <= r.frontier
      /\ k = 0 => r.closed = {}
      /\ k > 0 => r.current # {}
  BY DEF SweptTo, SweepRecords
<1> HIDE DEF c
<1>7. CASE c.start < r.frontier
  <2>1. s = [closed |-> r.closed, current |-> r.current \cup {c},
             frontier |-> Greatest({r.frontier, c.end})]
    BY <1>7 DEF Sweep
  <2> HIDE DEF s
  <2>2. s.closed = r.closed /\ s.current = r.current \cup {c}
        /\ s.frontier = Greatest({r.frontier, c.end})
    BY <2>1
  <2>3. s.frontier \in Nat /\ r.frontier <= s.frontier /\ c.end <= s.frontier
    BY <1>2, <1>4, <1>6, <2>2, GreaterOfTwo
  <2>4. \A x \in StartPrefix(C, k + 1) : x.end <= s.frontier
    <3> TAKE x \in StartPrefix(C, k + 1)
    <3>1. CASE x = c
      BY <2>3, <3>1
    <3>2. CASE x \in StartPrefix(C, k)
      <4>1. x.end \in Nat /\ x.end <= r.frontier
        BY <1>2, <1>4, <1>6, <3>2
      <4> QED
        BY <1>6, <2>3, <4>1
    <3> QED
      BY <1>3, <3>1, <3>2
  <2>5. ASSUME NEW x \in UNION r.closed PROVE x.end <= c.start
    <3>1. k # 0
      BY <1>6, <2>5
    <3>2. PICK y \in r.current : TRUE
      BY <1>6, <3>1
    <3>3. x.end <= y.start /\ y.start <= c.start
      BY <1>2, <1>6, <3>2
    <3>4. x \in C /\ y \in C
      BY <1>6, <3>2
    <3> QED
      BY <1>2, <1>4, <3>3, <3>4
  <2>6. (UNION s.closed) \cup s.current = StartPrefix(C, k + 1)
    BY <1>3, <1>6, <2>2
  <2>7. \A x \in UNION s.closed, y \in s.current : x.end <= y.start
    BY <1>6, <2>2, <2>5
  <2>8. k + 1 # 0 /\ s.current # {}
    BY <2>2
  <2>9. \A A, B \in s.closed : A # B => Apart(A, B)
    BY <1>6, <2>2
  <2>10. SweptTo(C, k + 1, s)
    BY <1>5, <2>4, <2>6, <2>7, <2>8, <2>9 DEF SweptTo, s
  <2> QED
    BY <2>10 DEF s, c
<1>8. CASE ~(c.start < r.frontier)
  <2>1. s = [closed |-> r.closed \cup {r.current}, current |-> {c}, frontier |-> c.end]
    BY <1>8 DEF Sweep
  <2> HIDE DEF s
  <2>2. s.closed = r.closed \cup {r.current} /\ s.current = {c} /\ s.frontier = c.end
    BY <2>1
  <2>3. ASSUME NEW x \in StartPrefix(C, k) PROVE x.end <= c.start /\ x.end <= c.end
    <3>1. x.end \in Nat /\ x.end <= r.frontier /\ r.frontier \in Nat
      BY <1>2, <1>4, <1>6
    <3>2. c.start \in Nat /\ c.end \in Nat /\ c.start < c.end
      BY <1>2, <1>4
    <3> QED
      BY <1>8, <3>1, <3>2
  <2>4. \A x \in StartPrefix(C, k + 1) : x.end <= s.frontier
    <3>1. c.end <= c.end
      BY <1>2, <1>4
    <3> QED
      BY <1>3, <2>2, <2>3, <3>1
  <2>5. UNION s.closed = StartPrefix(C, k)
    BY <1>6, <2>2
  <2>6. (UNION s.closed) \cup s.current = StartPrefix(C, k + 1)
    BY <1>3, <2>2, <2>5
  <2>7. \A x \in UNION s.closed, y \in s.current : x.end <= y.start
    BY <2>2, <2>3, <2>5
  <2>8. k + 1 # 0 /\ s.current # {}
    BY <2>2
  <2>9. ASSUME NEW A \in s.closed, NEW B \in s.closed, A # B PROVE Apart(A, B)
    <3>1. CASE A \in r.closed /\ B \in r.closed
      BY <1>6, <2>9, <3>1
    <3>2. ASSUME NEW D \in r.closed, NEW x \in D, NEW y \in r.current
          PROVE  ~Overlaps(x, y) /\ ~Overlaps(y, x)
      <4>1. x.end <= y.start /\ x \in C /\ y \in C
        BY <1>6
      <4> QED
        BY <1>4, <4>1 DEF Overlaps
    <3>3. CASE A = r.current /\ B \in r.closed
      BY <3>2, <3>3 DEF Apart
    <3>4. CASE A \in r.closed /\ B = r.current
      BY <3>2, <3>4 DEF Apart
    <3> QED
      BY <2>2, <2>9, <3>1, <3>3, <3>4
  <2>10. SweptTo(C, k + 1, s)
    BY <1>5, <2>4, <2>6, <2>7, <2>8, <2>9 DEF SweptTo, s
  <2> QED
    BY <2>10 DEF s, c
<1> QED
  BY <1>7, <1>8

Unswept == [closed |-> {}, current |-> {}, frontier |-> 0]

Sweeps(C, h) ==
    h = [i \in 0 .. Cardinality(C) |-> IF i = 0 THEN Unswept ELSE Sweep(h[i - 1], StartItem(C, i))]

\* The sweep leaves every candidate in a component, and candidates of different
\* components apart.
LEMMA ComponentsSplit ==
    ASSUME NEW C, CandidatesOK(C), StartsApart(C)
    PROVE  /\ UNION ConflictComponents(C) = C
           /\ \A A, B \in ConflictComponents(C) : A # B => Apart(A, B)
<1> DEFINE n == Cardinality(C)
           V == SweepRecords(C)
           step == [p \in (1 .. n) \X V |-> Sweep(p[2], StartItem(C, p[1]))]
<1>1. n \in Nat /\ \A i \in 1 .. n : StartItem(C, i) \in C
  BY StartItems, FS_CardinalityType DEF CandidatesOK
<1>2. \A i \in 1 .. n, r \in V : Sweep(r, StartItem(C, i)) \in V
  BY <1>1, SweepType
<1>3. Unswept \in V
  BY DEF Unswept, SweepRecords
<1> HIDE DEF V
<1>4. step \in [(1 .. n) \X V -> V]
  BY <1>2
<1>5. \A i \in 1 .. n, r \in V : step[<<i, r>>] = Sweep(r, StartItem(C, i))
  OBVIOUS
<1> HIDE DEF step
<1>6. PICK f : IsRecursion(f, V, Unswept, n, step)
  BY <1>1, <1>3, <1>4, RecursionDefined
<1>7. \A i \in 0 .. n :
        (IF i = 0 THEN Unswept ELSE step[<<i, f[i - 1]>>])
        = IF i = 0 THEN Unswept ELSE Sweep(f[i - 1], StartItem(C, i))
  <2> TAKE i \in 0 .. n
  <2>1. CASE i = 0
    BY <2>1
  <2>2. CASE i # 0
    <3>1. i \in 1 .. n /\ f[i - 1] \in V
      BY <1>1, <1>6, <2>2 DEF IsRecursion
    <3> QED
      BY <1>5, <2>2, <3>1
  <2> QED
    BY <2>1, <2>2
<1>8. Sweeps(C, f)
  BY <1>6, <1>7 DEF IsRecursion, Sweeps
<1> DEFINE h == CHOOSE t : Sweeps(C, t)
<1>9. ConflictComponents(C) = (h[n].closed \cup {h[n].current}) \ {{}}
  BY DEF ConflictComponents, Sweeps, Unswept, StartItem
<1>10. Sweeps(C, h)
  BY <1>8
<1> HIDE DEF h
<1>11. h[0] = Unswept /\ \A i \in 1 .. n : h[i] = Sweep(h[i - 1], StartItem(C, i))
  <2>1. 0 \in 0 .. n /\ \A i \in 1 .. n : i \in 0 .. n /\ i # 0
    BY <1>1
  <2> QED
    BY <1>10, <2>1 DEF Sweeps
<1> DEFINE E == {k \in Nat : k <= n => SweptTo(C, k, h[k])}
<1>12. 0 \in E
  <2>1. StartPrefix(C, 0) = {}
    BY DEF StartPrefix
  <2>2. Unswept.closed = {} /\ Unswept.current = {}
    BY DEF Unswept
  <2>3. SweptTo(C, 0, Unswept)
    BY <1>3, <2>1, <2>2 DEF SweptTo, V
  <2> QED
    BY <1>11, <2>3
<1>13. ASSUME NEW k \in Nat, k \in E PROVE k + 1 \in E
  <2> SUFFICES ASSUME k + 1 <= n PROVE SweptTo(C, k + 1, h[k + 1])
    OBVIOUS
  <2>1. SweptTo(C, k, h[k])
    BY <1>1, <1>13
  <2>2. k + 1 \in 1 .. n /\ (k + 1) - 1 = k
    BY <1>1
  <2>3. h[k + 1] = Sweep(h[k], StartItem(C, k + 1))
    BY <1>11, <2>2
  <2> QED
    BY <2>1, <2>3, SweepNext
<1> HIDE DEF E
<1>14. n \in E
  BY <1>1, <1>12, <1>13, NaturalsBySteps
<1>15. SweptTo(C, n, h[n])
  BY <1>1, <1>14 DEF E
<1> DEFINE r == h[n]
<1>16. StartPrefix(C, n) = C
  BY StartItems DEF StartPrefix
<1>17. /\ (UNION r.closed) \cup r.current = C
       /\ \A A, B \in r.closed : A # B => Apart(A, B)
       /\ \A x \in UNION r.closed, y \in r.current : x.end <= y.start
  BY <1>15, <1>16 DEF SweptTo
<1> HIDE DEF r
<1>18. ConflictComponents(C) = (r.closed \cup {r.current}) \ {{}}
  BY <1>9 DEF r
<1>19. UNION ConflictComponents(C) = C
  BY <1>17, <1>18
<1>20. ASSUME NEW A \in ConflictComponents(C), NEW B \in ConflictComponents(C), A # B
       PROVE  Apart(A, B)
  <2>1. ASSUME NEW D \in r.closed, NEW x \in D, NEW y \in r.current
        PROVE  ~Overlaps(x, y) /\ ~Overlaps(y, x)
    <3>1. x.end <= y.start /\ x \in C /\ y \in C
      BY <1>17
    <3>2. x.end \in Nat /\ y.start \in Nat
      BY <3>1 DEF CandidatesOK, CandidateOK
    <3> QED
      BY <3>1, <3>2 DEF Overlaps
  <2>2. CASE A \in r.closed /\ B \in r.closed
    BY <1>17, <1>20, <2>2
  <2>3. CASE A = r.current /\ B \in r.closed
    BY <2>1, <2>3 DEF Apart
  <2>4. CASE A \in r.closed /\ B = r.current
    BY <2>1, <2>4 DEF Apart
  <2> QED
    BY <1>18, <1>20, <2>2, <2>3, <2>4
<1> QED
  BY <1>19, <1>20

-----------------------------------------------------------------------------
(***************************************************************************)
(* One maximal set of every component.                                     *)
(***************************************************************************)

\* Candidates that may be split into components.
Splits(P, C) == UNION P = C /\ \A A, B \in P : A # B => Apart(A, B)

\* Joined sets of components pack their candidates, and only those do.
LEMMA JoinedPack ==
    ASSUME NEW C, CandidatesOK(C), NEW P, Splits(P, C)
    PROVE  \A S : S \in Joined(P) <=> Packs(S, C)
<1>1. UNION P = C /\ \A A, B \in P : A # B => Apart(A, B)
  BY DEF Splits
<1>2. ASSUME NEW part \in P
      PROVE  \A S : S \in MaximalSets(part) <=> Packs(S, part)
  <2>1. CandidatesOK(part)
    BY <1>1, FewerCandidates
  <2> QED
    BY <2>1, MaximalSetsPack
<1>3. \A A, B \in P : \A x \in A, y \in B : Overlaps(x, y) => A = B
  BY <1>1 DEF Apart
<1>4. \A x \in C : Overlaps(x, x)
  BY DEF Overlaps, CandidatesOK, CandidateOK
<1> DEFINE U == UNION {MaximalSets(part) : part \in P}
           choices == {f \in [P -> U] : \A part \in P : f[part] \in MaximalSets(part)}
<1>5. Joined(P) = {UNION {f[part] : part \in P} : f \in choices}
  BY DEF Joined
<1>6. ASSUME NEW f \in choices PROVE Packs(UNION {f[part] : part \in P}, C)
  <2> DEFINE S == UNION {f[part] : part \in P}
  <2>1. \A part \in P : Packs(f[part], part)
    BY <1>2, <1>6
  <2>2. \A part \in P : /\ f[part] \subseteq part /\ Feasible(f[part])
                        /\ \A c \in part \ f[part] : \E s \in f[part] : Overlaps(c, s)
    BY <2>1 DEF Packs
  <2>3. S \subseteq C
    BY <1>1, <2>2
  <2>4. Feasible(S)
    <3>1. ASSUME NEW a \in S, NEW b \in S, a # b, Overlaps(a, b) PROVE FALSE
      <4>1. PICK A \in P, B \in P : a \in f[A] /\ b \in f[B]
        OBVIOUS
      <4>2. A = B
        BY <1>3, <2>2, <3>1, <4>1
      <4> QED
        BY <2>2, <3>1, <4>1, <4>2 DEF Feasible
    <3> QED
      BY <3>1 DEF Feasible
  <2>5. ASSUME NEW c \in C \ S PROVE \E s \in S : Overlaps(c, s)
    <3>1. PICK part \in P : c \in part
      BY <1>1
    <3>2. c \notin f[part]
      BY <2>5, <3>1
    <3>3. PICK s \in f[part] : Overlaps(c, s)
      BY <2>2, <3>1, <3>2
    <3> QED
      BY <3>3
  <2> QED
    BY <2>3, <2>4, <2>5 DEF Packs
<1>7. ASSUME NEW S, Packs(S, C) PROVE \E f \in choices : S = UNION {f[part] : part \in P}
  <2>1. /\ S \subseteq C /\ Feasible(S)
        /\ \A c \in C \ S : \E s \in S : Overlaps(c, s)
    BY <1>7 DEF Packs
  <2> DEFINE f == [part \in P |-> S \cap part]
  <2>2. ASSUME NEW part \in P PROVE S \cap part \in MaximalSets(part)
    <3>1. Feasible(S \cap part)
      BY <2>1 DEF Feasible
    <3>2. ASSUME NEW c \in part \ (S \cap part) PROVE \E s \in S \cap part : Overlaps(c, s)
      <4>1. c \in C \ S
        BY <1>1
      <4>2. PICK s \in S : Overlaps(c, s)
        BY <2>1, <4>1
      <4>3. PICK B \in P : s \in B
        BY <1>1, <2>1
      <4>4. B = part
        BY <1>3, <4>2, <4>3
      <4> QED
        BY <4>2, <4>3, <4>4
    <3>3. Packs(S \cap part, part)
      BY <3>1, <3>2 DEF Packs
    <3> QED
      BY <1>2, <3>3
  <2>3. f \in [P -> U]
    BY <2>2
  <2>4. \A part \in P : f[part] = S \cap part
    OBVIOUS
  <2> HIDE DEF f
  <2>5. f \in choices
    BY <2>2, <2>3, <2>4
  <2>6. S = UNION {f[part] : part \in P}
    BY <1>1, <2>1, <2>4
  <2> QED
    BY <2>5, <2>6
<1> HIDE DEF choices
<1>8. \A S : S \in Joined(P) <=> \E f \in choices : S = UNION {f[part] : part \in P}
  BY <1>5
<1> QED
  BY <1>6, <1>7, <1>8

\* Components that leave no choice join in one way.
LEMMA OneJoined ==
    ASSUME NEW C, CandidatesOK(C), NEW P, Splits(P, C),
           \A part \in P : ~(Cardinality(MaximalSets(part)) > 1)
    PROVE  Packs(UNION Joined(P), C)
<1> DEFINE U == UNION {MaximalSets(part) : part \in P}
           choices == {f \in [P -> U] : \A part \in P : f[part] \in MaximalSets(part)}
           All(f) == UNION {f[part] : part \in P}
<1>1. Joined(P) = {All(f) : f \in choices}
  BY DEF Joined
<1>2. ASSUME NEW part \in P, NEW S \in MaximalSets(part), NEW T \in MaximalSets(part)
      PROVE  S = T
  <2>1. CandidatesOK(part)
    BY FewerCandidates DEF Splits
  <2>2. MaximalSets(part) \subseteq SUBSET part
    BY <2>1, MaximalSetsPack DEF Packs
  <2>3. IsFiniteSet(MaximalSets(part))
    BY <2>1, <2>2, FS_SUBSET, FS_Subset DEF CandidatesOK
  <2>4. Cardinality(MaximalSets(part)) \in Nat /\ Cardinality(MaximalSets(part)) # 0
    BY <2>3, FS_CardinalityType, FS_EmptySet
  <2>5. Cardinality(MaximalSets(part)) = 1
    BY <2>4
  <2>6. \E x : MaximalSets(part) = {x}
    BY <2>3, <2>5, FS_Singleton
  <2> QED
    BY <2>6
<1>3. ASSUME NEW f \in choices, NEW g \in choices
      PROVE  All(f) = All(g)
  <2>1. \A part \in P : f[part] = g[part]
    BY <1>2
  <2> QED
    BY <2>1
<1>4. Joined(P) # {}
  <2>1. Packs(MaximumNonoverlap(C), C)
    BY MaximumPacks
  <2> QED
    BY <2>1, JoinedPack
<1>5. PICK S : S \in Joined(P)
  BY <1>4
<1> HIDE DEF choices, All
<1>6. \A T \in Joined(P) : T = S
  BY <1>1, <1>3, <1>5
<1>7. UNION Joined(P) = S
  BY <1>5, <1>6
<1> QED
  BY <1>5, <1>7, JoinedPack

\* The components of what is offered, when the sweep can tell its candidates apart.
LEMMA OfferedSplit ==
    ASSUME CandidatesOK(Offered), StartsApart(Offered)
    PROVE  /\ Splits(Components, Offered)
           /\ \A S : S \in Combinations <=> Packs(S, Offered)
           /\ Branching = {} => Packs(UNION Combinations, Offered)
<1>1. Splits(Components, Offered)
  BY ComponentsSplit DEF Splits, Components
<1>2. \A S : S \in Combinations <=> Packs(S, Offered)
  BY <1>1, JoinedPack DEF Combinations
<1>3. ASSUME Branching = {} PROVE Packs(UNION Combinations, Offered)
  <2>1. \A part \in Components : ~(Cardinality(MaximalSets(part)) > 1)
    BY <1>3 DEF Branching
  <2> QED
    BY <1>1, <2>1, OneJoined DEF Combinations
<1> QED
  BY <1>1, <1>2, <1>3

-----------------------------------------------------------------------------
(***************************************************************************)
(* The count of the maximal sets.                                          *)
(***************************************************************************)

\* Finite sets that have no member in common.
Disjoint(F, n) ==
    /\ \A i \in 1 .. n : IsFiniteSet(F[i])
    /\ \A i, j \in 1 .. n : i # j => F[i] \cap F[j] = {}

\* Sets that have no member in common have as many together as one by one.
LEMMA DisjointUnion ==
    ASSUME NEW n \in Nat, NEW F, Disjoint(F, n), NEW g, \A i \in 1 .. n : g[i] = Cardinality(F[i])
    PROVE  /\ IsFiniteSet(UNION {F[i] : i \in 1 .. n})
           /\ Cardinality(UNION {F[i] : i \in 1 .. n}) = Sum(g, n)
<1> DEFINE U(k) == UNION {F[i] : i \in 1 .. k}
           D == {k \in Nat : k <= n => IsFiniteSet(U(k)) /\ Cardinality(U(k)) = Sum(g, k)}
<1>1. 0 \in D
  <2>1. U(0) = {}
    OBVIOUS
  <2>2. Sum(g, 0) = 0
    BY SumNext
  <2> QED
    BY <2>1, <2>2, FS_EmptySet
<1>2. ASSUME NEW k \in Nat, k \in D PROVE k + 1 \in D
  <2> SUFFICES ASSUME k + 1 <= n
               PROVE  IsFiniteSet(U(k + 1)) /\ Cardinality(U(k + 1)) = Sum(g, k + 1)
    OBVIOUS
  <2>1. k + 1 \in 1 .. n /\ \A i \in 1 .. k : i \in 1 .. n /\ i # k + 1
    OBVIOUS
  <2>2. IsFiniteSet(U(k)) /\ Cardinality(U(k)) = Sum(g, k)
    BY <1>2
  <2>3. U(k + 1) = U(k) \cup F[k + 1]
    <3>1. 1 .. k + 1 = (1 .. k) \cup {k + 1}
      OBVIOUS
    <3> QED
      BY <3>1
  <2>4. U(k) \cap F[k + 1] = {}
    BY <2>1 DEF Disjoint
  <2>5. IsFiniteSet(F[k + 1]) /\ g[k + 1] = Cardinality(F[k + 1])
    BY <2>1 DEF Disjoint
  <2> HIDE DEF U
  <2>6. /\ IsFiniteSet(U(k + 1))
        /\ Cardinality(U(k + 1))
             = Cardinality(U(k)) + Cardinality(F[k + 1]) - Cardinality(U(k) \cap F[k + 1])
    BY <2>2, <2>3, <2>5, FS_Union
  <2>7. Cardinality(U(k) \cap F[k + 1]) = 0
    BY <2>4, FS_EmptySet
  <2>8. Cardinality(U(k)) \in Nat /\ Cardinality(F[k + 1]) \in Nat
    BY <2>2, <2>5, FS_CardinalityType
  <2>9. Sum(g, k + 1) = Sum(g, k) + g[k + 1]
    BY SumNext
  <2> QED
    BY <2>2, <2>5, <2>6, <2>7, <2>8, <2>9
<1> HIDE DEF D
<1>3. n \in D
  BY <1>1, <1>2, NaturalsBySteps
<1> QED
  BY <1>3 DEF D

\* The sets that pack what is left at an instant.
Left(C, t) == {S \in SUBSET C : Packs(S, Available(C, t))}

\* The ways to go on with a session.
GoingOn(C, c) == {{c} \cup rest : rest \in Left(C, c.end)}

\* What is left splits by its first session, and as many sets are left after it as go on with it.
LEMMA LeftSplits ==
    ASSUME NEW C, CandidatesOK(C), NEW t \in Nat
    PROVE  /\ IsFiniteSet(Left(C, t))
           /\ Available(C, t) = {} => Left(C, t) = {{}}
           /\ Available(C, t) # {} => Left(C, t) = UNION {GoingOn(C, c) : c \in Viable(C, t)}
           /\ \A c \in Viable(C, t) : /\ IsFiniteSet(GoingOn(C, c))
                                      /\ Cardinality(GoingOn(C, c)) = Cardinality(Left(C, c.end))
           /\ \A c, d \in Viable(C, t) : c # d => GoingOn(C, c) \cap GoingOn(C, d) = {}
<1>1. \A c \in C : c.start \in Nat /\ c.end \in Nat /\ c.start < c.end
  BY DEF CandidatesOK, CandidateOK
<1>2. \A c \in Viable(C, t) : c \in C
  BY DEF Viable, Available
<1>3. \A u : Available(C, u) \subseteq C /\ IsFiniteSet(Left(C, u))
  <2> TAKE u
  <2>1. Left(C, u) \in SUBSET SUBSET C
    BY DEF Left
  <2>2. IsFiniteSet(SUBSET C)
    BY FS_SUBSET DEF CandidatesOK
  <2> QED
    BY <2>1, <2>2, FS_Subset DEF Available
<1>4. \A u, S : S \in Left(C, u) <=> Packs(S, Available(C, u))
  BY <1>3 DEF Left, Packs
<1>5. ASSUME NEW c \in C, NEW rest \in Left(C, c.end), NEW d \in rest PROVE d \in C /\ d.start >= c.end
  BY <1>4 DEF Packs, Available
<1>6. Available(C, t) = {} => Left(C, t) = {{}}
  <2>1. Available(C, t) = {} => \A S : Packs(S, Available(C, t)) <=> S = {}
    BY DEF Packs, Feasible
  <2> QED
    BY <1>4, <2>1
<1>7. ASSUME Available(C, t) # {} PROVE Left(C, t) = UNION {GoingOn(C, c) : c \in Viable(C, t)}
  <2>1. ASSUME NEW S PROVE S \in Left(C, t) <=> \E c \in Viable(C, t) : S \in GoingOn(C, c)
    <3>1. Packs(S, Available(C, t)) <=> Begins(S, C, t)
      BY <1>7, PackStep
    <3>2. \A c : S \in GoingOn(C, c) <=> \E rest \in Left(C, c.end) : S = {c} \cup rest
      BY DEF GoingOn
    <3> QED
      BY <1>4, <3>1, <3>2 DEF Begins
  <2> QED
    BY <2>1
<1>8. ASSUME NEW c \in Viable(C, t)
      PROVE  IsFiniteSet(GoingOn(C, c)) /\ Cardinality(GoingOn(C, c)) = Cardinality(Left(C, c.end))
  <2> DEFINE L == Left(C, c.end)
             f == [rest \in L |-> {c} \cup rest]
  <2>1. c \in C /\ \A rest \in L : c \notin rest
    BY <1>1, <1>2, <1>5
  <2>2. ASSUME NEW r \in L, NEW s \in L, {c} \cup r = {c} \cup s PROVE r = s
    <3>1. c \notin r /\ c \notin s
      BY <2>1
    <3> QED
      BY <2>2, <3>1
  <2>3. GoingOn(C, c) = {{c} \cup rest : rest \in L}
    BY DEF GoingOn
  <2> HIDE DEF L
  <2>4. \A r \in L : f[r] = {c} \cup r /\ {c} \cup r \in GoingOn(C, c)
    BY <2>3
  <2>5. f \in [L -> GoingOn(C, c)]
    BY <2>4
  <2>6. \A S \in GoingOn(C, c) : \E r \in L : f[r] = S
    BY <2>3, <2>4
  <2>7. \A r, s \in L : f[r] = f[s] => r = s
    BY <2>2, <2>4
  <2> HIDE DEF f
  <2>8. f \in Injection(L, GoingOn(C, c))
    BY <2>5, <2>7 DEF Injection, IsInjective
  <2>9. f \in Surjection(L, GoingOn(C, c))
    BY <2>5, <2>6 DEF Surjection
  <2>10. ExistsBijection(L, GoingOn(C, c))
    BY <2>8, <2>9 DEF ExistsBijection, Bijection
  <2>11. IsFiniteSet(L)
    BY <1>3 DEF L
  <2>12. IsFiniteSet(GoingOn(C, c)) /\ Cardinality(GoingOn(C, c)) = Cardinality(L)
    BY <2>10, <2>11, FS_Bijection
  <2> QED
    BY <2>12 DEF L
<1>9. ASSUME NEW c \in Viable(C, t), NEW d \in Viable(C, t), c # d,
             NEW S \in GoingOn(C, c) \cap GoingOn(C, d)
      PROVE  FALSE
  <2>1. PICK r \in Left(C, c.end) : S = {c} \cup r
    BY <1>9 DEF GoingOn
  <2>2. PICK s \in Left(C, d.end) : S = {d} \cup s
    BY <1>9 DEF GoingOn
  <2>3. d \in r /\ c \in s
    BY <1>9, <2>1, <2>2
  <2>4. d.start >= c.end /\ c.start >= d.end /\ c \in C /\ d \in C
    BY <1>2, <1>5, <2>3
  <2> QED
    BY <1>1, <2>4
<1> QED
  BY <1>3, <1>6, <1>7, <1>8, <1>9

\* The sessions that can be next, in the order they are taken.
LEMMA NextItems ==
    ASSUME NEW C, CandidatesOK(C), StartsApart(C), NEW t \in Instants(C), NEW S, S = Viable(C, t)
    PROVE  /\ Cardinality(S) \in Nat
           /\ \A i \in 1 .. Cardinality(S) :
                 /\ StartItem(S, i) \in S /\ StartItem(S, i).end \in Instants(C)
                 /\ StartItem(S, i).end > t
           /\ \A c \in S : \E i \in 1 .. Cardinality(S) : StartItem(S, i) = c
           /\ \A i, j \in 1 .. Cardinality(S) : i # j => StartItem(S, i) # StartItem(S, j)
           /\ \A f : OverNext(f, S) = Sum([i \in 1 .. Cardinality(S) |-> f[StartItem(S, i).end]],
                                          Cardinality(S))
<1> DEFINE n == Cardinality(S)
<1>1. S \subseteq C
  BY DEF Viable, Available
<1>2. CandidatesOK(S) /\ StartsApart(S)
  BY <1>1, FewerCandidates DEF StartsApart
<1>3. n \in Nat
  BY <1>2, FS_CardinalityType DEF CandidatesOK
<1>4. t \in Nat
  BY InstantsBounded
<1>5. ASSUME NEW c \in S PROVE c.end \in Instants(C) /\ c.end > t
  <2>1. c \in C /\ c.start >= t
    BY DEF Viable, Available
  <2>2. c.start \in Nat /\ c.end \in Nat /\ c.start < c.end
    BY <2>1 DEF CandidatesOK, CandidateOK
  <2>3. c.end \in Instants(C)
    BY <2>1 DEF Instants
  <2> QED
    BY <1>4, <2>1, <2>2, <2>3
<1>6. /\ \A i \in 1 .. n : StartItem(S, i) \in S
      /\ \A c \in S : \E i \in 1 .. n : StartItem(S, i) = c
      /\ \A i, j \in 1 .. n : i < j => StartItem(S, i) # StartItem(S, j)
  BY <1>2, StartItems
<1>7. ASSUME NEW i \in 1 .. n, NEW j \in 1 .. n, i # j PROVE StartItem(S, i) # StartItem(S, j)
  <2>1. i < j \/ j < i
    BY <1>7
  <2> QED
    BY <1>6, <2>1
<1>8. \A f : OverNext(f, S) = Sum([i \in 1 .. n |-> f[StartItem(S, i).end]], n)
  BY DEF OverNext, StartItem
<1> QED
  BY <1>3, <1>5, <1>6, <1>7, <1>8

Counted(C, f, t) == IF Available(C, t) = {} THEN 1 ELSE OverNext(f, Viable(C, t))

Counts(C, h) == h = [t \in Instants(C) |-> Counted(C, h, t)]

\* The count is defined.
LEMMA CountDefined ==
    ASSUME NEW C, CandidatesOK(C), StartsApart(C)
    PROVE  \E f : Counts(C, f)
<1> DEFINE I == Instants(C)
           step == [p \in I \X [I -> Nat] |-> Counted(C, p[2], p[1])]
<1>1. I \in SUBSET Nat
  BY InstantsBounded
<1>2. PICK M \in Nat : \A t \in I : t <= M
  BY InstantsBounded
<1>3. ASSUME NEW t \in I, NEW f \in [I -> Nat] PROVE Counted(C, f, t) \in Nat
  <2> DEFINE S == Viable(C, t)
             n == Cardinality(S)
             g == [i \in 1 .. n |-> f[StartItem(S, i).end]]
  <2>1. n \in Nat /\ \A i \in 1 .. n : StartItem(S, i).end \in I
    BY NextItems
  <2>2. OverNext(f, S) = Sum(g, n)
    BY NextItems
  <2>3. \A i \in 1 .. n : g[i] \in Nat
    BY <2>1
  <2> HIDE DEF g, n
  <2>4. Sum(g, n) \in Nat
    BY <2>1, <2>3, SumNat
  <2> QED
    BY <2>2, <2>4 DEF Counted
<1>4. ASSUME NEW t \in I, NEW f \in [I -> Nat], NEW e \in [I -> Nat],
             \A u \in I : u > t => f[u] = e[u]
      PROVE  Counted(C, f, t) = Counted(C, e, t)
  <2> DEFINE S == Viable(C, t)
             n == Cardinality(S)
             g == [i \in 1 .. n |-> f[StartItem(S, i).end]]
             h == [i \in 1 .. n |-> e[StartItem(S, i).end]]
  <2>1. n \in Nat /\ \A i \in 1 .. n : StartItem(S, i).end \in I /\ StartItem(S, i).end > t
    BY NextItems
  <2>2. OverNext(f, S) = Sum(g, n) /\ OverNext(e, S) = Sum(h, n)
    BY NextItems
  <2>3. \A i \in 1 .. n : h[i] = g[i]
    BY <1>4, <2>1
  <2> HIDE DEF g, h, n
  <2>4. Sum(h, n) = Sum(g, n)
    BY <2>1, <2>3, SumSame
  <2> QED
    BY <2>2, <2>4 DEF Counted
<1>5. \A t \in I, f \in [I -> Nat] : step[<<t, f>>] = Counted(C, f, t)
  OBVIOUS
<1>6. step \in [I \X [I -> Nat] -> Nat]
  <2>1. \A p \in I \X [I -> Nat] : Counted(C, p[2], p[1]) \in Nat
    BY <1>3
  <2> QED
    BY <2>1
<1> HIDE DEF I, step
<1>7. LooksAhead(I, Nat, step)
  BY <1>4, <1>5, <1>6 DEF LooksAhead
<1>8. PICK f : IsDescent(f, I, Nat, step)
  BY <1>1, <1>2, <1>7, DescentDefined
<1>9. f \in [I -> Nat] /\ \A t \in I : f[t] = Counted(C, f, t)
  BY <1>5, <1>8 DEF IsDescent
<1>10. Counts(C, f)
  BY <1>9 DEF Counts, I
<1> QED
  BY <1>10

\* The recursion appends every maximal set once.
LEMMA AppendedCounts ==
    ASSUME NEW C, CandidatesOK(C), StartsApart(C)
    PROVE  Appended(C) = Cardinality(MaximalSets(C))
<1> DEFINE I == Instants(C)
           h == CHOOSE f : Counts(C, f)
<1>1. I \in SUBSET Nat /\ 0 \in I
  BY InstantsBounded DEF Instants
<1>2. PICK M \in Nat : \A t \in I : t <= M
  BY InstantsBounded
<1>3. Appended(C) = h[0]
  BY DEF Appended, Counts, Counted
<1>4. Counts(C, h)
  BY CountDefined
<1> HIDE DEF h
<1>5. \A t \in I : h[t] = Counted(C, h, t)
  BY <1>4 DEF Counts
<1> DEFINE H == {t \in I : h[t] = Cardinality(Left(C, t))}
<1>6. ASSUME NEW t \in I, \A u \in I : u > t => u \in H PROVE t \in H
  <2> DEFINE S == Viable(C, t)
             n == Cardinality(S)
             g == [i \in 1 .. n |-> h[StartItem(S, i).end]]
             F == [i \in 1 .. n |-> GoingOn(C, StartItem(S, i))]
  <2>1. t \in Nat
    BY <1>1
  <2>2. CASE Available(C, t) = {}
    <3>1. Left(C, t) = {{}}
      BY <2>1, <2>2, LeftSplits
    <3>2. Cardinality(Left(C, t)) = 1
      BY <3>1, FS_Singleton
    <3>3. h[t] = 1
      BY <1>5, <2>2 DEF Counted
    <3> QED
      BY <3>2, <3>3
  <2>3. CASE Available(C, t) # {}
    <3>1. /\ n \in Nat
          /\ \A i \in 1 .. n : /\ StartItem(S, i) \in S /\ StartItem(S, i).end \in I
                               /\ StartItem(S, i).end > t
          /\ \A c \in S : \E i \in 1 .. n : StartItem(S, i) = c
          /\ \A i, j \in 1 .. n : i # j => StartItem(S, i) # StartItem(S, j)
      BY NextItems
    <3>2. OverNext(h, S) = Sum(g, n)
      BY NextItems
    <3>3. /\ Left(C, t) = UNION {GoingOn(C, c) : c \in S}
          /\ \A c \in S : /\ IsFiniteSet(GoingOn(C, c))
                          /\ Cardinality(GoingOn(C, c)) = Cardinality(Left(C, c.end))
          /\ \A c, d \in S : c # d => GoingOn(C, c) \cap GoingOn(C, d) = {}
      BY <2>1, <2>3, LeftSplits
    <3>4. \A i \in 1 .. n : g[i] = h[StartItem(S, i).end] /\ F[i] = GoingOn(C, StartItem(S, i))
      OBVIOUS
    <3>5. h[t] = Sum(g, n)
      BY <1>5, <2>3, <3>2 DEF Counted
    <3> HIDE DEF g, F, n, S
    <3>6. \A i \in 1 .. n : g[i] = Cardinality(F[i])
      BY <1>6, <3>1, <3>3, <3>4
    <3>7. Disjoint(F, n)
      BY <3>1, <3>3, <3>4 DEF Disjoint
    <3>8. UNION {F[i] : i \in 1 .. n} = Left(C, t)
      BY <3>1, <3>3, <3>4
    <3>9. Cardinality(UNION {F[i] : i \in 1 .. n}) = Sum(g, n)
      BY <3>1, <3>6, <3>7, DisjointUnion
    <3> QED
      BY <3>5, <3>8, <3>9
  <2> QED
    BY <2>2, <2>3
<1>7. H \subseteq I
  OBVIOUS
<1> HIDE DEF H
<1>8. I \subseteq H
  BY <1>1, <1>2, <1>6, ByDescent
<1>9. h[0] = Cardinality(Left(C, 0))
  BY <1>1, <1>8 DEF H
<1>10. Left(C, 0) = MaximalSets(C)
  <2>1. Available(C, 0) = C
    BY DEF Available, CandidatesOK, CandidateOK
  <2>2. \A S : S \in MaximalSets(C) <=> Packs(S, C)
    BY MaximalSetsPack
  <2>3. \A S : Packs(S, C) => S \in SUBSET C
    BY DEF Packs
  <2> QED
    BY <2>1, <2>2, <2>3 DEF Left
<1> QED
  BY <1>3, <1>9, <1>10

-----------------------------------------------------------------------------
(***************************************************************************)
(* What an analysis is offered.                                            *)
(***************************************************************************)

\* Where an analysis stands with its candidates.
OffersMade ==
    /\ ContactsOK(sc)
    /\ phase # "contacts" => Offered = {c \in Contacts : Credited(c)}
    /\ ~QueueAware => phase \in {"contacts", "select", "answered", "reported"}
    /\ ~QueueAware /\ phase = "answered" => answer.sessions = MaximumNonoverlap(Offered)

\* The reducer leaves the scenario alone.
LEMMA ReducerKeepsScenario ==
    ASSUME Step
    PROVE  sc' = sc
BY DEF Step, StartSession, EndAdvance, BeginRelease, EndRelease, EndInstant, BeginInstant,
       JumpToReady, EndSession, Close, IngestDelivery, Release, Generate, OpenAllocation, control

\* What the reducer reads of a scenario beside the sessions.
SameInput ==
    /\ sc'.object = sc.object /\ sc'.after = sc.after /\ sc'.ack = sc.ack
    /\ sc'.storage = sc.storage /\ sc'.windowEnd = sc.windowEnd

\* Making the candidates changes what is offered and nothing else of the scenario.
LEMMA OfferingKept ==
    ASSUME ContactsOK(sc), NEW v, sc' = [sc EXCEPT !.offered = v]
    PROVE  /\ ContactsOK(sc)' /\ (QueueAware' <=> QueueAware) /\ Contacts' = Contacts
           /\ sc'.offered = v /\ sc'.strategy = sc.strategy
           /\ SameInput /\ sc'.sessions = sc.sessions
<1>1. /\ DOMAIN sc' = DOMAIN sc /\ sc'.mode = sc.mode /\ sc'.contacts = sc.contacts
      /\ sc'.offered = v /\ sc'.strategy = sc.strategy
  BY DEF ContactsOK
<1>2. SameInput /\ sc'.sessions = sc.sessions
  BY DEF ContactsOK, SameInput
<1> QED
  BY <1>1, <1>2 DEF ContactsOK, QueueAware, Contacts

\* Trying a selection changes the sessions and nothing else of the scenario.
LEMMA TrialKept ==
    ASSUME ContactsOK(sc), NEW v, sc' = [sc EXCEPT !.sessions = v]
    PROVE  /\ ContactsOK(sc)' /\ (QueueAware' <=> QueueAware) /\ Contacts' = Contacts
           /\ sc'.offered = sc.offered /\ sc'.strategy = sc.strategy
           /\ SameInput /\ sc'.sessions = v
<1>1. /\ DOMAIN sc' = DOMAIN sc /\ sc'.mode = sc.mode /\ sc'.contacts = sc.contacts
      /\ sc'.offered = sc.offered /\ sc'.strategy = sc.strategy
  BY DEF ContactsOK
<1>2. SameInput /\ sc'.sessions = v
  BY DEF ContactsOK, SameInput
<1> QED
  BY <1>1, <1>2 DEF ContactsOK, QueueAware, Contacts

\* A scenario that stays keeps its contacts and its mode.
LEMMA SameScenario ==
    ASSUME sc' = sc
    PROVE  /\ (ContactsOK(sc)' <=> ContactsOK(sc)) /\ (QueueAware' <=> QueueAware)
           /\ Contacts' = Contacts /\ (Blocked' <=> Blocked) /\ Offered' = Offered
BY DEF ContactsOK, QueueAware, Contacts, Blocked, Offered

\* An analysis begins with its contacts.
LEMMA OffersFirst == AInit => OffersMade
BY ContactsAssumption DEF AInit, Init, OffersMade

\* The candidates of an analysis stay as they are made.
LEMMA OffersKept ==
    ASSUME OffersMade, [OracleNext]_hvars
    PROVE  OffersMade'
<1> USE DEF OffersMade
<1>1. CASE MakeCandidates
  <2>1. phase' = "select" /\ sc' = [sc EXCEPT !.offered = {c \in Contacts : Credited(c)}]
    BY <1>1 DEF MakeCandidates
  <2>2. /\ ContactsOK(sc)' /\ (QueueAware' <=> QueueAware) /\ Contacts' = Contacts
        /\ sc'.offered = {c \in Contacts : Credited(c)}
    BY <2>1, OfferingKept
  <2> QED
    BY <2>1, <2>2 DEF Offered
<1>2. CASE SelectNetwork
  <2>1. sc' = sc /\ phase' = "answered" /\ phase = "select"
    BY <1>2 DEF SelectNetwork, Answers, vars, control
  <2>2. answer'.sessions = MaximumNonoverlap(Offered)
    BY <1>2 DEF SelectNetwork, Answers, Answer
  <2> QED
    BY <2>1, <2>2, SameScenario
<1>3. CASE SelectQueueAware
  <2>1. sc' = sc /\ phase = "select" /\ QueueAware
    BY <1>3 DEF SelectQueueAware, SelectExact, SelectBounded, Answers, Tries, vars, control
  <2> QED
    BY <2>1, SameScenario
<1>4. CASE BeginRollout
  <2>1. phase = "score" /\ phase' = "rollout" /\ QueueAware
    BY <1>4 DEF BeginRollout
  <2>2. PICK S : FreshReducer(S)
    BY <1>4 DEF BeginRollout
  <2>3. sc' = [sc EXCEPT !.sessions = ByStart(S)]
    BY <2>2 DEF FreshReducer
  <2>4. ContactsOK(sc)' /\ QueueAware' /\ Contacts' = Contacts /\ sc'.offered = sc.offered
    BY <2>1, <2>3, TrialKept
  <2> QED
    BY <2>1, <2>4 DEF Offered
<1>5. CASE Rollout
  <2>1. sc' = sc /\ phase = "rollout" /\ phase' = phase
    BY <1>5, ReducerKeepsScenario DEF Rollout, search
  <2> QED
    BY <2>1, SameScenario
<1>6. CASE EndRollout \/ Choose \/ Consult
  <2>1. sc' = sc /\ QueueAware /\ phase # "contacts"
    BY <1>6 DEF EndRollout, Choose, Consult, Answers, vars, control
  <2> QED
    BY <2>1, SameScenario
<1>7. CASE BeginLedger
  <2>1. phase = "answered" /\ phase' = "ledger" /\ QueueAware
        /\ FreshReducer(answer.sessions)
    BY <1>7 DEF BeginLedger
  <2>2. sc' = [sc EXCEPT !.sessions = ByStart(answer.sessions)]
    BY <2>1 DEF FreshReducer
  <2>3. ContactsOK(sc)' /\ QueueAware' /\ Contacts' = Contacts /\ sc'.offered = sc.offered
    BY <2>1, <2>2, TrialKept
  <2> QED
    BY <2>1, <2>3 DEF Offered
<1>8. CASE RunLedger
  <2>1. sc' = sc /\ phase = "ledger" /\ phase' = phase
    BY <1>8, ReducerKeepsScenario DEF RunLedger, search
  <2> QED
    BY <2>1, SameScenario
<1>9. CASE Report
  <2>1. sc' = sc /\ phase # "contacts" /\ phase' = "reported"
    BY <1>9 DEF Report, vars, control
  <2> QED
    BY <2>1, SameScenario
<1>10. CASE UNCHANGED hvars
  <2>1. sc' = sc /\ phase' = phase /\ answer' = answer
    BY <1>10 DEF hvars, vars, control, search
  <2> QED
    BY <2>1, SameScenario
<1> QED
  BY <1>1, <1>2, <1>3, <1>4, <1>5, <1>6, <1>7, <1>8, <1>9, <1>10 DEF OracleNext, ANext

\* What an analysis is offered is made of its contacts.
LEMMA OfferedOK ==
    ASSUME OffersMade, phase # "contacts", KeysApart(Offered)
    PROVE  CandidatesOK(Offered)
<1>1. IsFiniteSet(Contacts)
  <2> DEFINE D == DOMAIN sc.contacts
             f == [i \in D |-> sc.contacts[i]]
  <2>1. f \in Surjection(D, Contacts)
    BY DEF Surjection, Contacts
  <2>2. IsFiniteSet(D)
    BY DEF OffersMade, ContactsOK
  <2> HIDE DEF D, f
  <2> QED
    BY <2>1, <2>2, FS_Surjection
<1>2. Offered \subseteq Contacts /\ \A c \in Offered : CandidateOK(c)
  BY DEF OffersMade, ContactsOK, Contacts
<1> QED
  BY <1>1, <1>2, FS_Subset DEF CandidatesOK

\* Whatever it is offered, when no two offers tie in everything the tie-break looks at:
\* the program of domain/scheduler.py finds the most bytes there are, and of all
\* selections of as many the first.
THEOREM NetworkSelectionExact == OracleSpec => [](KeysApart(Offered) => MaximumExact)
<1>1. ASSUME OffersMade, KeysApart(Offered) PROVE MaximumExact
  <2> SUFFICES ASSUME phase = "answered", ~QueueAware PROVE MaximumExact
    BY DEF MaximumExact
  <2>1. answer.sessions = MaximumNonoverlap(Offered)
    BY <1>1 DEF OffersMade
  <2>2. CandidatesOK(Offered)
    BY <1>1, OfferedOK
  <2>3. FeasibleSets = FeasibleOf(Offered)
    BY DEF FeasibleSets, FeasibleOf
  <2> QED
    BY <2>1, <2>2, <2>3, MaximumIsExact DEF MaximumExact
<1> QED
  BY <1>1, OffersFirst, OffersKept, PTL DEF OracleSpec

-----------------------------------------------------------------------------
(***************************************************************************)
(* The answer of an analysis.                                              *)
(***************************************************************************)

\* Candidates the sweep can tell apart have tie-breaks apart.
LEMMA StartsTellKeys ==
    ASSUME NEW C, StartsApart(C)
    PROVE  KeysApart(C)
<1> SUFFICES ASSUME NEW a \in C, NEW b \in C, TieBreakKey(a) = TieBreakKey(b) PROVE a = b
  BY DEF KeysApart
<1>1. a.start = b.start /\ a.end = b.end /\ a.key = b.key
  BY DEF TieBreakKey
<1> QED
  BY <1>1 DEF StartsApart

\* Everything the search handles leaves no room for another session.
Packing(selections) == \A S \in selections : Packs(S, Offered)

\* There is an answer, whatever stands for none.
Given == answer # None \/ phase \in {"answered", "ledger", "reported"}

SearchPacks ==
    /\ phase \in {"contacts", "select"} => answer = None /\ todo = {} /\ scores = {}
    /\ StartsApart(Offered) /\ phase # "contacts" =>
          /\ Packing(todo)
          /\ Packing({s.selection : s \in scores})
          /\ phase = "rollout" => Packs(trial, Offered)
          /\ Given /\ answer.status # "REFUSED" => Packs(answer.sessions, Offered)

\* An analysis begins with no answer.
LEMMA PackingFirst == AInit => SearchPacks
BY DEF AInit, SearchPacks, Given

\* What a step of the search tries and answers leaves no room.
LEMMA PackingKept ==
    ASSUME OffersMade, SearchPacks, [ANext]_hvars
    PROVE  SearchPacks'
<1>1. ASSUME StartsApart(Offered), phase # "contacts" PROVE CandidatesOK(Offered)
  BY <1>1, OfferedOK, StartsTellKeys
<1>2. ASSUME Offered' = Offered, phase # "contacts", phase' \notin {"contacts", "select"},
             ASSUME StartsApart(Offered), CandidatesOK(Offered)
             PROVE  /\ Packing(todo')
                    /\ Packing({s.selection : s \in scores'})
                    /\ phase' = "rollout" => Packs(trial', Offered)
                    /\ Given' /\ answer'.status # "REFUSED" => Packs(answer'.sessions, Offered)
      PROVE  SearchPacks'
  BY <1>1, <1>2 DEF SearchPacks, Packing, StartsApart
<1>3. CASE MakeCandidates
  BY <1>3 DEF MakeCandidates, SearchPacks, Packing, Given
<1>4. CASE SelectNetwork
  <2>1. /\ sc' = sc /\ phase = "select" /\ phase' = "answered"
        /\ todo' = todo /\ scores' = scores
        /\ answer'.sessions = MaximumNonoverlap(Offered)
    BY <1>4 DEF SelectNetwork, Answers, Answer, vars, control
  <2> QED
    BY <1>2, <2>1, MaximumPacks DEF SearchPacks, Packing, Given, Offered
<1>5. CASE SelectQueueAware /\ SelectExact
  <2>1. sc' = sc /\ phase = "select" /\ phase' \in {"answered", "score"} /\ scores' = scores
    BY <1>5 DEF SelectExact, Answers, Tries, vars, control
  <2>2. ASSUME StartsApart(Offered), CandidatesOK(Offered)
        PROVE  /\ Packing(todo')
               /\ Given' /\ answer'.status # "REFUSED" => Packs(answer'.sessions, Offered)
    <3>1. CASE OverBudget /\ Answers("REFUSED", {})
      BY <2>1, <3>1 DEF Answers, Answer, SearchPacks, Packing
    <3>2. CASE Branching = {} /\ Answers("EXACT", UNION Combinations)
      <4>1. todo' = {} /\ answer'.sessions = UNION Combinations
        BY <2>1, <3>2 DEF Answers, Answer, SearchPacks
      <4> QED
        BY <2>2, <3>2, <4>1, OfferedSplit DEF Packing
    <3>3. CASE Tries(Combinations)
      <4>1. todo' = Combinations /\ ~Given'
        BY <2>1, <3>3 DEF Tries, SearchPacks, Given
      <4> QED
        BY <2>2, <4>1, OfferedSplit DEF Packing
    <3> QED
      BY <1>5, <3>1, <3>2, <3>3 DEF SelectExact
  <2> QED
    BY <1>2, <2>1, <2>2 DEF SearchPacks, Packing, Given, Offered
<1>6. CASE SelectQueueAware /\ SelectBounded
  <2> DEFINE family == Policies(Offered)
  <2>1. sc' = sc /\ phase = "select" /\ phase' \in {"answered", "score"} /\ scores' = scores
    BY <1>6 DEF SelectBounded, Answers, Tries, vars, control
  <2>2. ASSUME StartsApart(Offered), CandidatesOK(Offered)
        PROVE  /\ Packing(todo')
               /\ Given' /\ answer'.status # "REFUSED" => Packs(answer'.sessions, Offered)
    <3>1. Packing(family)
      BY <2>2, PoliciesPack DEF Packing
    <3>2. CASE Cardinality(family) = 1 /\ Answers("APPROXIMATE", UNION family)
      <4>1. todo' = {} /\ answer'.sessions = UNION family
        BY <2>1, <3>2 DEF Answers, Answer, SearchPacks
      <4>2. UNION family \in family
        <5>1. family = {MaximumNonoverlap(Offered), EarliestFinish(Offered), DensestFirst(Offered)}
          BY DEF Policies
        <5>2. IsFiniteSet(family)
          <6>1. IsFiniteSet({MaximumNonoverlap(Offered)})
            BY FS_Singleton
          <6>2. IsFiniteSet({MaximumNonoverlap(Offered)} \cup {EarliestFinish(Offered)})
            BY <6>1, FS_AddElement
          <6>3. IsFiniteSet(({MaximumNonoverlap(Offered)} \cup {EarliestFinish(Offered)})
                            \cup {DensestFirst(Offered)})
            BY <6>2, FS_AddElement
          <6>4. family = ({MaximumNonoverlap(Offered)} \cup {EarliestFinish(Offered)})
                         \cup {DensestFirst(Offered)}
            BY <5>1
          <6> QED
            BY <6>3, <6>4
        <5>3. PICK x : family = {x}
          BY <3>2, <5>2, FS_Singleton
        <5> QED
          BY <5>3
      <4> QED
        BY <3>1, <4>1, <4>2 DEF Packing
    <3>3. CASE Tries(family)
      <4>1. todo' = family /\ ~Given'
        BY <2>1, <3>3 DEF Tries, SearchPacks, Given
      <4> QED
        BY <3>1, <4>1
    <3> QED
      BY <1>6, <3>2, <3>3 DEF SelectBounded
  <2> QED
    BY <1>2, <2>1, <2>2 DEF SearchPacks, Packing, Given, Offered
<1>7. CASE BeginRollout
  <2>1. phase = "score" /\ phase' = "rollout"
        /\ todo' = todo /\ scores' = scores /\ answer' = answer
    BY <1>7 DEF BeginRollout
  <2>2. PICK S \in todo : trial' = S /\ FreshReducer(S)
    BY <1>7 DEF BeginRollout
  <2>3. sc' = [sc EXCEPT !.sessions = ByStart(S)]
    BY <2>2 DEF FreshReducer
  <2>4. Offered' = Offered
    BY <2>3, TrialKept DEF OffersMade, Offered
  <2> QED
    BY <1>2, <2>1, <2>2, <2>4 DEF SearchPacks, Packing, Given
<1>8. CASE Rollout \/ RunLedger
  <2>1. sc' = sc /\ phase \in {"rollout", "ledger"} /\ UNCHANGED search
    BY <1>8, ReducerKeepsScenario DEF Rollout, RunLedger
  <2> QED
    BY <1>2, <2>1 DEF SearchPacks, Packing, Given, Offered, search
<1>9. CASE EndRollout
  <2>1. /\ sc' = sc /\ phase = "rollout" /\ phase' = "score" /\ answer' = answer
        /\ scores' = scores \cup {[selection |-> trial, objective |-> Objective]}
        /\ todo' = todo \ {trial}
    BY <1>9 DEF EndRollout, vars, control
  <2>2. {s.selection : s \in scores'} \subseteq {s.selection : s \in scores} \cup {trial}
    BY <2>1
  <2> QED
    BY <1>2, <2>1, <2>2 DEF SearchPacks, Packing, Given, Offered
<1>10. CASE Choose
  <2>1. /\ sc' = sc /\ phase = "score" /\ phase' = "answered"
        /\ todo' = todo /\ scores' = scores
    BY <1>10 DEF Choose, Answers, vars, control
  <2>2. PICK s \in scores : answer'.sessions = s.selection
    BY <1>10 DEF Choose, Answers, Answer
  <2> QED
    BY <1>2, <2>1, <2>2 DEF SearchPacks, Packing, Given, Offered
<1>11. CASE BeginLedger
  <2>1. phase = "answered" /\ phase' = "ledger"
        /\ todo' = todo /\ scores' = scores /\ answer' = answer
        /\ FreshReducer(answer.sessions)
    BY <1>11 DEF BeginLedger
  <2>2. sc' = [sc EXCEPT !.sessions = ByStart(answer.sessions)]
    BY <2>1 DEF FreshReducer
  <2>3. Offered' = Offered
    BY <2>2, TrialKept DEF OffersMade, Offered
  <2> QED
    BY <1>2, <2>1, <2>3 DEF SearchPacks, Packing, Given
<1>12. CASE Report
  <2>1. sc' = sc /\ phase \in {"ledger", "answered"} /\ phase' = "reported"
        /\ todo' = todo /\ scores' = scores /\ answer' = answer
    BY <1>12 DEF Report, vars, control
  <2> QED
    BY <1>2, <2>1 DEF SearchPacks, Packing, Given, Offered
<1>13. CASE UNCHANGED hvars
  BY <1>13 DEF hvars, vars, control, search, SearchPacks, Packing, Given, Offered, StartsApart
<1> QED
  BY <1>3, <1>4, <1>5, <1>6, <1>7, <1>8, <1>9, <1>10, <1>11, <1>12, <1>13
     DEF ANext, SelectQueueAware

\* Whatever the mode and the strategy, when the sweep can tell the candidates apart: the
\* one transmitter can serve the answer, and no further session fits.
THEOREM AnswerLeavesNoRoom == ASpec => [](StartsApart(Offered) => AnswerMaximal)
<1>1. ASSUME SearchPacks, StartsApart(Offered) PROVE AnswerMaximal
  <2> SUFFICES ASSUME answer # None, answer.status # "REFUSED"
               PROVE  /\ Feasible(answer.sessions)
                      /\ \A c \in Offered \ answer.sessions : ~Feasible(answer.sessions \cup {c})
    BY DEF AnswerMaximal
  <2>1. Packs(answer.sessions, Offered)
    BY <1>1 DEF SearchPacks, Given
  <2> QED
    BY <2>1, PackedIsMaximal
<1>2. ASSUME OffersMade, SearchPacks, [ANext]_hvars PROVE OffersMade' /\ SearchPacks'
  BY <1>2, OffersKept, PackingKept DEF OracleNext
<1> QED
  BY <1>1, <1>2, OffersFirst, PackingFirst, PTL DEF ASpec

\* When the sweep can tell the candidates apart, the search is complete: the joined sets
\* of the components are the maximal feasible sets of all candidates, and the recursion
\* appends each set of a component once.
THEOREM SearchIsComplete == OracleSpec => [](StartsApart(Offered) => SearchComplete)
<1>1. ASSUME OffersMade, StartsApart(Offered) PROVE SearchComplete
  <2> SUFFICES ASSUME AtStart
               PROVE  /\ UNION Components = Offered
                      /\ Combinations = MaximalFeasible
                      /\ \A P \in Components : Appended(P) = Cardinality(MaximalSets(P))
    BY DEF SearchComplete
  <2>1. CandidatesOK(Offered)
    BY <1>1, OfferedOK, StartsTellKeys DEF AtStart
  <2>2. Splits(Components, Offered) /\ \A S : S \in Combinations <=> Packs(S, Offered)
    BY <1>1, <2>1, OfferedSplit
  <2>3. \A S : S \in MaximalFeasible <=> Packs(S, Offered)
    BY PackedIsMaximal DEF MaximalFeasible, FeasibleSets
  <2>4. ASSUME NEW P \in Components PROVE Appended(P) = Cardinality(MaximalSets(P))
    <3>1. P \subseteq Offered
      BY <2>2 DEF Splits
    <3>2. CandidatesOK(P) /\ StartsApart(P)
      BY <1>1, <2>1, <3>1, FewerCandidates DEF StartsApart
    <3> QED
      BY <3>2, AppendedCounts
  <2> QED
    BY <2>2, <2>3, <2>4 DEF Splits
<1> QED
  BY <1>1, OffersFirst, OffersKept, PTL DEF OracleSpec

-----------------------------------------------------------------------------
(***************************************************************************)
(* The gap that is reported.                                               *)
(***************************************************************************)

Open(x)      == x.start \in Int /\ x.end \in Int /\ x.start < x.end
Covers(x, t) == x.start <= t /\ t < x.end

\* The first n of q are intervals in the order of their starts.
InOrder(q, n) ==
    /\ \A i \in 1 .. n : Open(q[i])
    /\ \A i, j \in 1 .. n : i < j => q[i].start <= q[j].start

\* What the first k of them leave uncovered before an end.
Bare(q, k, end) ==
    {t \in Int : q[1].start <= t /\ t < end /\ \A j \in 1 .. k : ~Covers(q[j], t)}

\* No run of bare ticks is longer than gap, and one is as long.
Longest(bare, gap) ==
    /\ gap \in Nat
    /\ \A t, u \in Int : t <= u /\ t .. u \subseteq bare => u - t + 1 <= gap
    /\ gap = 0 \/ \E t, u \in Int : t <= u /\ t .. u \subseteq bare /\ u - t + 1 = gap

\* Where the loop stands after the first k intervals.
SeenTo(q, k, r) ==
    /\ r.end \in Int
    /\ \A j \in 1 .. k : q[j].end <= r.end
    /\ \E j \in 1 .. k : q[j].end = r.end
    /\ Longest(Bare(q, k, r.end), r.gap)

\* The first interval leaves nothing uncovered.
LEMMA FirstSeen ==
    ASSUME NEW n \in Nat \ {0}, NEW q, InOrder(q, n)
    PROVE  SeenTo(q, 1, [gap |-> 0, end |-> q[1].end])
<1> DEFINE r == [gap |-> 0, end |-> q[1].end]
<1>1. 1 \in 1 .. n /\ 1 .. 1 = {1}
  OBVIOUS
<1>2. Open(q[1]) /\ r.end = q[1].end /\ r.gap = 0
  BY <1>1 DEF InOrder
<1> HIDE DEF r
<1>3. Bare(q, 1, r.end) = {}
  BY <1>1, <1>2 DEF Bare, Covers, Open
<1>4. Longest({}, 0)
  <2>1. ASSUME NEW t \in Int, NEW u \in Int, t <= u, t .. u \subseteq {} PROVE FALSE
    <3>1. t \in t .. u
      BY <2>1
    <3> QED
      BY <2>1, <3>1
  <2> QED
    BY <2>1 DEF Longest
<1>5. SeenTo(q, 1, r)
  BY <1>1, <1>2, <1>3, <1>4 DEF SeenTo, Open
<1> QED
  BY <1>5 DEF r

\* An interval that begins after all others have ended opens a gap.
LEMMA GapOpens ==
    ASSUME NEW n \in Nat, NEW q, InOrder(q, n), NEW k \in 1 .. n - 1, NEW r, SeenTo(q, k, r),
           q[k + 1].start > r.end
    PROVE  /\ Longest(Bare(q, k + 1, q[k + 1].end), Higher(r.gap, q[k + 1].start - r.end))
           /\ q[k + 1].end > r.end
<1> DEFINE x == q[k + 1]
           B == Bare(q, k, r.end)
           N == Bare(q, k + 1, x.end)
           wide == x.start - r.end
<1>1. /\ k + 1 \in 1 .. n /\ 1 .. k + 1 = (1 .. k) \cup {k + 1}
      /\ 1 \in 1 .. k /\ \A j \in 1 .. k : j \in 1 .. n
  OBVIOUS
<1>2. /\ x.start \in Int /\ x.end \in Int /\ x.start < x.end /\ r.end \in Int
      /\ x.start > r.end /\ x.end > r.end
  BY <1>1 DEF InOrder, Open, SeenTo
<1>3. \A j \in 1 .. k : /\ q[j].start \in Int /\ q[j].end \in Int /\ q[j].start < q[j].end
                        /\ q[j].end <= r.end
  BY <1>1 DEF InOrder, Open, SeenTo
<1> HIDE DEF x
<1>4. \A t \in Int : t \in N <=> /\ q[1].start <= t /\ t < x.end /\ ~Covers(x, t)
                                /\ \A j \in 1 .. k : ~Covers(q[j], t)
  BY <1>1 DEF Bare, x
<1>5. \A t \in Int : t \in B <=> /\ q[1].start <= t /\ t < r.end
                                /\ \A j \in 1 .. k : ~Covers(q[j], t)
  BY DEF Bare
<1> HIDE DEF B, N
<1>6. B \subseteq N
  <2>1. B \subseteq Int
    BY DEF B, Bare
  <2> QED
    BY <1>2, <1>4, <1>5, <2>1 DEF Covers
<1>7. \A t \in Int : t \in N => t \in B \/ (r.end <= t /\ t < x.start)
  BY <1>2, <1>4, <1>5 DEF Covers
<1>8. \A t \in Int : r.end <= t /\ t < x.start => t \in N
  <2> TAKE t \in Int
  <2> HAVE r.end <= t /\ t < x.start
  <2>1. q[1].start <= t
    BY <1>1, <1>2, <1>3
  <2>2. \A j \in 1 .. k : ~Covers(q[j], t)
    BY <1>2, <1>3 DEF Covers
  <2> QED
    BY <1>2, <1>4, <2>1, <2>2 DEF Covers
<1>9. r.end - 1 \notin N
  <2>1. PICK j \in 1 .. k : q[j].end = r.end
    BY DEF SeenTo
  <2>2. Covers(q[j], r.end - 1) /\ r.end - 1 \in Int
    BY <1>2, <1>3, <2>1 DEF Covers
  <2> QED
    BY <1>4, <2>1, <2>2
<1>10. /\ r.gap \in Nat
       /\ \A t, u \in Int : t <= u /\ t .. u \subseteq B => u - t + 1 <= r.gap
       /\ r.gap = 0 \/ \E t, u \in Int : t <= u /\ t .. u \subseteq B /\ u - t + 1 = r.gap
  BY DEF SeenTo, Longest, B
<1>11. wide \in Nat /\ wide > 0
  BY <1>2
<1> DEFINE g == Higher(r.gap, wide)
<1>12. g \in Nat /\ g >= r.gap /\ g >= wide /\ (g = r.gap \/ g = wide) /\ g > 0
  BY <1>10, <1>11 DEF Higher
<1>13. ASSUME NEW t \in Int, NEW u \in Int, t <= u, t .. u \subseteq N PROVE u - t + 1 <= g
  <2>1. t \in t .. u /\ u \in t .. u /\ \A v \in t .. u : v \in Int /\ t <= v /\ v <= u
    BY <1>13
  <2>2. CASE u < r.end
    <3>1. t .. u \subseteq B
      BY <1>2, <1>7, <1>13, <2>1, <2>2
    <3>2. u - t + 1 <= r.gap
      BY <1>10, <1>13, <3>1
    <3> HIDE DEF g
    <3> QED
      BY <1>10, <1>12, <3>2
  <2>3. CASE t >= r.end
    <3>1. t \notin B /\ u \notin B
      BY <1>2, <1>5, <1>13, <2>3
    <3>2. u < x.start
      BY <1>7, <1>13, <2>1, <3>1
    <3>3. u - t + 1 <= wide
      BY <1>2, <2>3, <3>2
    <3> HIDE DEF g, wide
    <3> QED
      BY <1>11, <1>12, <3>3
  <2>4. CASE t < r.end /\ r.end <= u
    <3>1. r.end - 1 \in t .. u
      BY <1>2, <2>4
    <3> QED
      BY <1>9, <1>13, <3>1
  <2> QED
    BY <1>2, <2>2, <2>3, <2>4
<1>14. \E t, u \in Int : t <= u /\ t .. u \subseteq N /\ u - t + 1 = g
  <2>1. CASE g = r.gap
    <3>1. PICK t \in Int, u \in Int : t <= u /\ t .. u \subseteq B /\ u - t + 1 = r.gap
      BY <1>10, <1>12, <2>1
    <3> QED
      BY <1>6, <2>1, <3>1
  <2>2. CASE g = wide
    <3> DEFINE t == r.end
               u == x.start - 1
    <3>1. t \in Int /\ u \in Int /\ t <= u /\ u - t + 1 = wide
      BY <1>2
    <3>2. t .. u \subseteq N
      BY <1>2, <1>8
    <3> HIDE DEF t, u
    <3> QED
      BY <2>2, <3>1, <3>2
  <2> QED
    BY <1>12, <2>1, <2>2
<1> HIDE DEF g
<1>15. Longest(N, g)
  BY <1>12, <1>13, <1>14 DEF Longest
<1> QED
  BY <1>2, <1>15 DEF N, g, x

\* Any other leaves bare what was.
LEMMA GapStays ==
    ASSUME NEW n \in Nat, NEW q, InOrder(q, n), NEW k \in 1 .. n - 1, NEW r, SeenTo(q, k, r),
           ~(q[k + 1].start > r.end)
    PROVE  Bare(q, k + 1, Higher(r.end, q[k + 1].end)) = Bare(q, k, r.end)
<1> DEFINE x == q[k + 1]
           e == Higher(r.end, x.end)
<1>1. /\ k + 1 \in 1 .. n /\ 1 .. k + 1 = (1 .. k) \cup {k + 1}
      /\ \A j \in 1 .. k : j \in 1 .. n /\ j < k + 1
  OBVIOUS
<1>2. /\ x.start \in Int /\ x.end \in Int /\ x.start < x.end /\ r.end \in Int
      /\ x.start <= r.end
  BY <1>1 DEF InOrder, Open, SeenTo
<1>3. \A j \in 1 .. k : /\ q[j].start \in Int /\ q[j].end \in Int
                        /\ q[j].start <= x.start
  BY <1>1 DEF InOrder, Open
<1>4. e \in Int /\ e >= r.end /\ e >= x.end /\ (e = r.end \/ e = x.end)
  BY <1>2 DEF Higher
<1>5. PICK j \in 1 .. k : q[j].end = r.end
  BY DEF SeenTo
<1> HIDE DEF x, e
<1>6. \A t \in Int : t \in Bare(q, k + 1, e) <=> /\ q[1].start <= t /\ t < e /\ ~Covers(x, t)
                                                /\ \A i \in 1 .. k : ~Covers(q[i], t)
  BY <1>1 DEF Bare, x
<1>7. \A t \in Int : t \in Bare(q, k, r.end) <=> /\ q[1].start <= t /\ t < r.end
                                                /\ \A i \in 1 .. k : ~Covers(q[i], t)
  BY DEF Bare
<1>8. ASSUME NEW t \in Int, t < e, ~Covers(x, t) PROVE t < r.end
  BY <1>2, <1>4, <1>8 DEF Covers
<1>9. ASSUME NEW t \in Int, t < r.end, ~Covers(q[j], t) PROVE t < e /\ ~Covers(x, t)
  BY <1>2, <1>3, <1>4, <1>5, <1>9 DEF Covers
<1>10. \A t \in Int : t \in Bare(q, k + 1, e) <=> t \in Bare(q, k, r.end)
  BY <1>5, <1>6, <1>7, <1>8, <1>9
<1>11. Bare(q, k + 1, e) \subseteq Int /\ Bare(q, k, r.end) \subseteq Int
  BY DEF Bare
<1>12. Bare(q, k + 1, e) = Bare(q, k, r.end)
  BY <1>10, <1>11
<1> QED
  BY <1>12 DEF e, x

\* One more interval.
LEMMA SeenNext ==
    ASSUME NEW n \in Nat, NEW q, InOrder(q, n), NEW k \in 1 .. n - 1, NEW r, SeenTo(q, k, r)
    PROVE  SeenTo(q, k + 1, GapStep(r, q[k + 1]))
<1> DEFINE x == q[k + 1]
           s == GapStep(r, x)
<1>1. /\ k + 1 \in 1 .. n /\ 1 .. k + 1 = (1 .. k) \cup {k + 1}
      /\ \A j \in 1 .. k : j \in 1 .. n
  OBVIOUS
<1>2. x.start \in Int /\ x.end \in Int /\ r.end \in Int
  BY <1>1 DEF InOrder, Open, SeenTo
<1>3. /\ s.end = Higher(r.end, x.end)
      /\ s.gap = IF x.start > r.end THEN Higher(r.gap, x.start - r.end) ELSE r.gap
  BY DEF GapStep
<1>4. \A j \in 1 .. k : q[j].end \in Int /\ q[j].end <= r.end
  BY <1>1 DEF InOrder, Open, SeenTo
<1>5. \E j \in 1 .. k : q[j].end = r.end
  BY DEF SeenTo
<1>6. /\ s.end \in Int /\ s.end >= r.end /\ s.end >= x.end /\ (s.end = r.end \/ s.end = x.end)
  BY <1>2, <1>3 DEF Higher
<1> HIDE DEF s
<1>7. \A j \in 1 .. k + 1 : q[j].end <= s.end
  BY <1>1, <1>2, <1>4, <1>6
<1>8. \E j \in 1 .. k + 1 : q[j].end = s.end
  BY <1>1, <1>5, <1>6
<1>9. Longest(Bare(q, k + 1, s.end), s.gap)
  <2>1. CASE x.start > r.end
    <3>1. /\ Longest(Bare(q, k + 1, x.end), Higher(r.gap, x.start - r.end))
          /\ x.end > r.end
      BY <2>1, GapOpens
    <3>2. s.end = x.end
      BY <1>2, <1>3, <3>1 DEF Higher
    <3> QED
      BY <1>3, <2>1, <3>1, <3>2
  <2>2. CASE ~(x.start > r.end)
    <3>1. Bare(q, k + 1, Higher(r.end, x.end)) = Bare(q, k, r.end)
      BY <2>2, GapStays
    <3>2. Longest(Bare(q, k, r.end), r.gap)
      BY DEF SeenTo
    <3> QED
      BY <1>3, <2>2, <3>1, <3>2
  <2> QED
    BY <2>1, <2>2
<1>10. SeenTo(q, k + 1, s)
  BY <1>6, <1>7, <1>8, <1>9 DEF SeenTo
<1> QED
  BY <1>10 DEF s

\* The loop over all intervals, as a function of their places.
Reads(q, n, f) ==
    f = [i \in 0 .. n |-> IF i = 0 THEN [gap |-> 0, end |-> q[1].end] ELSE GapStep(f[i - 1], q[i + 1])]

\* A step of the loop makes a gap and an end.
LEMMA GapStepType ==
    ASSUME NEW r \in [gap : Int, end : Int], NEW x, Open(x)
    PROVE  GapStep(r, x) \in [gap : Int, end : Int]
<1>1. r.gap \in Int /\ r.end \in Int /\ x.start \in Int /\ x.end \in Int
  BY DEF Open
<1>2. Higher(r.end, x.end) \in Int /\ Higher(r.gap, x.start - r.end) \in Int
  BY <1>1 DEF Higher
<1> QED
  BY <1>1, <1>2 DEF GapStep

\* After the last interval the loop has the longest gap.
LEMMA AllSeen ==
    ASSUME NEW n \in Nat \ {0}, NEW q, InOrder(q, n),
           NEW h, h = CHOOSE f : Reads(q, n - 1, f)
    PROVE  SeenTo(q, n, h[n - 1])
<1> DEFINE S == [gap : Int, end : Int]
           m == n - 1
           first == [gap |-> 0, end |-> q[1].end]
           step == [p \in (1 .. m) \X S |-> GapStep(p[2], q[p[1] + 1])]
<1>1. m \in Nat /\ \A i \in 1 .. m : i + 1 \in 1 .. n /\ Open(q[i + 1])
  BY DEF InOrder
<1>2. first \in S
  <2>1. 1 \in 1 .. n
    OBVIOUS
  <2>2. q[1].end \in Int
    BY <2>1 DEF InOrder, Open
  <2> QED
    BY <2>2
<1>3. \A i \in 1 .. m, r \in S : GapStep(r, q[i + 1]) \in S
  BY <1>1, GapStepType
<1> HIDE DEF S, m, first
<1>4. step \in [(1 .. m) \X S -> S]
  BY <1>3
<1>5. \A i \in 1 .. m, r \in S : step[<<i, r>>] = GapStep(r, q[i + 1])
  OBVIOUS
<1> HIDE DEF step
<1>6. PICK f : IsRecursion(f, S, first, m, step)
  BY <1>1, <1>2, <1>4, RecursionDefined
<1>7. \A i \in 0 .. m :
        (IF i = 0 THEN first ELSE step[<<i, f[i - 1]>>])
        = IF i = 0 THEN first ELSE GapStep(f[i - 1], q[i + 1])
  <2> TAKE i \in 0 .. m
  <2>1. CASE i = 0
    BY <2>1
  <2>2. CASE i # 0
    <3>1. i \in 1 .. m /\ i - 1 \in 0 .. m
      BY <1>1, <2>2
    <3>2. f[i - 1] \in S
      BY <1>6, <3>1 DEF IsRecursion
    <3> QED
      BY <1>5, <2>2, <3>1, <3>2
  <2> QED
    BY <2>1, <2>2
<1>8. Reads(q, m, f)
  BY <1>6, <1>7 DEF IsRecursion, Reads, first
<1>9. Reads(q, m, h)
  BY <1>8 DEF m
<1>10. h[0] = first /\ \A i \in 1 .. m : h[i] = GapStep(h[i - 1], q[i + 1])
  <2>1. 0 \in 0 .. m /\ \A i \in 1 .. m : i \in 0 .. m /\ i # 0
    BY <1>1
  <2> QED
    BY <1>9, <2>1 DEF Reads, first
<1> DEFINE E == {k \in Nat : k <= m => SeenTo(q, k + 1, h[k])}
<1>11. 0 \in E
  <2>1. SeenTo(q, 1, first)
    BY FirstSeen DEF first
  <2> QED
    BY <1>10, <2>1
<1>12. ASSUME NEW k \in Nat, k \in E PROVE k + 1 \in E
  <2> SUFFICES ASSUME k + 1 <= m PROVE SeenTo(q, (k + 1) + 1, h[k + 1])
    OBVIOUS
  <2>1. SeenTo(q, k + 1, h[k])
    BY <1>1, <1>12
  <2>2. k + 1 \in 1 .. m /\ (k + 1) - 1 = k /\ k + 1 \in 1 .. n - 1
    BY <1>1 DEF m
  <2>3. h[k + 1] = GapStep(h[k], q[(k + 1) + 1])
    BY <1>10, <2>2
  <2>4. SeenTo(q, (k + 1) + 1, GapStep(h[k], q[(k + 1) + 1]))
    BY <2>1, <2>2, SeenNext
  <2> QED
    BY <2>3, <2>4
<1> HIDE DEF E
<1>13. m \in E
  BY <1>1, <1>11, <1>12, NaturalsBySteps
<1>14. SeenTo(q, m + 1, h[m])
  BY <1>1, <1>13 DEF E
<1> QED
  BY <1>14 DEF m

-----------------------------------------------------------------------------
IntervalsOK(interval) ==
    /\ DOMAIN interval \subseteq Nat /\ IsFiniteSet(DOMAIN interval)
    /\ \A i \in DOMAIN interval : Open(interval[i])

Sooner(interval, i, j) ==
    Precedes(<<interval[i].start, interval[i].end, i>>, <<interval[j].start, interval[j].end, j>>)

SoonerOrder(interval) ==
    {p \in (DOMAIN interval) \X (DOMAIN interval) : Sooner(interval, p[1], p[2])}

\* What the sort compares.
LEMMA SoonerIs ==
    ASSUME NEW interval, IntervalsOK(interval), NEW i \in DOMAIN interval, NEW j \in DOMAIN interval
    PROVE  Sooner(interval, i, j) <=>
              \/ interval[i].start < interval[j].start
              \/ interval[i].start = interval[j].start /\ interval[i].end < interval[j].end
              \/ interval[i].start = interval[j].start /\ interval[i].end = interval[j].end /\ i < j
<1>1. /\ interval[i].start \in Int /\ interval[i].end \in Int /\ i \in Int
      /\ interval[j].start \in Int /\ interval[j].end \in Int /\ j \in Int
  BY DEF IntervalsOK, Open
<1>2. Precedes(<<interval[i].start, interval[i].end, i>>, <<interval[j].start, interval[j].end, j>>)
        <=> Least(interval[i].start, interval[i].end, i, interval[j].start, interval[j].end, j)
  BY <1>1, PrecedesThree, Zenon
<1> QED
  BY <1>2 DEF Sooner, Least

\* A stable sort has a strict order.
LEMMA SoonerOrders ==
    ASSUME NEW interval, IntervalsOK(interval)
    PROVE  Orders(SoonerOrder(interval), DOMAIN interval)
<1> DEFINE D == DOMAIN interval
<1>1. \A i, j \in D : <<i, j>> \in SoonerOrder(interval) <=> Sooner(interval, i, j)
  BY DEF SoonerOrder
<1>2. \A i \in D : interval[i].start \in Int /\ interval[i].end \in Int /\ i \in Nat
  BY DEF IntervalsOK, Open
<1>3. \A i \in D : ~Sooner(interval, i, i)
  BY <1>2, SoonerIs
<1>4. \A i, j, k \in D : Sooner(interval, i, j) /\ Sooner(interval, j, k) => Sooner(interval, i, k)
  <2> SUFFICES ASSUME NEW i \in D, NEW j \in D, NEW k \in D,
                      Sooner(interval, i, j), Sooner(interval, j, k)
               PROVE  Sooner(interval, i, k)
    OBVIOUS
  <2> QED
    BY <1>2, SoonerIs
<1>5. \A i, j \in D : i # j => Sooner(interval, i, j) \/ Sooner(interval, j, i)
  BY <1>2, SoonerIs
<1> QED
  BY <1>1, <1>3, <1>4, <1>5 DEF Orders

\* The sorted intervals are the intervals, by their starts.
LEMMA PlacesInOrder ==
    ASSUME NEW interval, IntervalsOK(interval)
    PROVE  /\ Cardinality(DOMAIN interval) \in Nat
           /\ InOrder(ByInterval(interval), Cardinality(DOMAIN interval))
           /\ \A i \in DOMAIN interval :
                 \E k \in 1 .. Cardinality(DOMAIN interval) : ByInterval(interval)[k] = interval[i]
           /\ \A k \in 1 .. Cardinality(DOMAIN interval) :
                 \E i \in DOMAIN interval : ByInterval(interval)[k] = interval[i]
<1> DEFINE D == DOMAIN interval
           n == Cardinality(D)
           R == SoonerOrder(interval)
           f == Sorted(D, LAMBDA i, j : Precedes(<<interval[i].start, interval[i].end, i>>,
                                                 <<interval[j].start, interval[j].end, j>>))
           q == ByInterval(interval)
           At(k) == CHOOSE i \in D : Cardinality({j \in D : Sooner(interval, j, i)}) = k - 1
<1>1. IsFiniteSet(D) /\ Orders(R, D) /\ n \in Nat
  BY SoonerOrders, FS_CardinalityType DEF IntervalsOK
<1>2. \A i \in D : {j \in D : Sooner(interval, j, i)} = Below(R, D, i)
  BY DEF Below, SoonerOrder
<1>3. f = [k \in 1 .. n |-> At(k)]
  BY DEF Sorted, Sooner
<1> HIDE DEF R
<1>4. \A k \in 1 .. n : At(k) = CHOOSE i \in D : Cardinality(Below(R, D, i)) = k - 1
  BY <1>2
<1> HIDE DEF At
<1>5. \A k \in 1 .. n : f[k] = At(k)
  BY <1>3
<1>6. \A k \in 1 .. n : q[k] = interval[f[k]]
  BY DEF ByInterval
<1> HIDE DEF f
<1>7. \A k \in 1 .. n : f[k] = CHOOSE i \in D : Cardinality(Below(R, D, i)) = k - 1
  BY <1>4, <1>5
<1>8. Placed(R, D, f)
  BY <1>1, <1>7, PlacedByNumber
<1>9. /\ \A k \in 1 .. n : f[k] \in D
      /\ \A i \in D : \E k \in 1 .. n : f[k] = i
      /\ \A k, l \in 1 .. n : k < l => Sooner(interval, f[k], f[l])
  <2>1. \A k \in 1 .. n : f[k] \in D
    BY <1>8 DEF Placed
  <2>2. \A i \in D : \E k \in 1 .. n : f[k] = i
    BY <1>8 DEF Placed
  <2>3. \A k, l \in 1 .. n : k < l => Sooner(interval, f[k], f[l])
    BY <1>8, <2>1 DEF Placed, R, SoonerOrder
  <2> QED
    BY <2>1, <2>2, <2>3
<1> HIDE DEF q
<1>10. \A i \in D : Open(interval[i])
  BY DEF IntervalsOK
<1>11. \A i, j \in D : Sooner(interval, i, j) => interval[i].start <= interval[j].start
  BY <1>10, SoonerIs DEF Open
<1>12. InOrder(q, n)
  BY <1>6, <1>9, <1>10, <1>11 DEF InOrder
<1>13. \A i \in D : \E k \in 1 .. n : q[k] = interval[i]
  BY <1>6, <1>9
<1>14. \A k \in 1 .. n : \E i \in D : q[k] = interval[i]
  BY <1>6, <1>9
<1> QED
  BY <1>1, <1>12, <1>13, <1>14 DEF q

\* What the document reports is where the loop ends.
LEMMA GapIsRead ==
    ASSUME NEW interval, IntervalsOK(interval), ~(Cardinality(DOMAIN interval) < 2)
    PROVE  \E r : /\ MaximumInternalGap(interval) = r.gap
                  /\ SeenTo(ByInterval(interval), Cardinality(DOMAIN interval), r)
<1> DEFINE n == Cardinality(DOMAIN interval)
           q == ByInterval(interval)
           h == CHOOSE f : Reads(q, n - 1, f)
<1>1. n \in Nat /\ n >= 2 /\ InOrder(q, n)
  BY PlacesInOrder
<1>2. MaximumInternalGap(interval) = IF n - 1 < 1 THEN None ELSE h[n - 1].gap
  BY DEF MaximumInternalGap, Reads
<1>3. h = CHOOSE f : Reads(q, n - 1, f)
  OBVIOUS
<1> HIDE DEF n, q, h
<1>4. SeenTo(q, n, h[n - 1])
  BY <1>1, <1>3, AllSeen
<1>5. MaximumInternalGap(interval) = h[n - 1].gap
  BY <1>1, <1>2
<1> QED
  BY <1>4, <1>5 DEF n, q

\* The least and the greatest of a set of numbers that has one.
LEMMA LeastAndGreatest ==
    ASSUME NEW S \in SUBSET Int, NEW m \in S
    PROVE  /\ (\A x \in S : m <= x) => Min(S) = m
           /\ (\A x \in S : m >= x) => Max(S) = m
<1>1. ASSUME \A x \in S : m <= x PROVE Min(S) = m
  <2>1. Min(S) = CHOOSE x \in S : \A y \in S : x <= y
    BY DEF Min
  <2>2. Min(S) \in S /\ \A y \in S : Min(S) <= y
    BY <1>1, <2>1
  <2>3. m <= Min(S) /\ Min(S) <= m
    BY <1>1, <2>2
  <2>4. m \in Int /\ Min(S) \in Int
    BY <2>2
  <2> QED
    BY <2>3, <2>4
<1>2. ASSUME \A x \in S : m >= x PROVE Max(S) = m
  <2>1. Max(S) = CHOOSE x \in S : \A y \in S : x >= y
    BY DEF Max
  <2>2. Max(S) \in S /\ \A y \in S : Max(S) >= y
    BY <1>2, <2>1
  <2>3. m >= Max(S) /\ Max(S) >= m
    BY <1>2, <2>2
  <2>4. m \in Int /\ Max(S) \in Int
    BY <2>2
  <2> QED
    BY <2>3, <2>4
<1> QED
  BY <1>1, <1>2

\* The longest gap the loop has seen is the longest there is.
LEMMA GapIsLongest ==
    ASSUME NEW interval, IntervalsOK(interval), ~(Cardinality(DOMAIN interval) < 2)
    PROVE  MaximumInternalGap(interval) = LongestUncovered(interval)
<1> DEFINE n == Cardinality(DOMAIN interval)
           q == ByInterval(interval)
           all == {interval[i] : i \in DOMAIN interval}
           starts == {i.start : i \in all}
           ends == {i.end : i \in all}
           within == Min(starts) .. Max(ends) - 1
           bare == {t \in within : \A i \in all : ~(i.start <= t /\ t < i.end)}
           runs == {x[2] - x[1] + 1 : x \in
                       {y \in bare \X bare : y[1] <= y[2] /\ y[1] .. y[2] \subseteq bare}}
<1>1. PICK r : MaximumInternalGap(interval) = r.gap /\ SeenTo(q, n, r)
  BY GapIsRead
<1>2. /\ n \in Nat /\ n >= 2 /\ InOrder(q, n)
      /\ \A x : x \in all <=> \E k \in 1 .. n : q[k] = x
  BY PlacesInOrder
<1>3. LongestUncovered(interval) = Max({0} \cup runs)
  BY DEF LongestUncovered
<1> HIDE DEF n, q
<1>4. \A x \in all : x.start \in Int /\ x.end \in Int
  BY <1>2 DEF InOrder, Open
<1> HIDE DEF all
<1>5. 1 \in 1 .. n /\ q[1] \in all /\ \A k \in 1 .. n : q[k] \in all
  BY <1>2
<1>6. Min(starts) = q[1].start
  <2>1. starts \in SUBSET Int /\ q[1].start \in starts
    BY <1>4, <1>5
  <2>2. ASSUME NEW s \in starts PROVE q[1].start <= s
    <3>1. PICK k \in 1 .. n : q[k].start = s
      BY <1>2
    <3>2. q[1].start \in Int
      BY <1>4, <1>5
    <3>3. CASE k = 1
      BY <3>1, <3>2, <3>3
    <3>4. CASE 1 < k
      BY <1>2, <1>5, <3>1, <3>4 DEF InOrder
    <3> QED
      BY <3>3, <3>4
  <2> HIDE DEF starts
  <2> QED
    BY <2>1, <2>2, LeastAndGreatest
<1>7. Max(ends) = r.end /\ r.end \in Int
  <2>1. PICK k \in 1 .. n : q[k].end = r.end
    BY <1>1 DEF SeenTo
  <2>2. ends \in SUBSET Int /\ r.end \in ends
    BY <1>4, <1>5, <2>1
  <2>3. ASSUME NEW e \in ends PROVE r.end >= e
    <3>1. PICK l \in 1 .. n : q[l].end = e
      BY <1>2
    <3>2. e \in Int /\ r.end \in Int
      BY <2>2
    <3>3. e <= r.end
      BY <1>1, <3>1 DEF SeenTo
    <3> QED
      BY <3>2, <3>3
  <2> HIDE DEF ends
  <2> QED
    BY <2>2, <2>3, LeastAndGreatest
<1>8. q[1].start \in Int
  BY <1>4, <1>5
<1> HIDE DEF starts, ends
<1>9. bare = Bare(q, n, r.end)
  <2>1. within = q[1].start .. r.end - 1
    BY <1>6, <1>7
  <2> HIDE DEF within
  <2>2. \A t : t \in bare <=> /\ t \in Int /\ q[1].start <= t /\ t < r.end
                              /\ \A i \in all : ~(i.start <= t /\ t < i.end)
    BY <1>7, <1>8, <2>1
  <2>3. \A t : (\A i \in all : ~(i.start <= t /\ t < i.end)) <=> \A k \in 1 .. n : ~Covers(q[k], t)
    BY <1>2, <1>5 DEF Covers
  <2>4. \A t : t \in Bare(q, n, r.end) <=> /\ t \in Int /\ q[1].start <= t /\ t < r.end
                                           /\ \A k \in 1 .. n : ~Covers(q[k], t)
    BY DEF Bare
  <2> HIDE DEF bare
  <2> QED
    BY <2>2, <2>3, <2>4
<1>10. Longest(bare, r.gap) /\ bare \subseteq Int
  BY <1>1, <1>9 DEF SeenTo, Bare
<1> HIDE DEF bare
<1>11. r.gap \in {0} \cup runs
  <2>1. CASE r.gap = 0
    BY <2>1
  <2>2. CASE r.gap # 0
    <3>1. PICK t \in Int, u \in Int : t <= u /\ t .. u \subseteq bare /\ u - t + 1 = r.gap
      BY <1>10, <2>2 DEF Longest
    <3>2. t \in bare /\ u \in bare
      BY <3>1
    <3> DEFINE x == <<t, u>>
    <3>3. x \in bare \X bare /\ x[1] <= x[2] /\ x[1] .. x[2] \subseteq bare /\ x[2] - x[1] + 1 = r.gap
      BY <3>1, <3>2
    <3> QED
      BY <3>3
  <2> QED
    BY <2>1, <2>2
<1>12. {0} \cup runs \subseteq Int /\ \A x \in {0} \cup runs : r.gap >= x
  <2>1. r.gap \in Nat
    BY <1>10 DEF Longest
  <2>2. ASSUME NEW x \in runs PROVE x \in Int /\ r.gap >= x
    <3>1. PICK t \in bare, u \in bare : t <= u /\ t .. u \subseteq bare /\ x = u - t + 1
      OBVIOUS
    <3>2. t \in Int /\ u \in Int
      BY <1>10
    <3>3. u - t + 1 <= r.gap
      BY <1>10, <3>1, <3>2 DEF Longest
    <3> QED
      BY <2>1, <3>1, <3>2, <3>3
  <2> QED
    BY <2>1, <2>2
<1> HIDE DEF runs
<1>13. Max({0} \cup runs) = r.gap
  BY <1>11, <1>12, LeastAndGreatest
<1> QED
  BY <1>1, <1>3, <1>13

\* Only a search can be refused, and then there is no ledger and no report.
NotRefused ==
    /\ phase = "answered" /\ answer.status = "REFUSED" => QueueAware /\ ~Blocked
    /\ phase \in {"ledger", "reported"} => answer.status # "REFUSED"

\* A refusal ends the analysis.
LEMMA RefusalEnds ==
    ASSUME OffersMade, NotRefused, [ANext]_hvars
    PROVE  NotRefused'
<1>1. CASE MakeCandidates \/ BeginRollout
  BY <1>1 DEF MakeCandidates, BeginRollout, NotRefused
<1>2. CASE SelectNetwork
  <2>1. phase' = "answered" /\ answer'.status # "REFUSED"
    BY <1>2 DEF SelectNetwork, Answers, Answer
  <2> QED
    BY <2>1 DEF NotRefused
<1>3. CASE SelectQueueAware
  <2>1. QueueAware /\ ~Blocked /\ sc' = sc /\ phase' \in {"answered", "score"}
    BY <1>3 DEF SelectQueueAware, SelectExact, SelectBounded, Answers, Tries, vars, control
  <2>2. QueueAware' /\ ~Blocked'
    BY <2>1, SameScenario
  <2> QED
    BY <2>1, <2>2 DEF NotRefused
<1>4. CASE Rollout \/ RunLedger
  <2>1. phase \in {"rollout", "ledger"} /\ UNCHANGED search
    BY <1>4 DEF Rollout, RunLedger
  <2> QED
    BY <2>1 DEF NotRefused, search
<1>5. CASE EndRollout
  BY <1>5 DEF EndRollout, NotRefused
<1>6. CASE Choose
  <2>1. phase' = "answered" /\ answer'.status # "REFUSED"
    BY <1>6 DEF Choose, Answers, Answer
  <2> QED
    BY <2>1 DEF NotRefused
<1>7. CASE BeginLedger
  BY <1>7 DEF BeginLedger, NotRefused
<1>8. CASE Report
  <2>1. phase' = "reported" /\ answer' = answer
    BY <1>8 DEF Report
  <2>2. answer.status # "REFUSED"
    BY <1>8 DEF Report, NotRefused
  <2> QED
    BY <2>1, <2>2 DEF NotRefused
<1>9. CASE UNCHANGED hvars
  <2>1. sc' = sc /\ phase' = phase /\ answer' = answer
    BY <1>9 DEF hvars, vars, control, search
  <2>2. (QueueAware' <=> QueueAware) /\ (Blocked' <=> Blocked)
    BY <2>1, SameScenario
  <2> QED
    BY <2>1, <2>2 DEF NotRefused
<1> QED
  BY <1>1, <1>2, <1>3, <1>4, <1>5, <1>6, <1>7, <1>8, <1>9 DEF ANext

\* The three lists of a finished analysis are lists of intervals.
LEMMA DocumentIntervals ==
    ASSUME OffersMade, SearchPacks, NotRefused, StartsApart(Offered), Reported
    PROVE  \A interval \in {GeometricIntervals, ModeledIntervals, SelectedIntervals} :
              IntervalsOK(interval)
<1>1. /\ DOMAIN sc.contacts \subseteq Nat /\ IsFiniteSet(DOMAIN sc.contacts)
      /\ \A i \in DOMAIN sc.contacts :
            LET c == sc.contacts[i]
            IN  /\ c.aos \in Int /\ c.los \in Int /\ c.aos < c.los
                /\ c.start # None => c.start \in Int /\ c.end \in Int /\ c.start < c.end
  BY DEF OffersMade, ContactsOK
<1>2. IntervalsOK(GeometricIntervals)
  BY <1>1 DEF IntervalsOK, GeometricIntervals, Open
<1>3. IntervalsOK(ModeledIntervals)
  <2> DEFINE D == {i \in DOMAIN sc.contacts : sc.contacts[i].start # None}
  <2>1. D \subseteq Nat /\ IsFiniteSet(D)
    BY <1>1, FS_Subset
  <2>2. \A i \in D : Open([start |-> sc.contacts[i].start, end |-> sc.contacts[i].end])
    BY <1>1 DEF Open
  <2> QED
    BY <2>1, <2>2 DEF IntervalsOK, ModeledIntervals
<1>4. IntervalsOK(SelectedIntervals)
  <2> DEFINE A == answer.sessions
             m == Cardinality(A)
  <2>1. CandidatesOK(Offered)
    BY OfferedOK, StartsTellKeys DEF Reported
  <2>2. A \subseteq Offered
    BY DEF SearchPacks, NotRefused, Given, Reported, Packs
  <2>3. CandidatesOK(A) /\ StartsApart(A)
    <3>1. IsFiniteSet(Offered) /\ \A c \in Offered : CandidateOK(c)
      BY <2>1 DEF CandidatesOK
    <3> HIDE DEF A
    <3>2. IsFiniteSet(A)
      BY <2>2, <3>1, FS_Subset
    <3>3. StartsApart(A)
      BY <2>2 DEF StartsApart
    <3>4. KeysApart(A)
      BY <3>3, StartsTellKeys
    <3>5. CandidatesOK(A)
      BY <2>2, <3>1, <3>2, <3>4 DEF CandidatesOK
    <3> QED
      BY <3>3, <3>5
  <2>4. DOMAIN Selected = 1 .. m
    BY DEF Selected, ByStart, Sorted
  <2>5. m \in Nat
    BY <2>3, FS_CardinalityType DEF CandidatesOK
  <2>6. \A i \in 1 .. m : CandidateOK(Selected[i])
    BY <2>3, StartItems DEF StartItem, Selected
  <2>7. \A i \in 1 .. m : Open([start |-> Selected[i].start, end |-> Selected[i].end])
    BY <2>6 DEF CandidateOK, Open
  <2> HIDE DEF A, m
  <2>8. 1 .. m \subseteq Nat /\ IsFiniteSet(1 .. m)
    BY <2>5, FS_Interval
  <2> QED
    BY <2>4, <2>7, <2>8 DEF IntervalsOK, SelectedIntervals
<1> QED
  BY <1>2, <1>3, <1>4

\* Whatever the contacts and whatever is selected of them, when the sweep can tell the
\* candidates apart: a reported gap is the longest run of ticks between the first and
\* the last of its intervals that no interval covers.
THEOREM GapsAreExact == ASpec => [](StartsApart(Offered) => GapsExact)
<1>1. ASSUME OffersMade, SearchPacks, NotRefused, StartsApart(Offered) PROVE GapsExact
  <2> SUFFICES ASSUME Reported,
                      NEW interval \in {GeometricIntervals, ModeledIntervals, SelectedIntervals}
               PROVE  MaximumInternalGap(interval) =
                         IF Cardinality(DOMAIN interval) < 2 THEN None
                         ELSE LongestUncovered(interval)
    BY DEF GapsExact
  <2>1. IntervalsOK(interval)
    BY <1>1, DocumentIntervals
  <2>2. CASE Cardinality(DOMAIN interval) < 2
    <3>1. Cardinality(DOMAIN interval) \in Nat
      BY <2>1, FS_CardinalityType DEF IntervalsOK
    <3>2. Cardinality(DOMAIN interval) - 1 < 1
      BY <2>2, <3>1
    <3>3. MaximumInternalGap(interval) = None
      BY <3>2 DEF MaximumInternalGap
    <3> QED
      BY <2>2, <3>3
  <2>3. CASE ~(Cardinality(DOMAIN interval) < 2)
    BY <2>1, <2>3, GapIsLongest
  <2> QED
    BY <2>2, <2>3
<1>2. ASSUME OffersMade, SearchPacks, NotRefused, [ANext]_hvars
      PROVE  OffersMade' /\ SearchPacks' /\ NotRefused'
  BY <1>2, OffersKept, PackingKept, RefusalEnds DEF OracleNext
<1>3. AInit => NotRefused
  BY DEF AInit, NotRefused
<1> QED
  BY <1>1, <1>2, <1>3, OffersFirst, PackingFirst, PTL DEF ASpec

-----------------------------------------------------------------------------
(***************************************************************************)
(* The reducer inside an analysis.                                         *)
(***************************************************************************)

\* A selection that packs the offer is a list of sessions the reducer can be run on.
LEMMA SelectionServable ==
    ASSUME OffersMade, QueueAware, phase # "contacts", StartsApart(Offered),
           NEW S, Packs(S, Offered)
    PROVE  /\ SessionsOK(ByStart(S))
           /\ DOMAIN ByStart(S) = 1 .. Len(ByStart(S)) /\ Len(ByStart(S)) \in Nat
<1> DEFINE n == Cardinality(S)
           At(i) == CHOOSE x \in S : Cardinality({d \in S : StartsBefore(d, x)}) = i - 1
           list == ByStart(S)
<1>1. S \subseteq Offered /\ Feasible(S)
  BY DEF Packs
<1>2. CandidatesOK(S) /\ StartsApart(S)
  <2>1. CandidatesOK(Offered)
    BY OfferedOK, StartsTellKeys
  <2> QED
    BY <1>1, <2>1, FewerCandidates DEF StartsApart
<1>3. n \in Nat
  BY <1>2, FS_CardinalityType DEF CandidatesOK
<1>4. list = [i \in 1 .. n |-> At(i)]
  BY DEF ByStart, Sorted, StartsBefore
<1>5. /\ \A i \in 1 .. n : list[i] \in S /\ CandidateOK(list[i])
      /\ \A i, j \in 1 .. n : i < j => list[i].start <= list[j].start /\ list[i] # list[j]
  BY <1>2, StartItems DEF StartItem
<1> HIDE DEF n, At, list
<1>6. Len(list) = n /\ DOMAIN list = 1 .. n
  <2>1. list \in [1 .. n -> S]
    BY <1>4, <1>5
  <2>2. list \in Seq(S)
    BY <1>3, <2>1, SeqDef
  <2> QED
    BY <1>3, <1>4, <2>2, LenProperties
<1>7. \A i \in 1 .. n : SessionOK(list[i])
  <2>1. \A c \in Offered : c \in Contacts /\ Credited(c)
    BY DEF OffersMade
  <2> QED
    BY <1>1, <1>5, <2>1 DEF OffersMade, ContactsOK, Contacts, QueueAware
<1>8. ASSUME NEW i \in 1 .. n, NEW j \in 1 .. n, i < j
      PROVE  list[i].end <= list[j].start
  <2>1. ~Overlaps(list[i], list[j])
    BY <1>1, <1>5, <1>8 DEF Feasible
  <2>2. /\ list[i].start \in Nat /\ list[i].end \in Nat /\ list[i].start < list[i].end
        /\ list[j].start \in Nat /\ list[j].end \in Nat /\ list[j].start < list[j].end
    BY <1>5 DEF CandidateOK
  <2>3. list[i].start <= list[j].start
    BY <1>5, <1>8
  <2> QED
    BY <2>1, <2>2, <2>3 DEF Overlaps
<1> QED
  BY <1>3, <1>6, <1>7, <1>8 DEF SessionsOK, list

\* A reducer made for a selection is a new one, on a valid scenario.
LEMMA ReducerIsFresh ==
    ASSUME OffersMade, QueueAware, phase # "contacts", StartsApart(Offered), ScenarioOK(sc),
           NEW S, Packs(S, Offered), FreshReducer(S)
    PROVE  (InputOK /\ Fresh)' /\ ScenarioOK(sc)'
<1>1. sc' = [sc EXCEPT !.sessions = ByStart(S)]
  BY DEF FreshReducer
<1>2. SameInput /\ sc'.sessions = ByStart(S)
  BY <1>1, TrialKept DEF OffersMade
<1>3. /\ SessionsOK(ByStart(S))
      /\ DOMAIN ByStart(S) = 1 .. Len(ByStart(S)) /\ Len(ByStart(S)) \in Nat
  BY SelectionServable
<1>4. ScenarioOK(sc') /\ SessionsOK(sc'.sessions)
  BY <1>2, <1>3 DEF ScenarioOK, SameInput
<1>5. InputOK'
  BY <1>4 DEF InputOK
<1>6. Fresh'
  BY <1>2 DEF FreshReducer, Fresh, SameInput, Unsent, Object, Store, Breach
<1> QED
  BY <1>4, <1>5, <1>6

\* The books of a new reducer are right.
LEMMA FreshBooksNext == (InputOK /\ Fresh)' => Books'
BY FreshBooks, PTL

\* The reducer has been run, or is, and its variables are those of that run.
Reduced ==
    \/ phase \in {"rollout", "ledger"}
    \/ phase = "reported" /\ QueueAware /\ ~Blocked

\* Whatever the search runs the reducer on is valid, and its books are right.
RunsSound ==
    /\ phase = "contacts" \/ StartsApart(Offered) => ScenarioOK(sc)
    /\ StartsApart(Offered) /\ Reduced => Books

\* An analysis begins with a valid scenario.
LEMMA RunsFirst == AInit => RunsSound
BY ScenariosAssumption DEF AInit, Init, RunsSound, Reduced

\* Every step of an analysis keeps it so.
LEMMA RunsKept ==
    ASSUME OffersMade, SearchPacks, RunsSound, [ANext]_hvars
    PROVE  RunsSound'
<1>1. ASSUME sc' = sc, phase # "contacts", StartsApart(Offered)
      PROVE  /\ StartsApart(Offered)' <=> StartsApart(Offered)
             /\ ScenarioOK(sc)' /\ (QueueAware' <=> QueueAware) /\ (Blocked' <=> Blocked)
  BY <1>1, SameScenario DEF RunsSound, ScenarioOK, StartsApart
<1>2. ASSUME sc' = sc, phase # "contacts", phase' # "contacts", ~Reduced' PROVE RunsSound'
  BY <1>1, <1>2, SameScenario DEF RunsSound, StartsApart
<1>3. ASSUME sc' = sc, Reduced, [Next]_vars, phase # "contacts", phase' # "contacts"
      PROVE  RunsSound'
  <2>1. StartsApart(Offered)' <=> StartsApart(Offered)
    BY <1>3, SameScenario DEF StartsApart
  <2>2. ASSUME StartsApart(Offered) PROVE Books' /\ ScenarioOK(sc)'
    <3>1. Books
      BY <1>3, <2>2 DEF RunsSound
    <3> QED
      BY <1>1, <1>3, <2>2, <3>1, BooksStep
  <2> QED
    BY <1>3, <2>1, <2>2 DEF RunsSound
<1>4. ASSUME NEW S, FreshReducer(S), QueueAware, phase # "contacts", phase' # "contacts",
             StartsApart(Offered) => Packs(S, Offered)
      PROVE  RunsSound'
  <2>1. sc' = [sc EXCEPT !.sessions = ByStart(S)]
    BY <1>4 DEF FreshReducer
  <2>2. Offered' = Offered
    BY <2>1, TrialKept DEF OffersMade, Offered
  <2>3. StartsApart(Offered)' <=> StartsApart(Offered)
    BY <2>2 DEF StartsApart
  <2>4. ASSUME StartsApart(Offered) PROVE Books' /\ ScenarioOK(sc)'
    <3>1. ScenarioOK(sc)
      BY <2>4 DEF RunsSound
    <3> QED
      BY <1>4, <2>4, <3>1, ReducerIsFresh, FreshBooksNext
  <2> QED
    BY <1>4, <2>3, <2>4 DEF RunsSound
<1>5. CASE MakeCandidates
  <2>1. /\ phase = "contacts" /\ phase' = "select"
        /\ sc' = [sc EXCEPT !.offered = {c \in Contacts : Credited(c)}]
    BY <1>5 DEF MakeCandidates
  <2>2. SameInput /\ sc'.sessions = sc.sessions
    BY <2>1, OfferingKept DEF OffersMade
  <2>3. ScenarioOK(sc')
    BY <2>1, <2>2 DEF RunsSound, ScenarioOK, SameInput
  <2> QED
    BY <2>1, <2>3 DEF RunsSound, Reduced
<1>6. CASE SelectNetwork \/ SelectQueueAware \/ EndRollout \/ Choose
  <2>1. /\ sc' = sc /\ phase # "contacts" /\ phase' \in {"answered", "score"}
    BY <1>6 DEF SelectNetwork, SelectQueueAware, SelectExact, SelectBounded, EndRollout, Choose,
                Answers, Tries, vars, control
  <2> QED
    BY <1>2, <2>1 DEF Reduced
<1>7. CASE BeginRollout
  <2>1. phase = "score" /\ phase' = "rollout" /\ QueueAware
    BY <1>7 DEF BeginRollout, OffersMade
  <2>2. PICK S \in todo : FreshReducer(S)
    BY <1>7 DEF BeginRollout
  <2>3. StartsApart(Offered) => Packs(S, Offered)
    BY <2>1, <2>2 DEF SearchPacks, Packing
  <2> QED
    BY <1>4, <2>1, <2>2, <2>3
<1>8. CASE Rollout \/ RunLedger
  <2>1. sc' = sc /\ phase \in {"rollout", "ledger"} /\ phase' = phase /\ Next
    BY <1>8, ReducerKeepsScenario DEF Rollout, RunLedger, search, Next
  <2> QED
    BY <1>3, <2>1 DEF Reduced
<1>9. CASE BeginLedger
  <2>1. /\ phase = "answered" /\ phase' = "ledger" /\ QueueAware /\ answer.status # "REFUSED"
        /\ FreshReducer(answer.sessions)
    BY <1>9 DEF BeginLedger
  <2>2. StartsApart(Offered) => Packs(answer.sessions, Offered)
    BY <2>1 DEF SearchPacks, Given
  <2> QED
    BY <1>4, <2>1, <2>2
<1>10. CASE Report
  <2>1. /\ sc' = sc /\ phase # "contacts" /\ phase' = "reported" /\ UNCHANGED vars
        /\ phase = "ledger" \/ ~QueueAware \/ Blocked
    BY <1>10 DEF Report, vars, control
  <2>2. CASE phase = "ledger"
    BY <1>3, <2>1, <2>2 DEF Reduced
  <2>3. CASE ~QueueAware \/ Blocked
    <3>1. (QueueAware' <=> QueueAware) /\ (Blocked' <=> Blocked)
      BY <2>1, SameScenario
    <3> QED
      BY <1>2, <2>1, <2>3, <3>1 DEF Reduced
  <2> QED
    BY <2>1, <2>2, <2>3
<1>11. CASE UNCHANGED hvars
  <2>1. sc' = sc /\ phase' = phase /\ UNCHANGED vars
    BY <1>11 DEF hvars, vars, control, search
  <2>2. CASE phase = "contacts"
    BY <2>1, <2>2 DEF RunsSound, Reduced, ScenarioOK
  <2>3. CASE phase # "contacts" /\ Reduced
    BY <1>3, <2>1, <2>3
  <2>4. CASE phase # "contacts" /\ ~Reduced
    <3>1. ~Reduced'
      BY <2>1, <2>4, SameScenario DEF Reduced
    <3> QED
      BY <1>2, <2>1, <2>4, <3>1
  <2> QED
    BY <2>2, <2>3, <2>4
<1> QED
  BY <1>5, <1>6, <1>7, <1>8, <1>9, <1>10, <1>11 DEF ANext

\* What the search works on, what it tries and what it runs the reducer on.
LEMMA RunsInvariant == ASpec => [](OffersMade /\ SearchPacks /\ RunsSound)
<1>1. OffersMade /\ SearchPacks /\ RunsSound /\ [ANext]_hvars
          => (OffersMade /\ SearchPacks /\ RunsSound)'
  BY OffersKept, PackingKept, RunsKept DEF OracleNext
<1>2. AInit => OffersMade /\ SearchPacks /\ RunsSound
  BY OffersFirst, PackingFirst, RunsFirst
<1> QED
  BY <1>1, <1>2, PTL DEF ASpec

\* The reducer keeps its promises wherever the service and the search call it: on every
\* selection that is scored and on the one that is reported, for the sessions the
\* selection makes of the contacts, no payload, byte of capacity or of storage is
\* counted twice, and nothing is sent that may not be.
THEOREM EveryRunIsSound ==
    ASpec => []((StartsApart(Offered) /\ Reduced) =>
                /\ OneTransmitter /\ AtomicNotTorn /\ SentOnlyWhenAllowed
                /\ OccupancyWithinLimits /\ CompleteObjectsLeave
                /\ BytesConserved /\ CapacityNotExceeded /\ OccupancyAccounted
                /\ AcknowledgedSettled /\ LifeInOrder)
<1>1. Books => /\ OneTransmitter /\ AtomicNotTorn /\ SentOnlyWhenAllowed
               /\ OccupancyWithinLimits /\ CompleteObjectsLeave
               /\ BytesConserved /\ CapacityNotExceeded /\ OccupancyAccounted
               /\ AcknowledgedSettled /\ LifeInOrder
  BY CapacityKept, OccupancyKept, SettlementKept DEF Books, Inductive
<1>2. RunsSound /\ StartsApart(Offered) /\ Reduced => Books
  BY DEF RunsSound
<1> QED
  BY <1>1, <1>2, RunsInvariant, PTL

\* Wherever it is run, no session ends while it could still send something.
THEOREM EveryRunLeavesNothing ==
    ASpec => [][StartsApart(Offered) /\ Reduced => SessionExhausted]_hvars
<1>1. ASSUME OffersMade, SearchPacks, RunsSound, [ANext]_hvars, StartsApart(Offered), Reduced
      PROVE  SessionExhausted
  <2>1. Books
    BY <1>1 DEF RunsSound
  <2>2. [Next]_vars
    BY <1>1 DEF ANext, MakeCandidates, SelectNetwork, SelectQueueAware, SelectExact,
                SelectBounded, Tries, Answers, BeginRollout, Rollout, EndRollout, Choose,
                BeginLedger, RunLedger, Report, Reduced, Next, hvars
  <2> QED
    BY <2>1, <2>2, ExhaustionStep
<1>2. OffersMade /\ SearchPacks /\ RunsSound /\ [ANext]_hvars
          => [StartsApart(Offered) /\ Reduced => SessionExhausted]_hvars
  BY <1>1
<1> QED
  BY <1>2, RunsInvariant, PTL DEF ASpec
=============================================================================
