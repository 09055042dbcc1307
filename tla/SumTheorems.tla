---------------------------- MODULE SumTheorems ----------------------------
(***************************************************************************)
(* Induction over numbers and over finite sets, in the form of sets of     *)
(* numbers and sets of sets, and what it gives for sums.                   *)
(***************************************************************************)
EXTENDS Sums, Sequences, FiniteSets, FiniteSetTheorems, WellFoundedInduction, TLAPS

-----------------------------------------------------------------------------
(***************************************************************************)
(* Induction.                                                              *)
(***************************************************************************)

\* A set of naturals that is not empty has a least element.
LEMMA LeastNatural ==
    ASSUME NEW S \in SUBSET Nat, S # {}
    PROVE  \E m \in S : \A n \in S : m <= n
<1>1. PICK x \in S : \A y \in S : ~ (<<y, x>> \in OpToRel(<,Nat))
  BY NatLessThanWellFounded, WFMin
<1>2. \A y \in S : ~(y < x)
  BY <1>1 DEF OpToRel
<1> QED
  BY <1>2

\* A set of naturals that holds 0, and n + 1 with every n, holds them all.
LEMMA NaturalsBySteps ==
    ASSUME NEW S, 0 \in S, \A n \in Nat : n \in S => n + 1 \in S
    PROVE  \A n \in Nat : n \in S
<1> SUFFICES ASSUME Nat \ S # {} PROVE FALSE
  OBVIOUS
<1>1. PICK m \in Nat \ S : \A n \in Nat \ S : m <= n
  BY LeastNatural
<1>2. m # 0 /\ m - 1 \in Nat
  BY <1>1
<1>3. m - 1 \in S
  BY <1>1, <1>2
<1>4. (m - 1) + 1 \in S
  BY <1>2, <1>3
<1> QED
  BY <1>1, <1>2, <1>4

-----------------------------------------------------------------------------
(***************************************************************************)
(* Recursion over numbers.                                                 *)
(***************************************************************************)

\* f is what the recursion from base by step gives.
Recurs(f, S, base, n, step) ==
    /\ f \in [0 .. n -> S] /\ f[0] = base
    /\ \A i \in 1 .. n : f[i] = step[<<i, f[i - 1]>>]

\* A recursion over the numbers up to n has a solution.
LEMMA RecursionUpTo ==
    ASSUME NEW S, NEW base \in S, NEW n \in Nat, NEW step \in [(1 .. n) \X S -> S]
    PROVE  \E f : Recurs(f, S, base, n, step)
<1> DEFINE D == {k \in Nat : k <= n =>
                    \E f \in [0 .. k -> S] :
                        f[0] = base /\ \A i \in 1 .. k : f[i] = step[<<i, f[i - 1]>>]}
<1>1. 0 \in D
  <2> DEFINE f == [i \in 0 .. 0 |-> base]
  <2>1. f \in [0 .. 0 -> S] /\ f[0] = base
    OBVIOUS
  <2> HIDE DEF f
  <2>2. \A i \in 1 .. 0 : f[i] = step[<<i, f[i - 1]>>]
    OBVIOUS
  <2> QED
    BY <2>1, <2>2
<1>2. ASSUME NEW k \in Nat, k \in D PROVE k + 1 \in D
  <2> SUFFICES ASSUME k + 1 <= n
               PROVE  \E f \in [0 .. k + 1 -> S] :
                         f[0] = base /\ \A i \in 1 .. k + 1 : f[i] = step[<<i, f[i - 1]>>]
    OBVIOUS
  <2>1. PICK f \in [0 .. k -> S] :
            f[0] = base /\ \A i \in 1 .. k : f[i] = step[<<i, f[i - 1]>>]
    BY <1>2
  <2> DEFINE g == [i \in 0 .. k + 1 |-> IF i = k + 1 THEN step[<<k + 1, f[k]>>] ELSE f[i]]
  <2>2. step[<<k + 1, f[k]>>] \in S
    OBVIOUS
  <2>3. g \in [0 .. k + 1 -> S]
    BY <2>2
  <2>4. g[0] = base
    BY <2>1
  <2>5. ASSUME NEW i \in 1 .. k + 1 PROVE g[i] = step[<<i, g[i - 1]>>]
    <3>1. CASE i = k + 1
      <4>1. i - 1 = k /\ k \in 0 .. k + 1 /\ k # k + 1
        BY <3>1
      <4>2. g[i] = step[<<k + 1, f[k]>>] /\ g[k] = f[k]
        BY <3>1, <4>1
      <4> HIDE DEF g
      <4> QED
        BY <3>1, <4>1, <4>2
    <3>2. CASE i \in 1 .. k
      <4>1. g[i] = f[i] /\ g[i - 1] = f[i - 1]
        BY <3>2
      <4> QED
        BY <2>1, <3>2, <4>1
    <3> QED
      BY <3>1, <3>2
  <2> HIDE DEF g
  <2> QED
    BY <2>3, <2>4, <2>5
<1> HIDE DEF D
<1>3. n \in D
  BY <1>1, <1>2, NaturalsBySteps
<1>4. \E f \in [0 .. n -> S] : f[0] = base /\ \A i \in 1 .. n : f[i] = step[<<i, f[i - 1]>>]
  BY <1>3 DEF D
<1> QED
  BY <1>4 DEF Recurs

\* f solves its definition as a function.
IsRecursion(f, S, base, n, step) ==
    /\ f \in [0 .. n -> S]
    /\ f = [i \in 0 .. n |-> IF i = 0 THEN base ELSE step[<<i, f[i - 1]>>]]

\* The definition as a function has a solution.
LEMMA RecursionDefined ==
    ASSUME NEW S, NEW base \in S, NEW n \in Nat, NEW step \in [(1 .. n) \X S -> S]
    PROVE  \E f : IsRecursion(f, S, base, n, step)
<1>1. PICK f : Recurs(f, S, base, n, step)
  BY RecursionUpTo
<1>2. f \in [0 .. n -> S] /\ f[0] = base /\ \A i \in 1 .. n : f[i] = step[<<i, f[i - 1]>>]
  BY <1>1 DEF Recurs
<1> DEFINE g == [i \in 0 .. n |-> IF i = 0 THEN base ELSE step[<<i, f[i - 1]>>]]
<1>3. \A i \in 0 .. n : f[i] = g[i]
  <2> TAKE i \in 0 .. n
  <2>1. g[i] = IF i = 0 THEN base ELSE step[<<i, f[i - 1]>>]
    OBVIOUS
  <2> HIDE DEF g
  <2>2. i = 0 \/ i \in 1 .. n
    OBVIOUS
  <2> QED
    BY <1>2, <2>1, <2>2
<1>4. f = [i \in 0 .. n |-> f[i]] /\ g = [i \in 0 .. n |-> g[i]]
  BY <1>2
<1> HIDE DEF g
<1>5. f = g
  BY <1>3, <1>4
<1>6. f = [i \in 0 .. n |-> IF i = 0 THEN base ELSE step[<<i, f[i - 1]>>]]
  BY <1>5 DEF g
<1> QED
  BY <1>2, <1>6 DEF IsRecursion

-----------------------------------------------------------------------------
(***************************************************************************)
(* Sums are what their definition says.                                    *)
(***************************************************************************)

SumsBelow(f, n, s) ==
    s[0] = 0 /\ \A i \in 1 .. n : s[i] = s[i - 1] + f[i]

\* The recursion has a solution up to every number, and it is unique.
LEMMA SumsUpTo ==
    ASSUME NEW f, NEW n \in Nat
    PROVE  \E s : SumsBelow(f, n, s)
<1> DEFINE S == {k \in Nat : \E s : SumsBelow(f, k, s)}
<1>1. 0 \in S
  <2>1. SumsBelow(f, 0, [i \in Nat |-> 0])
    BY DEF SumsBelow
  <2> QED
    BY <2>1
<1>2. ASSUME NEW k \in Nat, k \in S PROVE k + 1 \in S
  <2>1. PICK s : SumsBelow(f, k, s)
    BY <1>2
  <2> DEFINE t == [i \in Nat |-> IF i = k + 1 THEN s[k] + f[k + 1] ELSE s[i]]
  <2>2. t[0] = 0
    BY <2>1 DEF SumsBelow
  <2>3. ASSUME NEW i \in 1 .. k + 1 PROVE t[i] = t[i - 1] + f[i]
    <3>1. CASE i = k + 1
      BY <3>1
    <3>2. CASE i \in 1 .. k
      BY <2>1, <3>2 DEF SumsBelow
    <3> QED
      BY <3>1, <3>2
  <2> HIDE DEF t
  <2>4. SumsBelow(f, k + 1, t)
    BY <2>2, <2>3 DEF SumsBelow
  <2> QED
    BY <2>4
<1> HIDE DEF S
<1>3. n \in S
  BY <1>1, <1>2, NaturalsBySteps
<1> QED
  BY <1>3 DEF S

\* Two solutions give the same sum.
LEMMA SameSums ==
    ASSUME NEW f, NEW n \in Nat, NEW s, SumsBelow(f, n, s), NEW t, SumsBelow(f, n, t)
    PROVE  s[n] = t[n]
<1> DEFINE S == {k \in Nat : k <= n => s[k] = t[k]}
<1>1. 0 \in S
  BY DEF SumsBelow
<1>2. ASSUME NEW k \in Nat, k \in S PROVE k + 1 \in S
  BY <1>2 DEF SumsBelow
<1> HIDE DEF S
<1>3. n \in S
  BY <1>1, <1>2, NaturalsBySteps
<1> QED
  BY <1>3 DEF S

\* The function of the sums is the one its recursion describes.
LEMMA SumsDefined ==
    ASSUME NEW f
    PROVE  Sums(f) = [i \in Nat |-> IF i = 0 THEN 0 ELSE Sums(f)[i - 1] + f[i]]
<1> DEFINE upTo(n) == CHOOSE s : SumsBelow(f, n, s)
           g == [n \in Nat |-> upTo(n)[n]]
<1>1. \A n \in Nat : SumsBelow(f, n, upTo(n))
  BY SumsUpTo
<1> HIDE DEF upTo
<1>2. g[0] = 0
  BY <1>1 DEF SumsBelow
<1>3. ASSUME NEW n \in Nat \ {0} PROVE g[n] = g[n - 1] + f[n]
  <2>1. SumsBelow(f, n, upTo(n)) /\ SumsBelow(f, n - 1, upTo(n - 1))
    BY <1>1
  <2>2. SumsBelow(f, n - 1, upTo(n))
    BY <2>1 DEF SumsBelow
  <2>3. upTo(n)[n - 1] = upTo(n - 1)[n - 1]
    BY <2>1, <2>2, SameSums
  <2> QED
    BY <2>1, <2>3 DEF SumsBelow
<1> HIDE DEF g
<1>4. g = [i \in Nat |-> IF i = 0 THEN 0 ELSE g[i - 1] + f[i]]
  <2>1. g = [n \in Nat |-> g[n]]
    BY DEF g
  <2> QED
    BY <1>2, <1>3, <2>1
<1> DEFINE Solves(h) == h = [i \in Nat |-> IF i = 0 THEN 0 ELSE h[i - 1] + f[i]]
<1>5. Sums(f) = CHOOSE h : Solves(h)
  BY DEF Sums
<1>6. Solves(g)
  BY <1>4
<1> HIDE DEF Solves
<1>7. Solves(Sums(f))
  BY <1>5, <1>6
<1> QED
  BY <1>7 DEF Solves

\* A sum of nothing is 0; one more value adds itself.
LEMMA SumNext ==
    ASSUME NEW f
    PROVE  Sum(f, 0) = 0 /\ \A n \in Nat : Sum(f, n + 1) = Sum(f, n) + f[n + 1]
<1> DEFINE s == Sums(f)
<1>1. s = [i \in Nat |-> IF i = 0 THEN 0 ELSE s[i - 1] + f[i]]
  BY SumsDefined
<1> HIDE DEF s
<1>2. s[0] = 0 /\ \A n \in Nat : s[n + 1] = s[n] + f[n + 1]
  BY <1>1
<1> QED
  BY <1>2 DEF Sum, s

-----------------------------------------------------------------------------
(***************************************************************************)
(* What sums keep.                                                         *)
(***************************************************************************)

\* A sum of integers is an integer.
LEMMA SumType ==
    ASSUME NEW f, NEW n \in Nat, \A i \in 1 .. n : f[i] \in Int
    PROVE  Sum(f, n) \in Int
<1> DEFINE S == {k \in Nat : k <= n => Sum(f, k) \in Int}
<1>1. 0 \in S
  BY SumNext
<1>2. ASSUME NEW k \in Nat, k \in S PROVE k + 1 \in S
  <2> SUFFICES ASSUME k + 1 <= n PROVE Sum(f, k + 1) \in Int
    OBVIOUS
  <2>1. Sum(f, k + 1) = Sum(f, k) + f[k + 1] /\ f[k + 1] \in Int /\ k + 1 \in 1 .. n
    BY SumNext
  <2> QED
    BY <1>2, <2>1
<1> HIDE DEF S
<1>3. n \in S
  BY <1>1, <1>2, NaturalsBySteps
<1> QED
  BY <1>3 DEF S

\* A sum of naturals is a natural.
LEMMA SumNat ==
    ASSUME NEW f, NEW n \in Nat, \A i \in 1 .. n : f[i] \in Nat
    PROVE  Sum(f, n) \in Nat
<1> DEFINE S == {k \in Nat : k <= n => Sum(f, k) \in Nat}
<1>1. 0 \in S
  BY SumNext
<1>2. ASSUME NEW k \in Nat, k \in S PROVE k + 1 \in S
  <2> SUFFICES ASSUME k + 1 <= n PROVE Sum(f, k + 1) \in Nat
    OBVIOUS
  <2>1. Sum(f, k + 1) = Sum(f, k) + f[k + 1] /\ f[k + 1] \in Nat /\ k + 1 \in 1 .. n
    BY SumNext
  <2> QED
    BY <1>2, <2>1
<1> HIDE DEF S
<1>3. n \in S
  BY <1>1, <1>2, NaturalsBySteps
<1> QED
  BY <1>3 DEF S

\* The sums of the same values are the same.
LEMMA SumSame ==
    ASSUME NEW f, NEW g, NEW n \in Nat, \A i \in 1 .. n : g[i] = f[i]
    PROVE  Sum(g, n) = Sum(f, n)
<1> DEFINE S == {k \in Nat : k <= n => Sum(g, k) = Sum(f, k)}
<1>1. 0 \in S
  BY SumNext
<1>2. ASSUME NEW k \in Nat, k \in S PROVE k + 1 \in S
  <2> SUFFICES ASSUME k + 1 <= n PROVE Sum(g, k + 1) = Sum(f, k + 1)
    OBVIOUS
  <2>1. /\ Sum(f, k + 1) = Sum(f, k) + f[k + 1] /\ Sum(g, k + 1) = Sum(g, k) + g[k + 1]
        /\ g[k + 1] = f[k + 1]
    BY SumNext
  <2> QED
    BY <1>2, <2>1
<1> HIDE DEF S
<1>3. n \in S
  BY <1>1, <1>2, NaturalsBySteps
<1> QED
  BY <1>3 DEF S

\* A sum of zeros is 0.
LEMMA SumNothing ==
    ASSUME NEW f, NEW n \in Nat, \A i \in 1 .. n : f[i] = 0
    PROVE  Sum(f, n) = 0
<1> DEFINE S == {k \in Nat : k <= n => Sum(f, k) = 0}
<1>1. 0 \in S
  BY SumNext
<1>2. ASSUME NEW k \in Nat, k \in S PROVE k + 1 \in S
  <2> SUFFICES ASSUME k + 1 <= n PROVE Sum(f, k + 1) = 0
    OBVIOUS
  <2>1. Sum(f, k + 1) = Sum(f, k) + f[k + 1] /\ f[k + 1] = 0
    BY SumNext
  <2> QED
    BY <1>2, <2>1
<1> HIDE DEF S
<1>3. n \in S
  BY <1>1, <1>2, NaturalsBySteps
<1> QED
  BY <1>3 DEF S

\* A value added at the end is added to the sum.
LEMMA SumAppend ==
    ASSUME NEW f, NEW g, NEW n \in Nat, \A i \in 1 .. n : g[i] = f[i]
    PROVE  Sum(g, n + 1) = Sum(f, n) + g[n + 1]
<1>1. Sum(g, n) = Sum(f, n)
  BY SumSame
<1>2. Sum(g, n + 1) = Sum(g, n) + g[n + 1]
  BY SumNext
<1> QED
  BY <1>1, <1>2

\* A value that changes changes the sum by as much.
LEMMA SumChange ==
    ASSUME NEW f, NEW g, NEW n \in Nat, NEW k \in 1 .. n,
           \A i \in 1 .. n : f[i] \in Int /\ g[i] \in Int,
           \A i \in 1 .. n : i # k => g[i] = f[i]
    PROVE  Sum(g, n) = Sum(f, n) + (g[k] - f[k])
<1> DEFINE S == {m \in Nat : k <= m /\ m <= n => Sum(g, m) = Sum(f, m) + (g[k] - f[k])}
<1>1. 0 \in S
  OBVIOUS
<1>2. ASSUME NEW m \in Nat, m \in S PROVE m + 1 \in S
  <2> SUFFICES ASSUME k <= m + 1, m + 1 <= n
               PROVE  Sum(g, m + 1) = Sum(f, m + 1) + (g[k] - f[k])
    OBVIOUS
  <2>1. Sum(f, m + 1) = Sum(f, m) + f[m + 1] /\ Sum(g, m + 1) = Sum(g, m) + g[m + 1]
    BY SumNext
  <2>2. /\ Sum(f, m) \in Int /\ f[m + 1] \in Int /\ g[m + 1] \in Int
        /\ f[k] \in Int /\ g[k] \in Int
    BY SumType
  <2>3. CASE k = m + 1
    <3>1. Sum(g, m) = Sum(f, m)
      BY <2>3, SumSame
    <3> QED
      BY <2>1, <2>2, <2>3, <3>1
  <2>4. CASE k # m + 1
    <3>1. Sum(g, m) = Sum(f, m) + (g[k] - f[k]) /\ g[m + 1] = f[m + 1]
      BY <1>2, <2>4
    <3> QED
      BY <2>1, <2>2, <3>1
  <2> QED
    BY <2>3, <2>4
<1> HIDE DEF S
<1>3. n \in S
  BY <1>1, <1>2, NaturalsBySteps
<1> QED
  BY <1>3 DEF S

\* A sum of smaller values is smaller.
LEMMA SumSmaller ==
    ASSUME NEW f, NEW g, NEW n \in Nat,
           \A i \in 1 .. n : f[i] \in Int /\ g[i] \in Int /\ f[i] <= g[i]
    PROVE  Sum(f, n) <= Sum(g, n)
<1> DEFINE S == {k \in Nat : k <= n => Sum(f, k) <= Sum(g, k)}
<1>1. 0 \in S
  BY SumNext
<1>2. ASSUME NEW k \in Nat, k \in S PROVE k + 1 \in S
  <2> SUFFICES ASSUME k + 1 <= n PROVE Sum(f, k + 1) <= Sum(g, k + 1)
    OBVIOUS
  <2>1. Sum(f, k + 1) = Sum(f, k) + f[k + 1] /\ Sum(g, k + 1) = Sum(g, k) + g[k + 1]
    BY SumNext
  <2>2. /\ Sum(f, k) \in Int /\ Sum(g, k) \in Int
        /\ f[k + 1] \in Int /\ g[k + 1] \in Int /\ f[k + 1] <= g[k + 1]
    BY SumType
  <2> QED
    BY <1>2, <2>1, <2>2
<1> HIDE DEF S
<1>3. n \in S
  BY <1>1, <1>2, NaturalsBySteps
<1> QED
  BY <1>3 DEF S

-----------------------------------------------------------------------------
(***************************************************************************)
(* Whole multiples.                                                        *)
(***************************************************************************)

\* Dividing with a remainder.
LEMMA Division ==
    ASSUME NEW a \in Nat, NEW c \in Nat \ {0}
    PROVE  /\ a \div c \in Nat /\ a % c \in 0 .. c - 1
           /\ a = c * (a \div c) + (a % c)
  OBVIOUS

\* A multiple leaves no remainder.
LEMMA MultipleIsWhole ==
    ASSUME NEW q \in Nat, NEW c \in Nat \ {0}
    PROVE  (c * q) % c = 0
  OBVIOUS

\* Whole multiples, and a number cut to one, add to whole multiples.
LEMMA WholePlusWhole ==
    ASSUME NEW a \in Nat, NEW s \in Nat, NEW c \in Nat \ {0}, a % c = 0
    PROVE  (a + (s - (s % c))) % c = 0
<1> DEFINE q == a \div c
           r == s \div c
<1>1. q \in Nat /\ a = c * q
  BY Division
<1>2. r \in Nat /\ s = c * r + (s % c) /\ s % c \in Nat
  BY Division
<1> DEFINE m == s % c
<1> HIDE DEF q, r, m
<1>3. s - m = c * r
  <2>1. s = c * r + m /\ m \in Nat /\ c * r \in Nat
    BY <1>2 DEF m
  <2> QED
    BY <2>1
<1>4. a + (s - m) = c * (q + r) /\ q + r \in Nat
  BY <1>1, <1>2, <1>3
<1>5. (a + (s - m)) % c = 0
  BY <1>4, MultipleIsWhole
<1> QED
  BY <1>5 DEF m

\* A finite set of naturals has a greatest element.
LEMMA GreatestOfFinite ==
    ASSUME NEW S, S \subseteq Nat, IsFiniteSet(S), S # {}
    PROVE  Greatest(S) \in S /\ \A n \in S : n <= Greatest(S)
<1>1. PICK seq \in Seq(S) : \A s \in S : \E n \in 1 .. Len(seq) : seq[n] = s
  BY DEF IsFiniteSet
<1>2. Len(seq) \in Nat /\ \A i \in 1 .. Len(seq) : seq[i] \in Nat
  <2>1. Len(seq) \in Nat /\ \A i \in 1 .. Len(seq) : seq[i] \in S
    OBVIOUS
  <2> QED
    BY <2>1
<1> DEFINE T == {k \in Nat : k <= Len(seq) => \E b \in Nat : \A i \in 1 .. k : seq[i] <= b}
<1>3. 0 \in T
  OBVIOUS
<1>4. ASSUME NEW k \in Nat, k \in T PROVE k + 1 \in T
  <2> SUFFICES ASSUME k + 1 <= Len(seq)
               PROVE  \E b \in Nat : \A i \in 1 .. k + 1 : seq[i] <= b
    OBVIOUS
  <2>1. PICK b \in Nat : \A i \in 1 .. k : seq[i] <= b
    BY <1>2, <1>4
  <2> DEFINE c == IF seq[k + 1] <= b THEN b ELSE seq[k + 1]
  <2>2. c \in Nat /\ \A i \in 1 .. k + 1 : seq[i] <= c
    BY <1>2, <2>1
  <2> HIDE DEF c
  <2> QED
    BY <2>2
<1> HIDE DEF T
<1>5. Len(seq) \in T
  BY <1>2, <1>3, <1>4, NaturalsBySteps
<1>6. \E b \in Nat : \A s \in S : s <= b
  <2>1. PICK b \in Nat : \A i \in 1 .. Len(seq) : seq[i] <= b
    BY <1>2, <1>5 DEF T
  <2> QED
    BY <1>1, <2>1
<1> DEFINE B == {b \in Nat : \A s \in S : s <= b}
<1>7. PICK m \in B : \A b \in B : m <= b
  BY <1>6, LeastNatural
<1>8. m \in S
  <2> SUFFICES ASSUME m \notin S PROVE FALSE
    OBVIOUS
  <2>1. \A s \in S : s < m
    BY <1>7
  <2>2. m \in Nat /\ \A b \in Nat : (\A s \in S : s <= b) => m <= b
    BY <1>7
  <2>3. m - 1 \in Nat
    <3>1. PICK s \in S : s \in Nat /\ s < m
      BY <2>1
    <3> QED
      BY <2>2, <3>1
  <2>4. \A s \in S : s <= m - 1
    BY <2>1, <2>2
  <2> QED
    BY <2>2, <2>3, <2>4
<1>9. \E n \in S : \A s \in S : s <= n
  BY <1>7, <1>8
<1> QED
  BY <1>9, Zenon DEF Greatest
=============================================================================
