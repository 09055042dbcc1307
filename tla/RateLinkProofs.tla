--------------------------- MODULE RateLinkProofs ---------------------------
(***************************************************************************)
(* The rate arithmetic of RateTimeline for every profile and every         *)
(* session: what is left of a session is what its ticks can carry, grants  *)
(* do not run ahead of the link, a contact is credited with what it can    *)
(* deliver, and a session is what the reducer relies on.                   *)
(***************************************************************************)
EXTENDS RateLink, SumTheorems, SequenceTheorems

-----------------------------------------------------------------------------
(***************************************************************************)
(* Sums.                                                                   *)
(***************************************************************************)

\* The sum of sums, value by value.
LEMMA SumPlus ==
    ASSUME NEW f, NEW g, NEW h, NEW n \in Nat,
           \A i \in 1 .. n : f[i] \in Int /\ g[i] \in Int /\ h[i] = f[i] + g[i]
    PROVE  Sum(h, n) = Sum(f, n) + Sum(g, n)
<1> DEFINE S == {k \in Nat : k <= n => Sum(h, k) = Sum(f, k) + Sum(g, k)}
<1>1. 0 \in S
  BY SumNext
<1>2. ASSUME NEW k \in Nat, k \in S PROVE k + 1 \in S
  <2> SUFFICES ASSUME k + 1 <= n PROVE Sum(h, k + 1) = Sum(f, k + 1) + Sum(g, k + 1)
    OBVIOUS
  <2>1. /\ Sum(f, k + 1) = Sum(f, k) + f[k + 1] /\ Sum(g, k + 1) = Sum(g, k) + g[k + 1]
        /\ Sum(h, k + 1) = Sum(h, k) + h[k + 1]
    BY SumNext
  <2>2. /\ Sum(f, k) \in Int /\ Sum(g, k) \in Int
        /\ f[k + 1] \in Int /\ g[k + 1] \in Int /\ h[k + 1] = f[k + 1] + g[k + 1]
    BY SumType
  <2> QED
    BY <1>2, <2>1, <2>2
<1> HIDE DEF S
<1>3. n \in S
  BY <1>1, <1>2, NaturalsBySteps
<1> QED
  BY <1>3 DEF S

\* A common factor of the values is a factor of the sum.
LEMMA SumTimes ==
    ASSUME NEW f, NEW h, NEW c \in Int, NEW n \in Nat,
           \A i \in 1 .. n : f[i] \in Int /\ h[i] = c * f[i]
    PROVE  Sum(h, n) = c * Sum(f, n)
<1> DEFINE S == {k \in Nat : k <= n => Sum(h, k) = c * Sum(f, k)}
<1>1. 0 \in S
  BY SumNext
<1>2. ASSUME NEW k \in Nat, k \in S PROVE k + 1 \in S
  <2> SUFFICES ASSUME k + 1 <= n PROVE Sum(h, k + 1) = c * Sum(f, k + 1)
    OBVIOUS
  <2>1. Sum(f, k + 1) = Sum(f, k) + f[k + 1] /\ Sum(h, k + 1) = Sum(h, k) + h[k + 1]
    BY SumNext
  <2>2. Sum(f, k) \in Int /\ f[k + 1] \in Int /\ h[k + 1] = c * f[k + 1]
    BY SumType
  <2>3. Sum(h, k) = c * Sum(f, k)
    BY <1>2
  <2>4. \A x, y \in Int : c * (x + y) = c * x + c * y
    OBVIOUS
  <2> QED
    BY <2>1, <2>2, <2>3, <2>4
<1> HIDE DEF S
<1>3. n \in S
  BY <1>1, <1>2, NaturalsBySteps
<1> QED
  BY <1>3 DEF S

\* A sum of naturals grows with every value.
LEMMA SumGrows ==
    ASSUME NEW f, NEW m \in Nat, NEW n \in Nat, m <= n, \A i \in 1 .. n : f[i] \in Nat
    PROVE  Sum(f, m) <= Sum(f, n)
<1> DEFINE S == {k \in Nat : m <= k /\ k <= n => Sum(f, m) <= Sum(f, k)}
<1>1. 0 \in S
  <2>1. Sum(f, m) \in Nat
    BY SumNat
  <2>2. CASE m = 0
    BY <2>1, <2>2
  <2>3. CASE m # 0
    BY <2>3
  <2> QED
    BY <2>2, <2>3
<1>2. ASSUME NEW k \in Nat, k \in S PROVE k + 1 \in S
  <2> SUFFICES ASSUME m <= k + 1, k + 1 <= n PROVE Sum(f, m) <= Sum(f, k + 1)
    OBVIOUS
  <2>1. Sum(f, k + 1) = Sum(f, k) + f[k + 1] /\ f[k + 1] \in Nat
    BY SumNext
  <2>2. Sum(f, m) \in Nat /\ Sum(f, k) \in Nat
    BY SumNat
  <2>3. CASE m = k + 1
    BY <2>1, <2>2, <2>3
  <2>4. CASE m # k + 1
    BY <1>2, <2>1, <2>2, <2>4
  <2> QED
    BY <2>3, <2>4
<1> HIDE DEF S
<1>3. n \in S
  BY <1>1, <1>2, NaturalsBySteps
<1> QED
  BY <1>3 DEF S

\* The first n + k values of h are n of f and then k of g.
Follow(f, n, g, k, h) ==
    /\ \A i \in 1 .. n : f[i] \in Int /\ h[i] = f[i]
    /\ \A i \in 1 .. k : g[i] \in Int /\ h[n + i] = g[i]

\* The sum of values that come one after the other is the sum of both sums.
LEMMA SumConcat ==
    ASSUME NEW f, NEW g, NEW h, NEW n \in Nat, NEW k \in Nat, Follow(f, n, g, k, h)
    PROVE  Sum(h, n + k) = Sum(f, n) + Sum(g, k)
<1>0. /\ \A i \in 1 .. n : f[i] \in Int /\ h[i] = f[i]
      /\ \A i \in 1 .. k : g[i] \in Int /\ h[n + i] = g[i]
  BY DEF Follow
<1> DEFINE S == {m \in Nat : m <= k => Sum(h, n + m) = Sum(f, n) + Sum(g, m)}
<1>1. 0 \in S
  <2>1. Sum(h, n) = Sum(f, n) /\ Sum(f, n) \in Int /\ Sum(g, 0) = 0
    BY <1>0, SumSame, SumType, SumNext
  <2> QED
    BY <2>1
<1>2. ASSUME NEW m \in Nat, m \in S PROVE m + 1 \in S
  <2> SUFFICES ASSUME m + 1 <= k PROVE Sum(h, n + (m + 1)) = Sum(f, n) + Sum(g, m + 1)
    OBVIOUS
  <2>1. Sum(h, (n + m) + 1) = Sum(h, n + m) + h[(n + m) + 1] /\ Sum(g, m + 1) = Sum(g, m) + g[m + 1]
    BY SumNext
  <2>2. /\ Sum(f, n) \in Int /\ Sum(g, m) \in Int /\ g[m + 1] \in Int
        /\ h[n + (m + 1)] = g[m + 1]
    BY <1>0, SumType
  <2>3. (n + m) + 1 = n + (m + 1)
    OBVIOUS
  <2> QED
    BY <1>2, <2>1, <2>2, <2>3
<1> HIDE DEF S
<1>3. k \in S
  BY <1>1, <1>2, NaturalsBySteps
<1> QED
  BY <1>3 DEF S

-----------------------------------------------------------------------------
(***************************************************************************)
(* Ticks.  A tick has the number of the instant it ends at; u gives every  *)
(* tick a weight, and Between is the weight of the ticks of an interval.   *)
(***************************************************************************)

\* The weights of all ticks, and those of an interval of them.
Weights == [Nat -> Nat]

Between(u, a, b) == IF a < b THEN Sum(u, b) - Sum(u, a) ELSE 0

Inside(u, a, b) == [i \in Nat |-> IF a < i /\ i <= b THEN u[i] ELSE 0]

Outside(u, a, b) == [i \in Nat |-> IF a < i /\ i <= b THEN 0 ELSE u[i]]

\* The weight of an interval is a natural number.
LEMMA BetweenNat ==
    ASSUME NEW u \in Weights, NEW a \in Nat, NEW b \in Nat
    PROVE  Between(u, a, b) \in Nat
<1>1. CASE a < b
  <2>1. Sum(u, a) \in Nat /\ Sum(u, b) \in Nat
    BY SumNat DEF Weights
  <2>2. Sum(u, a) <= Sum(u, b)
    BY <1>1, SumGrows DEF Weights
  <2> QED
    BY <1>1, <2>1, <2>2 DEF Between
<1> QED
  BY <1>1 DEF Between

\* The weights of the ticks of an interval add up to those before its end that
\* are not before its start.
LEMMA InsideSum ==
    ASSUME NEW u \in Weights, NEW a \in Nat, NEW b \in Nat, a <= b, NEW n \in Nat
    PROVE  Sum(Inside(u, a, b), n) =
             IF n <= a THEN 0 ELSE IF n <= b THEN Sum(u, n) - Sum(u, a) ELSE Sum(u, b) - Sum(u, a)
<1> DEFINE f == Inside(u, a, b)
           Value(k) == IF k <= a THEN 0
                       ELSE IF k <= b THEN Sum(u, k) - Sum(u, a) ELSE Sum(u, b) - Sum(u, a)
           S == {k \in Nat : Sum(f, k) = Value(k)}
<1>1. 0 \in S
  BY SumNext
<1>2. ASSUME NEW k \in Nat, k \in S PROVE k + 1 \in S
  <2>1. Sum(f, k + 1) = Sum(f, k) + f[k + 1] /\ Sum(u, k + 1) = Sum(u, k) + u[k + 1]
    BY SumNext
  <2>2. /\ Sum(u, a) \in Nat /\ Sum(u, b) \in Nat /\ Sum(u, k) \in Nat /\ u[k + 1] \in Nat
    BY SumNat DEF Weights
  <2>3. f[k + 1] = IF a < k + 1 /\ k + 1 <= b THEN u[k + 1] ELSE 0
    BY DEF Inside
  <2>4. Sum(f, k) = Value(k)
    BY <1>2
  <2>5. CASE k + 1 <= a
    BY <2>1, <2>2, <2>3, <2>4, <2>5
  <2>6. CASE a < k + 1 /\ k + 1 <= b
    <3>1. Sum(f, k + 1) = Sum(f, k) + u[k + 1]
      BY <2>1, <2>3, <2>6
    <3>2. CASE k = a
      BY <2>1, <2>2, <2>4, <2>6, <3>1, <3>2
    <3>3. CASE k # a
      BY <2>1, <2>2, <2>4, <2>6, <3>1, <3>3
    <3> QED
      BY <3>2, <3>3
  <2>7. CASE b < k + 1
    <3>1. Sum(f, k + 1) = Sum(f, k) + 0 /\ Sum(f, k) \in Int
      BY <2>1, <2>2, <2>3, <2>4, <2>7
    <3>2. CASE k <= a
      <4>1. k = a /\ a = b
        BY <2>7, <3>2
      <4> QED
        BY <2>2, <2>4, <3>1, <4>1
    <3>3. CASE a < k /\ k <= b
      <4>1. k = b
        BY <2>7, <3>3
      <4> QED
        BY <2>2, <2>4, <3>1, <3>3, <4>1
    <3>4. CASE b < k
      BY <2>2, <2>4, <3>1, <3>4
    <3> QED
      BY <3>2, <3>3, <3>4
  <2> QED
    BY <2>5, <2>6, <2>7
<1> HIDE DEF S
<1>3. n \in S
  BY <1>1, <1>2, NaturalsBySteps
<1> QED
  BY <1>3 DEF S

\* The weights inside and outside an interval are weights.
LEMMA InsideWeights ==
    ASSUME NEW u \in Weights, NEW a, NEW b
    PROVE  Inside(u, a, b) \in Weights /\ Outside(u, a, b) \in Weights
  BY DEF Weights, Inside, Outside

\* The ticks of one interval that lie in another are those of their intersection.
LEMMA InsideBetween ==
    ASSUME NEW u \in Weights, NEW a \in Nat, NEW b \in Nat, a <= b, NEW c \in Nat, NEW e \in Nat
    PROVE  Between(Inside(u, a, b), c, e) = Between(u, Greater(a, c), Lesser(b, e))
<1>1. /\ Sum(u, a) \in Nat /\ Sum(u, b) \in Nat /\ Sum(u, c) \in Nat /\ Sum(u, e) \in Nat
  BY SumNat DEF Weights
<1>2. Sum(Inside(u, a, b), c) =
         IF c <= a THEN 0 ELSE IF c <= b THEN Sum(u, c) - Sum(u, a) ELSE Sum(u, b) - Sum(u, a)
  BY InsideSum
<1>3. Sum(Inside(u, a, b), e) =
         IF e <= a THEN 0 ELSE IF e <= b THEN Sum(u, e) - Sum(u, a) ELSE Sum(u, b) - Sum(u, a)
  BY InsideSum
<1>4. CASE e <= c
  BY <1>4 DEF Between, Greater, Lesser
<1>5. CASE c < e
  <2>1. CASE a <= c /\ b <= e
    BY <1>1, <1>2, <1>3, <1>5, <2>1 DEF Between, Greater, Lesser
  <2>2. CASE a <= c /\ e < b
    BY <1>1, <1>2, <1>3, <1>5, <2>2 DEF Between, Greater, Lesser
  <2>3. CASE c < a /\ b <= e
    BY <1>1, <1>2, <1>3, <1>5, <2>3 DEF Between, Greater, Lesser
  <2>4. CASE c < a /\ e < b
    BY <1>1, <1>2, <1>3, <1>5, <2>4 DEF Between, Greater, Lesser
  <2> QED
    BY <2>1, <2>2, <2>3, <2>4
<1> QED
  BY <1>4, <1>5

\* What is outside and what is inside an interval is everything.
LEMMA OutsideBetween ==
    ASSUME NEW u \in Weights, NEW a, NEW b, NEW c \in Nat, NEW e \in Nat
    PROVE  Between(u, c, e) = Between(Outside(u, a, b), c, e) + Between(Inside(u, a, b), c, e)
<1> DEFINE f == Outside(u, a, b)
           g == Inside(u, a, b)
<1>1. f \in Weights /\ g \in Weights
  BY InsideWeights
<1>2. \A i \in Nat : u[i] = f[i] + g[i]
  BY DEF Weights, Inside, Outside
<1> HIDE DEF f, g
<1>3. Sum(u, c) = Sum(f, c) + Sum(g, c) /\ Sum(u, e) = Sum(f, e) + Sum(g, e)
  BY <1>1, <1>2, SumPlus DEF Weights
<1>4. Sum(f, c) \in Nat /\ Sum(g, c) \in Nat /\ Sum(f, e) \in Nat /\ Sum(g, e) \in Nat
  BY <1>1, SumNat DEF Weights
<1>5. Between(u, c, e) = Between(f, c, e) + Between(g, c, e)
  BY <1>3, <1>4 DEF Between
<1> QED
  BY <1>5 DEF f, g

\* An interval is its parts before and after an instant.
LEMMA BetweenParts ==
    ASSUME NEW u \in Weights, NEW a \in Nat, NEW b \in Nat, NEW c \in Nat, a <= b, b <= c
    PROVE  Between(u, a, c) = Between(u, a, b) + Between(u, b, c)
<1>1. Sum(u, a) \in Nat /\ Sum(u, b) \in Nat /\ Sum(u, c) \in Nat
  BY SumNat DEF Weights
<1> QED
  BY <1>1 DEF Between

-----------------------------------------------------------------------------
(***************************************************************************)
(* Sequences that are joined.                                              *)
(***************************************************************************)

\* Sequences and their concatenation, under names the steps can keep folded.
Seqs(T) == Seq(T)
Nothing == <<>>
Cat(x, y) == x \o y

\* Joining nothing, and joining one sequence more, in any set of sequences.
LEMMA JoinsNext ==
    ASSUME NEW Q, Nothing \in Q, \A x, y \in Q : Cat(x, y) \in Q,
           NEW parts, NEW n \in Nat, Len(parts) = n, \A i \in 1 .. n : parts[i] \in Q
    PROVE  /\ Joins(parts)[0] = Nothing
           /\ \A i \in 1 .. n : Joins(parts)[i] = Cat(Joins(parts)[i - 1], parts[i])
           /\ \A i \in 0 .. n : Joins(parts)[i] \in Q
<1> DEFINE step == [x \in (1 .. n) \X Q |-> Cat(x[2], parts[x[1]])]
<1>1. step \in [(1 .. n) \X Q -> Q]
  OBVIOUS
<1>2. \A i \in 1 .. n, q \in Q : step[<<i, q>>] = Cat(q, parts[i])
  OBVIOUS
<1> HIDE DEF step
<1>3. PICK f : Recurs(f, Q, Nothing, n, step)
  BY <1>1, RecursionUpTo
<1>4. f \in [0 .. n -> Q] /\ f[0] = Nothing /\ \A i \in 1 .. n : f[i] = step[<<i, f[i - 1]>>]
  BY <1>3 DEF Recurs
<1>5. \A i \in 1 .. n : f[i] = Cat(f[i - 1], parts[i])
  <2> TAKE i \in 1 .. n
  <2>1. f[i - 1] \in Q
    BY <1>4
  <2> QED
    BY <1>2, <1>4, <2>1
<1> DEFINE Solves(h) == h = [i \in 0 .. n |-> IF i = 0 THEN Nothing ELSE Cat(h[i - 1], parts[i])]
<1>6. Solves(f)
  <2>1. \A i \in 0 .. n : f[i] = IF i = 0 THEN Nothing ELSE Cat(f[i - 1], parts[i])
    BY <1>4, <1>5
  <2> DEFINE g == [i \in 0 .. n |-> IF i = 0 THEN Nothing ELSE Cat(f[i - 1], parts[i])]
  <2>2. \A i \in 0 .. n : f[i] = g[i]
    BY <2>1
  <2>3. f \in [0 .. n -> Q] /\ g = [i \in 0 .. n |-> g[i]]
    BY <1>4
  <2> HIDE DEF g
  <2>4. f = g
    BY <2>2, <2>3
  <2> QED
    BY <2>4 DEF g
<1>7. Joins(parts) = CHOOSE h : Solves(h)
  BY DEF Joins, Cat, Nothing
<1> HIDE DEF Solves
<1>8. Solves(Joins(parts))
  BY <1>6, <1>7
<1> DEFINE j == Joins(parts)
<1>9. j = [i \in 0 .. n |-> IF i = 0 THEN Nothing ELSE Cat(j[i - 1], parts[i])]
  BY <1>8 DEF Solves
<1> HIDE DEF j
<1>10. j[0] = Nothing /\ \A i \in 1 .. n : j[i] = Cat(j[i - 1], parts[i])
  BY <1>9
<1> DEFINE D == {k \in Nat : k <= n => j[k] \in Q}
<1>11. 0 \in D
  BY <1>10
<1>12. ASSUME NEW k \in Nat, k \in D PROVE k + 1 \in D
  <2> SUFFICES ASSUME k + 1 <= n PROVE j[k + 1] \in Q
    OBVIOUS
  <2>1. j[k] \in Q /\ parts[k + 1] \in Q
    BY <1>12
  <2>2. j[k + 1] = Cat(j[k], parts[k + 1])
    BY <1>10
  <2> QED
    BY <2>1, <2>2
<1> HIDE DEF D
<1>13. \A k \in Nat : k \in D
  BY <1>11, <1>12, NaturalsBySteps
<1> QED
  BY <1>10, <1>13 DEF D, j

\* Sequences of the elements of a set are such a set of sequences.
LEMMA SeqsClosed ==
    ASSUME NEW T
    PROVE  Nothing \in Seqs(T) /\ \A x, y \in Seqs(T) : Cat(x, y) \in Seqs(T)
  BY DEF Nothing, Seqs, Cat

\* Joining sequences of the elements of a set, one sequence more at a time.
LEMMA JoinsOfSeqs ==
    ASSUME NEW T, NEW parts, NEW n \in Nat, Len(parts) = n, \A i \in 1 .. n : parts[i] \in Seqs(T)
    PROVE  /\ Joins(parts)[0] = Nothing
           /\ \A i \in 1 .. n : Joins(parts)[i] = Cat(Joins(parts)[i - 1], parts[i])
           /\ \A i \in 0 .. n : Joins(parts)[i] \in Seqs(T)
  BY SeqsClosed, JoinsNext

\* Joined sequences of the elements of a set are one of them.
LEMMA JoinedType ==
    ASSUME NEW T, NEW parts, NEW n \in Nat, Len(parts) = n, \A i \in 1 .. n : parts[i] \in Seqs(T)
    PROVE  Joined(parts) \in Seqs(T)
  BY JoinsOfSeqs DEF Joined

\* The elements of a sequence.
LEMMA SeqElements ==
    ASSUME NEW T, NEW q \in Seqs(T)
    PROVE  Len(q) \in Nat /\ DOMAIN q = 1 .. Len(q) /\ \A i \in 1 .. Len(q) : q[i] \in T
  BY DEF Seqs

\* The elements of two sequences that are joined.
LEMMA CatElements ==
    ASSUME NEW T, NEW q \in Seqs(T), NEW r \in Seqs(T)
    PROVE  /\ Len(Cat(q, r)) = Len(q) + Len(r) /\ DOMAIN Cat(q, r) = 1 .. Len(q) + Len(r)
           /\ \A i \in 1 .. Len(q) : Cat(q, r)[i] = q[i]
           /\ \A i \in 1 .. Len(r) : Cat(q, r)[Len(q) + i] = r[i]
  BY DEF Seqs, Cat

\* The sum of the values m gives the elements of a sequence.
SeqSum(q, m) == Sum([i \in DOMAIN q |-> m[q[i]]], Len(q))

\* The sum over a sequence is the sum of the values of its elements, in order.
LEMMA SeqSumValues ==
    ASSUME NEW T, NEW q \in Seqs(T), NEW m \in [T -> Int]
    PROVE  \E f : /\ SeqSum(q, m) = Sum(f, Len(q))
                  /\ \A i \in 1 .. Len(q) : f[i] = m[q[i]] /\ f[i] \in Int
<1> DEFINE f == [i \in DOMAIN q |-> m[q[i]]]
<1>1. \A i \in 1 .. Len(q) : f[i] = m[q[i]] /\ f[i] \in Int
  BY SeqElements
<1>2. SeqSum(q, m) = Sum(f, Len(q))
  BY DEF SeqSum
<1> HIDE DEF f
<1> QED
  BY <1>1, <1>2

\* A sum over a sequence is an integer.
LEMMA SeqSumType ==
    ASSUME NEW T, NEW q \in Seqs(T), NEW m \in [T -> Int]
    PROVE  SeqSum(q, m) \in Int
<1>1. PICK f : /\ SeqSum(q, m) = Sum(f, Len(q))
               /\ \A i \in 1 .. Len(q) : f[i] = m[q[i]] /\ f[i] \in Int
  BY SeqSumValues
<1>2. Len(q) \in Nat
  BY SeqElements
<1> QED
  BY <1>1, <1>2, SumType

\* The sum over two joined sequences is the sum of both sums.
LEMMA SeqSumConcat ==
    ASSUME NEW T, NEW q \in Seqs(T), NEW r \in Seqs(T), NEW m \in [T -> Int]
    PROVE  SeqSum(Cat(q, r), m) = SeqSum(q, m) + SeqSum(r, m)
<1>1. PICK f : /\ SeqSum(q, m) = Sum(f, Len(q))
               /\ \A i \in 1 .. Len(q) : f[i] = m[q[i]] /\ f[i] \in Int
  BY SeqSumValues
<1>2. PICK g : /\ SeqSum(r, m) = Sum(g, Len(r))
               /\ \A i \in 1 .. Len(r) : g[i] = m[r[i]] /\ g[i] \in Int
  BY SeqSumValues
<1>3. Cat(q, r) \in Seqs(T)
  BY SeqsClosed
<1>4. PICK h : /\ SeqSum(Cat(q, r), m) = Sum(h, Len(Cat(q, r)))
               /\ \A i \in 1 .. Len(Cat(q, r)) : h[i] = m[Cat(q, r)[i]] /\ h[i] \in Int
  BY <1>3, SeqSumValues
<1>5. PICK n \in Nat, k \in Nat : n = Len(q) /\ k = Len(r)
  BY SeqElements
<1>6. /\ Len(Cat(q, r)) = n + k
      /\ \A i \in 1 .. n : Cat(q, r)[i] = q[i]
      /\ \A i \in 1 .. k : Cat(q, r)[n + i] = r[i]
  BY <1>5, CatElements
<1>7. \A i \in 1 .. n : f[i] \in Int /\ h[i] = f[i]
  <2> TAKE i \in 1 .. n
  <2>1. i \in 1 .. n + k
    OBVIOUS
  <2> QED
    BY <1>1, <1>4, <1>5, <1>6, <2>1
<1>8. \A i \in 1 .. k : g[i] \in Int /\ h[n + i] = g[i]
  <2> TAKE i \in 1 .. k
  <2>1. n + i \in 1 .. n + k
    OBVIOUS
  <2> QED
    BY <1>2, <1>4, <1>5, <1>6, <2>1
<1>9. Sum(h, n + k) = Sum(f, n) + Sum(g, k)
  <2>1. Follow(f, n, g, k, h)
    BY <1>7, <1>8 DEF Follow
  <2> QED
    BY <2>1, SumConcat
<1> QED
  BY <1>1, <1>2, <1>4, <1>5, <1>6, <1>9

\* The sum over nothing.
LEMMA SeqSumNothing ==
    ASSUME NEW m
    PROVE  SeqSum(Nothing, m) = 0
<1>1. Len(Nothing) = 0
  BY DEF Nothing
<1> QED
  BY <1>1, SumNext DEF SeqSum

\* f holds the sums of n sequences.
SumsOf(f, n, parts, m) == \A i \in 1 .. n : f[i] = SeqSum(parts[i], m)

\* The sum over joined sequences is the sum of their sums.
LEMMA JoinedSum ==
    ASSUME NEW T, NEW parts, NEW n \in Nat, Len(parts) = n, \A i \in 1 .. n : parts[i] \in Seqs(T),
           NEW m \in [T -> Int], NEW f, SumsOf(f, n, parts, m)
    PROVE  SeqSum(Joined(parts), m) = Sum(f, n)
<1> DEFINE J == Joins(parts)
           D == {k \in Nat : k <= n => SeqSum(J[k], m) = Sum(f, k)}
<1>1. /\ J[0] = Nothing
      /\ \A i \in 1 .. n : J[i] = Cat(J[i - 1], parts[i])
      /\ \A i \in 0 .. n : J[i] \in Seqs(T)
  BY JoinsOfSeqs
<1> HIDE DEF J
<1>2. 0 \in D
  BY <1>1, SeqSumNothing, SumNext
<1>3. ASSUME NEW k \in Nat, k \in D PROVE k + 1 \in D
  <2> SUFFICES ASSUME k + 1 <= n PROVE SeqSum(J[k + 1], m) = Sum(f, k + 1)
    OBVIOUS
  <2>1. J[k + 1] = Cat(J[k], parts[k + 1]) /\ J[k] \in Seqs(T) /\ parts[k + 1] \in Seqs(T)
    BY <1>1
  <2>2. SeqSum(J[k + 1], m) = SeqSum(J[k], m) + SeqSum(parts[k + 1], m)
    BY <2>1, SeqSumConcat
  <2>3. SeqSum(J[k], m) = Sum(f, k)
    BY <1>3
  <2>4. Sum(f, k + 1) = Sum(f, k) + f[k + 1]
    BY SumNext
  <2>5. f[k + 1] = SeqSum(parts[k + 1], m)
    BY DEF SumsOf
  <2> QED
    BY <2>2, <2>3, <2>4, <2>5
<1> HIDE DEF D
<1>4. n \in D
  BY <1>2, <1>3, NaturalsBySteps
<1> QED
  BY <1>4 DEF D, J, Joined

\* Every earlier element of a sequence has the relation R to every later one.
OrderedBy(q, R) == \A i, j \in 1 .. Len(q) : i < j => <<q[i], q[j]>> \in R

\* Every element of one sequence has the relation R to every element of another.
AllBefore(q, r, R) == \A i \in 1 .. Len(q), j \in 1 .. Len(r) : <<q[i], r[j]>> \in R

\* Two sequences in order, the first before the second, are in order when joined.
LEMMA CatOrdered ==
    ASSUME NEW T, NEW q \in Seqs(T), NEW r \in Seqs(T), NEW R,
           OrderedBy(q, R), OrderedBy(r, R), AllBefore(q, r, R)
    PROVE  OrderedBy(Cat(q, r), R)
<1> DEFINE c == Cat(q, r)
<1>1. PICK n \in Nat, k \in Nat : n = Len(q) /\ k = Len(r)
  BY SeqElements
<1>2. /\ Len(c) = n + k
      /\ \A i \in 1 .. n : c[i] = q[i]
      /\ \A i \in 1 .. k : c[n + i] = r[i]
  BY <1>1, CatElements
<1> HIDE DEF c
<1>3. \A i \in n + 1 .. n + k : i - n \in 1 .. k /\ c[i] = r[i - n]
  <2> TAKE i \in n + 1 .. n + k
  <2>1. i - n \in 1 .. k /\ n + (i - n) = i
    OBVIOUS
  <2>2. c[n + (i - n)] = r[i - n]
    BY <1>2, <2>1
  <2> QED
    BY <2>1, <2>2
<1> SUFFICES ASSUME NEW i \in 1 .. n + k, NEW j \in 1 .. n + k, i < j
             PROVE  <<c[i], c[j]>> \in R
  BY <1>2 DEF OrderedBy, c
<1>4. CASE j <= n
  <2>1. i \in 1 .. n /\ j \in 1 .. n
    BY <1>4
  <2>2. <<q[i], q[j]>> \in R
    BY <1>1, <2>1 DEF OrderedBy
  <2> QED
    BY <1>2, <2>1, <2>2
<1>5. CASE i <= n /\ n < j
  <2>1. i \in 1 .. n /\ j \in n + 1 .. n + k
    BY <1>5
  <2>2. j - n \in 1 .. k /\ c[j] = r[j - n] /\ c[i] = q[i]
    BY <1>2, <1>3, <2>1
  <2>3. <<q[i], r[j - n]>> \in R
    BY <1>1, <2>1, <2>2 DEF AllBefore
  <2> QED
    BY <2>2, <2>3
<1>6. CASE n < i
  <2>1. i \in n + 1 .. n + k /\ j \in n + 1 .. n + k /\ i - n < j - n
    BY <1>6
  <2>2. i - n \in 1 .. k /\ j - n \in 1 .. k /\ c[i] = r[i - n] /\ c[j] = r[j - n]
    BY <1>3, <2>1
  <2>3. <<r[i - n], r[j - n]>> \in R
    BY <1>1, <2>1, <2>2 DEF OrderedBy
  <2> QED
    BY <2>2, <2>3
<1> QED
  BY <1>4, <1>5, <1>6

\* Two sequences that come before a third come before it when joined.
LEMMA CatAllBefore ==
    ASSUME NEW T, NEW q \in Seqs(T), NEW r \in Seqs(T), NEW s, NEW R,
           AllBefore(q, s, R), AllBefore(r, s, R)
    PROVE  AllBefore(Cat(q, r), s, R)
<1> DEFINE c == Cat(q, r)
<1>1. PICK n \in Nat, k \in Nat : n = Len(q) /\ k = Len(r)
  BY SeqElements
<1>2. /\ Len(c) = n + k
      /\ \A i \in 1 .. n : c[i] = q[i]
      /\ \A i \in 1 .. k : c[n + i] = r[i]
  BY <1>1, CatElements
<1> HIDE DEF c
<1> SUFFICES ASSUME NEW i \in 1 .. n + k, NEW j \in 1 .. Len(s)
             PROVE  <<c[i], s[j]>> \in R
  BY <1>2 DEF AllBefore, c
<1>3. CASE i \in 1 .. n
  BY <1>1, <1>2, <1>3 DEF AllBefore
<1>4. CASE i \notin 1 .. n
  <2>1. i - n \in 1 .. k /\ n + (i - n) = i
    BY <1>4
  <2>2. c[n + (i - n)] = r[i - n]
    BY <1>2, <2>1
  <2>3. <<r[i - n], s[j]>> \in R
    BY <1>1, <2>1 DEF AllBefore
  <2> QED
    BY <2>1, <2>2, <2>3
<1> QED
  BY <1>3, <1>4

\* Joined sequences are in order when each is, and each with every later one.
LEMMA JoinedOrdered ==
    ASSUME NEW T, NEW parts, NEW n \in Nat, Len(parts) = n, \A i \in 1 .. n : parts[i] \in Seqs(T),
           NEW R, \A i \in 1 .. n : OrderedBy(parts[i], R),
           \A i, j \in 1 .. n : i < j => AllBefore(parts[i], parts[j], R)
    PROVE  OrderedBy(Joined(parts), R)
<1> DEFINE J == Joins(parts)
           Good(k) == OrderedBy(J[k], R) /\ \A j \in k + 1 .. n : AllBefore(J[k], parts[j], R)
           D == {k \in Nat : k <= n => Good(k)}
<1>1. /\ J[0] = Nothing
      /\ \A i \in 1 .. n : J[i] = Cat(J[i - 1], parts[i])
      /\ \A i \in 0 .. n : J[i] \in Seqs(T)
  BY JoinsOfSeqs
<1> HIDE DEF J
<1>2. 0 \in D
  <2>1. Len(Nothing) = 0
    BY DEF Nothing
  <2> QED
    BY <1>1, <2>1 DEF OrderedBy, AllBefore
<1>3. ASSUME NEW k \in Nat, k \in D PROVE k + 1 \in D
  <2> SUFFICES ASSUME k + 1 <= n PROVE Good(k + 1)
    OBVIOUS
  <2>1. J[k + 1] = Cat(J[k], parts[k + 1]) /\ J[k] \in Seqs(T) /\ parts[k + 1] \in Seqs(T)
    BY <1>1
  <2>2. Good(k)
    BY <1>3
  <2>3. OrderedBy(J[k + 1], R)
    BY <2>1, <2>2, CatOrdered
  <2>4. ASSUME NEW j \in k + 2 .. n PROVE AllBefore(J[k + 1], parts[j], R)
    <3>1. AllBefore(J[k], parts[j], R) /\ AllBefore(parts[k + 1], parts[j], R)
      BY <2>2
    <3> QED
      BY <2>1, <3>1, CatAllBefore
  <2> QED
    BY <2>3, <2>4
<1> HIDE DEF D
<1>4. n \in D
  BY <1>2, <1>3, NaturalsBySteps
<1> QED
  BY <1>4 DEF D, J, Joined

\* A function on the first n numbers is a sequence of that length.
LEMMA FunctionIsSeq ==
    ASSUME NEW T, NEW n \in Nat, NEW f \in [1 .. n -> T]
    PROVE  f \in Seqs(T) /\ Len(f) = n
<1>1. f \in Seq(T)
  BY SeqDef
<1>2. DOMAIN f = 1 .. n /\ DOMAIN f = 1 .. Len(f) /\ Len(f) \in Nat
  BY <1>1, LenProperties
<1>3. \A k \in Nat : 1 .. n = 1 .. k => n = k
  <2> SUFFICES ASSUME NEW k \in Nat, 1 .. n = 1 .. k PROVE n = k
    OBVIOUS
  <2>1. n = 0 \/ n \in 1 .. k
    OBVIOUS
  <2>2. k = 0 \/ k \in 1 .. n
    OBVIOUS
  <2> QED
    BY <2>1, <2>2
<1> QED
  BY <1>1, <1>2, <1>3 DEF Seqs

\* The sum over one element is its value.
LEMMA OneElement ==
    ASSUME NEW T, NEW x \in T, NEW m \in [T -> Int]
    PROVE  <<x>> \in Seqs(T) /\ SeqSum(<<x>>, m) = m[x]
<1> DEFINE q == <<x>>
<1>1. q \in Seqs(T) /\ Len(q) = 1 /\ q[1] = x
  BY DEF Seqs
<1> HIDE DEF q
<1>2. PICK f : /\ SeqSum(q, m) = Sum(f, Len(q))
               /\ \A i \in 1 .. Len(q) : f[i] = m[q[i]] /\ f[i] \in Int
  BY <1>1, SeqSumValues
<1>3. f[1] = m[x] /\ f[1] \in Int
  BY <1>1, <1>2
<1>4. Sum(f, 0) = 0 /\ Sum(f, 0 + 1) = Sum(f, 0) + f[0 + 1]
  BY SumNext
<1>5. Sum(f, 1) = m[x]
  BY <1>3, <1>4
<1> QED
  BY <1>1, <1>2, <1>5 DEF q

-----------------------------------------------------------------------------
(***************************************************************************)
(* Spans and the reserves that cut them.                                   *)
(***************************************************************************)

\* Intervals of instants, and the weight of the ticks of each.
Spans == [from : Nat, to : Nat]

Ticks(u) == [s \in Spans |-> Between(u, s.from, s.to)]

\* The ticks of a span are a number of them.
LEMMA TicksType ==
    ASSUME NEW u \in Weights
    PROVE  Ticks(u) \in [Spans -> Int] /\ \A s \in Spans : Ticks(u)[s] = Between(u, s.from, s.to)
<1>1. \A s \in Spans : s.from \in Nat /\ s.to \in Nat
  BY DEF Spans
<1>2. \A s \in Spans : Between(u, s.from, s.to) \in Int
  BY <1>1, BetweenNat
<1> QED
  BY <1>2 DEF Ticks

\* A span that is not empty is part of another.
Part(s, t) == s.from < s.to => t.from <= s.from /\ s.to <= t.to

\* The spans that are part of another.
PartsOf(t) == {s \in Spans : Part(s, t)}

\* A span that is not empty ends before another starts.
After == {x \in Spans \X Spans :
             (x[1].from < x[1].to /\ x[2].from < x[2].to) => x[1].to <= x[2].from}

\* The pieces of a span a reserve cuts lie in it, in order, and hold the ticks of it
\* that are not reserved.
LEMMA CutOfSpan ==
    ASSUME NEW span \in Spans, NEW r \in Spans, r.from <= r.to
    PROVE  /\ CutByReserve(span, r) \in Seqs(PartsOf(span))
           /\ OrderedBy(CutByReserve(span, r), After)
           /\ \A u \in Weights :
                 SeqSum(CutByReserve(span, r), Ticks(u))
                   = Between(Outside(u, r.from, r.to), span.from, span.to)
<1> DEFINE P == PartsOf(span)
           R == After
           c == CutByReserve(span, r)
           x == [from |-> span.from, to |-> r.from]
           y == [from |-> r.to, to |-> span.to]
<1>1. /\ span.from \in Nat /\ span.to \in Nat /\ r.from \in Nat /\ r.to \in Nat
  BY DEF Spans
<1>2. CASE r.to <= span.from \/ span.to <= r.from
  <2>1. c = <<span>>
    BY <1>2 DEF CutByReserve
  <2>2. span \in P
    BY <1>1 DEF PartsOf, Part
  <2>3. c \in Seqs(P) /\ Len(c) = 1
    BY <2>1, <2>2 DEF Seqs
  <2>4. OrderedBy(c, R)
    BY <2>3 DEF OrderedBy
  <2>5. ASSUME NEW u \in Weights
        PROVE  SeqSum(c, Ticks(u)) = Between(Outside(u, r.from, r.to), span.from, span.to)
    <3>1. SeqSum(c, Ticks(u)) = Between(u, span.from, span.to)
      BY <2>1, TicksType, OneElement
    <3>2. Between(u, span.from, span.to)
            = Between(Outside(u, r.from, r.to), span.from, span.to)
              + Between(Inside(u, r.from, r.to), span.from, span.to)
      BY <1>1, OutsideBetween
    <3>3. Between(Inside(u, r.from, r.to), span.from, span.to) = 0
      <4>1. Between(Inside(u, r.from, r.to), span.from, span.to)
              = Between(u, Greater(r.from, span.from), Lesser(r.to, span.to))
        BY <1>1, InsideBetween
      <4>2. ~(Greater(r.from, span.from) < Lesser(r.to, span.to))
        BY <1>1, <1>2 DEF Greater, Lesser
      <4> QED
        BY <4>1, <4>2 DEF Between
    <3>4. Between(Outside(u, r.from, r.to), span.from, span.to) \in Nat
      BY <1>1, InsideWeights, BetweenNat
    <3> QED
      BY <3>1, <3>2, <3>3, <3>4
  <2> QED
    BY <2>3, <2>4, <2>5
<1>3. CASE ~(r.to <= span.from \/ span.to <= r.from)
  <2> DEFINE a == IF span.from < r.from THEN <<x>> ELSE Nothing
             b == IF r.to < span.to THEN <<y>> ELSE Nothing
  <2>1. c = Cat(a, b)
    BY <1>3 DEF CutByReserve, Cat, Nothing
  <2>2. x \in Spans /\ y \in Spans
    BY <1>1 DEF Spans
  <2>3. span.from < r.from => x \in P
    BY <1>1, <1>3, <2>2 DEF PartsOf, Part
  <2>4. r.to < span.to => y \in P
    BY <1>1, <1>3, <2>2 DEF PartsOf, Part
  <2>5. /\ a \in Seqs(P) /\ (\A i \in 1 .. Len(a) : a[i] = x) /\ Len(a) <= 1
        /\ b \in Seqs(P) /\ (\A i \in 1 .. Len(b) : b[i] = y) /\ Len(b) <= 1
    <3> HIDE DEF P, x, y
    <3>1. \A z \in P : <<z>> \in Seqs(P) /\ Len(<<z>>) = 1 /\ <<z>>[1] = z
      BY DEF Seqs
    <3>2. Nothing \in Seqs(P) /\ Len(Nothing) = 0
      BY DEF Seqs, Nothing
    <3>3. a \in Seqs(P) /\ (\A i \in 1 .. Len(a) : a[i] = x) /\ Len(a) <= 1
      <4>1. CASE span.from < r.from
        BY <2>3, <3>1, <4>1
      <4>2. CASE ~(span.from < r.from)
        BY <3>2, <4>2
      <4> QED
        BY <4>1, <4>2
    <3>4. b \in Seqs(P) /\ (\A i \in 1 .. Len(b) : b[i] = y) /\ Len(b) <= 1
      <4>1. CASE r.to < span.to
        BY <2>4, <3>1, <4>1
      <4>2. CASE ~(r.to < span.to)
        BY <3>2, <4>2
      <4> QED
        BY <4>1, <4>2
    <3> QED
      BY <3>3, <3>4
  <2>6. c \in Seqs(P)
    BY <2>1, <2>5, SeqsClosed
  <2>7. OrderedBy(c, R)
    <3>1. <<x, y>> \in R
      BY <1>1, <2>2 DEF After
    <3>2. OrderedBy(a, R) /\ OrderedBy(b, R) /\ AllBefore(a, b, R)
      <4>1. Len(a) \in Nat /\ Len(b) \in Nat
        BY <2>5, SeqElements
      <4> HIDE DEF a, b, x, y, R
      <4> QED
        BY <2>5, <3>1, <4>1 DEF OrderedBy, AllBefore
    <3> QED
      BY <2>1, <2>5, <3>2, CatOrdered
  <2>8. ASSUME NEW u \in Weights
        PROVE  SeqSum(c, Ticks(u)) = Between(Outside(u, r.from, r.to), span.from, span.to)
    <3> DEFINE m == Ticks(u)
    <3>1. /\ m \in [Spans -> Int]
          /\ m[x] = Between(u, span.from, r.from) /\ m[y] = Between(u, r.to, span.to)
      BY <2>2, TicksType
    <3>2. a \in Seqs(Spans) /\ b \in Seqs(Spans)
      <4>1. <<x>> \in Seqs(Spans) /\ <<y>> \in Seqs(Spans) /\ Nothing \in Seqs(Spans)
        BY <2>2 DEF Seqs, Nothing
      <4> HIDE DEF x, y
      <4> QED
        BY <4>1
    <3> HIDE DEF m
    <3>3. SeqSum(c, m) = SeqSum(a, m) + SeqSum(b, m)
      BY <2>1, <3>1, <3>2, SeqSumConcat
    <3>4. SeqSum(a, m) = Between(u, span.from, r.from)
      <4>1. CASE span.from < r.from
        <5>1. a = <<x>>
          BY <4>1
        <5> HIDE DEF x, a
        <5> QED
          BY <2>2, <3>1, <5>1, OneElement
      <4>2. CASE ~(span.from < r.from)
        BY <4>2, SeqSumNothing DEF Between
      <4> QED
        BY <4>1, <4>2
    <3>5. SeqSum(b, m) = Between(u, r.to, span.to)
      <4>1. CASE r.to < span.to
        <5>1. b = <<y>>
          BY <4>1
        <5> HIDE DEF y, b
        <5> QED
          BY <2>2, <3>1, <5>1, OneElement
      <4>2. CASE ~(r.to < span.to)
        BY <4>2, SeqSumNothing DEF Between
      <4> QED
        BY <4>1, <4>2
    <3>6. Between(u, span.from, span.to)
            = Between(Outside(u, r.from, r.to), span.from, span.to)
              + Between(Inside(u, r.from, r.to), span.from, span.to)
      BY <1>1, OutsideBetween
    <3>7. Between(Inside(u, r.from, r.to), span.from, span.to)
              = Between(u, Greater(r.from, span.from), Lesser(r.to, span.to))
      BY <1>1, InsideBetween
    <3>8. Between(Outside(u, r.from, r.to), span.from, span.to) \in Nat
      BY <1>1, InsideWeights, BetweenNat
    <3>9. /\ Sum(u, span.from) \in Nat /\ Sum(u, span.to) \in Nat
          /\ Sum(u, r.from) \in Nat /\ Sum(u, r.to) \in Nat
      BY <1>1, SumNat DEF Weights
    <3>10. Between(Outside(u, r.from, r.to), span.from, span.to)
             = Between(u, span.from, r.from) + Between(u, r.to, span.to)
      BY <1>1, <1>3, <3>6, <3>7, <3>8, <3>9 DEF Between, Greater, Lesser
    <3> HIDE DEF a, b, c
    <3> QED
      BY <3>3, <3>4, <3>5, <3>10 DEF m
  <2> QED
    BY <2>6, <2>7, <2>8
<1> QED
  BY <1>2, <1>3

\* A span of a part is a span of the whole.
LEMMA PartOfPart ==
    ASSUME NEW t \in Spans, NEW s \in PartsOf(t), NEW x \in PartsOf(s)
    PROVE  x \in PartsOf(t)
<1>1. /\ t.from \in Nat /\ t.to \in Nat /\ s.from \in Nat /\ s.to \in Nat
      /\ x.from \in Nat /\ x.to \in Nat
  BY DEF PartsOf, Spans
<1> QED
  BY <1>1 DEF PartsOf, Part

\* A set of sequences grows with the set of their elements.
LEMMA SeqsGrow ==
    ASSUME NEW T, NEW U, T \subseteq U, NEW q \in Seqs(T)
    PROVE  q \in Seqs(U)
<1>1. q \in [1 .. Len(q) -> T] /\ Len(q) \in Nat
  BY LenProperties DEF Seqs
<1>2. q \in [1 .. Len(q) -> U]
  <2>1. \A i \in 1 .. Len(q) : q[i] \in U
    BY <1>1
  <2> QED
    BY <1>1, <2>1
<1> QED
  BY <1>1, <1>2, FunctionIsSeq

\* One reserve cuts every span of a sequence: the pieces lie where the spans lie, in
\* their order, and hold the ticks of the spans that are not reserved.
LEMMA CutSpansOf ==
    ASSUME NEW t \in Spans, NEW q \in Seqs(PartsOf(t)), OrderedBy(q, After),
           NEW r \in Spans, r.from <= r.to
    PROVE  /\ CutSpans(q, r) \in Seqs(PartsOf(t))
           /\ OrderedBy(CutSpans(q, r), After)
           /\ \A u \in Weights :
                 SeqSum(CutSpans(q, r), Ticks(u)) = SeqSum(q, Ticks(Outside(u, r.from, r.to)))
<1> DEFINE parts == [i \in DOMAIN q |-> CutByReserve(q[i], r)]
<1>1. PICK n \in Nat : n = Len(q) /\ DOMAIN q = 1 .. n
  BY SeqElements
<1>2. \A i \in 1 .. n : q[i] \in PartsOf(t) /\ q[i] \in Spans
  BY <1>1, SeqElements DEF PartsOf
<1>3. \A i \in 1 .. n : parts[i] = CutByReserve(q[i], r)
  BY <1>1
<1>4. \A i \in 1 .. n : parts[i] \in Seqs(PartsOf(q[i])) /\ OrderedBy(parts[i], After)
  BY <1>2, <1>3, CutOfSpan
<1>5. \A i \in 1 .. n : PartsOf(q[i]) \subseteq PartsOf(t)
  BY <1>2, PartOfPart
<1>6. \A i \in 1 .. n : parts[i] \in Seqs(PartsOf(t)) /\ parts[i] \in Seqs(Spans)
  <2> TAKE i \in 1 .. n
  <2>1. PartsOf(t) \subseteq Spans
    BY DEF PartsOf
  <2> HIDE DEF parts
  <2>2. parts[i] \in Seqs(PartsOf(t))
    BY <1>4, <1>5, SeqsGrow
  <2> QED
    BY <2>1, <2>2, SeqsGrow
<1>7. Len(parts) = n
  <2>1. parts \in [1 .. n -> Seqs(Spans)]
    BY <1>1, <1>6
  <2> HIDE DEF parts
  <2> QED
    BY <2>1, FunctionIsSeq
<1>8. CutSpans(q, r) = Joined(parts)
  BY DEF CutSpans
<1> HIDE DEF parts
<1>9. CutSpans(q, r) \in Seqs(PartsOf(t))
  BY <1>6, <1>7, <1>8, JoinedType
<1>10. ASSUME NEW i \in 1 .. n, NEW j \in 1 .. n, i < j
       PROVE  AllBefore(parts[i], parts[j], After)
  <2> SUFFICES ASSUME NEW a \in 1 .. Len(parts[i]), NEW b \in 1 .. Len(parts[j])
               PROVE  <<parts[i][a], parts[j][b]>> \in After
    BY DEF AllBefore
  <2>1. parts[i][a] \in PartsOf(q[i]) /\ parts[j][b] \in PartsOf(q[j])
    BY <1>4, SeqElements
  <2>2. <<q[i], q[j]>> \in After
    BY <1>1, <1>10 DEF OrderedBy
  <2>3. q[i] \in Spans /\ q[j] \in Spans
    BY <1>2
  <2> DEFINE x == parts[i][a]
             y == parts[j][b]
             v == q[i]
             w == q[j]
  <2>4. x \in PartsOf(v) /\ y \in PartsOf(w) /\ <<v, w>> \in After /\ v \in Spans /\ w \in Spans
    BY <2>1, <2>2, <2>3
  <2> HIDE DEF x, y, v, w
  <2>5. /\ x \in Spans /\ Part(x, v) /\ y \in Spans /\ Part(y, w)
        /\ x.from \in Nat /\ x.to \in Nat /\ y.from \in Nat /\ y.to \in Nat
        /\ v.from \in Nat /\ v.to \in Nat /\ w.from \in Nat /\ w.to \in Nat
    BY <2>4 DEF PartsOf, Spans
  <2>6. (v.from < v.to /\ w.from < w.to) => v.to <= w.from
    BY <2>4 DEF After
  <2>7. <<x, y>> \in After
    <3>1. (x.from < x.to /\ y.from < y.to) => x.to <= y.from
      BY <2>5, <2>6 DEF Part
    <3> QED
      BY <2>5, <3>1 DEF After
  <2> QED
    BY <2>7 DEF x, y
<1>11. OrderedBy(CutSpans(q, r), After)
  BY <1>4, <1>6, <1>7, <1>8, <1>10, JoinedOrdered
<1>12. ASSUME NEW u \in Weights
       PROVE  SeqSum(CutSpans(q, r), Ticks(u)) = SeqSum(q, Ticks(Outside(u, r.from, r.to)))
  <2> DEFINE o == Outside(u, r.from, r.to)
  <2>1. o \in Weights
    BY InsideWeights
  <2>2. \A i \in 1 .. n : SeqSum(parts[i], Ticks(u)) = Between(o, q[i].from, q[i].to)
    BY <1>2, <1>3, CutOfSpan
  <2> HIDE DEF o
  <2>3. /\ Ticks(u) \in [Spans -> Int] /\ Ticks(o) \in [Spans -> Int]
        /\ \A s \in Spans : Ticks(o)[s] = Between(o, s.from, s.to)
    BY <2>1, TicksType
  <2>4. q \in Seqs(Spans)
    <3>1. PartsOf(t) \subseteq Spans
      BY DEF PartsOf
    <3> QED
      BY <3>1, SeqsGrow
  <2>5. PICK f : /\ SeqSum(q, Ticks(o)) = Sum(f, Len(q))
                 /\ \A i \in 1 .. Len(q) : f[i] = Ticks(o)[q[i]] /\ f[i] \in Int
    BY <2>3, <2>4, SeqSumValues
  <2>6. SumsOf(f, n, parts, Ticks(u))
    BY <1>1, <1>2, <2>2, <2>3, <2>5 DEF SumsOf
  <2>7. SeqSum(Joined(parts), Ticks(u)) = Sum(f, n)
    BY <1>6, <1>7, <2>3, <2>6, JoinedSum
  <2> QED
    BY <1>1, <1>8, <2>5, <2>7 DEF o
<1> QED
  BY <1>9, <1>11, <1>12

\* The sequences of spans that cutting t makes.
PiecesOf(t) == {q \in Seqs(PartsOf(t)) : OrderedBy(q, After)}

\* C holds what the first reserves leave of t, for every number of them.
CutOneByOne(C, t, reserves, s, n) ==
    /\ C[0] = <<t>>
    /\ \A i \in 1 .. n : C[i] = CutSpans(C[i - 1], Shifted(reserves[i], s))
    /\ \A i \in 0 .. n : C[i] \in PiecesOf(t)

\* The reserves cut the interval one after the other.
LEMMA CutsNext ==
    ASSUME NEW from \in Nat, NEW to \in Nat, NEW s \in Nat,
           NEW reserves, NEW n \in Nat, Len(reserves) = n, \A i \in 1 .. n : SpanOK(reserves[i])
    PROVE  /\ [from |-> from, to |-> to] \in Spans
           /\ CutOneByOne(Cuts(reserves, s, from, to), [from |-> from, to |-> to], reserves, s, n)
<1> DEFINE t == [from |-> from, to |-> to]
           Q == PiecesOf(t)
           r(i) == Shifted(reserves[i], s)
           step == [x \in (1 .. n) \X Q |-> CutSpans(x[2], r(x[1]))]
           base == <<t>>
<1>1. t \in Spans
  BY DEF Spans
<1>2. \A i \in 1 .. n : r(i) \in Spans /\ r(i).from <= r(i).to
  BY DEF SpanOK, Shifted, Spans
<1> HIDE DEF r
<1>3. base \in Q
  <2>1. t \in PartsOf(t)
    BY <1>1 DEF PartsOf, Part
  <2> HIDE DEF t
  <2>2. base \in Seqs(PartsOf(t)) /\ Len(base) = 1
    BY <2>1 DEF Seqs
  <2> QED
    BY <2>2 DEF PiecesOf, OrderedBy
<1> HIDE DEF t, base
<1>4. \A i \in 1 .. n, q \in Q : CutSpans(q, r(i)) \in Q
  BY <1>1, <1>2, CutSpansOf DEF PiecesOf
<1> HIDE DEF Q
<1>5. step \in [(1 .. n) \X Q -> Q]
  BY <1>4
<1>6. \A i \in 1 .. n, q \in Q : step[<<i, q>>] = CutSpans(q, r(i))
  OBVIOUS
<1> HIDE DEF step
<1>7. PICK f : Recurs(f, Q, base, n, step)
  BY <1>3, <1>5, RecursionUpTo
<1>8. f \in [0 .. n -> Q] /\ f[0] = base /\ \A i \in 1 .. n : f[i] = step[<<i, f[i - 1]>>]
  BY <1>7 DEF Recurs
<1>9. \A i \in 1 .. n : f[i] = CutSpans(f[i - 1], r(i))
  <2> TAKE i \in 1 .. n
  <2>1. f[i - 1] \in Q
    BY <1>8
  <2> QED
    BY <1>6, <1>8, <2>1
<1> DEFINE Solves(h) == h = [i \in 0 .. n |-> IF i = 0 THEN base ELSE CutSpans(h[i - 1], r(i))]
<1>10. Solves(f)
  <2>1. \A i \in 0 .. n : f[i] = IF i = 0 THEN base ELSE CutSpans(f[i - 1], r(i))
    BY <1>8, <1>9
  <2> DEFINE g == [i \in 0 .. n |-> IF i = 0 THEN base ELSE CutSpans(f[i - 1], r(i))]
  <2>2. \A i \in 0 .. n : f[i] = g[i]
    BY <2>1
  <2>3. f \in [0 .. n -> Q] /\ g = [i \in 0 .. n |-> g[i]]
    BY <1>8
  <2> HIDE DEF g
  <2>4. f = g
    BY <2>2, <2>3
  <2> QED
    BY <2>4 DEF g
<1> DEFINE C == Cuts(reserves, s, from, to)
<1>11. C = CHOOSE h : Solves(h)
  BY DEF Cuts, base, t, r
<1> HIDE DEF Solves, C
<1>12. Solves(C)
  BY <1>10, <1>11
<1>13. C = [i \in 0 .. n |-> IF i = 0 THEN base ELSE CutSpans(C[i - 1], r(i))]
  BY <1>12 DEF Solves
<1>14. C[0] = base /\ \A i \in 1 .. n : C[i] = CutSpans(C[i - 1], r(i))
  BY <1>13
<1> DEFINE D == {k \in Nat : k <= n => C[k] \in Q}
<1>15. 0 \in D
  BY <1>3, <1>14
<1>16. ASSUME NEW k \in Nat, k \in D PROVE k + 1 \in D
  <2> SUFFICES ASSUME k + 1 <= n PROVE C[k + 1] \in Q
    OBVIOUS
  <2>1. C[k] \in Q /\ C[k + 1] = CutSpans(C[k], r(k + 1))
    BY <1>14, <1>16
  <2> QED
    BY <1>4, <2>1
<1> HIDE DEF D
<1>17. \A k \in Nat : k \in D
  BY <1>15, <1>16, NaturalsBySteps
<1>18. \A k \in 0 .. n : C[k] \in Q
  BY <1>17 DEF D
<1> QED
  BY <1>1, <1>14, <1>18 DEF base, C, Q, r, t, CutOneByOne

\* The weights of the ticks that the first k reserves of a session leave.
Free(u, reserves, s, k) ==
    [i \in Nat |-> IF \E j \in 1 .. k : s + reserves[j].from < i /\ i <= s + reserves[j].to
                   THEN 0 ELSE u[i]]

\* The weights that reserves leave are weights.
LEMMA FreeWeights ==
    ASSUME NEW u \in Weights, NEW reserves, NEW s, NEW k
    PROVE  Free(u, reserves, s, k) \in Weights
  BY DEF Free, Weights

\* The reserves of a profile.
ReservesOK(reserves, n) == Len(reserves) = n /\ \A i \in 1 .. n : SpanOK(reserves[i])

\* What the reserves leave of an interval holds its unreserved ticks.
LEMMA CutsSum ==
    ASSUME NEW from \in Nat, NEW to \in Nat, NEW s \in Nat,
           NEW reserves, NEW n \in Nat, ReservesOK(reserves, n),
           NEW u \in Weights
    PROVE  SeqSum(UnreservedSpans(reserves, s, from, to), Ticks(u))
             = Between(Free(u, reserves, s, n), from, to)
<1> DEFINE t == [from |-> from, to |-> to]
           C == Cuts(reserves, s, from, to)
           D == {k \in Nat : k <= n => \A w \in Weights :
                    SeqSum(C[k], Ticks(w)) = Between(Free(w, reserves, s, k), from, to)}
<1>0. t.from = from /\ t.to = to
  OBVIOUS
<1> USE DEF ReservesOK
<1>1. /\ t \in Spans /\ C[0] = <<t>>
      /\ \A i \in 1 .. n : C[i] = CutSpans(C[i - 1], Shifted(reserves[i], s))
      /\ \A i \in 0 .. n : C[i] \in PiecesOf(t)
  <2>1. t \in Spans /\ CutOneByOne(C, t, reserves, s, n)
    BY CutsNext
  <2> HIDE DEF C, t
  <2> QED
    BY <2>1 DEF CutOneByOne
<1> HIDE DEF C, t
<1>2. 0 \in D
  <2> SUFFICES ASSUME NEW w \in Weights
               PROVE  SeqSum(C[0], Ticks(w)) = Between(Free(w, reserves, s, 0), from, to)
    OBVIOUS
  <2>1. Free(w, reserves, s, 0) = w
    BY DEF Free, Weights
  <2>2. Ticks(w) \in [Spans -> Int] /\ Ticks(w)[t] = Between(w, from, to)
    BY <1>0, <1>1, TicksType
  <2> QED
    BY <1>1, <2>1, <2>2, OneElement
<1>3. ASSUME NEW k \in Nat, k \in D PROVE k + 1 \in D
  <2> SUFFICES ASSUME k + 1 <= n, NEW w \in Weights
               PROVE  SeqSum(C[k + 1], Ticks(w)) = Between(Free(w, reserves, s, k + 1), from, to)
    OBVIOUS
  <2> DEFINE r == Shifted(reserves[k + 1], s)
             o == Outside(w, r.from, r.to)
  <2>1. /\ reserves[k + 1].from \in Nat /\ reserves[k + 1].to \in Nat
        /\ reserves[k + 1].from < reserves[k + 1].to
    BY DEF SpanOK
  <2>2. /\ r \in Spans /\ r.from <= r.to
        /\ r.from = s + reserves[k + 1].from /\ r.to = s + reserves[k + 1].to
    BY <2>1 DEF Shifted, Spans
  <2> HIDE DEF r
  <2>3. C[k] \in PiecesOf(t) /\ C[k + 1] = CutSpans(C[k], r)
    BY <1>1 DEF r
  <2>4. SeqSum(C[k + 1], Ticks(w)) = SeqSum(C[k], Ticks(o))
    BY <1>1, <2>2, <2>3, CutSpansOf DEF PiecesOf
  <2>5. o \in Weights
    BY InsideWeights
  <2>6. SeqSum(C[k], Ticks(o)) = Between(Free(o, reserves, s, k), from, to)
    BY <1>3, <2>5
  <2>7. Free(o, reserves, s, k) = Free(w, reserves, s, k + 1)
    <3>1. ASSUME NEW i \in Nat
          PROVE  Free(o, reserves, s, k)[i] = Free(w, reserves, s, k + 1)[i]
      <4>1. o[i] = IF r.from < i /\ i <= r.to THEN 0 ELSE w[i]
        BY DEF Outside
      <4>2. (\E j \in 1 .. k + 1 : s + reserves[j].from < i /\ i <= s + reserves[j].to)
              <=> \/ \E j \in 1 .. k : s + reserves[j].from < i /\ i <= s + reserves[j].to
                  \/ r.from < i /\ i <= r.to
        BY <2>2
      <4> HIDE DEF o
      <4> QED
        BY <4>1, <4>2 DEF Free
    <3> HIDE DEF o
    <3> QED
      BY <3>1 DEF Free
  <2> QED
    BY <2>4, <2>6, <2>7
<1> HIDE DEF D
<1>4. n \in D
  BY <1>2, <1>3, NaturalsBySteps
<1>5. UnreservedSpans(reserves, s, from, to) = C[n]
  BY DEF UnreservedSpans, C
<1> QED
  BY <1>4, <1>5 DEF D

\* What the reserves leave of an interval lies in it and is in order.
LEMMA CutsParts ==
    ASSUME NEW from \in Nat, NEW to \in Nat, NEW s \in Nat,
           NEW reserves, NEW n \in Nat, Len(reserves) = n, \A i \in 1 .. n : SpanOK(reserves[i])
    PROVE  UnreservedSpans(reserves, s, from, to) \in PiecesOf([from |-> from, to |-> to])
<1>1. CutOneByOne(Cuts(reserves, s, from, to), [from |-> from, to |-> to], reserves, s, n)
  BY CutsNext
<1> QED
  BY <1>1 DEF UnreservedSpans, CutOneByOne

-----------------------------------------------------------------------------
(***************************************************************************)
(* Pieces: what is left of each segment, in order.                         *)
(***************************************************************************)

\* Intervals of one rate.
Pieces == [from : Nat, to : Nat, rate : Nat]

\* The units a piece carries in the ticks that u weighs.
Carried(u) == [p \in Pieces |-> p.rate * Between(u, p.from, p.to)]

\* The pieces of a rate that lie in t, and the order of pieces.
PiecesIn(t, rate) == {p \in Pieces : p.rate = rate /\ Part(p, t)}

PieceAfter == {x \in Pieces \X Pieces :
                  (x[1].from < x[1].to /\ x[2].from < x[2].to) => x[1].to <= x[2].from}

\* What a piece carries is a whole number of units.
LEMMA CarriedType ==
    ASSUME NEW u \in Weights
    PROVE  /\ Carried(u) \in [Pieces -> Int]
           /\ \A p \in Pieces : Carried(u)[p] = p.rate * Between(u, p.from, p.to)
<1>1. \A p \in Pieces : p.from \in Nat /\ p.to \in Nat /\ p.rate \in Nat
  BY DEF Pieces
<1>2. \A p \in Pieces : Between(u, p.from, p.to) \in Nat
  BY <1>1, BetweenNat
<1>3. \A p \in Pieces : p.rate * Between(u, p.from, p.to) \in Int
  BY <1>1, <1>2
<1> QED
  BY <1>3 DEF Carried

\* The shape of a session: its interval and the plan of its station.
SessionShape(s) == s.start \in Nat /\ s.end \in Nat /\ PlanOK(s.plan)

\* The interval of a segment that a session still has from c, and the weights u of the
\* ticks that no reserve takes.
SegmentSpan(s, c, i) ==
    [from |-> Greater(c, s.start + s.plan.segments[i].from),
     to   |-> Lesser(s.start + s.plan.segments[i].to, s.end)]

FreeOf(u, s) == Free(u, s.plan.reserves, s.start, Len(s.plan.reserves))

\* A plan by its parts.
LEMMA PlanParts ==
    ASSUME NEW s, SessionShape(s)
    PROVE  /\ Len(s.plan.segments) \in Nat /\ DOMAIN s.plan.segments = 1 .. Len(s.plan.segments)
           /\ Len(s.plan.reserves) \in Nat /\ DOMAIN s.plan.reserves = 1 .. Len(s.plan.reserves)
           /\ \A i \in 1 .. Len(s.plan.segments) :
                 /\ s.plan.segments[i].from \in Nat /\ s.plan.segments[i].to \in Nat
                 /\ s.plan.segments[i].from < s.plan.segments[i].to
                 /\ s.plan.segments[i].rate \in Nat
           /\ \A i, j \in 1 .. Len(s.plan.segments) :
                 i < j => s.plan.segments[i].to <= s.plan.segments[j].from
           /\ \A i \in 1 .. Len(s.plan.reserves) : SpanOK(s.plan.reserves[i])
<1>1. PlanOK(s.plan)
  BY DEF SessionShape
<1> DEFINE p == s.plan
<1>2. PlanOK(p)
  BY <1>1
<1> HIDE DEF p
<1>3. /\ Len(p.segments) \in Nat /\ DOMAIN p.segments = 1 .. Len(p.segments)
      /\ Len(p.reserves) \in Nat /\ DOMAIN p.reserves = 1 .. Len(p.reserves)
      /\ \A i \in DOMAIN p.segments : SpanOK(p.segments[i]) /\ p.segments[i].rate \in Nat
      /\ \A i, j \in DOMAIN p.segments : i < j => p.segments[i].to <= p.segments[j].from
      /\ \A i \in DOMAIN p.reserves : SpanOK(p.reserves[i])
  BY <1>2 DEF PlanOK
<1>4. \A i \in DOMAIN p.segments :
         /\ p.segments[i].from \in Nat /\ p.segments[i].to \in Nat
         /\ p.segments[i].from < p.segments[i].to
  BY <1>3 DEF SpanOK
<1> QED
  BY <1>3, <1>4 DEF p

\* The interval of a segment is one of instants.
LEMMA SegmentSpanType ==
    ASSUME NEW s, SessionShape(s), NEW c \in Nat, NEW i \in 1 .. Len(s.plan.segments)
    PROVE  SegmentSpan(s, c, i) \in Spans
<1>1. s.plan.segments[i].from \in Nat /\ s.plan.segments[i].to \in Nat
  BY PlanParts
<1>2. s.start \in Nat /\ s.end \in Nat
  BY DEF SessionShape
<1>3. /\ Greater(c, s.start + s.plan.segments[i].from) \in Nat
      /\ Lesser(s.start + s.plan.segments[i].to, s.end) \in Nat
  BY <1>1, <1>2 DEF Greater, Lesser
<1> QED
  BY <1>3 DEF SegmentSpan, Spans

\* The pieces of a segment lie in it, in order, and carry its unreserved ticks.
LEMMA SegmentPiecesOf ==
    ASSUME NEW s, SessionShape(s), NEW c \in Nat, NEW i \in 1 .. Len(s.plan.segments)
    PROVE  LET seg == s.plan.segments[i]
               t   == SegmentSpan(s, c, i)
               q   == SegmentPieces(s, c, seg)
           IN  /\ q \in Seqs(PiecesIn(t, seg.rate))
               /\ OrderedBy(q, PieceAfter)
               /\ \A u \in Weights :
                     SeqSum(q, Carried(u)) = seg.rate * Between(FreeOf(u, s), t.from, t.to)
<1> DEFINE seg == s.plan.segments[i]
           t   == SegmentSpan(s, c, i)
           q   == SegmentPieces(s, c, seg)
           spans == UnreservedSpans(s.plan.reserves, s.start, t.from, t.to)
           rate == seg.rate
           m == Len(s.plan.reserves)
<1>1. t \in Spans /\ t.from \in Nat /\ t.to \in Nat
  BY SegmentSpanType DEF Spans
<1>2. /\ s.start \in Nat /\ rate \in Nat /\ m \in Nat
      /\ \A j \in 1 .. m : SpanOK(s.plan.reserves[j])
  BY PlanParts DEF SessionShape
<1>3. q = [j \in DOMAIN spans |-> [from |-> spans[j].from, to |-> spans[j].to, rate |-> rate]]
  BY DEF SegmentPieces, SegmentSpan
<1>4. t = [from |-> t.from, to |-> t.to]
  BY <1>1 DEF Spans
<1> HIDE DEF t, m, rate, q
<1>5. spans \in PiecesOf(t)
  BY <1>1, <1>2, <1>4, CutsParts DEF m
<1>6. \A u \in Weights : SeqSum(spans, Ticks(u)) = Between(FreeOf(u, s), t.from, t.to)
  <2>1. ReservesOK(s.plan.reserves, m)
    BY <1>2 DEF ReservesOK, m
  <2> HIDE DEF spans
  <2> SUFFICES ASSUME NEW u \in Weights
               PROVE  SeqSum(spans, Ticks(u)) = Between(FreeOf(u, s), t.from, t.to)
    OBVIOUS
  <2> QED
    BY <1>1, <1>2, <2>1, CutsSum DEF FreeOf, m, spans
<1> HIDE DEF spans
<1>7. spans \in Seqs(PartsOf(t)) /\ OrderedBy(spans, After)
  BY <1>5 DEF PiecesOf
<1>8. PICK n \in Nat : n = Len(spans) /\ DOMAIN spans = 1 .. n
  BY <1>7, SeqElements
<1>9. \A j \in 1 .. n : spans[j] \in Spans /\ Part(spans[j], t)
  BY <1>7, <1>8, SeqElements DEF PartsOf
<1>10. \A j \in 1 .. n : /\ q[j] \in PiecesIn(t, rate) /\ q[j].rate = rate
                         /\ q[j].from = spans[j].from /\ q[j].to = spans[j].to
  <2> TAKE j \in 1 .. n
  <2> DEFINE x == spans[j]
             y == q[j]
  <2>1. x \in Spans /\ Part(x, t) /\ y = [from |-> x.from, to |-> x.to, rate |-> rate]
    BY <1>3, <1>8, <1>9
  <2> HIDE DEF x, y
  <2>2. /\ y.from = x.from /\ y.to = x.to /\ y.rate = rate /\ x.from \in Nat /\ x.to \in Nat
        /\ y \in Pieces
    BY <1>2, <2>1 DEF Pieces, Spans
  <2>3. y \in PiecesIn(t, rate)
    BY <2>1, <2>2 DEF PiecesIn, Part
  <2> QED
    BY <2>2, <2>3 DEF x, y
<1>11. q \in Seqs(PiecesIn(t, rate)) /\ Len(q) = n
  <2>1. q \in [1 .. n -> PiecesIn(t, rate)]
    BY <1>3, <1>8, <1>10
  <2> QED
    BY <2>1, FunctionIsSeq
<1>12. OrderedBy(q, PieceAfter)
  <2> SUFFICES ASSUME NEW a \in 1 .. n, NEW b \in 1 .. n, a < b
               PROVE  <<q[a], q[b]>> \in PieceAfter
    BY <1>11 DEF OrderedBy
  <2>1. <<spans[a], spans[b]>> \in After
    BY <1>7, <1>8 DEF OrderedBy
  <2>2. (spans[a].from < spans[a].to /\ spans[b].from < spans[b].to)
           => spans[a].to <= spans[b].from
    BY <2>1 DEF After
  <2>3. q[a] \in Pieces /\ q[b] \in Pieces
    BY <1>10 DEF PiecesIn
  <2>4. (q[a].from < q[a].to /\ q[b].from < q[b].to) => q[a].to <= q[b].from
    BY <1>10, <2>2
  <2> QED
    BY <2>3, <2>4 DEF PieceAfter
<1>13. ASSUME NEW u \in Weights
       PROVE  SeqSum(q, Carried(u)) = rate * Between(FreeOf(u, s), t.from, t.to)
  <2>1. q \in Seqs(Pieces) /\ spans \in Seqs(Spans)
    <3>1. PiecesIn(t, rate) \subseteq Pieces /\ PartsOf(t) \subseteq Spans
      BY DEF PiecesIn, PartsOf
    <3> QED
      BY <1>7, <1>11, <3>1, SeqsGrow
  <2>2. /\ Carried(u) \in [Pieces -> Int]
        /\ \A p \in Pieces : Carried(u)[p] = p.rate * Between(u, p.from, p.to)
    BY CarriedType
  <2>3. /\ Ticks(u) \in [Spans -> Int]
        /\ \A x \in Spans : Ticks(u)[x] = Between(u, x.from, x.to)
    BY TicksType
  <2>4. PICK h : /\ SeqSum(q, Carried(u)) = Sum(h, Len(q))
                 /\ \A j \in 1 .. Len(q) : h[j] = Carried(u)[q[j]] /\ h[j] \in Int
    BY <2>1, <2>2, SeqSumValues
  <2>5. PICK f : /\ SeqSum(spans, Ticks(u)) = Sum(f, Len(spans))
                 /\ \A j \in 1 .. Len(spans) : f[j] = Ticks(u)[spans[j]] /\ f[j] \in Int
    BY <2>1, <2>3, SeqSumValues
  <2>6. \A j \in 1 .. n : f[j] \in Int /\ h[j] = rate * f[j]
    <3> TAKE j \in 1 .. n
    <3>1. q[j] \in Pieces
      BY <1>10 DEF PiecesIn
    <3>2. h[j] = rate * Between(u, spans[j].from, spans[j].to)
      BY <1>10, <1>11, <2>2, <2>4, <3>1
    <3>3. f[j] = Between(u, spans[j].from, spans[j].to) /\ f[j] \in Int
      BY <1>8, <1>9, <2>3, <2>5
    <3> QED
      BY <3>2, <3>3
  <2>7. Sum(h, n) = rate * Sum(f, n)
    BY <1>2, <2>6, SumTimes
  <2> QED
    BY <1>6, <1>8, <1>11, <2>4, <2>5, <2>7
<1> QED
  BY <1>11, <1>12, <1>13 DEF q, t, rate

\* The pieces a session may still have from c.
RestOf(s, c) ==
    {p \in Pieces : /\ p.from < p.to => c <= p.from /\ p.to <= s.end
                    /\ \E j \in 1 .. Len(s.plan.segments) : p.rate = s.plan.segments[j].rate}

\* What the segments carry of the ticks u, one by one.
Shares(u, s, c) ==
    [i \in 1 .. Len(s.plan.segments) |->
        s.plan.segments[i].rate
          * Between(FreeOf(u, s), SegmentSpan(s, c, i).from, SegmentSpan(s, c, i).to)]

\* The pieces left of a session lie in it, in order, and carry what its segments carry.
LEMMA ActiveOf ==
    ASSUME NEW s, SessionShape(s), NEW c \in Nat
    PROVE  /\ ActivePieces(s, c) \in Seqs(RestOf(s, c))
           /\ OrderedBy(ActivePieces(s, c), PieceAfter)
           /\ \A u \in Weights :
                 SeqSum(ActivePieces(s, c), Carried(u)) = Sum(Shares(u, s, c), Len(s.plan.segments))
<1> DEFINE n == Len(s.plan.segments)
           seg(i) == s.plan.segments[i]
           t(i) == SegmentSpan(s, c, i)
           parts == [i \in DOMAIN s.plan.segments |-> SegmentPieces(s, c, s.plan.segments[i])]
<1>1. /\ n \in Nat /\ DOMAIN s.plan.segments = 1 .. n
      /\ \A i \in 1 .. n : seg(i).from \in Nat /\ seg(i).to \in Nat /\ seg(i).from < seg(i).to
                           /\ seg(i).rate \in Nat
      /\ \A i, j \in 1 .. n : i < j => seg(i).to <= seg(j).from
  BY PlanParts
<1>2. s.start \in Nat /\ s.end \in Nat
  BY DEF SessionShape
<1>3. \A i \in 1 .. n : t(i) \in Spans /\ t(i).from \in Nat /\ t(i).to \in Nat
  BY SegmentSpanType DEF Spans
<1>4. \A i \in 1 .. n : /\ t(i).from = Greater(c, s.start + seg(i).from)
                        /\ t(i).to = Lesser(s.start + seg(i).to, s.end)
  BY DEF SegmentSpan
<1>5. \A i \in 1 .. n : /\ parts[i] \in Seqs(PiecesIn(t(i), seg(i).rate))
                        /\ OrderedBy(parts[i], PieceAfter)
                        /\ \A u \in Weights :
                              SeqSum(parts[i], Carried(u)) = Shares(u, s, c)[i]
  <2> TAKE i \in 1 .. n
  <2>1. parts[i] = SegmentPieces(s, c, seg(i))
    BY <1>1
  <2>2. /\ SegmentPieces(s, c, seg(i)) \in Seqs(PiecesIn(t(i), seg(i).rate))
        /\ OrderedBy(SegmentPieces(s, c, seg(i)), PieceAfter)
        /\ \A u \in Weights : SeqSum(SegmentPieces(s, c, seg(i)), Carried(u))
                                = seg(i).rate * Between(FreeOf(u, s), t(i).from, t(i).to)
    BY SegmentPiecesOf
  <2>3. \A u \in Weights :
           Shares(u, s, c)[i] = seg(i).rate * Between(FreeOf(u, s), t(i).from, t(i).to)
    BY DEF Shares
  <2> HIDE DEF parts, t, seg
  <2> QED
    BY <2>1, <2>2, <2>3
<1>6. ActivePieces(s, c) = Joined(parts)
  BY DEF ActivePieces
<1>7. \A i \in 1 .. n : PiecesIn(t(i), seg(i).rate) \subseteq RestOf(s, c)
  <2> SUFFICES ASSUME NEW i \in 1 .. n, NEW p \in PiecesIn(t(i), seg(i).rate)
               PROVE  p \in RestOf(s, c)
    OBVIOUS
  <2> DEFINE v == t(i)
             g == seg(i)
  <2>1. /\ v.from \in Nat /\ v.to \in Nat /\ g.from \in Nat /\ g.to \in Nat
        /\ v.from = Greater(c, s.start + g.from) /\ v.to = Lesser(s.start + g.to, s.end)
        /\ p \in PiecesIn(v, g.rate)
    BY <1>1, <1>3, <1>4
  <2>4. \E j \in 1 .. Len(s.plan.segments) : g.rate = s.plan.segments[j].rate
    OBVIOUS
  <2> HIDE DEF v, g
  <2>2. /\ p \in Pieces /\ Part(p, v) /\ p.from \in Nat /\ p.to \in Nat
        /\ p.rate = g.rate
    BY <2>1 DEF PiecesIn, Pieces
  <2>3. c <= v.from /\ v.to <= s.end
    BY <1>2, <2>1 DEF Greater, Lesser
  <2>5. p.from < p.to => c <= p.from /\ p.to <= s.end
    BY <1>2, <2>1, <2>2, <2>3 DEF Part
  <2>6. \E j \in 1 .. Len(s.plan.segments) : p.rate = s.plan.segments[j].rate
    BY <2>2, <2>4
  <2> QED
    BY <2>2, <2>5, <2>6 DEF RestOf
<1> HIDE DEF t, seg
<1>8. Len(parts) = n
  <2>1. parts \in [1 .. n -> {parts[i] : i \in 1 .. n}]
    BY <1>1
  <2> HIDE DEF parts
  <2> QED
    BY <1>1, <2>1, FunctionIsSeq
<1> HIDE DEF parts, n
<1>9. \A i \in 1 .. n : parts[i] \in Seqs(RestOf(s, c)) /\ parts[i] \in Seqs(Pieces)
  <2> TAKE i \in 1 .. n
  <2>1. parts[i] \in Seqs(RestOf(s, c))
    BY <1>5, <1>7, SeqsGrow
  <2>2. RestOf(s, c) \subseteq Pieces
    BY DEF RestOf
  <2> QED
    BY <2>1, <2>2, SeqsGrow
<1>10. ActivePieces(s, c) \in Seqs(RestOf(s, c))
  BY <1>1, <1>6, <1>8, <1>9, JoinedType
<1>11. ASSUME NEW i \in 1 .. n, NEW j \in 1 .. n, i < j
       PROVE  AllBefore(parts[i], parts[j], PieceAfter)
  <2> SUFFICES ASSUME NEW a \in 1 .. Len(parts[i]), NEW b \in 1 .. Len(parts[j])
               PROVE  <<parts[i][a], parts[j][b]>> \in PieceAfter
    BY DEF AllBefore
  <2>1. parts[i][a] \in PiecesIn(t(i), seg(i).rate) /\ parts[j][b] \in PiecesIn(t(j), seg(j).rate)
    BY <1>5, SeqElements
  <2> DEFINE x == parts[i][a]
             y == parts[j][b]
             v == t(i)
             w == t(j)
             g == seg(i)
             h == seg(j)
  <2>2. /\ x \in PiecesIn(v, g.rate) /\ y \in PiecesIn(w, h.rate)
        /\ v.from \in Nat /\ v.to \in Nat /\ w.from \in Nat /\ w.to \in Nat
        /\ g.to \in Nat /\ h.from \in Nat /\ g.to <= h.from
        /\ v.to = Lesser(s.start + g.to, s.end) /\ w.from = Greater(c, s.start + h.from)
    BY <1>1, <1>3, <1>4, <1>11, <2>1
  <2> HIDE DEF x, y, v, w, g, h
  <2>3. /\ x \in Pieces /\ Part(x, v) /\ x.from \in Nat /\ x.to \in Nat
        /\ y \in Pieces /\ Part(y, w) /\ y.from \in Nat /\ y.to \in Nat
    BY <2>2 DEF PiecesIn, Pieces
  <2>4. v.to <= w.from
    BY <1>2, <2>2 DEF Greater, Lesser
  <2>5. <<x, y>> \in PieceAfter
    <3>1. (x.from < x.to /\ y.from < y.to) => x.to <= y.from
      BY <2>2, <2>3, <2>4 DEF Part
    <3> QED
      BY <2>3, <3>1 DEF PieceAfter
  <2> QED
    BY <2>5 DEF x, y
<1>12. OrderedBy(ActivePieces(s, c), PieceAfter)
  BY <1>1, <1>5, <1>6, <1>8, <1>9, <1>11, JoinedOrdered
<1>13. ASSUME NEW u \in Weights
       PROVE  SeqSum(ActivePieces(s, c), Carried(u)) = Sum(Shares(u, s, c), n)
  <2>1. SumsOf(Shares(u, s, c), n, parts, Carried(u))
    BY <1>5 DEF SumsOf
  <2>2. Carried(u) \in [Pieces -> Int]
    BY CarriedType
  <2> QED
    <3>1. n \in Nat /\ \A i \in 1 .. n : parts[i] \in Seqs(Pieces)
      BY <1>1, <1>9
    <3> DEFINE w == Shares(u, s, c)
               v == Carried(u)
    <3>2. SumsOf(w, n, parts, v) /\ v \in [Pieces -> Int]
      BY <2>1, <2>2
    <3> HIDE DEF w, v
    <3>3. SeqSum(Joined(parts), v) = Sum(w, n)
      BY <1>8, <3>1, <3>2, JoinedSum
    <3> QED
      BY <1>6, <3>3 DEF w, v
<1> QED
  BY <1>10, <1>12, <1>13 DEF n

-----------------------------------------------------------------------------
(***************************************************************************)
(* The rate of every tick, and what the ticks of a session carry.          *)
(***************************************************************************)

\* The tick that ends at i is one of segment j.
Covers(s, j, i) ==
    s.start + s.plan.segments[j].from < i /\ i <= s.start + s.plan.segments[j].to

\* The units of every tick, of those u weighs.
RatesOf(u, s) == [i \in Nat |-> TickRate(s.plan, s.start, i - 1) * u[i]]

\* A tick of a segment carries the segment's rate, unless a reserve takes it; any
\* other tick carries nothing.
LEMMA TickOf ==
    ASSUME NEW s, SessionShape(s), NEW u \in Weights, NEW i \in Nat
    PROVE  /\ \A j \in 1 .. Len(s.plan.segments) :
                 Covers(s, j, i) => RatesOf(u, s)[i] = s.plan.segments[j].rate * FreeOf(u, s)[i]
           /\ (\A j \in 1 .. Len(s.plan.segments) : ~Covers(s, j, i)) => RatesOf(u, s)[i] = 0
<1> DEFINE n == Len(s.plan.segments)
           m == Len(s.plan.reserves)
           seg(j) == s.plan.segments[j]
           res(j) == s.plan.reserves[j]
           t == i - 1
           in == {j \in DOMAIN s.plan.segments :
                     s.plan.segments[j].from <= t - s.start /\ t - s.start < s.plan.segments[j].to}
           rate == TickRate(s.plan, s.start, t)
<1>1. /\ n \in Nat /\ DOMAIN s.plan.segments = 1 .. n
      /\ m \in Nat /\ DOMAIN s.plan.reserves = 1 .. m
      /\ \A j \in 1 .. n : seg(j).from \in Nat /\ seg(j).to \in Nat /\ seg(j).rate \in Nat
      /\ \A j, k \in 1 .. n : j < k => seg(j).to <= seg(k).from
      /\ \A j \in 1 .. m : SpanOK(res(j))
  BY PlanParts
<1>2. s.start \in Nat /\ t \in Int
  BY DEF SessionShape
<1>3. \A j \in 1 .. n : j \in in <=> Covers(s, j, i)
  BY <1>1, <1>2 DEF Covers
<1>4. InReserve(s.plan, t - s.start)
        <=> \E j \in 1 .. m : s.start + res(j).from < i /\ i <= s.start + res(j).to
  <2>1. \A j \in 1 .. m : res(j).from \in Nat /\ res(j).to \in Nat
    BY <1>1 DEF SpanOK
  <2>2. \A j \in 1 .. m : (res(j).from <= t - s.start /\ t - s.start < res(j).to)
                            <=> (s.start + res(j).from < i /\ i <= s.start + res(j).to)
    BY <1>2, <2>1
  <2> QED
    BY <1>1, <2>2 DEF InReserve
<1>5. FreeOf(u, s)[i] = IF InReserve(s.plan, t - s.start) THEN 0 ELSE u[i]
  BY <1>4 DEF FreeOf, Free
<1>6. rate = IF in = {} \/ InReserve(s.plan, t - s.start)
             THEN 0 ELSE s.plan.segments[CHOOSE j \in in : TRUE].rate
  BY DEF TickRate
<1>7. RatesOf(u, s)[i] = rate * u[i] /\ u[i] \in Nat
  BY DEF RatesOf, Weights
<1>8. in \subseteq 1 .. n
  BY <1>1
<1> HIDE DEF in, rate, t
<1>9. ASSUME NEW j \in 1 .. n, Covers(s, j, i)
      PROVE  RatesOf(u, s)[i] = seg(j).rate * FreeOf(u, s)[i]
  <2>1. j \in in
    BY <1>3, <1>9
  <2>2. \A k \in in : k = j
    <3> SUFFICES ASSUME NEW k \in in PROVE k = j
      OBVIOUS
    <3>1. k \in 1 .. n /\ Covers(s, k, i)
      BY <1>3, <1>8
    <3>2. /\ s.start + seg(j).from < i /\ i <= s.start + seg(j).to
          /\ s.start + seg(k).from < i /\ i <= s.start + seg(k).to
      BY <1>9, <3>1 DEF Covers
    <3>3. /\ seg(j).from \in Nat /\ seg(j).to \in Nat /\ seg(k).from \in Nat /\ seg(k).to \in Nat
          /\ (j < k => seg(j).to <= seg(k).from) /\ (k < j => seg(k).to <= seg(j).from)
      BY <1>1, <3>1
    <3> HIDE DEF seg
    <3> QED
      BY <1>2, <3>1, <3>2, <3>3
  <2>3. (CHOOSE k \in in : TRUE) = j
    <3>1. (CHOOSE k \in in : TRUE) \in in
      BY <2>1
    <3> QED
      BY <2>2, <3>1
  <2>4. rate = IF InReserve(s.plan, t - s.start) THEN 0 ELSE seg(j).rate
    BY <1>6, <2>1, <2>3
  <2>5. seg(j).rate \in Nat
    BY <1>1
  <2> HIDE DEF seg
  <2>6. CASE InReserve(s.plan, t - s.start)
    BY <1>5, <1>7, <2>4, <2>5, <2>6
  <2>7. CASE ~InReserve(s.plan, t - s.start)
    BY <1>5, <1>7, <2>4, <2>5, <2>7
  <2> QED
    BY <2>6, <2>7
<1>10. ASSUME \A j \in 1 .. n : ~Covers(s, j, i) PROVE RatesOf(u, s)[i] = 0
  <2>1. in = {}
    BY <1>3, <1>8, <1>10
  <2>2. rate = 0
    BY <1>6, <2>1
  <2> QED
    BY <1>7, <2>2
<1> QED
  BY <1>9, <1>10

\* Every tick carries a whole number of units.
LEMMA RatesWeights ==
    ASSUME NEW s, SessionShape(s), NEW u \in Weights
    PROVE  RatesOf(u, s) \in Weights
<1>1. FreeOf(u, s) \in Weights
  BY FreeWeights DEF FreeOf
<1>2. \A j \in 1 .. Len(s.plan.segments) : s.plan.segments[j].rate \in Nat
  BY PlanParts
<1>3. \A i \in Nat : RatesOf(u, s)[i] \in Nat
  <2> SUFFICES ASSUME NEW i \in Nat PROVE RatesOf(u, s)[i] \in Nat
    OBVIOUS
  <2>1. CASE \E j \in 1 .. Len(s.plan.segments) : Covers(s, j, i)
    <3>1. PICK j \in 1 .. Len(s.plan.segments) : Covers(s, j, i)
      BY <2>1
    <3>2. RatesOf(u, s)[i] = s.plan.segments[j].rate * FreeOf(u, s)[i]
      BY <3>1, TickOf
    <3>3. s.plan.segments[j].rate \in Nat /\ FreeOf(u, s)[i] \in Nat
      BY <1>1, <1>2 DEF Weights
    <3> QED
      BY <3>2, <3>3
  <2>2. CASE ~ \E j \in 1 .. Len(s.plan.segments) : Covers(s, j, i)
    BY <2>2, TickOf
  <2> QED
    BY <2>1, <2>2
<1> QED
  BY <1>3 DEF RatesOf, Weights

\* Weights that are a multiple of others add up to the multiple.
LEMMA BetweenTimes ==
    ASSUME NEW u \in Weights, NEW w \in Weights, NEW r \in Nat, \A i \in Nat : w[i] = r * u[i],
           NEW a \in Nat, NEW b \in Nat
    PROVE  Between(w, a, b) = r * Between(u, a, b)
<1>1. \A i \in Nat : u[i] \in Int
  BY DEF Weights
<1>2. Sum(w, a) = r * Sum(u, a) /\ Sum(w, b) = r * Sum(u, b)
  BY <1>1, SumTimes
<1>3. Sum(u, a) \in Nat /\ Sum(u, b) \in Nat
  BY SumNat DEF Weights
<1>4. \A x, y \in Nat : r * x - r * y = r * (x - y)
  OBVIOUS
<1> QED
  BY <1>2, <1>3, <1>4 DEF Between

\* What the segments of a session still carry from c is what its ticks from c carry.
LEMMA SharesSum ==
    ASSUME NEW s, SessionShape(s), NEW u \in Weights, NEW c \in Nat
    PROVE  Sum(Shares(u, s, c), Len(s.plan.segments)) = Between(RatesOf(u, s), c, s.end)
<1> DEFINE n == Len(s.plan.segments)
           seg(j) == s.plan.segments[j]
           R == RatesOf(u, s)
           o == FreeOf(u, s)
           f == Shares(u, s, c)
           UpTo(k) == [i \in Nat |-> IF \E j \in 1 .. k : Covers(s, j, i) THEN R[i] ELSE 0]
           D == {k \in Nat : k <= n => Sum(f, k) = Between(UpTo(k), c, s.end)}
<1>1. /\ n \in Nat
      /\ \A j \in 1 .. n : seg(j).from \in Nat /\ seg(j).to \in Nat /\ seg(j).from < seg(j).to
                           /\ seg(j).rate \in Nat
      /\ \A j, k \in 1 .. n : j < k => seg(j).to <= seg(k).from
  BY PlanParts
<1>2. s.start \in Nat /\ s.end \in Nat
  BY DEF SessionShape
<1>3. R \in Weights /\ o \in Weights
  BY RatesWeights, FreeWeights DEF FreeOf
<1>4. \A j \in 1 .. n, i \in Nat : Covers(s, j, i) => R[i] = seg(j).rate * o[i]
  BY TickOf
<1>5. \A i \in Nat : (\A j \in 1 .. n : ~Covers(s, j, i)) => R[i] = 0
  BY TickOf
<1>6. \A k \in Nat : UpTo(k) \in Weights
  BY <1>3 DEF Weights
<1>13. \A k \in Nat, i \in Nat :
          UpTo(k)[i] = IF \E j \in 1 .. k : Covers(s, j, i) THEN R[i] ELSE 0
  OBVIOUS
<1>7. \A j \in 1 .. n :
         f[j] = seg(j).rate * Between(o, SegmentSpan(s, c, j).from, SegmentSpan(s, c, j).to)
  BY DEF Shares
<1>8. \A j \in 1 .. n, i \in Nat :
         Covers(s, j, i) <=> s.start + seg(j).from < i /\ i <= s.start + seg(j).to
  BY DEF Covers
<1> HIDE DEF R, o, f, UpTo
<1>9. 0 \in D
  <2>1. \A i \in Nat : UpTo(0)[i] = 0
    BY <1>13
  <2>2. Sum(UpTo(0), c) = 0 /\ Sum(UpTo(0), s.end) = 0
    BY <1>2, <2>1, SumNothing
  <2>3. Between(UpTo(0), c, s.end) = 0
    BY <2>2 DEF Between
  <2> QED
    BY <2>3, SumNext
<1>10. ASSUME NEW k \in Nat, k \in D PROVE k + 1 \in D
  <2> SUFFICES ASSUME k + 1 <= n PROVE Sum(f, k + 1) = Between(UpTo(k + 1), c, s.end)
    OBVIOUS
  <2> DEFINE a == s.start + seg(k + 1).from
             b == s.start + seg(k + 1).to
             v == UpTo(k + 1)
             w == UpTo(k)
             r == seg(k + 1).rate
  <2>1. k + 1 \in 1 .. n /\ a \in Nat /\ b \in Nat /\ a <= b /\ r \in Nat
    <3>1. k + 1 \in 1 .. n
      BY <1>1
    <3>2. /\ seg(k + 1).from \in Nat /\ seg(k + 1).to \in Nat
          /\ seg(k + 1).from < seg(k + 1).to /\ seg(k + 1).rate \in Nat
      BY <1>1, <3>1
    <3> HIDE DEF seg, n
    <3> QED
      BY <1>2, <3>1, <3>2
  <2>2. v \in Weights /\ w \in Weights
    BY <1>6
  <2>3. \A i \in Nat : (a < i /\ i <= b) => /\ v[i] = R[i] /\ R[i] = r * o[i]
                                            /\ w[i] = 0
    <3> SUFFICES ASSUME NEW i \in Nat, a < i, i <= b
                 PROVE  v[i] = R[i] /\ R[i] = r * o[i] /\ w[i] = 0
      OBVIOUS
    <3>1. Covers(s, k + 1, i)
      BY <1>8, <2>1
    <3>2. \A j \in 1 .. k : ~Covers(s, j, i)
      <4> SUFFICES ASSUME NEW j \in 1 .. k, Covers(s, j, i) PROVE FALSE
        OBVIOUS
      <4>1. j \in 1 .. n /\ j < k + 1
        BY <2>1
      <4>2. i <= s.start + seg(j).to /\ seg(j).to <= seg(k + 1).from /\ seg(j).to \in Nat
        BY <1>1, <1>8, <2>1, <4>1
      <4>3. seg(k + 1).from \in Nat
        BY <1>1, <2>1
      <4> HIDE DEF seg
      <4> QED
        BY <1>2, <4>2, <4>3
    <3>3. w[i] = 0
      BY <1>13, <3>2
    <3>4. v[i] = R[i]
      BY <1>13, <3>1
    <3>5. R[i] = r * o[i]
      BY <1>4, <2>1, <3>1
    <3> QED
      BY <3>3, <3>4, <3>5
  <2>4. \A i \in Nat : ~(a < i /\ i <= b) => v[i] = w[i]
    <3> SUFFICES ASSUME NEW i \in Nat, ~(a < i /\ i <= b) PROVE v[i] = w[i]
      OBVIOUS
    <3>1. ~Covers(s, k + 1, i)
      BY <1>8, <2>1
    <3>2. (\E j \in 1 .. k + 1 : Covers(s, j, i)) <=> (\E j \in 1 .. k : Covers(s, j, i))
      BY <3>1
    <3> QED
      BY <1>13, <3>2
  <2> HIDE DEF v, w
  <2>5. Outside(v, a, b) = w
    <3>1. \A i \in Nat : Outside(v, a, b)[i] = w[i]
      BY <2>3, <2>4 DEF Outside
    <3>2. Outside(v, a, b) \in Weights
      BY <2>2, InsideWeights
    <3> HIDE DEF a, b
    <3> QED
      BY <2>2, <3>1, <3>2 DEF Weights
  <2>6. \A i \in Nat : Inside(v, a, b)[i] = r * Inside(o, a, b)[i]
    <3> SUFFICES ASSUME NEW i \in Nat PROVE Inside(v, a, b)[i] = r * Inside(o, a, b)[i]
      OBVIOUS
    <3>1. CASE a < i /\ i <= b
      BY <2>3, <3>1 DEF Inside
    <3>2. CASE ~(a < i /\ i <= b)
      <4>1. Inside(v, a, b)[i] = 0 /\ Inside(o, a, b)[i] = 0
        BY <3>2 DEF Inside
      <4> QED
        BY <2>1, <4>1
    <3> QED
      BY <3>1, <3>2
  <2> HIDE DEF r
  <2>7. Between(Inside(v, a, b), c, s.end) = r * Between(Inside(o, a, b), c, s.end)
    <3>1. Inside(v, a, b) \in Weights /\ Inside(o, a, b) \in Weights
      BY <1>3, <2>2, InsideWeights
    <3> HIDE DEF a, b
    <3> QED
      BY <1>2, <2>1, <2>6, <3>1, BetweenTimes
  <2>8. Between(Inside(o, a, b), c, s.end) = Between(o, Greater(a, c), Lesser(b, s.end))
    BY <1>2, <1>3, <2>1, InsideBetween
  <2>9. /\ SegmentSpan(s, c, k + 1).from = Greater(a, c)
        /\ SegmentSpan(s, c, k + 1).to = Lesser(b, s.end)
    BY <2>1 DEF SegmentSpan, Greater
  <2>10. Between(v, c, s.end) = Between(w, c, s.end) + f[k + 1]
    <3>1. Between(v, c, s.end)
            = Between(Outside(v, a, b), c, s.end) + Between(Inside(v, a, b), c, s.end)
      BY <1>2, <2>2, OutsideBetween
    <3>2. f[k + 1] = r * Between(o, Greater(a, c), Lesser(b, s.end))
      BY <1>7, <2>1, <2>9 DEF r
    <3> HIDE DEF a, b
    <3>3. f[k + 1] = Between(Inside(v, a, b), c, s.end)
      BY <2>7, <2>8, <3>2
    <3> QED
      BY <2>5, <3>1, <3>3
  <2>11. Sum(f, k + 1) = Sum(f, k) + f[k + 1]
    BY SumNext
  <2>12. Sum(f, k) = Between(w, c, s.end)
    <3>1. k <= n
      BY <1>1
    <3> QED
      BY <1>10, <3>1 DEF w
  <2> QED
    BY <2>10, <2>11, <2>12 DEF v
<1>11. n \in D
  <2> HIDE DEF D
  <2> QED
    BY <1>1, <1>9, <1>10, NaturalsBySteps
<1>12. UpTo(n) = R
  <2>1. \A i \in Nat : UpTo(n)[i] = R[i]
    BY <1>1, <1>5, <1>13
  <2>2. UpTo(n) \in Weights
    BY <1>1, <1>6
  <2> QED
    BY <1>3, <2>1, <2>2 DEF Weights
<1>14. Sum(f, n) = Between(R, c, s.end)
  BY <1>1, <1>11, <1>12
<1> QED
  BY <1>14 DEF R, f

-----------------------------------------------------------------------------
(***************************************************************************)
(* Every tick once: bytes that remain.                                     *)
(***************************************************************************)

\* Every tick counts one.
One == [i \in Nat |-> 1]

\* The units of every tick of a session.
Rates(s) == RatesOf(One, s)

\* A tick counts one, so an interval counts its length.
LEMMA OneCounts ==
    /\ One \in Weights
    /\ \A a, b \in Nat : Between(One, a, b) = IF a < b THEN b - a ELSE 0
<1>1. One \in Weights /\ \A i \in Nat : One[i] = 1
  BY DEF One, Weights
<1>2. \A n \in Nat : Sum(One, n) = n
  <2> DEFINE D == {k \in Nat : Sum(One, k) = k}
  <2>1. 0 \in D
    BY SumNext
  <2>2. ASSUME NEW k \in Nat, k \in D PROVE k + 1 \in D
    <3>1. Sum(One, k + 1) = Sum(One, k) + One[k + 1] /\ One[k + 1] = 1
      BY <1>1, SumNext
    <3> QED
      BY <2>2, <3>1
  <2> HIDE DEF D
  <2>3. \A k \in Nat : k \in D
    BY <2>1, <2>2, NaturalsBySteps
  <2> QED
    BY <2>3 DEF D
<1> QED
  BY <1>1, <1>2 DEF Between

\* The units of the pieces left of a session, by piece and in all.
LEMMA UnitsLeft ==
    ASSUME NEW s, SessionShape(s), NEW c \in Nat
    PROVE  LET A == ActivePieces(s, c)
           IN  /\ Len(A) \in Nat /\ DOMAIN A = 1 .. Len(A)
               /\ \A i \in 1 .. Len(A) : /\ A[i] \in RestOf(s, c) /\ UnitsOf(A)[i] \in Nat
                                         /\ UnitsOf(A)[i] = PieceUnits(A[i])
               /\ Sum(UnitsOf(A), Len(A)) = Between(Rates(s), c, s.end)
<1> DEFINE A == ActivePieces(s, c)
           units == UnitsOf(A)
<1>1. A \in Seqs(RestOf(s, c))
  BY ActiveOf
<1>2. One \in Weights /\ \A a, b \in Nat : Between(One, a, b) = IF a < b THEN b - a ELSE 0
  BY OneCounts
<1>3. SeqSum(A, Carried(One)) = Between(Rates(s), c, s.end)
  BY <1>2, ActiveOf, SharesSum DEF Rates
<1> HIDE DEF A
<1>4. PICK n \in Nat : n = Len(A) /\ DOMAIN A = 1 .. n
  BY <1>1, SeqElements
<1>5. \A i \in 1 .. n : A[i] \in RestOf(s, c) /\ A[i] \in Pieces
  BY <1>1, <1>4, SeqElements DEF RestOf
<1>6. \A i \in 1 .. n : units[i] = PieceUnits(A[i])
  BY <1>4 DEF UnitsOf
<1> HIDE DEF units
<1>7. /\ Carried(One) \in [Pieces -> Int]
      /\ \A p \in Pieces : Carried(One)[p] = p.rate * Between(One, p.from, p.to)
  BY <1>2, CarriedType
<1>8. \A p \in Pieces : PieceUnits(p) = Carried(One)[p] /\ PieceUnits(p) \in Nat
  <2> TAKE p \in Pieces
  <2>1. p.from \in Nat /\ p.to \in Nat /\ p.rate \in Nat
    BY DEF Pieces
  <2>2. CASE p.from < p.to
    BY <1>2, <1>7, <2>1, <2>2 DEF PieceUnits
  <2>3. CASE ~(p.from < p.to)
    BY <1>2, <1>7, <2>1, <2>3 DEF PieceUnits
  <2> QED
    BY <2>2, <2>3
<1>9. A \in Seqs(Pieces)
  <2>1. RestOf(s, c) \subseteq Pieces
    BY DEF RestOf
  <2> QED
    BY <1>1, <2>1, SeqsGrow
<1>10. PICK f : /\ SeqSum(A, Carried(One)) = Sum(f, Len(A))
                /\ \A i \in 1 .. Len(A) : f[i] = Carried(One)[A[i]] /\ f[i] \in Int
  BY <1>7, <1>9, SeqSumValues
<1>11. Sum(units, n) = Sum(f, n)
  <2>1. \A i \in 1 .. n : units[i] = f[i]
    BY <1>4, <1>5, <1>6, <1>8, <1>10
  <2> QED
    BY <2>1, SumSame
<1>12. \A i \in 1 .. n : units[i] \in Nat
  BY <1>5, <1>6, <1>8
<1> QED
  BY <1>3, <1>4, <1>5, <1>6, <1>10, <1>11, <1>12 DEF A, units

\* What a plan whose rate is known leaves of a session is what its ticks carry.
LEMMA RemainingIs ==
    ASSUME NEW s, SessionShape(s), ~s.plan.fixed, NEW c \in Nat
    PROVE  /\ RateBytesRemaining(s, c) = Between(Rates(s), c, s.end) \div UnitsPerByte
           /\ Between(Rates(s), c, s.end) \in Nat
           /\ RateBytesRemaining(s, c) \in Nat
<1>1. RateBytesRemaining(s, c) = Between(Rates(s), c, s.end) \div UnitsPerByte
  BY UnitsLeft DEF RateBytesRemaining
<1>2. Between(Rates(s), c, s.end) \in Nat
  BY RatesWeights, OneCounts, BetweenNat DEF Rates, SessionShape
<1> QED
  BY <1>1, <1>2, UnitsPerByteAssumption

\* The reference walks the same ticks.
LEMMA UnitsAreTicks ==
    ASSUME NEW s, SessionShape(s), NEW a \in Nat, NEW b \in Nat, a <= b
    PROVE  UnitsBetween(s.plan, s.start, a, b) = Between(Rates(s), a, b)
<1> DEFINE R == Rates(s)
           k == b - a
           g == [i \in 1 .. b - a |-> TickRate(s.plan, s.start, a + i - 1)]
<1>1. R \in Weights
  BY RatesWeights, OneCounts DEF Rates
<1>2. \A i \in Nat : R[i] = TickRate(s.plan, s.start, i - 1) * 1
  BY OneCounts DEF Rates, RatesOf, One
<1>3. UnitsBetween(s.plan, s.start, a, b) = Sum(g, k)
  BY DEF UnitsBetween
<1>4. \A i \in 1 .. k : g[i] = TickRate(s.plan, s.start, (a + i) - 1)
  OBVIOUS
<1> HIDE DEF R, g
<1>5. \A i \in Nat : i > 0 => R[i] = TickRate(s.plan, s.start, i - 1)
  <2> SUFFICES ASSUME NEW i \in Nat, i > 0 PROVE R[i] = TickRate(s.plan, s.start, i - 1)
    OBVIOUS
  <2> DEFINE x == TickRate(s.plan, s.start, i - 1)
  <2>1. x \in Int
    <3>1. \A j \in 1 .. Len(s.plan.segments) : s.plan.segments[j].rate \in Nat
      BY PlanParts
    <3>2. DOMAIN s.plan.segments = 1 .. Len(s.plan.segments)
      BY PlanParts
    <3> DEFINE in == {j \in DOMAIN s.plan.segments :
                        /\ s.plan.segments[j].from <= (i - 1) - s.start
                        /\ (i - 1) - s.start < s.plan.segments[j].to}
    <3>3. in = {} \/ (CHOOSE j \in in : TRUE) \in in
      OBVIOUS
    <3>4. x = IF in = {} \/ InReserve(s.plan, (i - 1) - s.start)
              THEN 0 ELSE s.plan.segments[CHOOSE j \in in : TRUE].rate
      BY DEF TickRate
    <3>5. in \subseteq 1 .. Len(s.plan.segments)
      BY <3>2
    <3> HIDE DEF in, x
    <3> QED
      BY <3>1, <3>3, <3>4, <3>5
  <2>2. R[i] = x * 1
    BY <1>2
  <2> HIDE DEF x
  <2> QED
    BY <2>1, <2>2 DEF x
<1>6. Follow(R, a, g, k, R)
  <2>1. \A i \in 1 .. a : R[i] \in Int /\ R[i] = R[i]
    BY <1>1 DEF Weights
  <2>2. \A i \in 1 .. k : g[i] \in Int /\ R[a + i] = g[i]
    <3> TAKE i \in 1 .. k
    <3>1. a + i \in Nat /\ a + i > 0
      OBVIOUS
    <3>2. R[a + i] = g[i] /\ R[a + i] \in Nat
      BY <1>1, <1>4, <1>5, <3>1 DEF Weights
    <3> QED
      BY <3>2
  <2> QED
    BY <2>1, <2>2 DEF Follow
<1>7. Sum(R, a + k) = Sum(R, a) + Sum(g, k)
  BY <1>6, SumConcat
<1>8. Sum(R, a) \in Nat /\ Sum(R, b) \in Nat /\ a + k = b
  BY <1>1, SumNat DEF Weights
<1>9. Sum(g, k) \in Int
  <2>1. \A i \in 1 .. k : g[i] \in Int
    BY <1>6 DEF Follow
  <2> QED
    BY <2>1, SumType
<1>10. CASE a < b
  BY <1>3, <1>7, <1>8, <1>9, <1>10 DEF Between, R
<1>11. CASE a = b
  <2>1. Sum(g, 0) = 0
    BY SumNext
  <2> QED
    BY <1>3, <1>11, <2>1 DEF Between
<1> QED
  BY <1>10, <1>11

-----------------------------------------------------------------------------
(***************************************************************************)
(* Where a grant ends.                                                     *)
(***************************************************************************)

\* Multiples of a positive factor are in the order of what is multiplied.
LEMMA FactorOrder ==
    ASSUME NEW d \in Nat \ {0}, NEW q \in Nat, NEW m \in Nat
    PROVE  (d * q <= d * m => q <= m) /\ (d * q < d * m => q < m)
<1>1. ASSUME m < q PROVE d * m < d * q
  <2>1. q = m + (q - m) /\ q - m \in Nat \ {0}
    BY <1>1
  <2>2. d * (m + (q - m)) = d * m + d * (q - m)
    OBVIOUS
  <2>3. d * (q - m) > 0 /\ d * (q - m) \in Nat
    BY <2>1
  <2>4. d * m \in Nat
    OBVIOUS
  <2> QED
    BY <2>1, <2>2, <2>3, <2>4
<1>2. d * m \in Nat /\ d * q \in Nat
  OBVIOUS
<1>3. q = m => d * q = d * m
  OBVIOUS
<1> QED
  BY <1>1, <1>2, <1>3

\* A rounded quotient is off by a half at most, and no more than a whole number above.
LEMMA RoundsToNearest ==
    ASSUME NEW num \in Nat, NEW den \in Nat \ {0}, NEW m \in Nat, num <= den * m
    PROVE  /\ RoundHalfEven(num, den) \in Nat /\ RoundHalfEven(num, den) <= m
           /\ 2 * num <= 2 * (den * RoundHalfEven(num, den)) + den
<1> DEFINE q == num \div den
           x == num % den
           r == RoundHalfEven(num, den)
<1>1. q \in Nat /\ x \in 0 .. den - 1 /\ num = den * q + x
  BY Division
<1>2. r = IF 2 * x < den \/ (2 * x = den /\ q % 2 = 0) THEN q ELSE q + 1
  BY DEF RoundHalfEven
<1> HIDE DEF q, x, r
<1>3. den * q \in Nat /\ den * (q + 1) = den * q + den
  BY <1>1
<1>4. CASE r = q /\ 2 * x <= den
  <2>1. den * q <= den * m
    BY <1>1, <1>3
  <2>2. q <= m
    BY <1>1, <2>1, FactorOrder
  <2>3. 2 * num = 2 * (den * q) + 2 * x
    BY <1>1, <1>3
  <2>4. 2 * num <= 2 * (den * q) + den
    BY <1>1, <1>3, <1>4, <2>3
  <2> QED
    BY <1>1, <1>4, <2>2, <2>4 DEF r
<1>5. CASE r = q + 1 /\ 2 * x >= den
  <2>1. x > 0
    BY <1>1, <1>5
  <2>2. den * q < den * m
    BY <1>1, <1>3, <2>1
  <2>3. q < m
    BY <1>1, <2>2, FactorOrder
  <2>4. 2 * num = 2 * (den * q) + 2 * x
    BY <1>1, <1>3
  <2>5. 2 * num <= 2 * (den * (q + 1)) + den
    BY <1>1, <1>3, <2>4
  <2> QED
    BY <1>1, <1>5, <2>3, <2>5 DEF r
<1>6. 2 * x \in Int
  BY <1>1
<1> QED
  BY <1>1, <1>2, <1>4, <1>5, <1>6

\* The pieces by whose end a number of units is carried, and the first of them.
Enough(f, D, needed) == {i \in D : f[i] > 0 /\ needed <= Sum(f, i)}

First(S) == CHOOSE i \in S : \A j \in S : i <= j

\* The piece in which a number of units is reached is the first by whose end that
\* many are carried: fewer are carried before it.
LEMMA PieceReached ==
    ASSUME NEW f, NEW n \in Nat, \A i \in 1 .. n : f[i] \in Nat,
           NEW needed \in Nat \ {0}, needed <= Sum(f, n)
    PROVE  LET enough == Enough(f, 1 .. n, needed)
               last   == First(enough)
           IN  /\ enough # {} /\ last \in 1 .. n /\ f[last] > 0
               /\ Sum(f, last - 1) \in Nat /\ Sum(f, last) = Sum(f, last - 1) + f[last]
               /\ Sum(f, last - 1) < needed /\ needed <= Sum(f, last)
<1> DEFINE enough == Enough(f, 1 .. n, needed)
           last   == First(enough)
           S == {i \in 0 .. n : needed <= Sum(f, i)}
<1>1. PICK k \in S : \A i \in S : k <= i
  <2>1. n \in S /\ S \subseteq Nat
    OBVIOUS
  <2> HIDE DEF S
  <2> QED
    BY <2>1, LeastNatural
<1>2. Sum(f, 0) = 0 /\ \A i \in Nat : Sum(f, i + 1) = Sum(f, i) + f[i + 1]
  BY SumNext
<1>3. k \in 1 .. n
  BY <1>1, <1>2
<1>4. /\ Sum(f, k) = Sum(f, k - 1) + f[k] /\ f[k] \in Nat
      /\ Sum(f, k - 1) \in Nat
  <2>1. k - 1 \in Nat /\ (k - 1) + 1 = k
    BY <1>3
  <2>2. Sum(f, k - 1) \in Nat
    BY <1>3, <2>1, SumNat
  <2>3. Sum(f, (k - 1) + 1) = Sum(f, k - 1) + f[(k - 1) + 1]
    BY <1>2, <2>1
  <2> QED
    BY <1>3, <2>1, <2>2, <2>3
<1>5. Sum(f, k - 1) < needed
  <2>1. k - 1 \notin S
    BY <1>1, <1>3
  <2>2. k - 1 \in 0 .. n
    BY <1>3
  <2> QED
    BY <1>4, <2>1, <2>2
<1>6. k \in enough
  BY <1>1, <1>3, <1>4, <1>5 DEF Enough
<1>7. \A i \in enough : k <= i
  BY <1>1 DEF Enough
<1>8. last = k
  <2>1. last \in enough /\ \A j \in enough : last <= j
    <3> HIDE DEF enough
    <3> QED
      BY <1>6, <1>7 DEF First
  <2>2. enough \subseteq Nat
    BY DEF Enough
  <2> HIDE DEF enough, last
  <2> QED
    BY <1>6, <1>7, <2>1, <2>2
<1>9. f[k] > 0 /\ needed <= Sum(f, k)
  BY <1>6 DEF Enough
<1> HIDE DEF enough, last
<1> QED
  BY <1>3, <1>4, <1>5, <1>6, <1>8, <1>9 DEF enough, last

\* The ticks up to an instant carry what the ticks of that interval do.
LEMMA RatesUpTo ==
    ASSUME NEW s, SessionShape(s), NEW c \in Nat, NEW at \in Nat, at <= s.end
    PROVE  /\ Inside(One, 0, at) \in Weights
           /\ Between(RatesOf(Inside(One, 0, at), s), c, s.end) = Between(Rates(s), c, at)
<1> DEFINE w == Inside(One, 0, at)
<1>1. One \in Weights /\ w \in Weights
  BY OneCounts, InsideWeights
<1>2. Rates(s) \in Weights /\ RatesOf(w, s) \in Weights
  BY <1>1, RatesWeights DEF Rates
<1>3. s.end \in Nat /\ s.start \in Nat
  BY DEF SessionShape
<1>4. \A i \in Nat : TickRate(s.plan, s.start, i - 1) * 1 \in Nat
  BY <1>2, OneCounts DEF Rates, RatesOf, One, Weights
<1>5. \A i \in Nat : i > 0 => RatesOf(w, s)[i] = Inside(Rates(s), 0, at)[i]
  <2> SUFFICES ASSUME NEW i \in Nat, i > 0
               PROVE  RatesOf(w, s)[i] = Inside(Rates(s), 0, at)[i]
    OBVIOUS
  <2> DEFINE x == TickRate(s.plan, s.start, i - 1)
  <2>1. RatesOf(w, s)[i] = x * w[i] /\ Rates(s)[i] = x * One[i] /\ One[i] = 1
    BY DEF RatesOf, Rates, One
  <2>2. RatesOf(w, s)[i] \in Nat
    BY <1>2 DEF Weights
  <2>3. CASE i <= at
    <3>1. w[i] = One[i]
      BY <2>3 DEF Inside
    <3>2. Inside(Rates(s), 0, at)[i] = Rates(s)[i]
      BY <2>3 DEF Inside
    <3> QED
      BY <2>1, <3>1, <3>2
  <2>4. CASE ~(i <= at)
    <3>1. w[i] = 0
      BY <2>4 DEF Inside
    <3>2. Inside(Rates(s), 0, at)[i] = 0
      BY <2>4 DEF Inside
    <3>3. RatesOf(w, s)[i] = 0
      <4>1. CASE \E j \in 1 .. Len(s.plan.segments) : Covers(s, j, i)
        <5>1. PICK j \in 1 .. Len(s.plan.segments) : Covers(s, j, i)
          BY <4>1
        <5>2. RatesOf(w, s)[i] = s.plan.segments[j].rate * FreeOf(w, s)[i]
          BY <1>1, <5>1, TickOf
        <5>3. FreeOf(w, s)[i] = 0
          BY <3>1 DEF FreeOf, Free
        <5>4. s.plan.segments[j].rate \in Nat
          BY PlanParts
        <5> QED
          BY <5>2, <5>3, <5>4
      <4>2. CASE ~ \E j \in 1 .. Len(s.plan.segments) : Covers(s, j, i)
        BY <1>1, <4>2, TickOf
      <4> QED
        BY <4>1, <4>2
    <3> QED
      BY <3>2, <3>3
  <2> QED
    BY <2>3, <2>4
<1> DEFINE v == RatesOf(w, s)
           x == Inside(Rates(s), 0, at)
<1>6. v \in Weights /\ x \in Weights
  BY <1>2, InsideWeights
<1>7. \A i \in Nat : i > 0 => v[i] = x[i]
  BY <1>5
<1> HIDE DEF v, x
<1>8. Between(v, c, s.end) = Between(x, c, s.end)
  <2>1. \A b \in Nat : Sum(v, b) = Sum(x, b)
    <3> TAKE b \in Nat
    <3>1. \A i \in 1 .. b : v[i] = x[i]
      BY <1>7
    <3> QED
      BY <3>1, SumSame
  <2> QED
    BY <1>3, <2>1 DEF Between
<1>9. Between(x, c, s.end) = Between(Rates(s), Greater(0, c), Lesser(at, s.end))
  BY <1>2, <1>3, InsideBetween DEF x
<1>10. Greater(0, c) = c /\ Lesser(at, s.end) = at
  BY <1>3 DEF Greater, Lesser
<1> QED
  BY <1>1, <1>8, <1>9, <1>10 DEF v

\* By an instant inside a piece, the pieces before it and the part of it that is over
\* have been carried.
LEMMA CarriedBy ==
    ASSUME NEW s, SessionShape(s), NEW c \in Nat,
           NEW k \in 1 .. Len(ActivePieces(s, c)),
           UnitsOf(ActivePieces(s, c))[k] > 0,
           NEW at \in Nat, ActivePieces(s, c)[k].from <= at, at <= ActivePieces(s, c)[k].to
    PROVE  Sum(UnitsOf(ActivePieces(s, c)), k - 1)
             + ActivePieces(s, c)[k].rate * (at - ActivePieces(s, c)[k].from)
             <= Between(Rates(s), c, at)
<1> DEFINE A == ActivePieces(s, c)
           units == UnitsOf(A)
           w == Inside(One, 0, at)
           n == Len(A)
           p == A[k]
<1>1. /\ n \in Nat /\ DOMAIN A = 1 .. n
      /\ \A i \in 1 .. n : A[i] \in RestOf(s, c) /\ units[i] \in Nat /\ units[i] = PieceUnits(A[i])
  BY UnitsLeft
<1>2. A \in Seqs(RestOf(s, c)) /\ OrderedBy(A, PieceAfter)
  BY ActiveOf
<1>3. k \in 1 .. n /\ units[k] > 0 /\ p.from <= at /\ at <= p.to
  OBVIOUS
<1>4. s.end \in Nat
  BY DEF SessionShape
<1>5. One \in Weights /\ \A a, b \in Nat : Between(One, a, b) = IF a < b THEN b - a ELSE 0
  BY OneCounts
<1>6. w \in Weights
  BY <1>5, InsideWeights
<1>7. SeqSum(A, Carried(w)) = Between(RatesOf(w, s), c, s.end)
  BY <1>6, ActiveOf, SharesSum
<1> HIDE DEF A
<1>8. \A i \in 1 .. n : /\ A[i] \in Pieces
                        /\ A[i].from \in Nat /\ A[i].to \in Nat /\ A[i].rate \in Nat
                        /\ (A[i].from < A[i].to => A[i].to <= s.end)
  BY <1>1 DEF RestOf, Pieces
<1>9. p.from < p.to
  BY <1>1, <1>3 DEF PieceUnits
<1>10. at <= s.end
  BY <1>3, <1>4, <1>8, <1>9
<1>11. SeqSum(A, Carried(w)) = Between(Rates(s), c, at)
  BY <1>7, <1>10, RatesUpTo
<1>12. /\ Carried(w) \in [Pieces -> Int]
       /\ \A x \in Pieces : Carried(w)[x] = x.rate * Between(w, x.from, x.to)
  BY <1>6, CarriedType
<1>13. A \in Seqs(Pieces)
  <2>1. RestOf(s, c) \subseteq Pieces
    BY DEF RestOf
  <2> QED
    BY <1>2, <2>1, SeqsGrow
<1>14. PICK h : /\ SeqSum(A, Carried(w)) = Sum(h, n)
                /\ \A i \in 1 .. n : h[i] = Carried(w)[A[i]] /\ h[i] \in Int
  BY <1>12, <1>13, SeqSumValues
<1>15. \A x \in Pieces : x.from \in Nat /\ x.to \in Nat /\ x.rate \in Nat
  BY DEF Pieces
<1>16. ASSUME NEW x \in Pieces
       PROVE  Between(w, x.from, x.to) = Between(One, x.from, Lesser(at, x.to))
  <2>1. Between(w, x.from, x.to) = Between(One, Greater(0, x.from), Lesser(at, x.to))
    <3>1. One \in Weights /\ 0 \in Nat /\ 0 <= at /\ x.from \in Nat /\ x.to \in Nat
      BY <1>5, <1>15
    <3> QED
      BY <3>1, InsideBetween
  <2>2. Greater(0, x.from) = x.from
    BY <1>15 DEF Greater
  <2> QED
    BY <2>1, <2>2
<1>17. \A i \in 1 .. n : h[i] \in Nat
  <2> TAKE i \in 1 .. n
  <2>1. Between(w, A[i].from, A[i].to) \in Nat
    BY <1>6, <1>8, BetweenNat
  <2>2. h[i] = A[i].rate * Between(w, A[i].from, A[i].to)
    BY <1>8, <1>12, <1>14
  <2> QED
    BY <1>8, <2>1, <2>2
<1>18. \A i \in 1 .. k - 1 : h[i] = units[i]
  <2> SUFFICES ASSUME NEW i \in 1 .. k - 1 PROVE h[i] = units[i]
    OBVIOUS
  <2>1. i \in 1 .. n /\ i < k
    BY <1>1, <1>3
  <2> DEFINE x == A[i]
  <2>2. x \in Pieces /\ x.from \in Nat /\ x.to \in Nat /\ x.rate \in Nat
    BY <1>8, <2>1
  <2>3. h[i] = x.rate * Between(One, x.from, Lesser(at, x.to)) /\ units[i] = PieceUnits(x)
    BY <1>1, <1>12, <1>14, <1>16, <2>1, <2>2
  <2>4. <<x, p>> \in PieceAfter
    BY <1>2, <1>3, <2>1 DEF OrderedBy
  <2>5. x.from < x.to => x.to <= p.from
    BY <1>9, <2>4 DEF PieceAfter
  <2>6. p.from \in Nat
    BY <1>3, <1>8
  <2> HIDE DEF x, p, w, units
  <2>7. Lesser(at, x.to) \in Nat
    BY <2>2 DEF Lesser
  <2>8. CASE x.from < x.to
    <3>1. Lesser(at, x.to) = x.to
      BY <1>3, <2>2, <2>5, <2>6, <2>8 DEF Lesser
    <3> QED
      BY <1>5, <2>2, <2>3, <2>8, <3>1 DEF PieceUnits
  <2>9. CASE ~(x.from < x.to)
    <3>1. ~(x.from < Lesser(at, x.to))
      BY <2>2, <2>9 DEF Lesser
    <3>2. Between(One, x.from, Lesser(at, x.to)) = 0
      BY <3>1 DEF Between
    <3> QED
      BY <2>2, <2>3, <2>9, <3>2 DEF PieceUnits
  <2> QED
    BY <2>8, <2>9
<1>19. h[k] = p.rate * (at - p.from)
  <2>1. p \in Pieces /\ p.from \in Nat /\ p.to \in Nat /\ p.rate \in Nat
    BY <1>3, <1>8
  <2>2. h[k] = p.rate * Between(One, p.from, Lesser(at, p.to))
    BY <1>3, <1>12, <1>14, <1>16, <2>1
  <2> HIDE DEF p, w, units
  <2>3. Lesser(at, p.to) = at
    BY <1>3, <2>1 DEF Lesser
  <2>4. Between(One, p.from, at) = at - p.from
    BY <1>3, <1>5, <2>1
  <2> QED
    BY <2>2, <2>3, <2>4
<1>20. Sum(h, k) = Sum(units, k - 1) + h[k]
  <2>1. k - 1 \in Nat /\ (k - 1) + 1 = k
    BY <1>3
  <2>2. Sum(h, (k - 1) + 1) = Sum(h, k - 1) + h[(k - 1) + 1]
    BY <2>1, SumNext
  <2>3. Sum(h, k - 1) = Sum(units, k - 1)
    BY <1>18, <2>1, SumSame
  <2> QED
    BY <2>1, <2>2, <2>3
<1>21. Sum(h, k) <= Sum(h, n)
  BY <1>1, <1>3, <1>17, SumGrows
<1>22. Sum(units, k - 1) + p.rate * (at - p.from) <= Between(Rates(s), c, at)
  BY <1>11, <1>14, <1>19, <1>20, <1>21
<1> QED
  BY <1>22 DEF A

\* The bytes that remain are carried by whole units.
LEMMA BytesAreUnits ==
    ASSUME NEW n \in Nat, NEW b \in Nat, n <= b \div UnitsPerByte
    PROVE  n * UnitsPerByte \in Nat /\ n * UnitsPerByte <= b
<1> DEFINE d == UnitsPerByte
           q == b \div d
<1>1. d \in Nat \ {0}
  BY UnitsPerByteAssumption
<1>2. q \in Nat /\ b % d \in 0 .. d - 1 /\ b = d * q + (b % d)
  BY <1>1, Division
<1>3. n <= q
  OBVIOUS
<1> HIDE DEF q, d
<1>4. q = n + (q - n) /\ q - n \in Nat
  BY <1>2, <1>3
<1>5. d * (n + (q - n)) = d * n + d * (q - n) /\ d * n = n * d
  BY <1>1, <1>2, <1>4
<1>6. d * (q - n) \in Nat /\ d * n \in Nat
  BY <1>1, <1>4
<1>7. n * d \in Nat /\ n * d <= b
  BY <1>2, <1>4, <1>5, <1>6
<1> QED
  BY <1>7 DEF d

\* A grant of bytes that remain ends in the session, and by then the link has carried
\* all of it but half a tick of one of the session's rates.
LEMMA GrantEnds ==
    ASSUME NEW s, SessionShape(s), ~s.plan.fixed, NEW c \in Nat,
           NEW n \in Nat \ {0}, n <= RateBytesRemaining(s, c)
    PROVE  /\ AllocationEnd(s, c, n) \in Nat
           /\ c <= AllocationEnd(s, c, n) /\ AllocationEnd(s, c, n) <= s.end
           /\ \E j \in 1 .. Len(s.plan.segments) :
                 2 * (n * UnitsPerByte)
                   <= 2 * Between(Rates(s), c, AllocationEnd(s, c, n)) + s.plan.segments[j].rate
<1> DEFINE A == ActivePieces(s, c)
           units == UnitsOf(A)
           L == Len(A)
           needed == n * UnitsPerByte
           enough == Enough(units, DOMAIN A, needed)
           k == First(enough)
           rest == needed - Sum(units, k - 1)
           at == AllocationEnd(s, c, n)
<1>1. /\ L \in Nat /\ DOMAIN A = 1 .. L
      /\ \A i \in 1 .. L : A[i] \in RestOf(s, c) /\ units[i] \in Nat /\ units[i] = PieceUnits(A[i])
      /\ Sum(units, L) = Between(Rates(s), c, s.end)
  BY UnitsLeft
<1>2. s.end \in Nat
  BY DEF SessionShape
<1>3. needed \in Nat \ {0} /\ needed <= Sum(units, L)
  <2>1. /\ RateBytesRemaining(s, c) = Between(Rates(s), c, s.end) \div UnitsPerByte
        /\ Between(Rates(s), c, s.end) \in Nat
    BY RemainingIs
  <2>2. n * UnitsPerByte \in Nat /\ n * UnitsPerByte <= Between(Rates(s), c, s.end)
    BY <2>1, BytesAreUnits
  <2>3. n * UnitsPerByte # 0
    BY UnitsPerByteAssumption
  <2> QED
    BY <1>1, <2>2, <2>3
<1>4. at = IF s.plan.fixed \/ enough = {} THEN s.end
           ELSE Lesser(A[k].from + RoundHalfEven(rest, A[k].rate), s.end)
  BY DEF AllocationEnd, Enough, First
<1> HIDE DEF A, L, needed, units, at
<1>5. enough = Enough(units, 1 .. L, needed)
  BY <1>1
<1>6. /\ enough # {} /\ k \in 1 .. L /\ units[k] > 0
      /\ Sum(units, k - 1) \in Nat /\ Sum(units, k) = Sum(units, k - 1) + units[k]
      /\ Sum(units, k - 1) < needed /\ needed <= Sum(units, k)
  <2>1. \A i \in 1 .. L : units[i] \in Nat
    BY <1>1
  <2>2. /\ Enough(units, 1 .. L, needed) # {}
        /\ First(Enough(units, 1 .. L, needed)) \in 1 .. L
        /\ units[First(Enough(units, 1 .. L, needed))] > 0
        /\ Sum(units, First(Enough(units, 1 .. L, needed)) - 1) \in Nat
        /\ Sum(units, First(Enough(units, 1 .. L, needed)))
             = Sum(units, First(Enough(units, 1 .. L, needed)) - 1)
               + units[First(Enough(units, 1 .. L, needed))]
        /\ Sum(units, First(Enough(units, 1 .. L, needed)) - 1) < needed
        /\ needed <= Sum(units, First(Enough(units, 1 .. L, needed)))
    BY <1>1, <1>3, <2>1, PieceReached
  <2>3. k = First(Enough(units, 1 .. L, needed))
    BY <1>5
  <2> HIDE DEF k
  <2> QED
    BY <1>5, <2>2, <2>3
<1> HIDE DEF enough, k
<1> DEFINE p == A[k]
           r == RoundHalfEven(rest, p.rate)
<1>7. /\ p \in RestOf(s, c) /\ units[k] = PieceUnits(p)
      /\ p.from \in Nat /\ p.to \in Nat /\ p.rate \in Nat
  BY <1>1, <1>6 DEF RestOf, Pieces
<1>8. p.from < p.to /\ units[k] = p.rate * (p.to - p.from)
  BY <1>6, <1>7 DEF PieceUnits
<1>9. /\ c <= p.from /\ p.to <= s.end
      /\ \E j \in 1 .. Len(s.plan.segments) : p.rate = s.plan.segments[j].rate
  BY <1>7, <1>8 DEF RestOf
<1>10. p.rate # 0
  <2>1. CASE p.rate = 0
    <3>1. units[k] = 0 * (p.to - p.from)
      BY <1>8, <2>1
    <3> QED
      BY <1>6, <1>7, <3>1
  <2> QED
    BY <2>1
<1>11. rest \in Nat /\ rest <= p.rate * (p.to - p.from)
  <2>1. units[k] \in Nat
    BY <1>1, <1>6
  <2>2. rest \in Nat /\ rest <= units[k]
    BY <1>3, <1>6, <2>1
  <2> QED
    BY <1>8, <2>2
<1>12. r \in Nat /\ r <= p.to - p.from /\ 2 * rest <= 2 * (p.rate * r) + p.rate
  <2>1. p.to - p.from \in Nat /\ p.rate \in Nat \ {0}
    BY <1>7, <1>8, <1>10
  <2> HIDE DEF p, rest
  <2> QED
    BY <1>11, <2>1, RoundsToNearest
<1>13. at = Lesser(p.from + r, s.end)
  BY <1>4, <1>6
<1> HIDE DEF r, rest, p
<1>14. at = p.from + r /\ at \in Nat /\ p.from <= at /\ at <= p.to /\ at - p.from = r
  <2>1. /\ p.from \in Nat /\ p.to \in Nat /\ r \in Nat /\ r <= p.to - p.from
        /\ p.to <= s.end
    BY <1>7, <1>9, <1>12
  <2>2. p.from + r <= p.to /\ p.from + r \in Nat
    BY <2>1
  <2>3. p.from + r <= s.end
    BY <1>2, <2>1, <2>2
  <2>4. at = p.from + r
    BY <1>13, <2>3 DEF Lesser
  <2> QED
    BY <2>1, <2>2, <2>4
<1>15. Sum(units, k - 1) + p.rate * r <= Between(Rates(s), c, at)
  <2>1. /\ k \in 1 .. Len(ActivePieces(s, c)) /\ UnitsOf(ActivePieces(s, c))[k] > 0
        /\ ActivePieces(s, c)[k].from <= at /\ at <= ActivePieces(s, c)[k].to
    BY <1>6, <1>14 DEF A, L, units, p
  <2>2. Sum(UnitsOf(ActivePieces(s, c)), k - 1)
          + ActivePieces(s, c)[k].rate * (at - ActivePieces(s, c)[k].from)
          <= Between(Rates(s), c, at)
    BY <1>14, <2>1, CarriedBy
  <2>3. Sum(units, k - 1) + p.rate * (at - p.from) <= Between(Rates(s), c, at)
    BY <2>2 DEF A, units, p
  <2> QED
    BY <1>14, <2>3
<1>16. Between(Rates(s), c, at) \in Nat
  BY <1>14, RatesWeights, OneCounts, BetweenNat DEF Rates
<1>17. 2 * needed <= 2 * Between(Rates(s), c, at) + p.rate
  <2> DEFINE x == Sum(units, k - 1)
             y == p.rate * r
             b == Between(Rates(s), c, at)
  <2>1. /\ x \in Nat /\ y \in Nat /\ b \in Nat /\ needed \in Nat /\ p.rate \in Nat
        /\ x + y <= b /\ 2 * (needed - x) <= 2 * y + p.rate
    <3>1. p.rate * r \in Nat
      BY <1>7, <1>12
    <3> QED
      BY <1>3, <1>6, <1>7, <1>12, <1>15, <1>16, <3>1 DEF rest
  <2> HIDE DEF x, y, b
  <2>2. 2 * needed <= 2 * b + p.rate
    BY <2>1
  <2> QED
    BY <2>2 DEF b
<1>18. /\ at \in Nat /\ c <= at /\ at <= s.end
       /\ \E j \in 1 .. Len(s.plan.segments) :
             2 * needed <= 2 * Between(Rates(s), c, at) + s.plan.segments[j].rate
  BY <1>2, <1>7, <1>9, <1>14, <1>17
<1> QED
  BY <1>18 DEF at, needed

-----------------------------------------------------------------------------
(***************************************************************************)
(* The capacity a contact is credited with.                                *)
(***************************************************************************)

\* What the first reserves take of an interval that starts x ticks into a session.
Reserved(reserves, x, y) ==
    [j \in DOMAIN reserves |-> OverlapLength(x, y, reserves[j].from, reserves[j].to)]

\* Smaller weights add up to less.
LEMMA SmallerBetween ==
    ASSUME NEW v \in Weights, NEW w \in Weights, \A i \in Nat : v[i] <= w[i],
           NEW a \in Nat, NEW b \in Nat
    PROVE  Between(v, a, b) <= Between(w, a, b)
<1> DEFINE g == [i \in Nat |-> w[i] - v[i]]
<1>1. \A i \in Nat : v[i] \in Nat /\ w[i] \in Nat
  BY DEF Weights
<1>2. \A i \in Nat : g[i] \in Nat /\ w[i] = v[i] + g[i]
  BY <1>1
<1> HIDE DEF g
<1>3. Sum(w, a) = Sum(v, a) + Sum(g, a)
  BY <1>1, <1>2, SumPlus
<1>4. Sum(w, b) = Sum(v, b) + Sum(g, b)
  BY <1>1, <1>2, SumPlus
<1>5. /\ Sum(v, a) \in Nat /\ Sum(v, b) \in Nat /\ Sum(g, a) \in Nat /\ Sum(g, b) \in Nat
  BY <1>1, <1>2, SumNat
<1>6. CASE a < b
  <2>1. Sum(g, a) <= Sum(g, b)
    BY <1>2, <1>6, SumGrows
  <2> QED
    BY <1>3, <1>4, <1>5, <1>6, <2>1 DEF Between
<1>7. CASE ~(a < b)
  BY <1>7 DEF Between
<1> QED
  BY <1>6, <1>7

\* The reserves leave at least what remains when each takes its whole part of an
\* interval, whether they overlap or not.
LEMMA FreeAtLeast ==
    ASSUME NEW reserves, NEW n \in Nat, Len(reserves) = n, DOMAIN reserves = 1 .. n,
           \A i \in 1 .. n : SpanOK(reserves[i]),
           NEW s \in Nat, NEW x \in Nat, NEW y \in Nat, x <= y
    PROVE  /\ Sum(Reserved(reserves, x, y), n) \in Nat
           /\ (y - x) - Sum(Reserved(reserves, x, y), n)
                 <= Between(Free(One, reserves, s, n), s + x, s + y)
<1> DEFINE f == Reserved(reserves, x, y)
           a == s + x
           b == s + y
           F(k) == Free(One, reserves, s, k)
           D == {k \in Nat : k <= n => (y - x) - Sum(f, k) <= Between(F(k), a, b)}
<1>1. One \in Weights /\ (\A i \in Nat : One[i] = 1)
  BY OneCounts DEF One
<1>13. \A i, j \in Nat : Between(One, i, j) = IF i < j THEN j - i ELSE 0
  BY OneCounts
<1>2. \A k \in Nat : F(k) \in Weights
  BY <1>1, FreeWeights
<1>3. \A i \in 1 .. n : f[i] = OverlapLength(x, y, reserves[i].from, reserves[i].to)
  BY DEF Reserved
<1>4. \A i \in 1 .. n : reserves[i].from \in Nat /\ reserves[i].to \in Nat
                        /\ reserves[i].from < reserves[i].to
  BY DEF SpanOK
<1>5. \A i \in 1 .. n : f[i] \in Nat
  BY <1>3, <1>4 DEF OverlapLength, Greater, Lesser
<1>6. a \in Nat /\ b \in Nat /\ a <= b /\ b - a = y - x
  OBVIOUS
<1>7. \A k \in 0 .. n : Sum(f, k) \in Nat
  BY <1>5, SumNat
<1>8. \A k \in Nat, i \in Nat :
         F(k)[i] = IF \E j \in 1 .. k : s + reserves[j].from < i /\ i <= s + reserves[j].to
                   THEN 0 ELSE 1
  BY <1>1 DEF Free
<1> HIDE DEF f, F, a, b
<1>9. 0 \in D
  <2>1. F(0) = One
    <3>1. \A i \in Nat : F(0)[i] = One[i]
      BY <1>1, <1>8
    <3> QED
      BY <1>1, <1>2, <3>1 DEF Weights
  <2>2. Between(One, a, b) = y - x
    <3>1. Between(One, a, b) = IF a < b THEN b - a ELSE 0
      BY <1>6, <1>13
    <3> QED
      BY <1>6, <3>1
  <2>3. Sum(f, 0) = 0
    BY SumNext
  <2> QED
    BY <2>1, <2>2, <2>3
<1>10. ASSUME NEW k \in Nat, k \in D PROVE k + 1 \in D
  <2> SUFFICES ASSUME k + 1 <= n
               PROVE  (y - x) - Sum(f, k + 1) <= Between(F(k + 1), a, b)
    OBVIOUS
  <2> DEFINE r == reserves[k + 1]
             p == s + r.from
             q == s + r.to
             v == F(k)
  <2>1. k + 1 \in 1 .. n /\ r.from \in Nat /\ r.to \in Nat /\ r.from < r.to
    BY <1>4
  <2>2. p \in Nat /\ q \in Nat /\ p <= q
    BY <2>1
  <2>3. v \in Weights /\ F(k + 1) \in Weights
    BY <1>2
  <2>4. F(k + 1) = Outside(v, p, q)
    <3>0. k + 1 \in Nat
      OBVIOUS
    <3>1. \A i \in Nat : F(k + 1)[i] = Outside(v, p, q)[i]
      <4> TAKE i \in Nat
      <4>1. (\E j \in 1 .. k + 1 : s + reserves[j].from < i /\ i <= s + reserves[j].to)
              <=> \/ \E j \in 1 .. k : s + reserves[j].from < i /\ i <= s + reserves[j].to
                  \/ p < i /\ i <= q
        OBVIOUS
      <4>2. F(k + 1)[i] =
               IF \E j \in 1 .. k + 1 : s + reserves[j].from < i /\ i <= s + reserves[j].to
               THEN 0 ELSE 1
        BY <1>8, <3>0, Zenon
      <4>3. v[i] = IF \E j \in 1 .. k : s + reserves[j].from < i /\ i <= s + reserves[j].to
                   THEN 0 ELSE 1
        BY <1>8
      <4>4. Outside(v, p, q)[i] = IF p < i /\ i <= q THEN 0 ELSE v[i]
        BY DEF Outside
      <4> HIDE DEF p, q, v
      <4> QED
        BY <4>1, <4>2, <4>3, <4>4
    <3>2. Outside(v, p, q) \in Weights
      BY <2>3, InsideWeights
    <3> HIDE DEF p, q, v
    <3> QED
      BY <2>3, <3>1, <3>2 DEF Weights
  <2> HIDE DEF v, p, q
  <2>5. Between(v, a, b) = Between(F(k + 1), a, b) + Between(Inside(v, p, q), a, b)
    BY <1>6, <2>2, <2>3, <2>4, OutsideBetween
  <2>6. Between(Inside(v, p, q), a, b) = Between(v, Greater(p, a), Lesser(q, b))
    BY <1>6, <2>2, <2>3, InsideBetween
  <2>7. Between(v, Greater(p, a), Lesser(q, b)) <= Between(One, Greater(p, a), Lesser(q, b))
    <3> DEFINE c == Greater(p, a)
               e == Lesser(q, b)
    <3>1. c \in Nat /\ e \in Nat
      BY <1>6, <2>2 DEF Greater, Lesser
    <3>2. \A i \in Nat : v[i] <= One[i]
      <4> SUFFICES ASSUME NEW i \in Nat PROVE v[i] <= One[i]
        OBVIOUS
      <4>1. v[i] = 0 \/ v[i] = 1
        BY <1>8 DEF v
      <4>2. One[i] = 1
        BY <1>1
      <4> QED
        BY <4>1, <4>2
    <3> HIDE DEF c, e
    <3>3. Between(v, c, e) <= Between(One, c, e)
      BY <1>1, <2>3, <3>1, <3>2, SmallerBetween
    <3> QED
      BY <3>3 DEF c, e
  <2>8. Between(One, Greater(p, a), Lesser(q, b)) = f[k + 1]
    <3>1. f[k + 1] = OverlapLength(x, y, r.from, r.to)
      BY <1>3, <2>1
    <3>2. Greater(p, a) = s + Greater(x, r.from) /\ Greater(x, r.from) \in Nat
      BY <2>1 DEF Greater, p, a
    <3>3. Lesser(q, b) = s + Lesser(y, r.to) /\ Lesser(y, r.to) \in Nat
      BY <2>1 DEF Lesser, q, b
    <3> DEFINE g == Greater(x, r.from)
               l == Lesser(y, r.to)
    <3>4. g \in Nat /\ l \in Nat
      BY <3>2, <3>3
    <3>5. f[k + 1] = IF 0 >= l - g THEN 0 ELSE l - g
      BY <3>1 DEF OverlapLength, Greater
    <3> HIDE DEF g, l
    <3>6. Between(One, s + g, s + l) = IF g < l THEN l - g ELSE 0
      BY <1>13, <3>4
    <3> QED
      BY <3>2, <3>3, <3>4, <3>5, <3>6 DEF g, l
  <2>9. Sum(f, k + 1) = Sum(f, k) + f[k + 1] /\ Sum(f, k) \in Nat /\ f[k + 1] \in Nat
    <3>1. k \in 0 .. n
      BY <2>1
    <3>2. Sum(f, k + 1) = Sum(f, k) + f[k + 1]
      BY SumNext
    <3> QED
      BY <1>5, <1>7, <2>1, <3>1, <3>2
  <2>10. /\ Between(v, a, b) \in Nat /\ Between(F(k + 1), a, b) \in Nat
         /\ Between(Inside(v, p, q), a, b) \in Nat
    BY <1>6, <2>3, InsideWeights, BetweenNat
  <2>11. (y - x) - Sum(f, k) <= Between(v, a, b)
    BY <1>10, <2>1 DEF v
  <2> QED
    BY <2>5, <2>6, <2>7, <2>8, <2>9, <2>10, <2>11
<1>11. n \in D
  <2> HIDE DEF D
  <2> QED
    BY <1>9, <1>10, NaturalsBySteps
<1>12. (y - x) - Sum(f, n) <= Between(F(n), a, b)
  BY <1>11
<1> QED
  BY <1>7, <1>12 DEF f, F, a, b

\* A factor keeps an order.
LEMMA TimesOrder ==
    ASSUME NEW r \in Nat, NEW x \in Int, NEW y \in Int, x <= y
    PROVE  r * x <= r * y /\ r * x \in Int
<1>1. y = x + (y - x) /\ y - x \in Nat
  OBVIOUS
<1>2. r * (x + (y - x)) = r * x + r * (y - x)
  OBVIOUS
<1>3. r * (y - x) \in Nat /\ r * x \in Int
  BY <1>1
<1> QED
  BY <1>1, <1>2, <1>3

\* What a segment is credited with is no more than what it can carry.
LEMMA SegmentCarried ==
    ASSUME NEW s, SessionShape(s), s.start <= s.end, NEW i \in 1 .. Len(s.plan.segments)
    PROVE  LET h == SegmentUnits(s.plan, s.plan.segments[i], 0, s.end - s.start)
               g == Shares(One, s, s.start)[i]
           IN  h \in Int /\ g \in Int /\ h <= g
<1> DEFINE seg == s.plan.segments[i]
           len == s.end - s.start
           x == seg.from
           y == Lesser(len, seg.to)
           m == Len(s.plan.reserves)
           taken == Sum(Reserved(s.plan.reserves, x, y), m)
           h == SegmentUnits(s.plan, seg, 0, len)
           g == Shares(One, s, s.start)[i]
           t == SegmentSpan(s, s.start, i)
           B == Between(FreeOf(One, s), t.from, t.to)
<1>1. /\ seg.from \in Nat /\ seg.to \in Nat /\ seg.rate \in Nat
      /\ m \in Nat /\ DOMAIN s.plan.reserves = 1 .. m
      /\ \A j \in 1 .. m : SpanOK(s.plan.reserves[j])
  BY PlanParts
<1>2. s.start \in Nat /\ s.end \in Nat /\ len \in Nat
  BY DEF SessionShape
<1>3. Greater(0, seg.from) = x /\ y \in Nat
  BY <1>1, <1>2 DEF Greater, Lesser
<1>4. h = IF x < y THEN seg.rate * (y - x - taken) ELSE 0
  BY <1>3 DEF SegmentUnits, Reserved
<1>5. t.from = s.start + x
  BY <1>1, <1>2 DEF SegmentSpan, Greater
<1>6. t.to = s.start + y
  BY <1>1, <1>2 DEF SegmentSpan, Lesser
<1>7. g = seg.rate * B
  BY DEF Shares
<1>8. FreeOf(One, s) = Free(One, s.plan.reserves, s.start, m)
  BY DEF FreeOf
<1>9. FreeOf(One, s) \in Weights
  BY OneCounts, FreeWeights DEF FreeOf
<1> DEFINE rate == seg.rate
<1>10. rate \in Nat /\ x \in Nat
  BY <1>1
<1> HIDE DEF y, taken, t, m, len, x
<1>11. B \in Nat
  <2>1. t.from \in Nat /\ t.to \in Nat
    BY <1>2, <1>3, <1>5, <1>6, <1>10
  <2> QED
    BY <1>9, <2>1, BetweenNat
<1>12. CASE x < y
  <2>1. /\ taken \in Nat
        /\ (y - x) - taken
             <= Between(Free(One, s.plan.reserves, s.start, m), s.start + x, s.start + y)
    <3> DEFINE reserves == s.plan.reserves
    <3>1. /\ m \in Nat /\ Len(reserves) = m /\ DOMAIN reserves = 1 .. m
          /\ \A j \in 1 .. m : SpanOK(reserves[j])
      BY <1>1 DEF m
    <3>2. s.start \in Nat /\ x \in Nat /\ y \in Nat /\ x <= y
      BY <1>2, <1>3, <1>10, <1>12
    <3> HIDE DEF reserves
    <3>3. /\ Sum(Reserved(reserves, x, y), m) \in Nat
          /\ (y - x) - Sum(Reserved(reserves, x, y), m)
               <= Between(Free(One, reserves, s.start, m), s.start + x, s.start + y)
      BY <3>1, <3>2, FreeAtLeast
    <3> QED
      BY <3>3 DEF reserves, taken
  <2>2. (y - x) - taken <= B /\ (y - x) - taken \in Int
    BY <1>3, <1>5, <1>6, <1>8, <1>10, <2>1
  <2> HIDE DEF B, rate, seg, h, g
  <2>3. rate * ((y - x) - taken) <= rate * B /\ rate * ((y - x) - taken) \in Int
    BY <1>10, <1>11, <2>2, TimesOrder
  <2>4. h = rate * ((y - x) - taken)
    BY <1>4, <1>12 DEF rate
  <2>5. g = rate * B /\ rate * B \in Int
    BY <1>7, <1>10, <1>11 DEF rate
  <2> QED
    BY <2>3, <2>4, <2>5 DEF h, g, seg, len
<1>13. CASE ~(x < y)
  <2> HIDE DEF B, seg, h, g, rate
  <2>1. h = 0
    BY <1>4, <1>13
  <2>2. g = rate * B /\ rate * B \in Nat
    BY <1>7, <1>10, <1>11 DEF rate
  <2> QED
    BY <2>1, <2>2 DEF h, g, seg, len
<1> QED
  BY <1>12, <1>13

\* A whole plan is credited with no more than the session can carry.
LEMMA PlanCarried ==
    ASSUME NEW s, SessionShape(s), s.start <= s.end
    PROVE  /\ PlanUnits(s.plan, 0, s.end - s.start) \in Int
           /\ PlanUnits(s.plan, 0, s.end - s.start) <= Between(Rates(s), s.start, s.end)
<1> DEFINE n == Len(s.plan.segments)
           h == [i \in DOMAIN s.plan.segments |->
                    SegmentUnits(s.plan, s.plan.segments[i], 0, s.end - s.start)]
           g == Shares(One, s, s.start)
<1>1. n \in Nat /\ DOMAIN s.plan.segments = 1 .. n
  BY PlanParts
<1>2. \A i \in 1 .. n : h[i] \in Int /\ g[i] \in Int /\ h[i] <= g[i]
  <2> TAKE i \in 1 .. n
  <2>1. h[i] = SegmentUnits(s.plan, s.plan.segments[i], 0, s.end - s.start)
    BY <1>1
  <2> HIDE DEF h, g
  <2> QED
    BY <2>1, SegmentCarried DEF g
<1>3. PlanUnits(s.plan, 0, s.end - s.start) = Sum(h, n)
  BY DEF PlanUnits
<1>4. Sum(g, n) = Between(Rates(s), s.start, s.end)
  <2>1. s.start \in Nat
    BY DEF SessionShape
  <2> QED
    BY <2>1, OneCounts, SharesSum DEF Rates
<1> HIDE DEF h, g, n
<1>5. Sum(h, n) <= Sum(g, n)
  BY <1>1, <1>2, SumSmaller
<1>6. Sum(h, n) \in Int
  BY <1>1, <1>2, SumType
<1> QED
  BY <1>3, <1>4, <1>5, <1>6

\* A quotient keeps an order.
LEMMA QuotientOrder ==
    ASSUME NEW a \in Int, NEW b \in Nat, a <= b, NEW d \in Nat \ {0}
    PROVE  a \div d \in Int /\ a \div d <= b \div d
  OBVIOUS

-----------------------------------------------------------------------------
(***************************************************************************)
(* Credited sessions.                                                      *)
(***************************************************************************)

\* The session a contact is credited with, under the plan of its station.
SessionOf(c, p) ==
    LET credit == ContactCapacity(c, p, Window)
    IN  [start |-> credit.start, end |-> credit.end, cap |-> credit.cap, plan |-> p]

\* A segment is credited with a whole number of units, which is negative when reserves
\* that overlap take a tick twice.
LEMMA SegmentUnitsInt ==
    ASSUME NEW p, PlanOK(p), NEW x \in Int, NEW y \in Int, NEW i \in 1 .. Len(p.segments)
    PROVE  SegmentUnits(p, p.segments[i], x, y) \in Int
<1> DEFINE seg == p.segments[i]
           a == Greater(x, seg.from)
           b == Lesser(y, seg.to)
           f == Reserved(p.reserves, a, b)
           m == Len(p.reserves)
<1>1. /\ seg.from \in Nat /\ seg.to \in Nat /\ seg.rate \in Nat
      /\ m \in Nat /\ DOMAIN p.reserves = 1 .. m
      /\ \A j \in 1 .. m : p.reserves[j].from \in Nat /\ p.reserves[j].to \in Nat
  BY DEF PlanOK, SpanOK
<1>2. a \in Int /\ b \in Int
  BY <1>1 DEF Greater, Lesser
<1>3. \A j \in 1 .. m : f[j] = OverlapLength(a, b, p.reserves[j].from, p.reserves[j].to)
  BY <1>1 DEF Reserved
<1>4. SegmentUnits(p, seg, x, y) = IF a < b THEN seg.rate * (b - a - Sum(f, m)) ELSE 0
  BY DEF SegmentUnits, Reserved
<1> HIDE DEF a, b, f, seg, m
<1>5. \A j \in 1 .. m : f[j] \in Int
  <2> SUFFICES ASSUME NEW j \in 1 .. m PROVE f[j] \in Int
    OBVIOUS
  <2> DEFINE r == p.reserves[j]
  <2>1. r.from \in Nat /\ r.to \in Nat /\ f[j] = OverlapLength(a, b, r.from, r.to)
    BY <1>1, <1>3
  <2> HIDE DEF r
  <2> QED
    BY <1>2, <2>1 DEF OverlapLength, Greater, Lesser
<1>6. Sum(f, m) \in Int
  BY <1>1, <1>5, SumType
<1>7. SegmentUnits(p, seg, x, y) \in Int
  BY <1>1, <1>2, <1>4, <1>6
<1> QED
  BY <1>7 DEF seg

\* What a credited contact becomes: an interval that is not empty, inside the guards,
\* and a capacity that is whole bytes of its part of the plan.
LEMMA CreditedSession ==
    ASSUME NEW c \in Contacts, NEW p \in Plans, ContactCapacity(c, p, Window) # NoCapacity
    PROVE  LET s == SessionOf(c, p)
               bytes == PlanUnits(p, s.start - (c.start + p.guardIn), s.end - (c.start + p.guardIn))
                          \div UnitsPerByte
           IN  /\ SessionShape(s) /\ s.start < s.end /\ s.cap \in Nat
               /\ s.plan = p
               /\ ~p.fixed => s.cap = Greater(0, bytes - p.byteReserve)
<1> DEFINE credit == ContactCapacity(c, p, Window)
           guardedStart == c.start + p.guardIn
           guardedEnd == c.end - p.guardOut
           from == Greater(guardedStart, Window.start)
           to == Lesser(guardedEnd, Window.end)
           units == PlanUnits(p, from - guardedStart, to - guardedStart)
           bytes == units \div UnitsPerByte
           s == SessionOf(c, p)
<1>1. PlanOK(p) /\ c.start \in Nat /\ c.end \in Nat /\ Window.start \in Nat /\ Window.end \in Nat
  BY PlansAssumption, ContactsAssumption, WindowAssumption
<1>2. p.guardIn \in Nat /\ p.guardOut \in Nat /\ p.fixedBytes \in Nat /\ p.byteReserve \in Nat
  BY <1>1 DEF PlanOK
<1>3. /\ ~(guardedStart >= guardedEnd \/ from >= to)
      /\ credit = [start |-> from, end |-> to,
                   cap |-> IF p.fixed THEN p.fixedBytes ELSE Greater(0, bytes - p.byteReserve)]
  BY DEF ContactCapacity
<1>4. guardedStart \in Nat /\ guardedEnd \in Int
  BY <1>1, <1>2
<1>5. from \in Nat
  BY <1>1, <1>4 DEF Greater
<1>6. to \in Int /\ from < to
  BY <1>1, <1>3, <1>4, <1>5 DEF Lesser
<1>7. to \in Nat
  BY <1>5, <1>6
<1> DEFINE h == [i \in DOMAIN p.segments |->
                    SegmentUnits(p, p.segments[i], from - guardedStart, to - guardedStart)]
           n == Len(p.segments)
<1>8. n \in Nat /\ DOMAIN p.segments = 1 .. n
  BY <1>1 DEF PlanOK
<1>9. units = Sum(h, n)
  BY DEF PlanUnits
<1>10. from - guardedStart \in Int /\ to - guardedStart \in Int
  BY <1>4, <1>5, <1>6
<1> HIDE DEF from, to, guardedStart
<1>11. \A i \in 1 .. n : h[i] \in Int
  BY <1>1, <1>8, <1>10, SegmentUnitsInt
<1> HIDE DEF h, n, units
<1>12. units \in Int
  BY <1>8, <1>9, <1>11, SumType
<1>13. bytes \in Int
  BY <1>12, UnitsPerByteAssumption
<1> HIDE DEF bytes
<1>14. credit.cap \in Nat
  <2>1. bytes - p.byteReserve \in Int
    BY <1>2, <1>13
  <2>2. Greater(0, bytes - p.byteReserve) \in Nat
    BY <2>1 DEF Greater
  <2>3. credit.cap = IF p.fixed THEN p.fixedBytes ELSE Greater(0, bytes - p.byteReserve)
    BY <1>3
  <2> HIDE DEF credit
  <2> QED
    BY <1>2, <2>2, <2>3
<1>15. s.start = from /\ s.end = to /\ s.cap = credit.cap /\ s.plan = p
  <2>1. credit.start = from /\ credit.end = to
    BY <1>3
  <2> QED
    BY <2>1 DEF SessionOf
<1>16. ~p.fixed => s.cap = Greater(0, bytes - p.byteReserve)
  <2>1. credit.cap = IF p.fixed THEN p.fixedBytes ELSE Greater(0, bytes - p.byteReserve)
    BY <1>3
  <2> HIDE DEF credit, s
  <2> QED
    BY <1>15, <2>1
<1> HIDE DEF s, credit
<1>17. SessionShape(s) /\ s.start < s.end /\ s.cap \in Nat
  BY <1>1, <1>5, <1>6, <1>7, <1>14, <1>15 DEF SessionShape
<1>18. bytes = PlanUnits(p, s.start - (c.start + p.guardIn), s.end - (c.start + p.guardIn))
                 \div UnitsPerByte
  BY <1>15 DEF bytes, units, guardedStart
<1> QED
  BY <1>15, <1>16, <1>17, <1>18 DEF s

\* The highest rate of a plan is no lower than any.
LEMMA HighestOf ==
    ASSUME NEW p, PlanOK(p)
    PROVE  LET highest == Greatest({0} \cup {p.segments[i].rate : i \in DOMAIN p.segments})
           IN  /\ highest \in Nat
               /\ \A i \in 1 .. Len(p.segments) : p.segments[i].rate <= highest
<1> DEFINE n == Len(p.segments)
           S == {0} \cup {p.segments[i].rate : i \in DOMAIN p.segments}
           q == [k \in 1 .. n + 1 |-> IF k <= n THEN p.segments[k].rate ELSE 0]
<1>1. /\ n \in Nat /\ DOMAIN p.segments = 1 .. n
      /\ \A i \in 1 .. n : p.segments[i].rate \in Nat
  BY DEF PlanOK
<1>2. S \subseteq Nat /\ S # {} /\ \A i \in 1 .. n : p.segments[i].rate \in S
  BY <1>1
<1>3. \A k \in 1 .. n + 1 : q[k] = IF k <= n THEN p.segments[k].rate ELSE 0
  OBVIOUS
<1>4. q \in [1 .. n + 1 -> S]
  BY <1>1
<1>5. \A x \in S : \E k \in 1 .. n + 1 : q[k] = x
  <2> SUFFICES ASSUME NEW x \in S PROVE \E k \in 1 .. n + 1 : q[k] = x
    OBVIOUS
  <2>1. CASE x = 0
    <3>1. n + 1 \in 1 .. n + 1 /\ q[n + 1] = 0
      BY <1>1, <1>3
    <3> QED
      BY <2>1, <3>1
  <2>2. CASE x # 0
    <3>1. PICK i \in 1 .. n : x = p.segments[i].rate
      BY <1>1, <2>2
    <3>2. i \in 1 .. n + 1 /\ q[i] = x
      BY <1>1, <1>3, <3>1
    <3> QED
      BY <3>2
  <2> QED
    BY <2>1, <2>2
<1> HIDE DEF q, S
<1>6. q \in Seqs(S) /\ Len(q) = n + 1
  BY <1>1, <1>4, FunctionIsSeq
<1>7. IsFiniteSet(S)
  BY <1>1, <1>5, <1>6 DEF IsFiniteSet, Seqs
<1>8. Greatest(S) \in S /\ \A x \in S : x <= Greatest(S)
  BY <1>2, <1>7, GreatestOfFinite
<1> HIDE DEF n
<1>9. Greatest(S) \in Nat /\ \A i \in 1 .. n : p.segments[i].rate <= Greatest(S)
  BY <1>2, <1>8
<1> QED
  BY <1>9 DEF S, n

-----------------------------------------------------------------------------
(***************************************************************************)
(* A session is what the reducer relies on.                                *)
(***************************************************************************)

\* What is left of a session shrinks as time passes.
LEMMA RemainingShrinks ==
    ASSUME NEW s, SessionShape(s), ~s.plan.fixed,
           NEW c \in Nat, NEW d \in Nat, c <= d, d <= s.end
    PROVE  RateBytesRemaining(s, d) <= RateBytesRemaining(s, c)
<1> DEFINE a == Between(Rates(s), d, s.end)
           b == Between(Rates(s), c, s.end)
<1>1. /\ RateBytesRemaining(s, d) = a \div UnitsPerByte /\ a \in Nat
      /\ RateBytesRemaining(s, c) = b \div UnitsPerByte /\ b \in Nat
  BY RemainingIs
<1>2. Rates(s) \in Weights /\ s.end \in Nat
  BY RatesWeights, OneCounts DEF Rates, SessionShape
<1>3. b = Between(Rates(s), c, d) + a /\ Between(Rates(s), c, d) \in Nat
  BY <1>2, BetweenParts, BetweenNat
<1> HIDE DEF a, b
<1>4. a <= b
  BY <1>1, <1>3
<1> QED
  BY <1>1, <1>4, UnitsPerByteAssumption, QuotientOrder

\* What the reducer relies on, of the rate arithmetic.
Contract == INSTANCE SessionContract
                WITH BytesLeft <- RateBytesRemaining, GrantEnd <- AllocationEnd

\* rate_bytes_remaining and allocation_end keep the contract the reducer's proofs rest on,
\* for every contact, plan and window: what is left is a number of bytes that shrinks
\* with time, and a grant of bytes that are left ends in the session.
THEOREM SessionsMeetContract ==
    \A c \in Contacts, p \in Plans :
        ContactCapacity(c, p, Window) # NoCapacity => Contract!SessionOK(SessionOf(c, p))
<1> SUFFICES ASSUME NEW c \in Contacts, NEW p \in Plans,
                    ContactCapacity(c, p, Window) # NoCapacity
             PROVE  Contract!SessionOK(SessionOf(c, p))
  OBVIOUS
<1> DEFINE s == SessionOf(c, p)
<1>1. SessionShape(s) /\ s.start < s.end /\ s.cap \in Nat
  BY CreditedSession
<1> HIDE DEF s
<1>2. s.start \in Nat /\ s.end \in Nat /\ s.plan.fixed \in BOOLEAN
  BY <1>1 DEF SessionShape, PlanOK
<1>3. ASSUME NEW x \in s.start .. s.end
      PROVE  /\ RateBytesRemaining(s, x) \in Nat
             /\ \A n \in 1 .. RateBytesRemaining(s, x) : AllocationEnd(s, x, n) \in x .. s.end
             /\ ~s.plan.fixed =>
                   \A d \in x .. s.end : RateBytesRemaining(s, d) <= RateBytesRemaining(s, x)
  <2>1. x \in Nat /\ x <= s.end
    BY <1>2
  <2>2. CASE s.plan.fixed
    <3>1. RateBytesRemaining(s, x) = s.cap
      BY <2>2 DEF RateBytesRemaining
    <3>2. \A n \in 1 .. RateBytesRemaining(s, x) : AllocationEnd(s, x, n) = s.end
      BY <2>2 DEF AllocationEnd
    <3> QED
      BY <1>1, <1>2, <2>1, <2>2, <3>1, <3>2
  <2>3. CASE ~s.plan.fixed
    <3>1. RateBytesRemaining(s, x) \in Nat
      BY <1>1, <2>1, <2>3, RemainingIs
    <3>2. \A n \in 1 .. RateBytesRemaining(s, x) : AllocationEnd(s, x, n) \in x .. s.end
      <4> SUFFICES ASSUME NEW n \in 1 .. RateBytesRemaining(s, x)
                   PROVE  AllocationEnd(s, x, n) \in x .. s.end
        OBVIOUS
      <4>1. n \in Nat \ {0} /\ n <= RateBytesRemaining(s, x)
        BY <3>1
      <4>2. /\ AllocationEnd(s, x, n) \in Nat
            /\ x <= AllocationEnd(s, x, n) /\ AllocationEnd(s, x, n) <= s.end
        BY <1>1, <2>1, <2>3, <4>1, GrantEnds
      <4> QED
        BY <1>2, <2>1, <4>2
    <3>3. \A d \in x .. s.end : RateBytesRemaining(s, d) <= RateBytesRemaining(s, x)
      <4> SUFFICES ASSUME NEW d \in x .. s.end
                   PROVE  RateBytesRemaining(s, d) <= RateBytesRemaining(s, x)
        OBVIOUS
      <4>1. d \in Nat /\ x <= d /\ d <= s.end
        BY <1>2, <2>1
      <4> QED
        BY <1>1, <2>1, <2>3, <4>1, RemainingShrinks
    <3> QED
      BY <3>1, <3>2, <3>3
  <2> QED
    BY <2>2, <2>3
<1>4. Contract!SessionOK(s)
  BY <1>1, <1>2, <1>3 DEF Contract!SessionOK
<1> QED
  BY <1>4 DEF s

-----------------------------------------------------------------------------
(***************************************************************************)
(* A session as it goes on.                                                *)
(***************************************************************************)

\* The instant reached lies in the session of a contact that was credited, and the bytes
\* granted are within half a tick per grant of what the link has carried.
Reached ==
    /\ contact \in Contacts /\ plan \in Plans /\ Credited # NoCapacity
    /\ cursor \in Session.start .. Session.end
    /\ left \in Nat /\ sent \in Nat /\ grants \in Nat

\* The invariant that every step keeps.
Inductive == Reached /\ DriftBounded

\* The session of the model is the one its contact is credited with.
LEMMA SessionIs ==
    ASSUME Reached
    PROVE  \E s : /\ s = Session /\ SessionShape(s) /\ s.plan = plan /\ s.start < s.end
                  /\ s.cap \in Nat /\ Contract!SessionOK(s)
<1>1. Session = SessionOf(contact, plan)
  BY DEF Session, SessionOf, Credited
<1>2. /\ SessionShape(SessionOf(contact, plan)) /\ SessionOf(contact, plan).plan = plan
      /\ SessionOf(contact, plan).start < SessionOf(contact, plan).end
      /\ SessionOf(contact, plan).cap \in Nat
  BY CreditedSession DEF Reached, Credited
<1>3. Contract!SessionOK(SessionOf(contact, plan))
  BY SessionsMeetContract DEF Reached, Credited
<1> QED
  BY <1>1, <1>2, <1>3

\* What the properties call units are the ticks of the session.
LEMMA UnitsIs ==
    ASSUME NEW s, s = Session, SessionShape(s), s.plan = plan,
           NEW a \in Nat, NEW b \in Nat, a <= b
    PROVE  Units(a, b) = Between(Rates(s), a, b) /\ Units(a, b) \in Nat
<1>1. UnitsBetween(s.plan, s.start, a, b) = Between(Rates(s), a, b)
  BY UnitsAreTicks
<1>2. Units(a, b) = UnitsBetween(s.plan, s.start, a, b)
  BY DEF Units
<1>3. Rates(s) \in Weights
  BY RatesWeights, OneCounts DEF Rates
<1> QED
  BY <1>1, <1>2, <1>3, BetweenNat

\* A session starts with nothing sent.
LEMMA InitInductive ==
    ASSUME Init
    PROVE  Inductive
<1>1. contact \in Contacts /\ plan \in Plans /\ Credited # NoCapacity
  BY DEF Init
<1> DEFINE s == SessionOf(contact, plan)
<1>2. s = Session
  BY DEF Session, SessionOf, Credited
<1>3. SessionShape(s) /\ s.plan = plan /\ s.start < s.end /\ s.cap \in Nat
  BY <1>1, CreditedSession DEF Credited
<1> HIDE DEF s
<1>4. s.start \in Nat /\ s.end \in Nat /\ PlanOK(plan)
  BY <1>3 DEF SessionShape
<1>5. cursor = s.start /\ left = s.cap /\ sent = 0 /\ grants = 0
  BY <1>2 DEF Init, Session
<1>6. Reached
  BY <1>1, <1>2, <1>3, <1>4, <1>5 DEF Reached
<1>7. DriftBounded
  <2>1. Units(Session.start, cursor) \in Nat
    BY <1>2, <1>3, <1>4, <1>5, UnitsIs
  <2>2. HighestRate \in Nat
    BY <1>4, HighestOf DEF HighestRate
  <2>3. 2 * sent * UnitsPerByte = 0
    BY <1>5, UnitsPerByteAssumption
  <2>4. 0 <= 2 * Units(Session.start, cursor) + grants * HighestRate
    BY <1>5, <2>1, <2>2
  <2> QED
    BY <2>3, <2>4 DEF DriftBounded
<1> QED
  BY <1>6, <1>7 DEF Inductive

\* What can be granted, and the session, before a step that keeps contact and plan.
LEMMA SessionKept ==
    ASSUME Reached, contact' = contact, plan' = plan
    PROVE  Session' = Session /\ (Credited # NoCapacity)' /\ HighestRate' = HighestRate
  BY DEF Session, Credited, HighestRate, Reached

\* A grant keeps the bytes granted within half a tick per grant of what was carried.
LEMMA SendInductive ==
    ASSUME Inductive, Send
    PROVE  Inductive'
<1>1. Reached /\ DriftBounded
  BY DEF Inductive
<1>2. PICK s : /\ s = Session /\ SessionShape(s) /\ s.plan = plan /\ s.start < s.end
               /\ s.cap \in Nat /\ Contract!SessionOK(s)
  BY <1>1, SessionIs
<1>3. PICK n \in 1 .. Grantable : /\ cursor' = AllocationEnd(Session, cursor, n)
                                  /\ left' = Grantable - n /\ sent' = sent + n
  BY DEF Send
<1>4. /\ grants' = grants + 1 /\ contact' = contact /\ plan' = plan /\ cursor < Session.end
  BY DEF Send
<1>5. /\ contact \in Contacts /\ plan \in Plans /\ cursor \in s.start .. s.end
      /\ left \in Nat /\ sent \in Nat /\ grants \in Nat
  BY <1>1, <1>2 DEF Reached
<1>6. s.start \in Nat /\ s.end \in Nat /\ PlanOK(plan)
  BY <1>2 DEF SessionShape
<1>7. PICK c \in Nat : c = cursor /\ s.start <= c /\ c <= s.end
  BY <1>5, <1>6
<1>8. RateBytesRemaining(s, c) \in Nat
  BY <1>2, <1>6, <1>7 DEF Contract!SessionOK
<1>9. /\ Grantable \in Nat /\ Grantable <= RateBytesRemaining(s, c)
  <2>1. Grantable = Lesser(left, RateBytesRemaining(s, c))
    BY <1>2, <1>7 DEF Grantable
  <2> QED
    BY <1>5, <1>8, <2>1 DEF Lesser
<1>10. n \in Nat \ {0} /\ n <= Grantable /\ n \in 1 .. RateBytesRemaining(s, c)
  BY <1>8, <1>9
<1>11. cursor' = AllocationEnd(s, c, n) /\ cursor' \in c .. s.end
  <2>1. AllocationEnd(s, c, n) \in c .. s.end
    BY <1>2, <1>6, <1>7, <1>10 DEF Contract!SessionOK
  <2> QED
    BY <1>2, <1>3, <1>7, <2>1
<1>12. Session' = s /\ (Credited # NoCapacity)' /\ HighestRate' = HighestRate
  BY <1>1, <1>2, <1>4, SessionKept
<1>13. Reached'
  <2>1. left' \in Nat /\ sent' \in Nat /\ grants' \in Nat
    BY <1>3, <1>4, <1>5, <1>9, <1>10
  <2>2. cursor' \in s.start .. s.end
    BY <1>6, <1>7, <1>11
  <2> QED
    BY <1>4, <1>5, <1>12, <2>1, <2>2 DEF Reached
<1>14. DriftBounded'
  <2> SUFFICES ASSUME ~plan.fixed
               PROVE  2 * sent' * UnitsPerByte
                        <= 2 * Units(Session.start, cursor)' + grants' * HighestRate
    BY <1>4, <1>12 DEF DriftBounded
  <2>1. PICK d \in Nat : d = cursor' /\ c <= d /\ d <= s.end
    BY <1>6, <1>7, <1>11
  <2>2. PICK u \in Nat : u = Units(Session.start, cursor) /\ u = Between(Rates(s), s.start, c)
    BY <1>2, <1>6, <1>7, UnitsIs
  <2>3. PICK v \in Nat : v = Between(Rates(s), c, d)
    BY <1>2, BetweenNat, RatesWeights, OneCounts DEF Rates
  <2>4. Units(Session.start, cursor)' = u + v
    <3>1. Units(Session.start, cursor)' = UnitsBetween(s.plan, s.start, s.start, d)
      BY <1>2, <1>4, <1>12, <2>1 DEF Units
    <3>2. UnitsBetween(s.plan, s.start, s.start, d) = Between(Rates(s), s.start, d)
      BY <1>2, <1>6, <1>7, <2>1, UnitsAreTicks
    <3>3. Between(Rates(s), s.start, d) = Between(Rates(s), s.start, c) + Between(Rates(s), c, d)
      BY <1>2, <1>6, <1>7, <2>1, BetweenParts, RatesWeights, OneCounts DEF Rates
    <3> QED
      BY <2>2, <2>3, <3>1, <3>2, <3>3
  <2>5. PICK high \in Nat : high = HighestRate /\ \A j \in 1 .. Len(plan.segments) :
                               plan.segments[j].rate <= high
    BY <1>6, HighestOf DEF HighestRate
  <2>6. 2 * (n * UnitsPerByte) <= 2 * v + high
    <3>1. PICK j \in 1 .. Len(s.plan.segments) :
             2 * (n * UnitsPerByte)
               <= 2 * Between(Rates(s), c, AllocationEnd(s, c, n)) + s.plan.segments[j].rate
      <4>1. /\ SessionShape(s) /\ ~s.plan.fixed /\ n \in Nat \ {0}
            /\ n <= RateBytesRemaining(s, c)
        BY <1>2, <1>8, <1>10
      <4> QED
        BY <4>1, GrantEnds
    <3>2. s.plan.segments[j].rate \in Nat
      BY <1>2, PlanParts
    <3>3. s.plan.segments[j].rate <= high
      BY <1>2, <2>5
    <3>4. n * UnitsPerByte \in Nat
      BY <1>10, UnitsPerByteAssumption
    <3>5. 2 * (n * UnitsPerByte) <= 2 * v + s.plan.segments[j].rate
      BY <1>11, <2>1, <2>3, <3>1
    <3> DEFINE x == n * UnitsPerByte
               y == s.plan.segments[j].rate
    <3>6. x \in Nat /\ y \in Nat /\ y <= high /\ 2 * x <= 2 * v + y
      BY <3>2, <3>3, <3>4, <3>5
    <3> HIDE DEF x, y
    <3>7. 2 * x <= 2 * v + high
      BY <3>6
    <3> QED
      BY <3>7 DEF x
  <2>7. 2 * sent * UnitsPerByte <= 2 * u + grants * high
    BY <1>1, <2>2, <2>5 DEF DriftBounded
  <2>8. 2 * (sent + n) * UnitsPerByte = 2 * sent * UnitsPerByte + 2 * (n * UnitsPerByte)
    BY <1>5, <1>10, UnitsPerByteAssumption
  <2>9. (grants + 1) * high = grants * high + high
    BY <1>5
  <2>10. /\ 2 * sent * UnitsPerByte \in Nat /\ 2 * (n * UnitsPerByte) \in Nat
         /\ grants * high \in Nat
    BY <1>5, <1>10, UnitsPerByteAssumption
  <2>11. 2 * (sent + n) * UnitsPerByte <= 2 * (u + v) + (grants + 1) * high
    BY <2>6, <2>7, <2>8, <2>9, <2>10
  <2> QED
    BY <1>3, <1>4, <2>4, <2>5, <2>11
<1> QED
  BY <1>13, <1>14 DEF Inductive

\* Idle time lets the link carry more than is sent.
LEMMA IdleInductive ==
    ASSUME Inductive, Idle
    PROVE  Inductive'
<1>1. Reached /\ DriftBounded
  BY DEF Inductive
<1>2. PICK s : /\ s = Session /\ SessionShape(s) /\ s.plan = plan /\ s.start < s.end
               /\ s.cap \in Nat /\ Contract!SessionOK(s)
  BY <1>1, SessionIs
<1>3. /\ ~plan.fixed /\ cursor' \in cursor + 1 .. Session.end - 1 /\ left' = Grantable
      /\ contact' = contact /\ plan' = plan /\ sent' = sent /\ grants' = grants
  BY DEF Idle
<1>4. /\ contact \in Contacts /\ plan \in Plans /\ cursor \in s.start .. s.end
      /\ left \in Nat /\ sent \in Nat /\ grants \in Nat
  BY <1>1, <1>2 DEF Reached
<1>5. s.start \in Nat /\ s.end \in Nat /\ PlanOK(plan)
  BY <1>2 DEF SessionShape
<1>6. PICK c \in Nat : c = cursor /\ s.start <= c /\ c <= s.end
  BY <1>4, <1>5
<1>7. PICK d \in Nat : d = cursor' /\ c <= d /\ d <= s.end
  <2>1. cursor' \in c + 1 .. s.end - 1
    BY <1>2, <1>3, <1>6
  <2> QED
    BY <1>5, <1>6, <2>1
<1>8. left' \in Nat
  <2>1. RateBytesRemaining(s, c) \in Nat
    BY <1>2, <1>5, <1>6 DEF Contract!SessionOK
  <2>2. Grantable = Lesser(left, RateBytesRemaining(s, c))
    BY <1>2, <1>6 DEF Grantable
  <2> QED
    BY <1>3, <1>4, <2>1, <2>2 DEF Lesser
<1>9. Session' = s /\ (Credited # NoCapacity)' /\ HighestRate' = HighestRate
  BY <1>1, <1>2, <1>3, SessionKept
<1>10. Reached'
  <2>1. cursor' \in s.start .. s.end
    BY <1>5, <1>6, <1>7
  <2> QED
    BY <1>3, <1>4, <1>8, <1>9, <2>1 DEF Reached
<1>11. DriftBounded'
  <2>1. PICK u \in Nat : u = Units(Session.start, cursor) /\ u = Between(Rates(s), s.start, c)
    BY <1>2, <1>5, <1>6, UnitsIs
  <2>2. PICK v \in Nat : v = Between(Rates(s), c, d)
    BY <1>2, BetweenNat, RatesWeights, OneCounts DEF Rates
  <2>3. Units(Session.start, cursor)' = u + v
    <3>1. Units(Session.start, cursor)' = UnitsBetween(s.plan, s.start, s.start, d)
      BY <1>2, <1>3, <1>7, <1>9 DEF Units
    <3>2. UnitsBetween(s.plan, s.start, s.start, d) = Between(Rates(s), s.start, d)
      BY <1>2, <1>5, <1>6, <1>7, UnitsAreTicks
    <3>3. Between(Rates(s), s.start, d) = Between(Rates(s), s.start, c) + Between(Rates(s), c, d)
      BY <1>2, <1>5, <1>6, <1>7, BetweenParts, RatesWeights, OneCounts DEF Rates
    <3> QED
      BY <2>1, <2>2, <3>1, <3>2, <3>3
  <2>4. PICK high \in Nat : high = HighestRate
    BY <1>5, HighestOf DEF HighestRate
  <2>5. 2 * sent * UnitsPerByte <= 2 * u + grants * high
    BY <1>1, <1>3, <2>1, <2>4 DEF DriftBounded
  <2>6. 2 * sent * UnitsPerByte \in Nat /\ grants * high \in Nat
    BY <1>4, UnitsPerByteAssumption
  <2>7. 2 * sent * UnitsPerByte <= 2 * (u + v) + grants * high
    BY <2>5, <2>6
  <2> QED
    BY <1>3, <1>9, <2>3, <2>4, <2>7 DEF DriftBounded
<1> QED
  BY <1>10, <1>11 DEF Inductive

\* Every step keeps the invariant.
LEMMA NextInductive ==
    ASSUME Inductive, [Next]_vars
    PROVE  Inductive'
<1>1. CASE Send
  BY <1>1, SendInductive
<1>2. CASE Idle
  BY <1>2, IdleInductive
<1>3. CASE UNCHANGED vars
  <2>1. /\ contact' = contact /\ plan' = plan /\ cursor' = cursor
        /\ left' = left /\ sent' = sent /\ grants' = grants
    BY <1>3 DEF vars
  <2> QED
    BY <2>1 DEF Inductive, Reached, DriftBounded, Session, Credited, Units, HighestRate
<1> QED
  BY <1>1, <1>2, <1>3 DEF Next

\* The invariant holds in every state of a session.
LEMMA AlwaysInductive == Spec => []Inductive
  BY InitInductive, NextInductive, PTL DEF Spec

\* Grants never run ahead of the link: whatever the cuts of a session into grants and
\* idle time, the bytes granted outrun what the rates carry by half a tick of the
\* highest rate per grant at most, for every profile, window and unit.
THEOREM DriftStaysBounded == Spec => []DriftBounded
<1>1. Inductive => DriftBounded
  BY DEF Inductive
<1> QED
  BY <1>1, AlwaysInductive, PTL

\* rate_bytes_remaining is what a walk of the rest of the session tick by tick counts,
\* however segments and reserves overlap, and rounds down only once.
THEOREM RemainingIsTicks == Spec => []RemainingCountsTicks
<1>1. ASSUME Inductive PROVE RemainingCountsTicks
  <2>1. Reached
    BY <1>1 DEF Inductive
  <2>2. PICK s : s = Session /\ SessionShape(s) /\ s.plan = plan
    BY <2>1, SessionIs
  <2>3. s.start \in Nat /\ s.end \in Nat
    BY <2>2 DEF SessionShape
  <2>4. PICK c \in Nat : c = cursor /\ c <= s.end
    BY <2>1, <2>2, <2>3 DEF Reached
  <2>5. Units(c, s.end) = Between(Rates(s), c, s.end)
    BY <2>2, <2>3, <2>4, UnitsIs
  <2>6. ASSUME ~plan.fixed
        PROVE  RateBytesRemaining(s, c) = Between(Rates(s), c, s.end) \div UnitsPerByte
    BY <2>2, <2>4, <2>6, RemainingIs
  <2> QED
    BY <2>2, <2>4, <2>5, <2>6 DEF RemainingCountsTicks
<1> QED
  BY <1>1, AlwaysInductive, PTL

\* calculate_contact_capacity credits a contact that the window does not clip at its
\* start with no more bytes than its session can carry.
THEOREM CreditIsDeliverable == Spec => []CapacityDeliverable
<1>1. ASSUME Inductive PROVE CapacityDeliverable
  <2>1. Reached
    BY <1>1 DEF Inductive
  <2> SUFFICES ASSUME ~plan.fixed, Session.start = contact.start + plan.guardIn
               PROVE  Session.cap <= RateBytesRemaining(Session, Session.start)
    BY DEF CapacityDeliverable
  <2> DEFINE x == SessionOf(contact, plan)
             y == PlanUnits(plan, x.start - (contact.start + plan.guardIn),
                            x.end - (contact.start + plan.guardIn)) \div UnitsPerByte
  <2>2. x = Session
    BY DEF Session, SessionOf, Credited
  <2>3. /\ SessionShape(x) /\ x.start < x.end /\ x.cap \in Nat /\ x.plan = plan
        /\ x.cap = Greater(0, y - plan.byteReserve)
    BY <2>1, CreditedSession DEF Reached, Credited
  <2>4. x.start = contact.start + plan.guardIn
    BY <2>2
  <2> HIDE DEF x
  <2>5. x.start \in Nat /\ x.end \in Nat /\ x.start - x.start = 0 /\ plan.byteReserve \in Nat
    BY <2>3 DEF SessionShape, PlanOK
  <2>6. y = PlanUnits(x.plan, 0, x.end - x.start) \div UnitsPerByte
    BY <2>3, <2>4, <2>5
  <2>7. /\ PlanUnits(x.plan, 0, x.end - x.start) \in Int
        /\ PlanUnits(x.plan, 0, x.end - x.start) <= Between(Rates(x), x.start, x.end)
    BY <2>3, <2>5, PlanCarried
  <2>8. /\ RateBytesRemaining(x, x.start) = Between(Rates(x), x.start, x.end) \div UnitsPerByte
        /\ Between(Rates(x), x.start, x.end) \in Nat
        /\ RateBytesRemaining(x, x.start) \in Nat
    BY <2>3, <2>5, RemainingIs
  <2> HIDE DEF y
  <2>9. y \in Int /\ y <= RateBytesRemaining(x, x.start)
    BY <2>6, <2>7, <2>8, UnitsPerByteAssumption, QuotientOrder
  <2>10. x.cap <= RateBytesRemaining(x, x.start)
    BY <2>3, <2>5, <2>8, <2>9 DEF Greater
  <2> QED
    BY <2>2, <2>10
<1> QED
  BY <1>1, AlwaysInductive, PTL
=============================================================================
