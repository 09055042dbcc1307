-------------------------------- MODULE Sums --------------------------------
(***************************************************************************)
(* Sums of the first values of a function on positive numbers, and the     *)
(* greatest of a set of numbers: what the books of the reducer are stated  *)
(* with.                                                                   *)
(***************************************************************************)
EXTENDS Integers

\* The sums f[1] + ... + f[i], for every i.
Sums(f) ==
    LET upTo[i \in Nat] == IF i = 0 THEN 0 ELSE upTo[i - 1] + f[i]
    IN  upTo

Sum(f, n) == Sums(f)[n]

Greatest(S) == CHOOSE m \in S : \A n \in S : n <= m
=============================================================================
