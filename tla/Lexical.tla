------------------------------ MODULE Lexical ------------------------------
(***************************************************************************)
(* Comparisons of tuples of numbers, as Python makes them: the orders of   *)
(* the payload queue, of candidate sessions and of objectives.             *)
(***************************************************************************)
EXTENDS Integers, Sequences

\* a comes before b; both have the same length.
Precedes(a, b) ==
    \E i \in DOMAIN a : a[i] < b[i] /\ \A j \in 1 .. i - 1 : a[j] = b[j]
=============================================================================
