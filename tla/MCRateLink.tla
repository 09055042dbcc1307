----------------------------- MODULE MCRateLink -----------------------------
(***************************************************************************)
(* Contacts before, inside and across the analysis window, and profiles    *)
(* whose segments, reserves and guards meet its edges in every way the     *)
(* arithmetic distinguishes.  Two units make a byte.                       *)
(***************************************************************************)
EXTENDS RateLink

MCWindow == [start |-> 2, end |-> 9]

MCContacts == {[start |-> s, end |-> e] : s \in {0, 2, 3}, e \in {7, 8, 11}}

Segments ==
    {<<[from |-> 0, to |-> 12, rate |-> 3]>>,
     <<[from |-> 0, to |-> 2, rate |-> 5], [from |-> 2, to |-> 5, rate |-> 1],
       [from |-> 5, to |-> 12, rate |-> 2]>>,
     <<[from |-> 0, to |-> 3, rate |-> 1], [from |-> 3, to |-> 4, rate |-> 0],
       [from |-> 4, to |-> 6, rate |-> 3]>>}

Reserves == {<<>>, <<[from |-> 1, to |-> 3]>>,
             <<[from |-> 4, to |-> 5], [from |-> 0, to |-> 1]>>}

MCPlans ==
    {[fixed |-> FALSE, fixedBytes |-> 0, guardIn |-> g, guardOut |-> 1, byteReserve |-> b,
      reserves |-> r, segments |-> s] : g \in {0, 1}, b \in {0, 1}, r \in Reserves, s \in Segments}
    \cup
    {[fixed |-> TRUE, fixedBytes |-> 3, guardIn |-> g, guardOut |-> 1, byteReserve |-> 0,
      reserves |-> <<>>, segments |-> <<>>] : g \in {0, 1}}
=============================================================================
