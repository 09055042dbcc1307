----------------------------- MODULE Selection -----------------------------
(***************************************************************************)
(* Choosing contact sessions for the one transmitter: the weighted         *)
(* interval program of domain/scheduler.py, and the conflict components,   *)
(* maximal sets and greedy schedules of domain/horizon.py.                 *)
(*                                                                         *)
(* A candidate is a record [key, station, rank, start, end, cap]; keys and *)
(* stations are numbers in the order of their names.  A selection is a set *)
(* of candidates: that the code keeps it sorted tells nothing apart.       *)
(***************************************************************************)
EXTENDS Lexical, Sums, FiniteSetsExt

\* What a candidate is: an interval that is not empty, and capacity.
CandidateOK(c) ==
    /\ c.key \in Int /\ c.station \in Int /\ c.rank \in Int
    /\ c.start \in Nat /\ c.end \in Nat /\ c.start < c.end
    /\ c.cap \in Nat \ {0}

\* Intervals are [start, end): touching is not overlapping.
Overlaps(a, b) == a.start < b.end /\ b.start < a.end

Feasible(S) == \A a, b \in S : a # b => ~Overlaps(a, b)

TieBreakKey(c) == <<c.rank, c.end, c.start, c.station, c.key>>

TieBreaks(a, b) == Precedes(TieBreakKey(a), TieBreakKey(b))

\* The elements of a set in a strict order (SetToSortSeq tries every sequence of them).
Sorted(C, Before(_, _)) ==
    [i \in 1 .. Cardinality(C) |->
        CHOOSE c \in C : Cardinality({d \in C : Before(d, c)}) = i - 1]

\* The order in which the dynamic program takes candidates, and adds their bytes.
EndsBefore(a, b) == Precedes(<<a.end, a.start, a.rank, a.station, a.key>>,
                             <<b.end, b.start, b.rank, b.station, b.key>>)

ByEnd(C) == Sorted(C, EndsBefore)

Weight(S) ==
    LET item == ByEnd(S)
    IN  Sum([i \in 1 .. Cardinality(S) |-> item[i].cap], Cardinality(S))

\* The sorted keys of S compare less than those of T: where they first differ, S
\* has the lesser key, or no key at all.
SelectionBefore(S, T) ==
    /\ S # T
    /\ LET differing == (S \ T) \cup (T \ S)
           first == CHOOSE c \in differing : \A d \in differing \ {c} : TieBreaks(c, d)
       IN  IF first \in S THEN \E t \in T : TieBreaks(first, t)
                          ELSE \A s \in S : TieBreaks(s, first)

-----------------------------------------------------------------------------
\* select_maximum_nonoverlap: the dynamic program over the candidates by end.
\* A slip: a tie goes to the selection with the item.
BetterKeepsItem(with, without) == IF Weight(with) >= Weight(without) THEN with ELSE without

Better(with, without) ==
    IF Weight(with) # Weight(without)
    THEN IF Weight(with) > Weight(without) THEN with ELSE without
    ELSE IF SelectionBefore(with, without) THEN with ELSE without

Compatible(a, b) == a.end <= b.start

MaximumNonoverlap(C) ==
    LET item == ByEnd(C)
        latest(i) == Greatest({0} \cup {j \in 1 .. i - 1 : Compatible(item[j], item[i])})
        best[i \in 0 .. Cardinality(C)] ==
            IF i = 0 THEN {}
            ELSE LET with    == best[latest(i)] \cup {item[i]}
                     without == best[i - 1]
                 IN  Better(with, without)
    IN  best[Cardinality(C)]

-----------------------------------------------------------------------------
\* conflict_components: sweep by start, closing a component when a candidate
\* starts at or after the end of everything in it.
ByStart(C) ==
    Sorted(C, LAMBDA a, b : Precedes(<<a.start, a.end, a.key>>, <<b.start, b.end, b.key>>))

\* A slip: the frontier is the end of the last candidate, not the latest end.
SweepToLast(swept, c) ==
    IF c.start < swept.frontier
    THEN [closed |-> swept.closed, current |-> swept.current \cup {c}, frontier |-> c.end]
    ELSE [closed |-> swept.closed \cup {swept.current}, current |-> {c}, frontier |-> c.end]

Sweep(swept, c) ==
    IF c.start < swept.frontier
    THEN [closed |-> swept.closed, current |-> swept.current \cup {c},
          frontier |-> Greatest({swept.frontier, c.end})]
    ELSE [closed |-> swept.closed \cup {swept.current}, current |-> {c}, frontier |-> c.end]

ConflictComponents(C) ==
    LET item == ByStart(C)
        swept[i \in 0 .. Cardinality(C)] ==
            IF i = 0 THEN [closed |-> {}, current |-> {}, frontier |-> 0]
            ELSE Sweep(swept[i - 1], item[i])
        last == swept[Cardinality(C)]
    IN  (last.closed \cup {last.current}) \ {{}}

-----------------------------------------------------------------------------
\* maximal_nonoverlapping_sets: after the session that ends at t, only a
\* candidate that starts before the earliest end still to come can be next.
Available(C, t) == {c \in C : c.start >= t}

Viable(C, t) == {c \in Available(C, t) : \A d \in Available(C, t) : c.start < d.end}

Instants(C) == {0} \cup {c.end : c \in C}

MaximalSets(C) ==
    LET sets[t \in Instants(C)] ==
            IF Available(C, t) = {} THEN {{}}
            ELSE UNION {{{c} \cup rest : rest \in sets[c.end]} : c \in Viable(C, t)}
    IN  sets[0]

\* What each of the next sessions leads to, added in the order they are taken.
OverNext(f, S) ==
    LET item == ByStart(S)
    IN  Sum([i \in 1 .. Cardinality(S) |-> f[item[i].end]], Cardinality(S))

\* The calls of recurse(), which MAXIMAL_SET_BUDGET bounds, and the sets they append.
Visits(C) ==
    LET calls[t \in Instants(C)] == 1 + OverNext(calls, Viable(C, t))
    IN  calls[0]

Appended(C) ==
    LET sets[t \in Instants(C)] ==
            IF Available(C, t) = {} THEN 1 ELSE OverNext(sets, Viable(C, t))
    IN  sets[0]

-----------------------------------------------------------------------------
\* _greedy_schedule: in the order of a sequence, keep what still fits.
Greedy(q) ==
    LET kept[i \in 0 .. Len(q)] ==
            IF i = 0 THEN {}
            ELSE IF \E k \in kept[i - 1] : Overlaps(q[i], k) THEN kept[i - 1]
            ELSE kept[i - 1] \cup {q[i]}
    IN  kept[Len(q)]

EarliestFinish(C) ==
    Greedy(Sorted(C, LAMBDA a, b : Precedes(<<a.end, a.start>> \o TieBreakKey(a),
                                            <<b.end, b.start>> \o TieBreakKey(b))))

\* Bytes per tick, compared as fractions.
DensestFirst(C) ==
    Greedy(Sorted(C, LAMBDA a, b :
        LET left  == a.cap * (b.end - b.start)
            right == b.cap * (a.end - a.start)
        IN  left > right \/ (left = right /\ TieBreaks(a, b))))

Policies(C) == {MaximumNonoverlap(C), EarliestFinish(C), DensestFirst(C)}
=============================================================================
