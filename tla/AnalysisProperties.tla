------------------------- MODULE AnalysisProperties -------------------------
(***************************************************************************)
(* What the selection of an analysis is worth, against every selection     *)
(* there is.  Once an analysis has its answer, `Consult` rolls out the     *)
(* feasible selections the search did not try: the step of a reference,    *)
(* not of the program.                                                     *)
(***************************************************************************)
EXTENDS Analysis

Consult ==
    /\ phase = "answered" /\ answer.status # "REFUSED" /\ QueueAware /\ ~Blocked
    /\ todo' = {S \in SUBSET Offered : Feasible(S)} \ {s.selection : s \in scores}
    /\ phase' = "score"
    /\ UNCHANGED <<vars, trial, scores, answer>>

OracleNext == ANext \/ Consult
OracleSpec == AInit /\ [][OracleNext]_hvars

\* Every feasible selection has been rolled out.
Consulted == phase = "score" /\ todo = {} /\ answer # None

\* EXACT_GLOBAL "establishes the global optimum": no feasible selection at all has
\* a better objective, nor the same one and an earlier tie-break, although only
\* maximal sets are tried and components that do not branch are not scored.
GloballyOptimal ==
    (Consulted /\ answer.status = "EXACT") =>
        \A s, t \in scores :
            s.selection = answer.sessions /\ t.selection # answer.sessions =>
                \/ Precedes(t.objective, s.objective)
                \/ s.objective = t.objective /\ SelectionBefore(s.selection, t.selection)

\* Whatever the strategy, the one transmitter can serve the answer, and no further
\* session fits: a session that is refused is refused for another one.
AnswerMaximal ==
    (answer # None /\ answer.status # "REFUSED") =>
        /\ Feasible(answer.sessions)
        /\ \A c \in Offered \ answer.sessions : ~Feasible(answer.sessions \cup {c})

-----------------------------------------------------------------------------
\* The algorithms on candidates alone, at the start of the analyses in which
\* nothing but the candidates differs.
AtStart == phase = "select" /\ ~QueueAware

FeasibleSets == {S \in SUBSET Offered : Feasible(S)}

MaximalFeasible ==
    {S \in FeasibleSets : \A c \in Offered \ S : ~Feasible(S \cup {c})}

\* NETWORK_ONLY: the program finds a feasible selection of the most bytes, and of
\* all of those the first by the tie-break profile, although it breaks ties on
\* parts of selections ("Exact maximum-weight pairwise non-overlapping subset").
MaximumExact ==
    (phase = "answered" /\ ~QueueAware) =>
        LET chosen == answer.sessions
            best   == {S \in FeasibleSets : \A T \in FeasibleSets : Weight(S) >= Weight(T)}
        IN  chosen \in best /\ \A S \in best \ {chosen} : SelectionBefore(chosen, S)

\* The search is complete: the combinations of one maximal set of each conflict
\* component are the maximal feasible sets of all candidates, every one of them and
\* nothing else, and the recursion appends each set of a component once, so that the
\* budgets count what they say they count.
SearchComplete ==
    AtStart =>
        /\ UNION Components = Offered
        /\ Combinations = MaximalFeasible
        /\ \A P \in Components : Appended(P) = Cardinality(MaximalSets(P))
=============================================================================
