------------------------------ MODULE Horizon ------------------------------
(***************************************************************************)
(* QUEUE_AWARE session selection of domain/horizon.py: which selections    *)
(* are tried, the whole-horizon rollout of each through the reducer of     *)
(* Ledger, the objective that ranks them, and the answer.                  *)
(*                                                                         *)
(* A rollout is the behaviour of Ledger itself on the selection; `phase`   *)
(* says what select_queue_aware_nonoverlap does around it: "select",       *)
(* "score" (between rollouts), "rollout", "answered".  A scenario also     *)
(* says which candidates are offered and which strategy is declared; its   *)
(* sessions are those of the selection being tried.  Analysis puts the     *)
(* actions together.                                                       *)
(***************************************************************************)
EXTENDS Ledger, Selection

CONSTANTS
    SetBudget,         \* MAXIMAL_SET_BUDGET
    CombinationBudget, \* GLOBAL_COMBINATION_BUDGET
    WorkBudget         \* EXACT_WORK_BUDGET

VARIABLES
    phase,
    todo,   \* selections still to be rolled out
    trial,  \* the selection being rolled out
    scores, \* [selection, objective] of every rollout
    answer  \* [status, sessions], None before

search == <<phase, todo, trial, scores, answer>>
hvars  == <<vars, search>>

Offered  == sc.offered
Answer(status, sessions) == [status |-> status, sessions |-> sessions]

-----------------------------------------------------------------------------
\* evaluate_objective, as one tuple in which every term is maximised: on time or
\* not of each mandatory payload, tardiness negated, bytes of each payload, bytes
\* of capacity.
ServiceOrder == Sorted(Payloads, ServedBefore)
Mandatory    == SelectSeq(ServiceOrder, LAMBDA p : Object(p).class = 0)

OnTime(p) ==
    IF completion[p] # None
       /\ (Object(p).deadline = None \/ completion[p] <= Object(p).deadline)
    THEN 1 ELSE 0

Tardiness(p) ==
    IF OnTime(p) = 1 \/ Object(p).deadline = None THEN 0
    ELSE Max({0, (IF completion[p] = None THEN sc.windowEnd ELSE completion[p])
                   - Object(p).deadline})

Objective ==
    [i \in DOMAIN Mandatory |-> OnTime(Mandatory[i])]
    \o <<-MapThenSumSet(Tardiness, {Mandatory[i] : i \in DOMAIN Mandatory})>>
    \o [i \in DOMAIN ServiceOrder |-> Object(ServiceOrder[i]).size - remaining[ServiceOrder[i]]]
    \o <<Weight(trial)>>

\* Descending on the objective, ascending on the tie-break.
\* A slip: a tie goes the other way.
BeatsReversed(s, t) ==
    \/ Precedes(t.objective, s.objective)
    \/ s.objective = t.objective /\ SelectionBefore(t.selection, s.selection)

Beats(s, t) ==
    \/ Precedes(t.objective, s.objective)
    \/ s.objective = t.objective /\ SelectionBefore(s.selection, t.selection)

-----------------------------------------------------------------------------
\* _select_exact_global: one maximal set of every component, in all combinations.
Components == ConflictComponents(Offered)
Branching  == {P \in Components : Cardinality(MaximalSets(P)) > 1}

\* One maximal set of each of the components P, joined in every way.
Joined(P) ==
    LET choices == {f \in [P -> UNION {MaximalSets(part) : part \in P}] :
                       \A part \in P : f[part] \in MaximalSets(part)}
    IN  {UNION {f[part] : part \in P} : f \in choices}

\* A slip: only the branching components are combined.
CombinationsOfBranching == Joined(Branching)
Combinations            == Joined(Components)

\* The largest selection any combination can produce, and what it is rolled out on.
Scale ==
    MapThenSumSet(LAMBDA P : Max({Cardinality(S) : S \in MaximalSets(P)}), Components)
    + Cardinality(Payloads) + Cardinality(sc.after)

OverBudget ==
    \/ \E P \in Components : Visits(P) > SetBudget
    \/ Branching # {} /\ Cardinality(Combinations) > CombinationBudget
    \/ Branching # {} /\ Cardinality(Combinations) * Scale > WorkBudget

Tries(selections) ==
    /\ phase' = "score" /\ todo' = selections
    /\ UNCHANGED <<vars, trial, scores, answer>>

Answers(status, sessions) ==
    /\ phase' = "answered" /\ answer' = Answer(status, sessions)
    /\ UNCHANGED <<vars, todo, trial, scores>>

SelectExact ==
    /\ phase = "select" /\ sc.strategy = "EXACT_GLOBAL"
    /\ \/ OverBudget /\ Answers("REFUSED", {})
       \/ ~OverBudget /\ Branching = {} /\ Answers("EXACT", UNION Combinations)
       \/ ~OverBudget /\ Branching # {} /\ Tries(Combinations)

\* _select_bounded_approximate: three policies, no budget; nothing to score when
\* they agree.
SelectBounded ==
    /\ phase = "select" /\ sc.strategy = "BOUNDED_APPROXIMATE"
    /\ LET family == Policies(Offered)
       IN  \/ Cardinality(family) = 1 /\ Answers("APPROXIMATE", UNION family)
           \/ Cardinality(family) > 1 /\ Tries(family)

Unsent == [p \in Payloads |-> Object(p).size]

\* _Reducer.__init__: everything as in Init, for the sessions of a selection.
FreshReducer(S) ==
    /\ sc' = [sc EXCEPT !.sessions = ByStart(S)]
    /\ pc' = "next" /\ ses' = 0 /\ cursor' = 0 /\ available' = 0 /\ upto' = 0 /\ instant' = 0
    /\ due' = {} /\ ungenerated' = Payloads
    /\ undelivered' = {p \in Payloads : sc.ack[p] # None}
    /\ remaining' = Unsent
    /\ completion' = [p \in Payloads |-> None] /\ partialEnd' = [p \in Payloads |-> None]
    /\ acknowledged' = [p \in Payloads |-> None] /\ notes' = [p \in Payloads |-> {}]
    /\ admitted' = {} /\ released' = {}
    /\ occupancy' = IF Store.enabled THEN Store.initial ELSE 0
    /\ tally' = Totals(occupancy', Breach(occupancy'), 0, 0)
    /\ log' = <<>> /\ allocations' = <<>> /\ stranded' = 0

\* run_ledger on one selection.  In which order they are tried makes no difference.
BeginRollout ==
    /\ phase = "score" /\ todo # {}
    /\ \E S \in todo :
          /\ \A T \in todo \ {S} : SelectionBefore(S, T)
          /\ trial' = S /\ FreshReducer(S)
    /\ phase' = "rollout"
    /\ UNCHANGED <<todo, scores, answer>>

Rollout ==
    /\ phase = "rollout" /\ Step
    /\ UNCHANGED search

EndRollout ==
    /\ phase = "rollout" /\ pc = "done"
    /\ scores' = scores \cup {[selection |-> trial, objective |-> Objective]}
    /\ todo' = todo \ {trial}
    /\ phase' = "score"
    /\ UNCHANGED <<vars, trial, answer>>

Choose ==
    /\ phase = "score" /\ todo = {} /\ answer = None
    /\ \E s \in scores :
          /\ \A t \in scores \ {s} : Beats(s, t)
          /\ Answers(IF sc.strategy = "EXACT_GLOBAL" THEN "EXACT" ELSE "APPROXIMATE",
                     s.selection)
=============================================================================
