----------------------------- MODULE MCAnalysis -----------------------------
(***************************************************************************)
(* QUEUE_AWARE: one to six candidates out of a pool of overlapping,        *)
(* touching and lone sessions, and three payloads whose attributes make    *)
(* the order of service depend on which session carries what.              *)
(* NETWORK_ONLY: every set of candidates on a window of a few ticks.       *)
(***************************************************************************)
EXTENDS DocumentProperties, MCSessions, TLC

CONSTANTS
    Deadlines,  \* TRUE: payloads may have deadlines
    Strategies,
    Offerings,  \* names of the sets of candidates
    Recorded,   \* names of those that are also tried with a recorder
    MaxCandidates, Ticks \* of NETWORK_ONLY

MCPayloads == 1 .. 3

\* 1 and 2 overlap, 4 and 5 overlap, 3 touches both pairs and overlaps its twin 8;
\* "fixed" is worth 3 bytes in any interval, "silent" none: a contact, not a candidate.
\* 10 is of a station whose rate is unknown, 11 of the same but over before the
\* window opens; 12 is over before it as well, 13 crosses its end and is of a
\* station of known rate and UNKNOWN evidence.
Passes ==
    <<<<0, 2, "slow">>, <<1, 4, "slow">>, <<4, 6, "fixed">>, <<6, 8, "slow">>, <<7, 10, "slow">>,
      <<2, 7, "instant">>, <<4, 7, "slow">>, <<5, 6, "fixed">>, <<6, 8, "silent">>,
      <<3, 5, "unknown">>, <<-3, -1, "unknown">>, <<-2, 0, "slow">>, <<8, 12, "unproven">>,
      <<6, 8, "slow">>>>

\* A station has one rate; two of them have the slow one.
Station(name, k) ==
    CASE name = "slow"     -> k % 2
      [] name = "fixed"    -> 2
      [] name = "instant"  -> 3
      [] name = "silent"   -> 4
      [] name = "unknown"  -> 5
      [] name = "unproven" -> 6

Evidence(name) ==
    CASE name = "slow" -> "CONFIRMED" [] name = "fixed" -> "PROVISIONAL"
      [] name \in {"unknown", "unproven"} -> "UNKNOWN" [] OTHER -> "PROXY"

\* calculate_contact_capacity: an interval, none of it in the window, or of unknown rate.
Outcome(from, to, name) ==
    LET s == SessionOf(from, to, IF name = "unknown" THEN "slow" ELSE name)
    IN  IF s.start = s.end
        THEN [start |-> None, end |-> None, cap |-> 0, plan |-> None]
        ELSE IF name = "unknown" THEN [s EXCEPT !.cap = None, !.plan = None] ELSE WithRates(s)

\* 14 goes by the key of 1.
Contact(k) ==
    LET from == Passes[k][1]  to == Passes[k][2]  name == Passes[k][3]
        station == Station(name, k)
        s == Outcome(from, to, name)
    IN  [key |-> IF k = 14 THEN 1 ELSE k, pass |-> k, station |-> station, rank |-> station % 2,
         aos |-> from, los |-> to, evidence |-> Evidence(name),
         start |-> s.start, end |-> s.end, cap |-> s.cap, plan |-> s.plan]

\* contacts_for: by interval, station and key.
Timetable ==
    SortSeq(Computed([k \in DOMAIN Passes |-> Contact(k)]),
            LAMBDA c, d : Precedes(<<c.aos, c.los, c.station, c.key>>,
                                   <<d.aos, d.los, d.station, d.key>>))

KeysOf(offering) ==
    CASE offering = "lone"     -> {{1, 3, 9, 12}, {1, 3, 4}, {2, 3, 5, 11}}
      [] offering = "pairs"    -> {{1, 2, 4, 5}}
      [] offering = "twins"    -> {{3, 8}, {1, 2, 3, 8}}
      [] offering = "triple"   -> {{1, 2, 3, 4, 5, 8}}
      [] offering = "apart"    -> {{1, 7}}
      [] offering = "chained"  -> {{1, 2, 3, 6}, {2, 5, 6}}
      [] offering = "spoilt"   -> {{1, 3, 13}}
      [] offering = "nested"   -> {{3, 5, 6}}
      [] offering = "namesakes" -> {{1, 2, 14}}

Payload(size, ready, class, deadline, chunk) ==
    [size |-> size, store |-> size, ready |-> ready, expiry |-> None, deadline |-> deadline,
     class |-> class, severity |-> 0, priority |-> 0, seq |-> 1, chunk |-> chunk]

Objects ==
    {<<Payload(2, 0, 0, d1, None), Payload(b, r2, 0, d2, None), Payload(c, r3, 0, d3, ch)>> :
        b \in {2, 3}, c \in {1, 3}, r2 \in {0, 4}, r3 \in {0, 3}, ch \in {None, 1},
        d1 \in IF Deadlines THEN {1, 5} ELSE {None},
        d2 \in IF Deadlines THEN {5, 9} ELSE {None},
        d3 \in IF Deadlines THEN {9} ELSE {None}}
  \cup
    {<<Payload(a, 0, 0, None, None), Payload(b, r2, 0, None, None), Payload(c, r3, 1, None, ch)>> :
        a \in {2, 3}, b \in {1, 2}, c \in {2, 3}, r2 \in {0, 4}, r3 \in {0, 3}, ch \in {None, 1}}

Disabled == [enabled |-> FALSE, hard |-> FALSE, trigger |-> "NEVER", physical |-> 0,
             usable |-> 0, initial |-> 0]

\* Events of the recorder and of the queue on one instant; it refuses nothing.
Roomy == [enabled |-> TRUE, hard |-> TRUE, trigger |-> "TX_END", physical |-> 20,
          usable |-> 20, initial |-> 0]

Lists(passSets) == {SelectSeq(Timetable, LAMBDA c : c.pass \in passes) : passes \in passSets}

\* Every set of passes is an input of its own, and so it is with 10.
ContactLists ==
    Lists({ks \cup b : ks \in UNION {KeysOf(o) : o \in Offerings}, b \in {{}, {10}}})

RecordedLists == Lists(UNION {KeysOf(o) : o \in Recorded})

\* An input of either mode: <<mode, contacts, strategy, object, after, storage>>.
QueueChoices ==
    {x \in {"QUEUE_AWARE"} \X ContactLists \X Strategies \X Objects \X {{}, {<<3, 2>>}} \X {Disabled} :
        Len(x[2]) >= 6 \/ (\E k \in DOMAIN x[2] : x[2][k].cap = None) => x[3] = "EXACT_GLOBAL"}
  \cup
    ({"QUEUE_AWARE"} \X RecordedLists \X {"EXACT_GLOBAL"} \X Objects \X {{}} \X {Roomy})

\* A station of one capacity and one of two, whose ranks go against their names: nested,
\* chained and touching intervals, and ties of weight that every part of the
\* tie-break key decides.  A key only ever decides between equal intervals.
Shapes ==
    {c \in [station : {0, 1}, rank : {0, 1}, start : 0 .. Ticks - 1, end : 1 .. Ticks, cap : {1, 2}] :
        c.start < c.end /\ c.rank = 1 - c.station /\ c.cap <= 1 + c.station}

Later(a, b) == ~Precedes(<<b.start, b.end>>, <<a.start, a.end>>)

\* Sequences by interval in which absent contacts come first.
Ordered ==
    LET lists[n \in 0 .. MaxCandidates] ==
            IF n = 0 THEN {<<>>}
            ELSE {Append(x[1], x[2]) : x \in
                    {y \in lists[n - 1] \X (Shapes \cup {None}) :
                        \/ n = 1 \/ y[1][n - 1] = None
                        \/ y[2] # None /\ Later(y[1][n - 1], y[2])}}
    IN  lists[MaxCandidates]

Networks ==
    {LET present == SelectSeq(q, LAMBDA c : c # None)
     IN  [i \in DOMAIN present |->
            LET c == present[i]
            IN  [key |-> i, station |-> c.station, rank |-> c.rank, aos |-> c.start,
                 los |-> c.end, evidence |-> "PROXY", start |-> c.start, end |-> c.end,
                 cap |-> c.cap]] : q \in Ordered}

Idle == [p \in MCPayloads |-> Payload(1, 0, 0, None, None)]

NetworkChoices ==
    {"NETWORK_ONLY"} \X Networks \X {"EXACT_GLOBAL"} \X {Idle} \X {{}} \X {Disabled}

Input(x) ==
    [mode |-> x[1], sessions |-> <<>>, offered |-> {},
     stations |-> IF x[1] = "QUEUE_AWARE" THEN 0 .. 6 ELSE {0, 1},
     contacts |-> x[2],
     strategy |-> x[3], object |-> x[4], after |-> x[5],
     ack |-> [p \in MCPayloads |-> None], storage |-> x[6], windowEnd |-> 10]

MCScenarios == {Input(x) : x \in NetworkChoices \cup QueueChoices}
=============================================================================
