------------------------- MODULE DocumentProperties -------------------------
(***************************************************************************)
(* What the document of a finished analysis is worth: that the run store   *)
(* takes it, that its sums agree however they are told, and its gaps.      *)
(* \A r \in {Result} has TLC compute the document once.                   *)
(***************************************************************************)
EXTENDS ResultDocument, AnalysisProperties

Reported == phase = "reported"

Elements(list) == Listed!ToSet(list)

-----------------------------------------------------------------------------
\* How many rows the document asks for.
Entries(r) ==
    Len(r.geometric) + Len(r.modeled) + Len(r.candidates) + Len(r.scheduled) + Len(r.allocations)
    + Len(r.events) + Len(r.metrics) + Len(r.warnings) + Len(r.suppressed)
    + SumOf(r.progress, LAMBDA p : Len(p.reasons))

\* UNIQUE (run_id, stable_key).
KeysUnique(r) == Cardinality({x.key : x \in Rows!IdentityRows(r)}) = Entries(r)

\* Every reference names a row of the run, a station or a payload of its input; no two
\* modeled contacts, candidates or sessions have one parent, nor two allocations
\* one place in their session.
ReferencesResolve(r) ==
    \A rows \in {Rows!TypedRows(r)} : \A keys \in {{x.key : x \in rows}} :
        /\ \A x \in rows :
              /\ x.parent = None \/ x.parent \in keys
              /\ x.station = None \/ x.station \in sc.stations
              /\ x.payload = None \/ x.payload \in Payloads
              /\ x.table \in {"MODELED_CONTACT", "CANDIDATE_SESSION", "SCHEDULED_SESSION",
                              "TRANSFER_ALLOCATION"} => x.parent # None
        /\ \A table \in {"MODELED_CONTACT", "CANDIDATE_SESSION", "SCHEDULED_SESSION"} :
              LET of == {x \in rows : x.table = table}
              IN  Cardinality({x.parent : x \in of}) = Cardinality(of)
        /\ Cardinality({<<a.session, a.ordinal>> : a \in Elements(r.allocations)}) = Len(r.allocations)

\* UNIQUE (run_id, event_at_us, event_order): a total order.
EventsOrdered(r) == Cardinality({<<e.at, e.order>> : e \in Elements(r.events)}) = Len(r.events)

\* run_result_status_grade_ck, where a metric has no grade to violate it.
GradesConsistent(r) ==
    \A x \in Rows!IdentityRows(r) : x.kind # "METRIC" =>
        (x.status = "BLOCKED" <=> x.grade = "BLOCKED")

IntervalsOpen(r) ==
    /\ \A g \in Elements(r.geometric) : g.aos < g.los
    /\ \A m \in Elements(r.modeled) : m.usable # None => m.usable[1] < m.usable[2]
    /\ \A a \in Elements(r.allocations) : a.start < a.end

Storable(r) ==
    KeysUnique(r) /\ ReferencesResolve(r) /\ EventsOrdered(r) /\ GradesConsistent(r)
    /\ IntervalsOpen(r)

\* The inputs whose runs are computed and cannot be stored, although validate() lets
\* them in: two contacts of one key, a known rate on UNKNOWN evidence, and a
\* grant too short for a tick.
ContactKeysClash   == \E i, j \in DOMAIN sc.contacts : i # j /\ sc.contacts[i].key = sc.contacts[j].key
EvidenceUnknown    == \E c \in Contacts :
                          CapacityStatus(c) # "BLOCKED" /\ c.evidence = "UNKNOWN"
TransferTakesNoTime == HasLedger /\ \E a \in Elements(allocations) : a.start = a.end

\* The rows of every result satisfy the keys, references and checks of the result
\* tables, however many sessions, grants and recorder events fall on one instant;
\* the three kinds of run named above are exactly the ones that do not.
ResultStorable ==
    Reported =>
        \A r \in {Result} :
            Storable(r) <=> ~(ContactKeysClash \/ EvidenceUnknown \/ TransferTakesNoTime)

-----------------------------------------------------------------------------
\* The value of a metric of the whole run.
Value(r, code) == (CHOOSE m \in Elements(r.metrics) : m.code = code /\ m.station = None).value

RowsOf(r, table) == Cardinality({x \in Rows!TypedRows(r) : x.table = table})

SumsAgree(r) ==
    LET candidates == Value(r, "CANDIDATE_CAPACITY_SUM_BYTES")
        scheduled  == Value(r, "SCHEDULED_UNIQUE_CAPACITY_BYTES")
        ofStations == SelectSeq(r.metrics, LAMBDA m : m.station # None)
        allocated  == Value(r, "PAYLOAD_ALLOCATED_BYTES")
    IN  /\ candidates = scheduled + Value(r, "SUPPRESSED_CAPACITY_BYTES")
        /\ candidates = SumOf(ofStations, LAMBDA m : m.value)
        /\ candidates = Budget!CandidatesByDay(r, Window)
        /\ scheduled = Budget!ScheduledByDay(r, Window)
        /\ \A date \in Budget!Dates(r, Window) : \A day \in {Budget!Day(r, date)} :
              /\ day.scheduled <= day.candidates /\ day.scheduledBytes <= day.candidateBytes
              /\ day.candidates > 0 => date \in Budget!WindowDates(Window)
        /\ HasLedger =>
              /\ allocated + Value(r, "PAYLOAD_REMAINING_BYTES")
                   = MapThenSumSet(LAMBDA p : Object(p).size, Payloads)
              /\ allocated + Value(r, "STRANDED_CAPACITY_BYTES") <= scheduled
        /\ \A x \in {<<"NETWORK_SCHEDULE", "SCHEDULED_SESSION">>, <<"QUEUE", "TRANSFER_ALLOCATION">>} :
              \E s \in Elements(Stages) : s.code = x[1] /\ s.count = RowsOf(r, x[2])

\* What the candidates can carry is what is scheduled and what is suppressed, and what
\* the stations and the dates add up to; what the sessions can carry covers what was
\* sent and what was left over, and what was sent and what remains is what there
\* was to send.  ("The daily scheduled capacities always sum back"; a blocked run has
\* no sums, and lists sessions all the same.)
TotalsAgree ==
    (Reported /\ ~Blocked /\ ~ContactKeysClash) =>
        \A r \in {Result} : SumsAgree(r)

-----------------------------------------------------------------------------
\* The reported gap is the longest run of ticks after the first interval begins and
\* before the last one ends that no interval covers, however the intervals nest.
LongestUncovered(interval) ==
    LET all    == {interval[i] : i \in DOMAIN interval}
        within == Min({i.start : i \in all}) .. Max({i.end : i \in all}) - 1
        bare   == {t \in within : \A i \in all : ~(i.start <= t /\ t < i.end)}
    IN  Max({0} \cup {x[2] - x[1] + 1 : x \in
                {y \in bare \X bare : y[1] <= y[2] /\ y[1] .. y[2] \subseteq bare}})

GapsExact ==
    Reported =>
        \A interval \in {GeometricIntervals, ModeledIntervals, SelectedIntervals} :
            MaximumInternalGap(interval) =
                IF Cardinality(DOMAIN interval) < 2 THEN None ELSE LongestUncovered(interval)
=============================================================================
