--------------------------- MODULE ResultDocument ---------------------------
(***************************************************************************)
(* The document RunScenarioService.run makes of a finished analysis: what  *)
(* _result_content and _stages put into it, in the shape RunRows projects  *)
(* on the rows of the run store.  A key is a tuple whose first element is  *)
(* its prefix.  Durations, bundles, the storage timeline and the reason    *)
(* codes that name a deciding term are left out: none of them is a row or  *)
(* a sum.                                                                  *)
(*                                                                         *)
(* A contact also has the state of the evidence for its station's rate.    *)
(***************************************************************************)
EXTENDS Analysis

CONSTANTS
    MaxReasons, \* bound on the reason codes of one payload
    DayLength   \* ticks of a day

Listed == INSTANCE SequencesExt
Rows   == INSTANCE RunRows
Budget == INSTANCE DailyBudget

Window == [start |-> 0, end |-> sc.windowEnd]

-----------------------------------------------------------------------------
\* ContactResult: capacity.py grades a contact by its evidence, and only an
\* unknown rate is BLOCKED.
GradeForEvidence(evidence) ==
    CASE evidence = "CONFIRMED"   -> "VERIFIED"
      [] evidence = "PROVISIONAL" -> "ENGINEERING_ESTIMATE"
      [] evidence = "PROXY"       -> "CONCEPT_ONLY"
      [] evidence = "UNKNOWN"     -> "BLOCKED"

Grade(c) == IF CapacityStatus(c) = "BLOCKED" THEN "BLOCKED" ELSE GradeForEvidence(c.evidence)
Interval(c) == IF c.start = None THEN None ELSE <<c.start, c.end>>
ReasonsOf(c) == IF CapacityStatus(c) = "BLOCKED" THEN <<"RATE_UNKNOWN">> ELSE <<>>

GeometricDict(c) ==
    [key |-> <<"geometric", c.key>>, station |-> c.station, aos |-> c.aos, los |-> c.los,
     status |-> "COMPUTED", grade |-> "CONCEPT_ONLY"]
ModeledDict(c) ==
    [key |-> <<"modeled", c.key>>, geometric |-> <<"geometric", c.key>>, usable |-> Interval(c),
     status |-> CapacityStatus(c), grade |-> Grade(c), reasons |-> ReasonsOf(c)]
CandidateDict(c) ==
    [key |-> <<"candidate", c.key>>, modeled |-> <<"modeled", c.key>>, usable |-> Interval(c),
     capacity |-> c.cap, status |-> CapacityStatus(c), grade |-> Grade(c)]

-----------------------------------------------------------------------------
Each(list, Item(_))  == [i \in DOMAIN list |-> Item(list[i])]
SumOf(list, Item(_)) == Sum([i \in DOMAIN list |-> Item(list[i])], Len(list))
Total(list)          == SumOf(list, LAMBDA c : c.cap)

Candidates   == SelectSeq(sc.contacts, Credited)
Selected     == ByStart(answer.sessions)
SelectedKeys == {c.key : c \in answer.sessions}
Suppressed   == SelectSeq(Candidates, LAMBDA c : c.key \notin SelectedKeys)
HasLedger    == QueueAware /\ ~Blocked

ScheduledSessions ==
    [i \in DOMAIN Selected |->
        LET c == Selected[i]
        IN  [key |-> <<"scheduled", c.key>>, candidate |-> <<"candidate", c.key>>,
             ordinal |-> i - 1, usable |-> Interval(c), capacity |-> c.cap,
             reasons |-> <<"SESSION_SELECTED_MAX_LOGICAL_BYTES">>,
             status |-> "COMPUTED", grade |-> "CONCEPT_ONLY"]]

SuppressedCandidates ==
    Each(Suppressed, LAMBDA c : [candidate |-> <<"candidate", c.key>>,
                                 reasons |-> <<"SESSION_SUPPRESSED_TX_RESOURCE_CONFLICT">>])

-----------------------------------------------------------------------------
\* What the ledger computed.  An allocation is numbered in the run by its key and
\* in its session by its ordinal.
DeadlineStatus(p) ==
    IF Object(p).deadline = None THEN None
    ELSE IF completion[p] = None THEN "INCOMPLETE"
    ELSE IF completion[p] <= Object(p).deadline THEN "ON_TIME" ELSE "LATE"

SessionKey(a) == <<"candidate", sc.sessions[a.session].key>>

AllocationKey(i) == <<"allocation", SessionKey(allocations[i]), i - 1>>

PayloadAllocations ==
    [i \in DOMAIN allocations |->
        LET a == allocations[i]
        IN  [key |-> AllocationKey(i), session |-> SessionKey(a), payload |-> a.key,
             ordinal |-> Cardinality({j \in 1 .. i - 1 : SessionKey(allocations[j]) = SessionKey(a)}),
             offset |-> a.offset, bytes |-> a.bytes, start |-> a.start, end |-> a.end,
             late |-> DeadlineStatus(a.key), reasons |-> <<>>]]

OfRecorder(event) ==
    event.kind \in {"RELEASE_HELD", "OBJECT_RELEASED", "OBJECT_REJECTED", "OBJECT_ADMITTED"}
OfAllocation(event) ==
    event.kind \in {"ALLOCATION_OPEN", "ALLOCATION_CLOSE", "MODELED_TX_PROGRESS_AT_TX_END"}

\* A slip: the queue and the recorder each number their own events.
NextOrderInDomain(i) ==
    Cardinality({j \in 1 .. i - 1 : /\ log[j].at = log[i].at
                                    /\ OfRecorder(log[j]) <=> OfRecorder(log[i])})

\* One sequence per instant, for the events of both domains.
NextOrder(i) == Cardinality({j \in 1 .. i - 1 : log[j].at = log[i].at})

RunEvents ==
    [i \in DOMAIN log |->
        LET opened == Cardinality({j \in 1 .. i : log[j].kind = "ALLOCATION_OPEN"})
        IN  [at |-> log[i].at, order |-> NextOrder(i),
             domain |-> IF OfRecorder(log[i]) THEN "STORAGE" ELSE "QUEUE",
             kind |-> log[i].kind, payload |-> log[i].key,
             allocation |-> IF OfAllocation(log[i]) THEN AllocationKey(opened) ELSE None,
             delta |-> log[i].bytes]]

PayloadProgress ==
    Each(Sorted(Payloads, <), LAMBDA p : [payload |-> p, reasons |-> Listed!SetToSeq(notes[p])])

IfLedger(list) == IF HasLedger THEN list ELSE <<>>

-----------------------------------------------------------------------------
\* _maximum_internal_gap_us.  A slip: the gap is counted from the end of the
\* interval before, not from the latest end of all.
GapStepLast(seen, i) ==
    [gap |-> IF i.start > seen.end THEN Higher(seen.gap, i.start - seen.end) ELSE seen.gap,
     end |-> i.end]

GapStep(seen, i) ==
    [gap |-> IF i.start > seen.end THEN Higher(seen.gap, i.start - seen.end) ELSE seen.gap,
     end |-> Higher(seen.end, i.end)]

\* The intervals go by their positions in the list they are taken from, which a
\* stable sort leaves in their order.
ByInterval(interval) ==
    LET place == Sorted(DOMAIN interval,
                        LAMBDA i, j : Precedes(<<interval[i].start, interval[i].end, i>>,
                                               <<interval[j].start, interval[j].end, j>>))
    IN  [k \in 1 .. Cardinality(DOMAIN interval) |-> interval[place[k]]]

MaximumInternalGap(interval) ==
    LET ordered == ByInterval(interval)
        others  == Cardinality(DOMAIN interval) - 1
        seen[n \in 0 .. others] ==
            IF n = 0 THEN [gap |-> 0, end |-> ordered[1].end]
            ELSE GapStep(seen[n - 1], ordered[n + 1])
    IN  IF others < 1 THEN None ELSE seen[others].gap

GeometricIntervals ==
    [i \in DOMAIN sc.contacts |-> [start |-> sc.contacts[i].aos, end |-> sc.contacts[i].los]]
ModeledIntervals ==
    [i \in {i \in DOMAIN sc.contacts : sc.contacts[i].start # None} |->
        [start |-> sc.contacts[i].start, end |-> sc.contacts[i].end]]
SelectedIntervals ==
    [i \in DOMAIN Selected |-> [start |-> Selected[i].start, end |-> Selected[i].end]]

-----------------------------------------------------------------------------
\* A computed metric without a value is blocked.
Metric(code, station, value, status) ==
    [code |-> code, scope |-> IF station = None THEN "RUN" ELSE "STATION", station |-> station,
     payload |-> None, value |-> value,
     status |-> IF value = None /\ status = "COMPUTED" THEN "BLOCKED" ELSE status]

UnlessBlocked(value) == IF Blocked THEN None ELSE value

StationCapacity(station) ==
    LET results == SelectSeq(sc.contacts, LAMBDA c : c.station = station)
    IN  IF \E i \in DOMAIN results : CapacityStatus(results[i]) = "BLOCKED" THEN None ELSE Total(results)

LedgerMetrics ==
    LET M(code, value) == Metric(code, None, IF HasLedger THEN value ELSE None,
                                 IF HasLedger THEN "COMPUTED" ELSE "NOT_APPLICABLE")
    IN  <<M("PAYLOAD_ALLOCATED_BYTES", SumOf(allocations, LAMBDA a : a.bytes)),
          M("PAYLOAD_REMAINING_BYTES", MapThenSumSet(LAMBDA p : remaining[p], Payloads)),
          M("STRANDED_CAPACITY_BYTES", stranded)>>

StorageMetrics ==
    LET applies == HasLedger /\ Store.enabled
        M(code, value) == Metric(code, None, IF applies THEN value ELSE None,
                                 IF applies THEN "COMPUTED" ELSE "NOT_APPLICABLE")
    IN  <<M("STORAGE_FINAL_OCCUPANCY_BYTES", occupancy),
          M("STORAGE_PEAK_OCCUPANCY_BYTES", tally.peak),
          M("STORAGE_RESERVE_BREACH_BYTES", Breach(occupancy)),
          M("STORAGE_HARD_OVERFLOW_BYTES", Higher(0, tally.peak - Store.physical)),
          M("STORAGE_REJECTED_BYTES", tally.refused),
          M("STORAGE_RELEASED_BYTES", tally.freed)>>

RunMetrics ==
    LET Count(code, value) == Metric(code, None, value, "COMPUTED")
    IN  <<Count("GEOMETRIC_CONTACT_COUNT", Len(sc.contacts)),
          Count("MODELED_CANDIDATE_COUNT", Cardinality(DOMAIN ModeledIntervals)),
          Count("SCHEDULED_SESSION_COUNT", Len(Selected)),
          Count("CANDIDATE_CAPACITY_SUM_BYTES", UnlessBlocked(Total(Candidates))),
          Count("SCHEDULED_UNIQUE_CAPACITY_BYTES", UnlessBlocked(Total(Selected))),
          Count("SUPPRESSED_CAPACITY_BYTES", UnlessBlocked(Total(Suppressed)))>>
        \o Each(Sorted(sc.stations, <),
                LAMBDA s : Metric("STATION_CANDIDATE_CAPACITY_SUM_BYTES", s, StationCapacity(s),
                                  "COMPUTED"))
        \o LedgerMetrics \o StorageMetrics

\* The safety warnings every document has are one.
Warnings ==
    <<"SAFETY">>
    \o (IF \E p \in Payloads : sc.ack[p] # None
        THEN <<"SYNTHETIC_TEST_DELIVERY_EVENTS_ONLY">> ELSE <<>>)
    \o (IF Store.enabled /\ Store.trigger = "TX_END"
        THEN <<"ASSUMED_DELIVERY_PROXY_RESULT">> ELSE <<>>)
    \o (IF answer.status = "APPROXIMATE" THEN <<"NOT_GLOBALLY_OPTIMAL">> ELSE <<>>)

\* _result_content.
Result ==
    [source      |-> "SYNTHETIC_INJECTED",
     geometric   |-> Each(sc.contacts, GeometricDict),
     modeled     |-> Each(sc.contacts, ModeledDict),
     candidates  |-> Each(sc.contacts, CandidateDict),
     scheduled   |-> ScheduledSessions,
     suppressed  |-> SuppressedCandidates,
     allocations |-> IfLedger(PayloadAllocations),
     events      |-> IfLedger(RunEvents),
     progress    |-> IfLedger(PayloadProgress),
     metrics     |-> RunMetrics,
     warnings    |-> Warnings]

\* _stages: the rows each stage says it produced.
Stages ==
    LET Stage(code, applies, done, count) ==
            [code |-> code, count |-> count,
             status |-> IF ~applies THEN "NOT_APPLICABLE" ELSE IF done THEN "SUCCEEDED" ELSE "BLOCKED"]
        generated == Payloads \ ungenerated
    IN  <<Stage("GEOMETRIC_ACCESS", TRUE, TRUE, Len(sc.contacts)),
          Stage("MODELED_CONTACT", TRUE, TRUE, Len(sc.contacts)),
          Stage("CANDIDATE_CAPACITY", TRUE, ~Blocked, Len(Candidates)),
          Stage("NETWORK_SCHEDULE", TRUE, ~Blocked, Len(Selected)),
          Stage("QUEUE", QueueAware, HasLedger, IF HasLedger THEN Len(allocations) ELSE 0),
          Stage("STORAGE", Store.enabled, HasLedger,
                IF HasLedger /\ Store.enabled THEN Cardinality(generated) ELSE 0)>>
=============================================================================
