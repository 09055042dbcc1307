------------------------------ MODULE RunRows ------------------------------
(***************************************************************************)
(* The typed rows of a result, as ports/persisted_rows.py projects them.   *)
(*                                                                         *)
(* A stable key is a tuple whose first element is its prefix.  Each of the *)
(* eight tables of rows below run_result has a few references to other     *)
(* rows and columns that are only copied, so a row of any of them is       *)
(*   [key, table, parent, station, payload, body]                          *)
(* with None for a reference it does not have.                             *)
(***************************************************************************)
EXTENDS Optional, FiniteSets

CONSTANT MaxReasons  \* bound on the reason codes of one payload

Reason(codes, default) == IF codes = <<>> THEN default ELSE codes[1]

EventKey(event)   == <<"event", event.at, event.order>>
MetricKey(metric) == <<"metric", metric.code, metric.station, metric.payload>>

\* The grade is kept for what was computed; what is blocked says so.
ResultRow(key, kind, status, grade) ==
    [key |-> key, kind |-> kind, status |-> status,
     grade |-> IF status \in {"COMPUTED", "KNOWN_ZERO"} THEN grade
               ELSE IF status = "BLOCKED" THEN "BLOCKED" ELSE None]

Row(key, table, parent, station, payload, body) ==
    [key |-> key, table |-> table, parent |-> parent,
     station |-> station, payload |-> payload, body |-> body]

GeometricRows(r) ==
    {Row(g.key, "GEOMETRIC_ACCESS", None, g.station, None,
         <<g.aos, g.los, r.source>>) : g \in Elements(r.geometric)}
ModeledRows(r) ==
    {Row(m.key, "MODELED_CONTACT", m.geometric, None, None,
         <<m.usable, IF m.usable # None THEN "ELIGIBLE" ELSE "UNKNOWN", Reason(m.reasons, None)>>)
     : m \in Elements(r.modeled)}
CandidateRows(r) ==
    {Row(c.key, "CANDIDATE_SESSION", c.modeled, None, None, <<c.capacity>>)
     : c \in Elements(r.candidates)}
ScheduledRows(r) ==
    {Row(s.key, "SCHEDULED_SESSION", s.candidate, None, None,
         <<s.ordinal, Reason(s.reasons, "SESSION_SELECTED_TIE_BREAK")>>)
     : s \in Elements(r.scheduled)}
\* An allocation names the candidate its session came from.
AllocationRows(r) ==
    {Row(a.key, "TRANSFER_ALLOCATION", <<"scheduled", a.session[2]>>, None, a.payload,
         <<a.ordinal, a.offset, a.bytes, a.start, a.end, a.offset + a.bytes, a.late,
           Reason(a.reasons, "PAYLOAD_SELECTED_MANDATORY")>>)
     : a \in Elements(r.allocations)}
EventRows(r) ==
    {Row(EventKey(e), "RUN_EVENT", e.allocation, None, e.payload, <<e.domain, e.kind, e.delta>>)
     : e \in Elements(r.events)}
MetricRows(r) ==
    {Row(MetricKey(m), "METRIC", None, m.station, m.payload, <<m.code, m.scope, m.value>>)
     : m \in Elements(r.metrics)}

\* Warnings, suppressed candidates and the reasons of each payload, payloads
\* by key, are numbered in one sequence.
AnnotationRows(r) ==
    LET w == Len(r.warnings)
        n == w + Len(r.suppressed)
        reasons == {x \in Elements(r.progress) \X (1 .. MaxReasons) : x[2] \in DOMAIN x[1].reasons}
        Before(x) == Cardinality({y \in reasons :
                        \/ y[1].payload < x[1].payload
                        \/ y[1].payload = x[1].payload /\ y[2] < x[2]})
        Note(kind, ordinal, subject, body) ==
            Row(<<"annotation", kind, ordinal>>, "ANNOTATION", subject, None, None, body)
    IN  {Note("warning", i - 1, None, <<r.warnings[i]>>) : i \in 1 .. w}
        \cup
        {Note("suppressed", w + i - 1, r.suppressed[i].candidate,
              <<Reason(r.suppressed[i].reasons, "SESSION_SUPPRESSED_TX_RESOURCE_CONFLICT")>>)
         : i \in DOMAIN r.suppressed}
        \cup
        {Note("payload", n + Before(x), None, <<x[1].reasons[x[2]], x[1].payload>>) : x \in reasons}

\* The rows every other table's row belongs to.  A metric has no grade.
IdentityRows(r) ==
    LET Graded(list, kind) == {ResultRow(x.key, kind, x.status, x.grade) : x \in Elements(list)}
    IN  Graded(r.geometric, "GEOMETRIC_ACCESS") \cup Graded(r.modeled, "MODELED_CONTACT")
        \cup Graded(r.candidates, "CANDIDATE_SESSION") \cup Graded(r.scheduled, "SCHEDULED_SESSION")
        \cup {ResultRow(MetricKey(m), "METRIC", m.status, None) : m \in Elements(r.metrics)}
        \cup {ResultRow(x.key, x.table, "COMPUTED", "CONCEPT_ONLY")
              : x \in AllocationRows(r) \cup EventRows(r) \cup AnnotationRows(r)}

TypedRows(r) ==
    GeometricRows(r) \cup ModeledRows(r) \cup CandidateRows(r) \cup ScheduledRows(r)
        \cup AllocationRows(r) \cup EventRows(r) \cup MetricRows(r) \cup AnnotationRows(r)

\* PersistedRows, and what rows_view compares: no order, no identifiers.
ResultRows(r) == [results |-> IdentityRows(r), typed |-> TypedRows(r)]
=============================================================================
