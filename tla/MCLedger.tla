------------------------------ MODULE MCLedger ------------------------------
(***************************************************************************)
(* Small scenarios for the reducer, on the real rate arithmetic of         *)
(* RateTimeline.  Ten ticks of window, two sessions, three payloads whose  *)
(* attributes are chosen so that splits, deferrals, expiry in the middle   *)
(* of a transfer, idle jumps, refusals and zero-length allocations happen. *)
(***************************************************************************)
EXTENDS LedgerProperties, MCSessions

CONSTANT Regimes \* the release triggers of the run, or "DISABLED" for no recorder

\* The rate plans of the two sessions.
PlanPairs == {<<"slow", "uneven">>, <<"instant", "slow">>, <<"uneven", "fixed">>,
              <<"fixed", "slow">>}

Bare == {<<SessionOf(1, 4, ab[1]), SessionOf(s, 8, ab[2])>> : ab \in PlanPairs, s \in {4, 5}}

SessionPairs == {[i \in 1 .. 2 |-> WithRates(ss[i])] : ss \in Bare}

MCPayloads == 1..3

Payload(size, store, ready, class, chunk) ==
    [size |-> size, store |-> store, ready |-> ready, expiry |-> None, deadline |-> None,
     class |-> class, severity |-> 0, priority |-> 0, seq |-> 1, chunk |-> chunk]

\* 1: chunked, may be split over the sessions, may expire between them.
\* 2: atomic and mandatory, ready before, at or inside the first session.
\* 3: small and late, the object that competes for the recorder.
Objects ==
    {[p \in MCPayloads |->
        CASE p = 1 -> [Payload(size1, 3, 0, 1, 2) EXCEPT !.expiry = x, !.deadline = 4]
          [] p = 2 -> Payload(2, 2, r2, IF size1 = 3 THEN 0 ELSE 1, None)
          [] p = 3 -> [Payload(1, s3, r3, 2, None) EXCEPT !.severity = 1, !.seq = 0]] :
        size1 \in {3, 5}, x \in {None, 3}, r2 \in {0, 2}, s3 \in {1, 3}, r3 \in {2, 3, 6}}

NoAcks == [p \in MCPayloads |-> None]

Acks ==
    {[p \in MCPayloads |-> IF p = 1 THEN a ELSE IF p = 2 THEN b ELSE None] :
        a \in {4, 7}, b \in {3, 9}} \cup {NoAcks}

Recorders ==
    {[enabled |-> TRUE, hard |-> h, trigger |-> t, physical |-> 6, usable |-> 4, initial |-> i] :
        h \in BOOLEAN, t \in Regimes \ {"DISABLED"}, i \in {0, 1}}
  \cup
    {[enabled |-> FALSE, hard |-> FALSE, trigger |-> "NEVER", physical |-> 0, usable |-> 0,
      initial |-> 0] : t \in Regimes \cap {"DISABLED"}}

\* Acknowledgements multiply the scenarios: their sessions touch, their recorder
\* is empty at first, and one order less is tried.
MCScenarios ==
    {s \in [sessions : SessionPairs, object : Objects, after : {{}, {<<3, 2>>}, {<<1, 3>>}},
            ack : Acks, storage : Recorders, windowEnd : {10}] :
        /\ s.ack # NoAcks <=> s.storage.trigger = "ACKED"
        /\ s.ack # NoAcks => /\ s.sessions[1].end = s.sessions[2].start
                             /\ s.storage.initial = 0
                             /\ s.after # {<<1, 3>>}}
=============================================================================
