-------------------------- MODULE LedgerProperties --------------------------
(***************************************************************************)
(* What the reducer of Ledger.tla promises beyond LedgerSafety: the        *)
(* properties that sum over payloads or allocations, or read the event     *)
(* log, and the invariants that carry their proofs in LedgerProofs.        *)
(***************************************************************************)
EXTENDS LedgerSafety, Sums

\* The bytes each allocation sends of a payload, in a session, and in all.
Sent(p) == [i \in DOMAIN allocations |->
                IF allocations[i].key = p THEN allocations[i].bytes ELSE 0]
GrantedIn(s) == [i \in DOMAIN allocations |->
                    IF allocations[i].session = s THEN allocations[i].bytes ELSE 0]
Granted    == [i \in DOMAIN allocations |-> allocations[i].bytes]
Capacities == [i \in DOMAIN sc.sessions |-> sc.sessions[i].cap]

\* The bytes some payloads take in the recorder.
LastPayload  == Greatest({0} \cup Payloads)
StoreOf(ps)  == [p \in 1 .. LastPayload |-> IF p \in ps THEN Object(p).store ELSE 0]
SumStore(ps) == Sum(StoreOf(ps), LastPayload)

-----------------------------------------------------------------------------
\* The bytes of a payload are sent in order and once: an allocation starts at
\* the offset the earlier ones ended at, and what is not sent is `remaining`.
BytesConserved ==
    /\ \A p \in Payloads : Sum(Sent(p), Len(allocations)) + remaining[p] = Object(p).size
    /\ \A p \in Payloads : \A i \in DOMAIN allocations :
          allocations[i].key = p => allocations[i].offset = Sum(Sent(p), i - 1)
    /\ \A a \in Records(allocations) :
          ~IsAtomic(a.key) => a.offset % Object(a.key).chunk = 0

\* No session grants more than the capacity it was selected for, and once a
\* session is over every byte of that capacity is granted, stranded or lost to
\* time the session let pass (never counted twice).
CapacityNotExceeded ==
    /\ \A i \in DOMAIN sc.sessions :
          Sum(GrantedIn(i), Len(allocations)) <= sc.sessions[i].cap
    /\ pc = "done" =>
          Sum(Granted, Len(allocations)) + stranded <= Sum(Capacities, Len(sc.sessions))

-----------------------------------------------------------------------------
StorageKinds == {"OBJECT_ADMITTED", "OBJECT_REJECTED", "OBJECT_RELEASED", "RELEASE_HELD"}

StorageEvents == {e \in Records(log) : e.kind \in StorageKinds}

\* The levels the recorder has stood at.
Levels == {Store.initial} \cup {e.bytes : e \in StorageEvents}

\* The recorder's books: what it holds is what it began with and admitted less
\* what it released; its totals and peaks are those of the event timeline.
OccupancyAccounted ==
    IF Store.enabled
    THEN /\ occupancy = Store.initial + SumStore(admitted) - SumStore(released)
         /\ occupancy >= 0
         /\ tally.freed = SumStore(released)
         /\ tally.refused = SumStore(Payloads \ (ungenerated \cup admitted))
         /\ tally.peak \in Levels /\ \A l \in Levels : l <= tally.peak
         /\ tally.breach \in {0} \cup {l - Store.usable : l \in Levels}
         /\ \A l \in Levels : l - Store.usable <= tally.breach
    ELSE occupancy = 0 /\ StorageEvents = {}

\* An acknowledgement of an object that exists is never lost on the recorder: by
\* the time the result is returned the object is given back, or its result says
\* it was held because bytes of it were still to send.
AcknowledgedSettled ==
    (pc = "done" /\ Store.enabled /\ Store.trigger # "NEVER") =>
        \A p \in admitted :
            (acknowledged[p] # None /\ acknowledged[p] > Object(p).ready) =>
                p \in released \/ "RELEASE_HELD_INCOMPLETE_OBJECT" \in notes[p]

\* Where the record tells of a payload itself: not of its acknowledgement, nor of
\* a release that held it.
Life(p) == {i \in DOMAIN log : log[i].key = p
                               /\ log[i].kind \notin {"TEST_DELIVERY_INGESTED", "RELEASE_HELD"}}

\* The record of a payload tells its life in order: generated once, then
\* admitted or rejected, sent only if admitted, released once and after that
\* never sent; within the record of one payload time does not run backwards
\* until its release.
LifeInOrder ==
    \A p \in Payloads : \A i \in Life(p) :
        /\ (log[i].kind = "OBJECT_GENERATED") <=> (\A j \in Life(p) : i <= j)
        /\ log[i].kind \in {"OBJECT_ADMITTED", "OBJECT_REJECTED"} =>
              \A j \in Life(p) : j < i => log[j].kind = "OBJECT_GENERATED"
        /\ log[i].kind \in {"OBJECT_REJECTED", "OBJECT_RELEASED"} =>
              \A j \in Life(p) : j <= i
        /\ log[i].kind # "OBJECT_RELEASED" =>
              \A j \in Life(p) : j < i => log[j].at <= log[i].at

\* What a session could send at an instant, were it still to come.
CouldSend(t) == Lower(available, BytesLeft(Session, t))

\* At every instant an ending session had left, each payload is sent, refused,
\* not ready before the end, expired, waiting or too large.
SessionExhausted ==
    (pc = "serve" /\ pc' = "next" /\ ~Session.plan.fixed) =>
        \A t \in cursor .. Session.end - 1 : \A p \in Payloads :
            \/ remaining[p] = 0
            \/ p \notin ungenerated \cup admitted
            \/ t < Object(p).ready
            \/ Object(p).expiry # None /\ Object(p).expiry <= t
            \/ \E d \in sc.after : d[2] = p /\ remaining[d[1]] > 0
            \/ CouldSend(t) < (IF IsAtomic(p) THEN remaining[p]
                              ELSE Lower(remaining[p], Object(p).chunk))

\* A rate-driven session that ends with capacity to spare leaves nothing it
\* could still have sent.
NothingLeftUnsent == [][SessionExhausted]_vars

\* The reducer returns, whatever the scenario.
Terminates == <>(pc = "done")

-----------------------------------------------------------------------------
\* "Apply every pending event with event_at <= at in canonical stage order"
\* (ledger.py:392): an object generated at t is admitted against the storage
\* that releases up to t have freed, so no release of a later instant is
\* committed before it.
ReleasesNotAnticipated ==
    \A i, j \in DOMAIN log :
        i < j /\ log[i].kind = "OBJECT_RELEASED"
              /\ log[j].kind \in {"OBJECT_ADMITTED", "OBJECT_REJECTED"}
        => log[i].at <= log[j].at

-----------------------------------------------------------------------------
(***************************************************************************)
(* The invariants of sums and the log that LedgerProofs.tla proves.        *)
(***************************************************************************)

\* How far the run is: the sessions are taken one by one, the pending events are
\* applied up to the cursor of the session, and a release is visited whole
\* before anything else happens.
Course ==
    /\ ses <= Len(sc.sessions) + 1
    /\ ses = 0 => pc = "next" /\ cursor = 0
    /\ pc = "next" => ses <= Len(sc.sessions)
    /\ pc \in {"close", "done"} => ses = Len(sc.sessions) + 1
    /\ (pc # "next" /\ ses \in DOMAIN sc.sessions) => upto = cursor
    /\ pc \notin {"release", "reclaim"} => due = {}
    /\ pc = "ingest" => \A p \in ungenerated : instant <= Object(p).ready
    /\ pc = "serve" => \A p \in ungenerated : cursor < Object(p).ready
    /\ \A p \in Payloads : completion[p] # None => completion[p] <= cursor

\* What is sent of a chunked payload that has bytes left is whole chunks.
WholeChunks ==
    \A p \in Payloads :
        (~IsAtomic(p) /\ remaining[p] > 0) =>
            (Object(p).size - remaining[p]) % Object(p).chunk = 0

\* What the session that runs may still grant.
StillOpen == IF pc # "next" /\ ses \in DOMAIN sc.sessions THEN available ELSE 0

\* What is granted and what may still be is within the capacity of the sessions
\* begun, of each and of all.
CapacityBooks ==
    /\ \A i \in DOMAIN sc.sessions :
          /\ Sum(GrantedIn(i), Len(allocations)) + (IF i = ses THEN StillOpen ELSE 0)
                <= sc.sessions[i].cap
          /\ i > ses => Sum(GrantedIn(i), Len(allocations)) = 0
    /\ Sum(Granted, Len(allocations)) + stranded + StillOpen
          <= Sum(Capacities, Lower(ses, Len(sc.sessions)))

EventKinds == StorageKinds \cup
    {"TEST_DELIVERY_INGESTED", "OBJECT_GENERATED", "ALLOCATION_OPEN", "ALLOCATION_CLOSE",
     "MODELED_TX_PROGRESS_AT_TX_END"}

EventRecords == [at : Nat, kind : EventKinds, key : Payloads, bytes : Int]

\* The recorder deals with each object once, and its totals follow it: what it
\* holds is the last of its levels.
RecorderBooks ==
    /\ log \in Seq(EventRecords)
    /\ admitted \cap ungenerated = {}
    /\ due \cap released = {}
    /\ IF Store.enabled
       THEN /\ occupancy = Store.initial + SumStore(admitted) - SumStore(released)
            /\ occupancy \in Levels
            /\ tally.peak \in Levels /\ \A l \in Levels : l <= tally.peak
            /\ tally.breach = Higher(0, tally.peak - Store.usable)
            /\ tally.freed = SumStore(released)
            /\ tally.refused = SumStore(Payloads \ (ungenerated \cup admitted))
       ELSE occupancy = 0 /\ due = {} /\ StorageEvents = {}

\* An acknowledgement of an object the recorder holds was acted on, or is about
\* to be; one that came before its object is dated before it.
AcknowledgementsHeeded ==
    /\ \A p \in ungenerated : acknowledged[p] # None => acknowledged[p] <= Object(p).ready
    /\ (Store.enabled /\ Store.trigger = "ACKED") =>
          \A p \in admitted :
              (acknowledged[p] # None /\ acknowledged[p] > Object(p).ready) =>
                  \/ p \in released \/ "RELEASE_HELD_INCOMPLETE_OBJECT" \in notes[p]
                  \/ p \in due
                  \/ pc = "ingest" /\ acknowledged[p] = instant
    /\ (pc = "done" /\ Store.enabled /\ Store.trigger = "TX_END") =>
          \A p \in admitted : \/ p \in released
                              \/ "RELEASE_HELD_INCOMPLETE_OBJECT" \in notes[p]

\* What the record of a payload says of where the payload is now.
LifeSoFar ==
    \A p \in Payloads :
        /\ p \in ungenerated => Life(p) = {}
        /\ p \notin ungenerated => \E i \in Life(p) : log[i].kind = "OBJECT_GENERATED"
        /\ \A i \in Life(p) :
              /\ log[i].kind = "OBJECT_REJECTED" => p \notin admitted
              /\ log[i].kind = "OBJECT_RELEASED" => p \in released
              /\ log[i].kind # "OBJECT_RELEASED" =>
                    log[i].at <= Object(p).ready \/ log[i].at <= cursor

\* The inductive invariant of LedgerProofs.tla.
Books ==
    /\ Inductive /\ Course
    /\ BytesConserved /\ WholeChunks /\ CapacityBooks
    /\ RecorderBooks /\ AcknowledgementsHeeded /\ LifeSoFar /\ LifeInOrder
=============================================================================
