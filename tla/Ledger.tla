------------------------------- MODULE Ledger -------------------------------
(***************************************************************************)
(* The event-ordered queue and storage reducer of domain/ledger.py: the    *)
(* one pass over the selected contact sessions that decides which payload  *)
(* is sent when, which object is admitted to the recorder, and when the    *)
(* recorder gets an object's bytes back.                                   *)
(*                                                                         *)
(* The program is sequential.  Its inputs are one scenario `sc`, chosen in *)
(* Init and never changed; an action is one pass of one loop of the code,  *)
(* and `pc` names the loop: "next" (run), "advance", "ingest", "release",  *)
(* "admit" (_advance_to and its three stages), "serve" (_run_session),     *)
(* "reclaim" (the _release call that follows an allocation), "close" and   *)
(* "done".                                                                 *)
(***************************************************************************)
EXTENDS Lexical, FiniteSets, SessionContract

CONSTANTS
    Payloads,                    \* payload keys, as their positions in key order, from 1
    Scenarios,                   \* the inputs run_ledger is called with
    None                         \* an absent instant or chunk size

Lower(a, b)  == IF a <= b THEN a ELSE b
Higher(a, b) == IF a >= b THEN a ELSE b

OptionalTime == Nat \cup {None}
Triggers     == {"NEVER", "TX_END", "ACKED"}

\* What Payload.validate leaves of a payload.
PayloadRecords ==
    [size : Nat \ {0}, store : Nat \ {0}, ready : Nat, expiry : OptionalTime,
     deadline : OptionalTime, class : 0..2, severity : Nat, priority : Nat,
     seq : Nat, chunk : (Nat \ {0}) \cup {None}]

\* What StorageConfig.validate leaves of the recorder's configuration.
StorageOK(s) ==
    /\ s.enabled \in BOOLEAN /\ s.hard \in BOOLEAN /\ s.trigger \in Triggers
    /\ s.physical \in Nat /\ s.initial \in 0..s.physical /\ s.usable \in 0..s.physical

\* The sessions come sorted and pairwise disjoint from the scheduler.
SessionsOK(ss) ==
    /\ \A i \in DOMAIN ss : SessionOK(ss[i])
    /\ \A i, j \in DOMAIN ss : i < j => ss[i].end <= ss[j].start

ScenarioOK(s) ==
    /\ s.object \in [Payloads -> PayloadRecords]
    /\ s.after \subseteq Payloads \X Payloads
    /\ s.ack \in [Payloads -> OptionalTime]
    /\ s.windowEnd \in Nat
    /\ StorageOK(s.storage)
    /\ DOMAIN s.sessions = 1 .. Len(s.sessions) /\ Len(s.sessions) \in Nat

ASSUME PayloadsAssumption  == Payloads \subseteq Nat \ {0} /\ IsFiniteSet(Payloads)
ASSUME NoneAssumption      == None \notin Int
ASSUME ScenariosAssumption == \A s \in Scenarios : ScenarioOK(s)
ASSUME SessionsAssumption  == \A ss \in {s.sessions : s \in Scenarios} : SessionsOK(ss)

VARIABLES
    sc,          \* the scenario: never changes
    pc,          \* the loop the reducer is in
    ses,         \* the session being run; Len + 1 in the final advance
    cursor,      \* the instant the session has reached
    available,   \* bytes the session may still grant
    upto,        \* the argument of _advance_to
    instant,     \* the instant whose stages run
    due,         \* objects _release has still to visit
    ungenerated, \* _pending_generation
    undelivered, \* _pending_delivery
    remaining, completion, partialEnd, notes,             \* _State, per payload
    admitted, released, acknowledged,                     \* _State, storage
    occupancy,   \* bytes the recorder holds
    tally,       \* the recorder's running totals
    log,         \* _State.events
    allocations, \* _State.allocations
    stranded     \* bytes of capacity no session could grant

control  == <<sc, pc, ses, cursor, available, upto, instant>>
queue    == <<remaining, completion, partialEnd, allocations, stranded>>
recorder == <<admitted, released, occupancy, tally>>
pending  == <<ungenerated, undelivered, acknowledged>>
vars     == <<control, queue, recorder, pending, due, notes, log>>

Object(p) == sc.object[p]
Store     == sc.storage
Session   == sc.sessions[ses]
IsAtomic(p) == Object(p).chunk = None

-----------------------------------------------------------------------------
\* The order payloads are served in: class, deadline (none last), severity and
\* priority descending, then the queue sequence and the key.
QueueKey(p) ==
    LET o == Object(p)
    IN  <<o.class, IF o.deadline = None THEN 1 ELSE 0,
          IF o.deadline = None THEN 0 ELSE o.deadline,
          -o.severity, -o.priority, o.seq, p>>

ServedBefore(p, q)    == Precedes(QueueKey(p), QueueKey(q))
GeneratedBefore(p, q) == Precedes(<<Object(p).seq, p>>, <<Object(q).seq, q>>)

Event(at, kind, key, bytes) == [at |-> at, kind |-> kind, key |-> key, bytes |-> bytes]

Noted(who, What(_)) ==
    [p \in Payloads |-> IF p \in who THEN notes[p] \cup {What(p)} ELSE notes[p]]

Totals(peak, breach, freed, refused) ==
    [peak |-> peak, breach |-> breach, freed |-> freed, refused |-> refused]

Breach(occ) == IF Store.enabled THEN Higher(0, occ - Store.usable) ELSE 0

-----------------------------------------------------------------------------
\* _Reducer.__init__, with the scenario given.
Fresh ==
    /\ pc = "next" /\ ses = 0 /\ cursor = 0 /\ available = 0 /\ upto = 0 /\ instant = 0
    /\ due = {}
    /\ ungenerated = Payloads
    /\ undelivered = {p \in Payloads : sc.ack[p] # None}
    /\ remaining = [p \in Payloads |-> Object(p).size]
    /\ completion = [p \in Payloads |-> None]
    /\ partialEnd = [p \in Payloads |-> None]
    /\ notes = [p \in Payloads |-> {}]
    /\ admitted = {} /\ released = {}
    /\ acknowledged = [p \in Payloads |-> None]
    /\ occupancy = (IF Store.enabled THEN Store.initial ELSE 0)
    /\ tally = Totals(occupancy, Breach(occupancy), 0, 0)
    /\ log = <<>> /\ allocations = <<>> /\ stranded = 0

Init == sc \in Scenarios /\ Fresh

-----------------------------------------------------------------------------
Loops == {"next", "advance", "ingest", "release", "admit", "serve", "reclaim", "close", "done"}

AllocationRecords ==
    [key : Payloads, session : Nat, offset : Nat, start : Nat, end : Nat, bytes : Nat \ {0}]

\* No byte count of the queue, no total of the recorder and no offset goes below
\* zero (that the occupancy does not is part of OccupancyAccounted).
TypeOK ==
    /\ pc \in Loops /\ ses \in Nat
    /\ cursor \in Nat /\ available \in Nat /\ upto \in Nat /\ instant \in Nat
    /\ due \subseteq Payloads /\ ungenerated \subseteq Payloads /\ undelivered \subseteq Payloads
    /\ remaining \in [Payloads -> Nat]
    /\ completion \in [Payloads -> OptionalTime] /\ partialEnd \in [Payloads -> OptionalTime]
    /\ DOMAIN notes = Payloads
    /\ admitted \subseteq Payloads /\ released \subseteq Payloads
    /\ acknowledged \in [Payloads -> OptionalTime]
    /\ occupancy \in Int /\ tally \in [peak : Nat, breach : Nat, freed : Nat, refused : Nat]
    /\ allocations \in Seq(AllocationRecords)
    /\ stranded \in Nat

-----------------------------------------------------------------------------
\* run: the next session, or the events left in the window once there is none.
StartSession ==
    /\ pc = "next"
    /\ ses' = ses + 1
    /\ IF ses < Len(sc.sessions)
       THEN /\ cursor' = sc.sessions[ses + 1].start
            /\ available' = sc.sessions[ses + 1].cap
            /\ upto' = cursor'
       ELSE /\ upto' = sc.windowEnd
            /\ UNCHANGED <<cursor, available>>
    /\ pc' = "advance"
    /\ UNCHANGED <<sc, instant, due, queue, recorder, pending, notes, log>>

-----------------------------------------------------------------------------
\* _advance_to: the earliest pending instant at or before `upto`, stage by stage.
PendingInstants ==
    {sc.ack[p] : p \in undelivered} \cup {Object(p).ready : p \in ungenerated}

BeginInstant ==
    /\ pc = "advance"
    /\ \E t \in PendingInstants :
          /\ t <= upto /\ \A u \in PendingInstants : t <= u
          /\ instant' = t
    /\ pc' = "ingest"
    /\ UNCHANGED <<sc, ses, cursor, available, upto, due, queue, recorder, pending, notes, log>>

EndAdvance ==
    /\ pc = "advance"
    /\ \A t \in PendingInstants : t > upto
    /\ pc' = IF ses \in DOMAIN sc.sessions THEN "serve" ELSE "close"
    /\ UNCHANGED <<sc, ses, cursor, available, upto, instant, due, queue, recorder, pending,
                   notes, log>>

IngestDelivery(p) ==
    /\ pc = "ingest"
    /\ p \in undelivered /\ sc.ack[p] = instant
    /\ \A q \in undelivered : sc.ack[q] = instant => p <= q
    /\ undelivered' = undelivered \ {p}
    /\ acknowledged' = [acknowledged EXCEPT ![p] = instant]
    /\ log' = Append(log, Event(instant, "TEST_DELIVERY_INGESTED", p, remaining[p]))
    /\ UNCHANGED <<control, queue, recorder, due, ungenerated, notes>>

\* Slips of _release: one visits an object again that it has already given back,
\* the others look for an instant other than the one being processed.
ReleaseDueAgain(at, out, acked) ==
    {p \in admitted : IF Store.trigger = "TX_END" THEN out[p] = at ELSE acked[p] = at}
ReleaseDueLate(at, out, acked) ==
    {p \in admitted \ released :
        LET t == IF Store.trigger = "TX_END" THEN out[p] ELSE acked[p]
        IN  Store.enabled /\ t # None /\ t < at}

\* The objects _release(at) acts on: under TX_END those whose last byte is out
\* at `at`, under ACKED those acknowledged at `at`.
ReleaseDue(at, out, acked) ==
    IF ~Store.enabled THEN {}
    ELSE {p \in admitted \ released :
            \/ Store.trigger = "TX_END" /\ out[p] = at
            \/ Store.trigger = "ACKED" /\ acked[p] = at}

BeginRelease ==
    /\ pc = "ingest"
    /\ \A p \in undelivered : sc.ack[p] # instant
    /\ due' = ReleaseDue(instant, completion, acknowledged)
    /\ pc' = "release"
    /\ UNCHANGED <<sc, ses, cursor, available, upto, instant, queue, recorder, pending, notes,
                   log>>

\* A slip: an object is reclaimed without asking whether it is sent.
CanReclaimPartly(p) == TRUE

\* An object is reclaimed whole, or held while bytes of it are still to send.
CanReclaim(p) == remaining[p] = 0

Release(p) ==
    /\ pc \in {"release", "reclaim"}
    /\ p \in due /\ \A q \in due : p <= q
    /\ due' = due \ {p}
    /\ IF CanReclaim(p)
       THEN /\ released' = released \cup {p}
            /\ occupancy' = occupancy - Object(p).store
            /\ tally' = Totals(tally.peak, tally.breach, tally.freed + Object(p).store,
                              tally.refused)
            /\ log' = Append(log, Event(instant, "OBJECT_RELEASED", p, occupancy'))
            /\ UNCHANGED notes
       ELSE /\ notes' = Noted({p}, LAMBDA q : "RELEASE_HELD_INCOMPLETE_OBJECT")
            /\ log' = Append(log, Event(instant, "RELEASE_HELD", p, occupancy))
            /\ UNCHANGED <<released, occupancy, tally>>
    /\ UNCHANGED <<control, queue, pending, admitted>>

EndRelease ==
    /\ pc \in {"release", "reclaim"} /\ due = {}
    /\ pc' = IF pc = "release" THEN "admit" ELSE "advance"
    /\ UNCHANGED <<sc, ses, cursor, available, upto, instant, due, queue, recorder, pending,
                   notes, log>>

\* A slip: the object itself is left out of the projected occupancy.
RefusalOfPresent(p) ==
    IF occupancy > Store.physical THEN "ADMISSION_REJECTED_PHYSICAL_LIMIT"
    ELSE IF Store.hard /\ occupancy > Store.usable THEN "ADMISSION_REJECTED_HARD_RESERVE"
    ELSE "NO"

\* Why an object is refused as a whole, or "NO" when it is not.
Refusal(p) ==
    LET projected == occupancy + Object(p).store
    IN  IF projected > Store.physical THEN "ADMISSION_REJECTED_PHYSICAL_LIMIT"
        ELSE IF Store.hard /\ projected > Store.usable THEN "ADMISSION_REJECTED_HARD_RESERVE"
        ELSE "NO"

Admit(p, logged) ==
    LET projected == occupancy + Object(p).store
        breaches  == ~Store.hard /\ projected > Store.usable
    IN  /\ occupancy' = projected
        /\ admitted' = admitted \cup {p}
        /\ tally' = Totals(Higher(tally.peak, projected), Higher(tally.breach, Breach(projected)),
                          tally.freed, tally.refused)
        /\ notes' = Noted(IF breaches THEN {p} ELSE {}, LAMBDA q : "RESERVE_BREACH_SOFT")
        /\ log' = Append(logged, Event(instant, "OBJECT_ADMITTED", p, projected))

Refuse(p, logged) ==
    /\ tally' = Totals(tally.peak, tally.breach, tally.freed, tally.refused + Object(p).store)
    /\ notes' = Noted({p}, LAMBDA q : Refusal(q))
    /\ log' = Append(logged, Event(instant, "OBJECT_REJECTED", p, occupancy))
    /\ UNCHANGED <<occupancy, admitted>>

Generate(p) ==
    /\ pc = "admit"
    /\ p \in ungenerated /\ Object(p).ready = instant
    /\ \A q \in ungenerated \ {p} : Object(q).ready = instant => GeneratedBefore(p, q)
    /\ ungenerated' = ungenerated \ {p}
    /\ LET logged == Append(log, Event(instant, "OBJECT_GENERATED", p, remaining[p]))
       IN  \/ /\ ~Store.enabled
              /\ admitted' = admitted \cup {p}
              /\ log' = logged
              /\ UNCHANGED <<occupancy, tally, notes>>
           \/ Store.enabled /\ Refusal(p) = "NO" /\ Admit(p, logged)
           \/ Store.enabled /\ Refusal(p) # "NO" /\ Refuse(p, logged)
    /\ UNCHANGED <<control, queue, due, released, undelivered, acknowledged>>

EndInstant ==
    /\ pc = "admit"
    /\ \A p \in ungenerated : Object(p).ready # instant
    /\ pc' = "advance"
    /\ UNCHANGED <<sc, ses, cursor, available, upto, instant, due, queue, recorder, pending,
                   notes, log>>

-----------------------------------------------------------------------------
\* A slip: the bytes the session has already granted are forgotten.
GrantableAnew == BytesLeft(Session, cursor)

\* _run_session: what may be sent at the cursor, and what is.
Grantable == Lower(available, BytesLeft(Session, cursor))

Serving == pc = "serve" /\ available > 0 /\ cursor < Session.end /\ Grantable > 0

\* Slips of _eligible: the recorder's refusal, the expiry, are not looked at.
EligibleUnadmitted(p) ==
    /\ remaining[p] > 0 /\ Object(p).ready <= cursor
    /\ Object(p).expiry = None \/ cursor < Object(p).expiry
EligibleExpired(p) == remaining[p] > 0 /\ p \in admitted /\ Object(p).ready <= cursor

Eligible(p) ==
    /\ remaining[p] > 0 /\ p \in admitted
    /\ Object(p).ready <= cursor
    /\ Object(p).expiry = None \/ cursor < Object(p).expiry
    /\ \A d \in sc.after : d[2] = p => completion[d[1]] # None /\ completion[d[1]] <= cursor

\* Slips of _choose: more than the payload has left, or a piece of a chunk.
GrantUnclamped(p) == IF IsAtomic(p) /\ remaining[p] > Grantable THEN 0 ELSE Grantable
GrantTorn(p) == Lower(remaining[p], Grantable)

\* Bytes _choose would grant: all or nothing of an atomic object, whole chunks
\* of a chunked one (and its shorter last chunk).
Grant(p) ==
    LET share == Lower(remaining[p], Grantable)
    IN  IF share = remaining[p] THEN share
        ELSE IF IsAtomic(p) THEN 0
        ELSE share - (share % Object(p).chunk)

Startable == {p \in Payloads : Eligible(p) /\ Grant(p) > 0}

SkipNote(p) == IF IsAtomic(p) THEN "NOT_STARTED_ATOMIC_NOT_COMPLETABLE"
                              ELSE "DEFERRED_NO_REMAINING_CAPACITY"

\* Slips of the idle jump: to the cursor itself, never.
LaterReadyNow   == {Object(p).ready : p \in {q \in Payloads : remaining[q] > 0}}
                      \cap (cursor .. Session.end - 1)
LaterReadyNever == {}

\* A payload that becomes ready while the session lasts: the cursor jumps to it.
\* A fixed capacity says nothing of rates inside the pass, so there it never does.
LaterReady ==
    IF Session.plan.fixed THEN {}
    ELSE {Object(p).ready : p \in {q \in Payloads : remaining[q] > 0}}
            \cap (cursor + 1 .. Session.end - 1)

\* The offset is taken before the bytes are; a slip takes it after.
OffsetLate(p) == Object(p).size - (remaining[p] - Grant(p))
Offset(p)     == Object(p).size - remaining[p]

\* When the transmitter is free again; a slip counts from the start of the session.
FreeFromStart(bytes) == GrantEnd(Session, Session.start, bytes)
FreeAfter(bytes)     == GrantEnd(Session, cursor, bytes)

OpenAllocation(p) ==
    /\ Serving
    /\ p \in Startable /\ \A q \in Startable \ {p} : ServedBefore(p, q)
    /\ LET granted == Grant(p)
           end     == FreeAfter(granted)
           left    == remaining[p] - granted
           skipped == {q \in Payloads : Eligible(q) /\ ServedBefore(q, p)}
           NoteFor(q) == IF q = p THEN "SPLIT_FIXED_CHUNK_BOUNDARY" ELSE SkipNote(q)
       IN  /\ remaining' = [remaining EXCEPT ![p] = left]
           /\ completion' = [completion EXCEPT ![p] = IF left = 0 THEN end ELSE @]
           /\ partialEnd' = [partialEnd EXCEPT ![p] = IF left = 0 THEN None ELSE end]
           /\ available' = Grantable - granted
           /\ allocations' = Append(allocations,
                  [key |-> p, session |-> ses, offset |-> Offset(p),
                   start |-> cursor, end |-> end, bytes |-> granted])
           /\ notes' = Noted(IF left = 0 THEN skipped ELSE skipped \cup {p}, NoteFor)
           /\ log' = log \o <<Event(cursor, "ALLOCATION_OPEN", p, remaining[p]),
                              Event(end, "ALLOCATION_CLOSE", p, left),
                              Event(end, "MODELED_TX_PROGRESS_AT_TX_END", p, left)>>
           /\ cursor' = end /\ upto' = end /\ instant' = end
           /\ due' = ReleaseDue(end, completion', acknowledged)
           /\ pc' = "reclaim"
    /\ UNCHANGED <<sc, ses, stranded, recorder, pending>>

JumpToReady ==
    /\ Serving /\ Startable = {}
    /\ \E t \in LaterReady :
          /\ \A u \in LaterReady : t <= u
          /\ cursor' = t /\ upto' = t
    /\ available' = Grantable
    /\ notes' = Noted({q \in Payloads : Eligible(q)}, SkipNote)
    /\ pc' = "advance"
    /\ UNCHANGED <<sc, ses, instant, due, queue, recorder, pending, log>>

EndSession ==
    /\ pc = "serve"
    /\ ~Serving \/ (Startable = {} /\ LaterReady = {})
    /\ stranded' = stranded + (IF cursor < Session.end THEN Grantable ELSE available)
    /\ notes' = Noted(IF Serving THEN {q \in Payloads : Eligible(q)} ELSE {}, SkipNote)
    /\ pc' = "next"
    /\ UNCHANGED <<sc, ses, cursor, available, upto, instant, due, remaining, completion,
                   partialEnd, allocations, recorder, pending, log>>

-----------------------------------------------------------------------------
\* run, once the window is over: the reasons each payload ends with.
FinalNotes(p) ==
    LET o == Object(p)
        expired == IF partialEnd[p] = None THEN "EXPIRED_BEFORE_START"
                                           ELSE "EXPIRED_AFTER_PARTIAL"
    IN  {n \in {expired} : remaining[p] > 0 /\ p \in admitted
                           /\ o.expiry # None /\ o.expiry <= sc.windowEnd}
   \cup {n \in {"DEADLINE_MISSED_CONTINUE"} : o.deadline # None /\ completion[p] # None
                                              /\ completion[p] > o.deadline}
   \cup {n \in {"RELEASE_HELD_INCOMPLETE_OBJECT"} :
            Store.enabled /\ Store.trigger # "NEVER"
            /\ p \in admitted \ released /\ remaining[p] > 0}

Close ==
    /\ pc = "close"
    /\ notes' = [p \in Payloads |-> notes[p] \cup FinalNotes(p)]
    /\ pc' = "done"
    /\ UNCHANGED <<sc, ses, cursor, available, upto, instant, due, queue, recorder, pending, log>>

\* The result is returned: nothing is left to do.
Finished == pc = "done" /\ UNCHANGED vars

Step ==
    \/ StartSession \/ EndAdvance \/ BeginRelease \/ EndRelease \/ EndInstant
    \/ BeginInstant \/ JumpToReady \/ EndSession \/ Close
    \/ \E p \in Payloads :
          IngestDelivery(p) \/ Release(p) \/ Generate(p) \/ OpenAllocation(p)

Next == Step \/ Finished

Spec == Init /\ [][Next]_vars

\* A sequential program runs on until it returns.
FairSpec == Spec /\ WF_vars(Step)
=============================================================================
