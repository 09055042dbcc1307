---------------------------- MODULE LedgerProofs ----------------------------
(***************************************************************************)
(* Machine-checked proofs about the reducer, for every set of payloads,    *)
(* every set of valid scenarios and every rate arithmetic that keeps the   *)
(* bounds SessionContract states: first the invariant Inductive of         *)
(* LedgerSafety, then, given it, the invariant Books of LedgerProperties,  *)
(* which says what the reducer promises about sums and its event log.      *)
(***************************************************************************)
EXTENDS LedgerProperties, SumTheorems, SequenceTheorems

\* The scenario's parts have the types validation gives them.
LEMMA ScenarioTypes ==
    ASSUME InputOK
    PROVE  /\ sc.object \in [Payloads -> PayloadRecords]
           /\ sc.after \subseteq Payloads \X Payloads
           /\ sc.ack \in [Payloads -> OptionalTime]
           /\ sc.windowEnd \in Nat
           /\ StorageOK(sc.storage)
           /\ SessionsOK(sc.sessions)
           /\ DOMAIN sc.sessions = 1 .. Len(sc.sessions) /\ Len(sc.sessions) \in Nat
BY DEF InputOK, ScenarioOK

\* A payload's numbers are natural, and its times absent or natural.
LEMMA ObjectTypes ==
    ASSUME InputOK, NEW p \in Payloads
    PROVE  /\ Object(p).size \in Nat \ {0} /\ Object(p).store \in Nat \ {0}
           /\ Object(p).ready \in Nat
           /\ Object(p).expiry \in OptionalTime
           /\ Object(p).chunk \in (Nat \ {0}) \cup {None}
BY ScenarioTypes DEF Object, PayloadRecords

\* A session that is served leaves a natural number of bytes, and a grant of
\* some of them ends inside it.
LEMMA GrantableBounds ==
    ASSUME InputOK, TypeOK, Position, ses \in DOMAIN sc.sessions
    PROVE  /\ Session.start \in Nat /\ Session.end \in Nat
           /\ BytesLeft(Session, cursor) \in Nat
           /\ Grantable \in Nat /\ Grantable <= available
           /\ Grantable <= BytesLeft(Session, cursor)
           /\ \A n \in 1 .. Grantable :
                 GrantEnd(Session, cursor, n) \in cursor .. Session.end
<1>1. SessionsOK(sc.sessions)
  BY ScenarioTypes
<1>2. /\ Session.start \in Nat /\ Session.end \in Nat
      /\ BytesLeft(Session, cursor) \in Nat
      /\ \A n \in 1 .. BytesLeft(Session, cursor) :
            GrantEnd(Session, cursor, n) \in cursor .. Session.end
  BY <1>1 DEF SessionsOK, SessionOK, Session, Position
<1>3. available \in Nat
  BY DEF TypeOK
<1>4. /\ Grantable \in Nat /\ Grantable <= available
      /\ Grantable <= BytesLeft(Session, cursor)
  BY <1>2, <1>3 DEF Grantable, Lower
<1> QED
  BY <1>2, <1>4

\* What _choose grants is no more than the payload has left and the session can
\* carry, and of an atomic object it is everything or nothing.
LEMMA GrantBounds ==
    ASSUME InputOK, TypeOK, Position, ses \in DOMAIN sc.sessions, NEW p \in Payloads
    PROVE  /\ Grant(p) \in 0 .. Grantable
           /\ Grant(p) \in 0 .. remaining[p]
           /\ IsAtomic(p) => Grant(p) \in {0, remaining[p]}
<1> DEFINE share == Lower(remaining[p], Grantable)
<1>1. remaining[p] \in Nat /\ Grantable \in Nat
  BY GrantableBounds DEF TypeOK
<1>2. share \in Nat /\ share <= remaining[p] /\ share <= Grantable
  BY <1>1 DEF Lower
<1>3. CASE share = remaining[p]
  <2>1. Grant(p) = share
    BY <1>3, <1>1 DEF Grant
  <2> QED
    BY <2>1, <1>1, <1>2, <1>3
<1>4. CASE share # remaining[p] /\ IsAtomic(p)
  <2>1. share < remaining[p]
    BY <1>1, <1>2, <1>4
  <2>2. Grant(p) = 0
    BY <1>4, <2>1 DEF Grant
  <2> QED
    BY <2>2, <1>1
<1>5. CASE share # remaining[p] /\ ~IsAtomic(p)
  <2>1. share < remaining[p]
    BY <1>1, <1>2, <1>5
  <2>2. Grant(p) = share - (share % Object(p).chunk)
    BY <1>5, <2>1 DEF Grant
  <2>3. Object(p).chunk \in Nat \ {0}
    BY <1>5, ObjectTypes DEF IsAtomic
  <2>4. share % Object(p).chunk \in 0 .. share
    <3> DEFINE chunk == Object(p).chunk
    <3> HIDE DEF share, chunk
    <3>1. share \in Nat /\ chunk \in Nat \ {0}
      BY <1>2, <2>3 DEF chunk
    <3>2. share % chunk \in 0 .. share
      BY <3>1
    <3> QED
      BY <3>2 DEF chunk
  <2> QED
    BY <2>2, <2>4, <1>1, <1>2, <1>5
<1> QED
  BY <1>3, <1>4, <1>5

-----------------------------------------------------------------------------
LEMMA FreshInductive == InputOK /\ Fresh => Inductive
<1> SUFFICES ASSUME InputOK, Fresh PROVE Inductive
  OBVIOUS
<1> USE DEF Fresh
<1>1. InputOK
  OBVIOUS
<1>2. TypeOK
  <2>1. StorageOK(Store) /\ sc.object \in [Payloads -> PayloadRecords]
    BY <1>1, ScenarioTypes DEF Store
  <2>2. remaining \in [Payloads -> Nat]
    BY <1>1, ObjectTypes
  <2>3. occupancy \in Nat /\ Breach(occupancy) \in Nat
    BY <2>1 DEF StorageOK, Breach, Higher
  <2>4. tally \in [peak : Nat, breach : Nat, freed : Nat, refused : Nat]
    BY <2>3 DEF Totals
  <2> QED
    BY <2>2, <2>3, <2>4 DEF TypeOK, Loops, OptionalTime
<1>3. Position
  BY <1>1, ScenarioTypes DEF Position
<1>4. Progress
  BY <1>1, ObjectTypes DEF Progress
<1>5. Behind /\ OneTransmitter /\ AtomicNotTorn /\ SentOnlyWhenAllowed
  BY DEF Behind, OneTransmitter, AtomicNotTorn, SentOnlyWhenAllowed, Records
<1>6. OccupancyWithinLimits
  BY <1>1, ScenarioTypes DEF OccupancyWithinLimits, StorageOK, Store, Higher
<1>7. CompleteObjectsLeave /\ LeavingUnderTxEnd
  BY DEF CompleteObjectsLeave, LeavingUnderTxEnd
<1> QED
  BY <1>1, <1>2, <1>3, <1>4, <1>5, <1>6, <1>7 DEF Inductive

-----------------------------------------------------------------------------
\* The scenario never changes, and a stutter changes nothing.
LEMMA ScenarioFixed ==
    ASSUME [Next]_vars
    PROVE  sc' = sc
BY DEF Next, Step, Finished, vars, control, StartSession, EndAdvance, BeginRelease, EndRelease,
       EndInstant, BeginInstant, JumpToReady, EndSession, Close, IngestDelivery, Release,
       Generate, OpenAllocation

\* What an allocation grants: at least a byte, no more than is left, inside the
\* session; and the payload is eligible.
LEMMA AllocationFacts ==
    ASSUME InputOK, TypeOK, Position, NEW p \in Payloads, OpenAllocation(p)
    PROVE  /\ ses \in DOMAIN sc.sessions
           /\ Session.start \in Nat /\ Session.end \in Nat
           /\ Grantable \in Nat
           /\ Grant(p) \in Nat /\ 0 < Grant(p) /\ Grant(p) <= Grantable
           /\ Grant(p) <= remaining[p]
           /\ IsAtomic(p) => Grant(p) = remaining[p]
           /\ GrantEnd(Session, cursor, Grant(p)) \in cursor .. Session.end
           /\ Eligible(p)
<1>1. pc = "serve" /\ Eligible(p) /\ Grant(p) > 0
  BY DEF OpenAllocation, Serving, Startable
<1>2. ses \in DOMAIN sc.sessions
  BY <1>1 DEF Position
<1>3. /\ Grant(p) \in 0 .. Grantable /\ Grant(p) \in 0 .. remaining[p]
      /\ IsAtomic(p) => Grant(p) \in {0, remaining[p]}
  BY <1>2, GrantBounds
<1>4. /\ Session.start \in Nat /\ Session.end \in Nat /\ Grantable \in Nat
      /\ \A n \in 1 .. Grantable : GrantEnd(Session, cursor, n) \in cursor .. Session.end
  BY <1>2, GrantableBounds
<1>5. remaining[p] \in Nat
  BY DEF TypeOK
<1>6. Grant(p) \in 1 .. Grantable
  BY <1>1, <1>3, <1>4
<1> QED
  BY <1>1, <1>2, <1>3, <1>4, <1>5, <1>6

\* What an allocation does to the state, one assignment after the other.
LEMMA AllocationEffect ==
    ASSUME NEW p \in Payloads, OpenAllocation(p)
    PROVE  LET granted == Grant(p)
               end     == GrantEnd(Session, cursor, granted)
               left    == remaining[p] - granted
           IN  /\ pc' = "reclaim" /\ cursor' = end /\ upto' = end /\ instant' = end
               /\ available' = Grantable - granted
               /\ remaining' = [remaining EXCEPT ![p] = left]
               /\ completion' = [completion EXCEPT ![p] = IF left = 0 THEN end ELSE @]
               /\ partialEnd' = [partialEnd EXCEPT ![p] = IF left = 0 THEN None ELSE end]
               /\ allocations' = Append(allocations,
                     [key |-> p, session |-> ses, offset |-> Offset(p),
                      start |-> cursor, end |-> end, bytes |-> granted])
               /\ due' = ReleaseDue(end, completion', acknowledged)
               /\ DOMAIN notes' = Payloads
               /\ UNCHANGED <<sc, ses, stranded, recorder, pending>>
BY DEF OpenAllocation, FreeAfter, Noted

\* Types survive every step.
LEMMA TypeStep ==
    ASSUME InputOK, TypeOK, Position, Progress, [Next]_vars
    PROVE  TypeOK'
<1> USE DEF TypeOK, Loops, control, queue, recorder, pending, vars
<1>1. CASE StartSession
  <2>1. CASE ses < Len(sc.sessions)
    <3>1. ses + 1 \in DOMAIN sc.sessions
      BY <2>1, ScenarioTypes
    <3>2. sc.sessions[ses + 1].start \in Nat /\ sc.sessions[ses + 1].cap \in Nat
      BY <3>1, ScenarioTypes DEF SessionsOK, SessionOK
    <3>3. cursor' \in Nat /\ available' \in Nat /\ upto' \in Nat
      BY <1>1, <2>1, <3>2 DEF StartSession
    <3>4. ses' \in Nat
      BY <1>1 DEF StartSession
    <3> QED
      BY <1>1, <3>3, <3>4 DEF StartSession
  <2>2. CASE ~(ses < Len(sc.sessions))
    BY <1>1, <2>2, ScenarioTypes DEF StartSession
  <2> QED
    BY <2>1, <2>2
<1>2. CASE EndAdvance \/ BeginRelease \/ EndRelease \/ EndInstant \/ Finished
  <2>1. CASE BeginRelease
    <3>1. ReleaseDue(instant, completion, acknowledged) \subseteq Payloads
      BY DEF ReleaseDue
    <3> QED
      BY <2>1, <3>1 DEF BeginRelease
  <2> QED
    BY <1>2, <2>1 DEF EndAdvance, EndRelease, EndInstant, Finished
<1>3. CASE BeginInstant
  <2>1. PendingInstants \subseteq Nat
    BY ScenarioTypes, ObjectTypes DEF PendingInstants, Position, OptionalTime
  <2> QED
    BY <1>3, <2>1 DEF BeginInstant
<1>4. CASE JumpToReady
  <2>1. ses \in DOMAIN sc.sessions
    BY <1>4 DEF JumpToReady, Serving, Position
  <2>2. Grantable \in Nat /\ cursor \in Nat /\ Session.end \in Nat
    BY <2>1, GrantableBounds
  <2>3. LaterReady \subseteq Nat
    BY <2>2 DEF LaterReady
  <2> QED
    BY <1>4, <2>2, <2>3 DEF JumpToReady, Noted
<1>5. CASE EndSession
  <2>1. ses \in DOMAIN sc.sessions
    BY <1>5 DEF EndSession, Position
  <2>2. Grantable \in Nat
    BY <2>1, GrantableBounds
  <2> QED
    BY <1>5, <2>2 DEF EndSession, Noted
<1>6. CASE Close
  BY <1>6 DEF Close
<1>7. ASSUME NEW p \in Payloads, IngestDelivery(p) PROVE TypeOK'
  BY <1>7, ScenarioTypes DEF IngestDelivery, OptionalTime
<1>8. ASSUME NEW p \in Payloads, Release(p) PROVE TypeOK'
  <2>1. Object(p).store \in Nat
    BY ObjectTypes
  <2>2. tally' \in [peak : Nat, breach : Nat, freed : Nat, refused : Nat]
    <3>1. CASE tally' = Totals(tally.peak, tally.breach, tally.freed + Object(p).store,
                               tally.refused)
      BY <3>1, <2>1 DEF Totals
    <3> QED
      BY <1>8, <3>1 DEF Release, Noted
  <2>3. DOMAIN notes' = Payloads
    BY <1>8 DEF Release, Noted
  <2>4. released' \subseteq Payloads /\ occupancy' \in Int /\ due' \subseteq Payloads
    BY <1>8, <2>1 DEF Release, Noted
  <2> QED
    BY <1>8, <2>2, <2>3, <2>4 DEF Release, Noted
<1>9. ASSUME NEW p \in Payloads, Generate(p) PROVE TypeOK'
  <2> DEFINE projected == occupancy + Object(p).store
  <2>1. Object(p).store \in Nat /\ Store.usable \in Nat
    BY ObjectTypes, ScenarioTypes DEF StorageOK, Store
  <2>2. projected \in Int /\ Breach(projected) \in Int
    BY <2>1 DEF Breach, Higher
  <2>3. tally' \in [peak : Nat, breach : Nat, freed : Nat, refused : Nat]
    <3>1. CASE tally' = Totals(Higher(tally.peak, projected),
                               Higher(tally.breach, Breach(projected)),
                               tally.freed, tally.refused)
      <4>1. Higher(tally.peak, projected) \in Nat
            /\ Higher(tally.breach, Breach(projected)) \in Nat
        BY <2>2 DEF Higher
      <4> QED
        BY <3>1, <4>1 DEF Totals
    <3>2. CASE tally' = Totals(tally.peak, tally.breach, tally.freed,
                               tally.refused + Object(p).store)
      BY <3>2, <2>1 DEF Totals
    <3> QED
      BY <1>9, <3>1, <3>2 DEF Generate, Admit, Refuse
  <2>4. DOMAIN notes' = Payloads
    BY <1>9 DEF Generate, Admit, Refuse, Noted
  <2>5. occupancy' \in Int /\ admitted' \subseteq Payloads
    BY <1>9, <2>2 DEF Generate, Admit, Refuse
  <2> QED
    BY <1>9, <2>3, <2>4, <2>5 DEF Generate
<1>10. ASSUME NEW p \in Payloads, OpenAllocation(p) PROVE TypeOK'
  <2> DEFINE granted == Grant(p)
             end     == GrantEnd(Session, cursor, granted)
  <2>1. /\ ses \in Nat /\ cursor \in Nat /\ Grantable \in Nat
        /\ remaining[p] \in Nat /\ remaining \in [Payloads -> Nat]
    BY <1>10, AllocationFacts
  <2>2. granted \in Nat /\ 0 < granted /\ granted <= Grantable /\ granted <= remaining[p]
    BY <1>10, AllocationFacts
  <2>3. end \in Nat
    BY <1>10, <2>1, AllocationFacts
  <2>4. remaining' \in [Payloads -> Nat]
    <3>1. remaining' = [remaining EXCEPT ![p] = remaining[p] - granted]
      BY <1>10, AllocationEffect
    <3>2. remaining[p] - granted \in Nat
      BY <2>1, <2>2
    <3> HIDE DEF granted
    <3> QED
      BY <3>1, <3>2, <2>1
  <2>5. completion' \in [Payloads -> OptionalTime] /\ partialEnd' \in [Payloads -> OptionalTime]
    <3> DEFINE done == IF remaining[p] - granted = 0 THEN end ELSE completion[p]
               part == IF remaining[p] - granted = 0 THEN None ELSE end
    <3>1. completion' = [completion EXCEPT ![p] = done] /\ partialEnd' = [partialEnd EXCEPT ![p] = part]
      BY <1>10, AllocationEffect
    <3>2. done \in OptionalTime /\ part \in OptionalTime
      BY <2>3 DEF OptionalTime
    <3> HIDE DEF done, part
    <3> QED
      BY <3>1, <3>2
  <2>6. allocations' \in Seq(AllocationRecords)
    <3>1. Offset(p) \in Nat
      BY <2>1, ObjectTypes DEF Offset, Progress
    <3>2. allocations' = Append(allocations,
              [key |-> p, session |-> ses, offset |-> Offset(p),
               start |-> cursor, end |-> end, bytes |-> granted])
      BY <1>10, AllocationEffect
    <3>3. [key |-> p, session |-> ses, offset |-> Offset(p),
           start |-> cursor, end |-> end, bytes |-> granted] \in AllocationRecords
      BY <2>1, <2>2, <2>3, <3>1 DEF AllocationRecords
    <3> QED
      BY <3>2, <3>3
  <2>7. due' \subseteq Payloads
    BY <1>10, AllocationEffect DEF ReleaseDue
  <2>8. available' \in Nat /\ cursor' \in Nat /\ upto' \in Nat /\ instant' \in Nat
    <3>1. available' = Grantable - granted /\ cursor' = end /\ upto' = end /\ instant' = end
      BY <1>10, AllocationEffect
    <3> HIDE DEF granted, end
    <3> QED
      BY <3>1, <2>1, <2>2, <2>3
  <2>9. /\ pc' = "reclaim" /\ DOMAIN notes' = Payloads
        /\ UNCHANGED <<sc, ses, stranded, recorder, pending>>
    BY <1>10, AllocationEffect
  <2> HIDE DEF granted, end
  <2> QED
    BY <2>4, <2>5, <2>6, <2>7, <2>8, <2>9
<1>11. CASE UNCHANGED vars
  BY <1>11
<1> QED
  BY <1>1, <1>2, <1>3, <1>4, <1>5, <1>6, <1>7, <1>8, <1>9, <1>10, <1>11 DEF Next, Step

-----------------------------------------------------------------------------
\* A record appended to a sequence is added to its records.
LEMMA RecordsOfAppend ==
    ASSUME NEW S, NEW s \in Seq(S), NEW r \in S
    PROVE  Records(Append(s, r)) = Records(s) \cup {r}
<1>1. /\ DOMAIN s = 1 .. Len(s) /\ Len(s) \in Nat
      /\ DOMAIN Append(s, r) = 1 .. Len(s) + 1
      /\ \A i \in 1 .. Len(s) : Append(s, r)[i] = s[i]
      /\ Append(s, r)[Len(s) + 1] = r
  OBVIOUS
<1> QED
  BY <1>1 DEF Records

\* The records of a well-typed sequence of allocations are allocations.
LEMMA AllocationTypes ==
    ASSUME TypeOK, NEW a \in Records(allocations)
    PROVE  /\ a.key \in Payloads /\ a.session \in Nat
           /\ a.start \in Nat /\ a.end \in Nat /\ a.bytes \in Nat
<1>1. PICK i \in DOMAIN allocations : a = allocations[i]
  BY DEF Records
<1>2. allocations \in Seq(AllocationRecords)
  BY DEF TypeOK
<1>3. a \in AllocationRecords
  BY <1>1, <1>2
<1> QED
  BY <1>3 DEF AllocationRecords

\* Only an allocation changes what is sent.
LEMMA QueueChanges ==
    ASSUME [Next]_vars
    PROVE  \/ UNCHANGED <<remaining, completion, allocations>>
           \/ \E p \in Payloads : OpenAllocation(p)
BY DEF Next, Step, Finished, vars, control, queue, recorder, pending, StartSession, EndAdvance,
       BeginRelease, EndRelease, EndInstant, BeginInstant, JumpToReady, EndSession, Close,
       IngestDelivery, Release, Generate

\* Only a release and a generation change what the recorder holds.
LEMMA RecorderChanges ==
    ASSUME [Next]_vars
    PROVE  \/ UNCHANGED <<admitted, released, occupancy>>
           \/ \E p \in Payloads : Release(p) \/ Generate(p)
BY DEF Next, Step, Finished, vars, control, queue, recorder, pending, StartSession, EndAdvance,
       BeginRelease, EndRelease, EndInstant, BeginInstant, JumpToReady, EndSession, Close,
       IngestDelivery, OpenAllocation

\* A release reclaims a complete object and leaves the others as they are.
LEMMA ReleaseEffect ==
    ASSUME NEW p \in Payloads, Release(p)
    PROVE  /\ p \in due /\ due' = due \ {p}
           /\ \/ remaining[p] = 0 /\ released' = released \cup {p}
                 /\ occupancy' = occupancy - Object(p).store
              \/ remaining[p] # 0 /\ UNCHANGED <<released, occupancy>>
           /\ UNCHANGED <<sc, pc, ses, cursor, admitted, remaining, completion, allocations,
                          undelivered>>
BY DEF Release, Noted, CanReclaim, control, queue, pending

\* A generation holds the object or refuses it, and holds it within the limits.
LEMMA GenerateEffect ==
    ASSUME NEW p \in Payloads, Generate(p)
    PROVE  /\ \/ UNCHANGED <<admitted, occupancy>>
              \/ /\ admitted' = admitted \cup {p}
                 /\ ~Store.enabled /\ UNCHANGED occupancy
              \/ /\ admitted' = admitted \cup {p}
                 /\ Store.enabled /\ Refusal(p) = "NO"
                 /\ occupancy' = occupancy + Object(p).store
           /\ UNCHANGED <<sc, pc, ses, cursor, released, remaining, completion, allocations,
                          undelivered, due>>
BY DEF Generate, Admit, Refuse, Noted, control, queue

-----------------------------------------------------------------------------
\* The reducer stays where it says it is.
LEMMA PositionStep ==
    ASSUME InputOK, TypeOK, Position, [Next]_vars
    PROVE  Position'
<1>0. sc' = sc
  BY ScenarioFixed
<1>1. CASE StartSession
  <2>1. pc' = "advance" /\ UNCHANGED <<undelivered, due, admitted>> /\ ses' = ses + 1
    BY <1>1 DEF StartSession, pending, recorder
  <2>2. CASE ses < Len(sc.sessions)
    <3>1. ses + 1 \in DOMAIN sc.sessions
      BY <2>2, ScenarioTypes DEF TypeOK
    <3>2. cursor' = sc.sessions[ses + 1].start
      BY <1>1, <2>2 DEF StartSession
    <3>3. /\ sc.sessions[ses + 1].start \in Nat /\ sc.sessions[ses + 1].end \in Nat
          /\ sc.sessions[ses + 1].start < sc.sessions[ses + 1].end
      BY <3>1, ScenarioTypes DEF SessionsOK, SessionOK
    <3> QED
      BY <1>0, <2>1, <3>1, <3>2, <3>3 DEF Position, Session
  <2>3. CASE ~(ses < Len(sc.sessions))
    <3>1. ses + 1 \notin DOMAIN sc.sessions
      BY <2>3, ScenarioTypes DEF TypeOK
    <3> QED
      BY <1>0, <2>1, <3>1 DEF Position
  <2> QED
    BY <2>2, <2>3
<1>2. CASE EndAdvance \/ EndRelease \/ EndInstant \/ BeginInstant \/ EndSession \/ Close
  BY <1>0, <1>2 DEF EndAdvance, EndRelease, EndInstant, BeginInstant, EndSession, Close,
                    Position, Session, pending, recorder, control, Noted
<1>3. CASE BeginRelease
  <2>1. ReleaseDue(instant, completion, acknowledged) \subseteq admitted
    BY DEF ReleaseDue
  <2> QED
    BY <1>0, <1>3, <2>1 DEF BeginRelease, Position, Session, pending, recorder
<1>4. CASE JumpToReady
  <2>1. ses \in DOMAIN sc.sessions
    BY <1>4 DEF JumpToReady, Serving, Position
  <2>2. Session.start \in Nat /\ Session.end \in Nat /\ cursor \in Session.start .. Session.end
    BY <2>1, GrantableBounds DEF Position
  <2>3. LaterReady \subseteq Session.start .. Session.end
    BY <2>2 DEF LaterReady
  <2>4. cursor' \in LaterReady /\ pc' = "advance" /\ UNCHANGED <<ses, undelivered, due, admitted>>
    BY <1>4 DEF JumpToReady, Noted, pending, recorder
  <2> QED
    BY <1>0, <2>3, <2>4 DEF Position, Session
<1>5. ASSUME NEW p \in Payloads, IngestDelivery(p) PROVE Position'
  BY <1>0, <1>5 DEF IngestDelivery, Position, Session, control, recorder
<1>6. ASSUME NEW p \in Payloads, Release(p) PROVE Position'
  BY <1>0, <1>6, ReleaseEffect DEF Position, Session
<1>7. ASSUME NEW p \in Payloads, Generate(p) PROVE Position'
  BY <1>0, <1>7, GenerateEffect DEF Position, Session
<1>8. ASSUME NEW p \in Payloads, OpenAllocation(p) PROVE Position'
  <2>1. /\ ses \in DOMAIN sc.sessions /\ Session.start \in Nat /\ Session.end \in Nat
        /\ cursor' \in cursor .. Session.end
    BY <1>8, AllocationFacts, AllocationEffect
  <2>2. cursor' \in Session.start .. Session.end
    BY <2>1 DEF Position
  <2>3. due' \subseteq admitted /\ UNCHANGED <<ses, undelivered, admitted>>
    BY <1>8, AllocationEffect DEF ReleaseDue, recorder, pending
  <2> QED
    BY <1>0, <2>1, <2>2, <2>3 DEF Position, Session
<1>9. CASE Finished \/ UNCHANGED vars
  BY <1>0, <1>9 DEF Finished, vars, control, pending, recorder, Position, Session
<1> QED
  BY <1>1, <1>2, <1>3, <1>4, <1>5, <1>6, <1>7, <1>8, <1>9 DEF Next, Step

-----------------------------------------------------------------------------
\* A completion instant comes with the last byte and never changes again.
LEMMA ProgressStep ==
    ASSUME InputOK, TypeOK, Position, Progress, [Next]_vars
    PROVE  /\ Progress'
           /\ \A q \in Payloads : completion[q] # None => completion'[q] = completion[q]
<1>0. sc' = sc
  BY ScenarioFixed
<1>1. CASE UNCHANGED <<remaining, completion, allocations>>
  <2>1. admitted \subseteq admitted'
    BY RecorderChanges, ReleaseEffect, GenerateEffect
  <2> QED
    BY <1>0, <1>1, <2>1 DEF Progress, IsAtomic, Object
<1>2. ASSUME NEW p \in Payloads, OpenAllocation(p)
      PROVE  /\ Progress'
             /\ \A q \in Payloads : completion[q] # None => completion'[q] = completion[q]
  <2> DEFINE granted == Grant(p)
             end     == GrantEnd(Session, cursor, granted)
             left    == remaining[p] - granted
  <2>1. /\ granted \in Nat /\ 0 < granted /\ granted <= remaining[p]
        /\ IsAtomic(p) => granted = remaining[p]
        /\ end # None /\ p \in admitted /\ remaining[p] > 0
    <3>1. /\ cursor \in Nat /\ Session.end \in Nat /\ end \in cursor .. Session.end
      BY <1>2, AllocationFacts DEF TypeOK
    <3> QED
      BY <1>2, <3>1, AllocationFacts, NoneAssumption DEF Eligible
  <2>2. /\ remaining' = [remaining EXCEPT ![p] = left]
        /\ completion' = [completion EXCEPT ![p] = IF left = 0 THEN end ELSE completion[p]]
        /\ admitted' = admitted
    BY <1>2, AllocationEffect DEF recorder
  <2>3. remaining \in [Payloads -> Nat] /\ completion \in [Payloads -> OptionalTime]
    BY DEF TypeOK
  <2>4. completion[p] = None /\ left \in Nat /\ left < remaining[p]
    BY <2>1, <2>3 DEF Progress
  <2>5. \A q \in Payloads : q # p => remaining'[q] = remaining[q] /\ completion'[q] = completion[q]
    BY <2>2, <2>3
  <2>6. remaining'[p] = left /\ completion'[p] = IF left = 0 THEN end ELSE None
    BY <2>2, <2>3, <2>4
  <2>7. Object(p).size \in Nat
    BY ObjectTypes
  <2> HIDE DEF granted, end, left
  <2>8. \A q \in Payloads : completion[q] # None => completion'[q] = completion[q]
    BY <2>4, <2>5
  <2>9. /\ remaining'[p] <= Object(p).size
        /\ completion'[p] # None <=> remaining'[p] = 0
        /\ IsAtomic(p) => remaining'[p] \in {0, Object(p).size}
    <3>1. remaining'[p] <= Object(p).size
      BY <2>3, <2>4, <2>6, <2>7 DEF Progress
    <3>2. completion'[p] # None <=> remaining'[p] = 0
      BY <2>1, <2>6
    <3>3. IsAtomic(p) => remaining'[p] = 0
      BY <2>1, <2>3, <2>6 DEF left
    <3> QED
      BY <3>1, <3>2, <3>3
  <2>10. Progress'
    BY <1>0, <2>1, <2>2, <2>5, <2>9 DEF Progress, IsAtomic, Object
  <2> QED
    BY <2>8, <2>10
<1> QED
  BY <1>1, <1>2, QueueChanges

\* The allocations stay in time order, behind the cursor, inside their sessions.
LEMMA TransmitterStep ==
    ASSUME InputOK, TypeOK, Position, Behind, OneTransmitter, [Next]_vars
    PROVE  Behind' /\ OneTransmitter'
<1>0. sc' = sc
  BY ScenarioFixed
<1>1. CASE UNCHANGED <<remaining, completion, allocations>>
  <2>1. ses \in Nat /\ cursor \in Nat /\ allocations \in Seq(AllocationRecords)
    BY DEF TypeOK
  <2>2. \A a \in Records(allocations) :
            a.session \in Nat /\ a.end \in Nat /\ a.start \in Nat
    BY AllocationTypes
  <2>3. CASE StartSession
    <3>1. CASE ses < Len(sc.sessions)
      <4>1. ses + 1 \in DOMAIN sc.sessions
        BY <2>1, <3>1, ScenarioTypes
      <4>2. \A a \in Records(allocations) : a.end <= sc.sessions[ses + 1].start
        <5> TAKE a \in Records(allocations)
        <5>1. /\ a.session \in DOMAIN sc.sessions /\ a.session < ses + 1
              /\ a.end <= sc.sessions[a.session].end
          BY <2>1, <2>2 DEF Behind, OneTransmitter
        <5>2. /\ sc.sessions[a.session].end <= sc.sessions[ses + 1].start
              /\ sc.sessions[a.session].end \in Nat /\ sc.sessions[ses + 1].start \in Nat
          BY <4>1, <5>1, ScenarioTypes DEF SessionsOK, SessionOK
        <5> QED
          BY <2>2, <5>1, <5>2
      <4>3. ses' = ses + 1 /\ cursor' = sc.sessions[ses + 1].start
        BY <2>3, <3>1 DEF StartSession
      <4> QED
        BY <1>0, <1>1, <2>1, <2>2, <4>2, <4>3 DEF Behind, OneTransmitter
    <3>2. CASE ~(ses < Len(sc.sessions))
      <4>1. ses' = ses + 1 /\ cursor' = cursor
        BY <2>3, <3>2 DEF StartSession
      <4> QED
        BY <1>0, <1>1, <2>1, <2>2, <4>1 DEF Behind, OneTransmitter
    <3> QED
      BY <3>1, <3>2
  <2>4. CASE JumpToReady
    <3>1. ses \in DOMAIN sc.sessions
      BY <2>4 DEF JumpToReady, Serving, Position
    <3>2. Session.end \in Nat /\ LaterReady \subseteq cursor .. Session.end
      BY <2>1, <3>1, GrantableBounds DEF LaterReady
    <3>3. cursor' \in cursor .. Session.end /\ ses' = ses
      BY <2>4, <3>2 DEF JumpToReady, Noted
    <3> QED
      BY <1>0, <1>1, <2>1, <2>2, <3>2, <3>3 DEF Behind, OneTransmitter
  <2>5. CASE UNCHANGED <<ses, cursor>>
    BY <1>0, <1>1, <2>5 DEF Behind, OneTransmitter
  <2>6. StartSession \/ JumpToReady \/ UNCHANGED <<ses, cursor>> \/ \E p \in Payloads : OpenAllocation(p)
    BY DEF Next, Step, Finished, vars, control, EndAdvance, BeginRelease, EndRelease, EndInstant,
           BeginInstant, EndSession, Close, IngestDelivery, Release, Generate
  <2>7. ASSUME NEW p \in Payloads, OpenAllocation(p) PROVE FALSE
    <3>1. /\ remaining' = [remaining EXCEPT ![p] = remaining[p] - Grant(p)]
          /\ Grant(p) \in Nat /\ 0 < Grant(p)
      BY <2>7, AllocationEffect, AllocationFacts
    <3>2. remaining'[p] = remaining[p] - Grant(p) /\ remaining[p] \in Nat
      BY <3>1 DEF TypeOK
    <3> QED
      BY <1>1, <3>1, <3>2
  <2> QED
    BY <2>3, <2>4, <2>5, <2>6, <2>7
<1>2. ASSUME NEW p \in Payloads, OpenAllocation(p) PROVE Behind' /\ OneTransmitter'
  <2> DEFINE granted == Grant(p)
             end     == GrantEnd(Session, cursor, granted)
             new     == [key |-> p, session |-> ses, offset |-> Offset(p),
                         start |-> cursor, end |-> end, bytes |-> granted]
  <2>1. /\ ses \in DOMAIN sc.sessions /\ ses \in Nat /\ cursor \in Nat
        /\ Session.start \in Nat /\ Session.end \in Nat
        /\ Session.start <= cursor /\ end \in cursor .. Session.end
    <3>1. ses \in DOMAIN sc.sessions /\ Session.start \in Nat /\ Session.end \in Nat
          /\ end \in cursor .. Session.end
      BY <1>2, AllocationFacts
    <3> QED
      BY <3>1 DEF TypeOK, Position
  <2>2. cursor' = end /\ ses' = ses /\ allocations' = Append(allocations, new)
    BY <1>2, AllocationEffect
  <2>3. allocations \in Seq(AllocationRecords)
    BY DEF TypeOK
  <2>4. /\ new.session = ses /\ new.start = cursor /\ new.end = end
    OBVIOUS
  <2> HIDE DEF granted, end, new
  <2>5. /\ DOMAIN allocations = 1 .. Len(allocations) /\ Len(allocations) \in Nat
        /\ DOMAIN allocations' = 1 .. Len(allocations) + 1
        /\ \A i \in 1 .. Len(allocations) : allocations'[i] = allocations[i]
        /\ allocations'[Len(allocations) + 1] = new
    BY <2>2, <2>3
  <2>6. \A i \in 1 .. Len(allocations) :
           /\ allocations[i].end \in Nat /\ allocations[i].end <= cursor
           /\ allocations[i] \in Records(allocations)
    <3> SUFFICES ASSUME NEW i \in 1 .. Len(allocations)
                 PROVE  /\ allocations[i].end \in Nat /\ allocations[i].end <= cursor
                        /\ allocations[i] \in Records(allocations)
      OBVIOUS
    <3>1. allocations[i] \in Records(allocations)
      BY <2>5 DEF Records
    <3> QED
      BY <3>1, AllocationTypes DEF Behind
  <2>7. \A a \in Records(allocations)' : a \in Records(allocations) \/ a = new
    BY <2>5 DEF Records
  <2>8. Behind'
    <3> SUFFICES ASSUME NEW a \in Records(allocations)'
                 PROVE  a.session <= ses /\ a.session \in DOMAIN sc.sessions /\ a.end <= end
      BY <1>0, <2>2 DEF Behind
    <3>1. CASE a = new
      BY <2>1, <2>4, <3>1
    <3>2. CASE a \in Records(allocations)
      <4>1. PICK i \in 1 .. Len(allocations) : a = allocations[i]
        BY <2>5, <3>2 DEF Records
      <4> QED
        BY <2>1, <2>6, <3>2, <4>1 DEF Behind
    <3> QED
      BY <2>7, <3>1, <3>2
  <2>9. \A a \in Records(allocations)' :
            /\ a.start <= a.end
            /\ sc.sessions[a.session].start <= a.start /\ a.end <= sc.sessions[a.session].end
    BY <2>1, <2>4, <2>7 DEF OneTransmitter, Session
  <2>10. \A i, j \in DOMAIN allocations' :
            i < j => allocations'[i].end <= allocations'[j].start
    <3> SUFFICES ASSUME NEW i \in DOMAIN allocations', NEW j \in DOMAIN allocations', i < j
                 PROVE  allocations'[i].end <= allocations'[j].start
      OBVIOUS
    <3>1. i \in 1 .. Len(allocations)
      BY <2>5
    <3>2. CASE j \in 1 .. Len(allocations)
      BY <2>5, <3>1, <3>2 DEF OneTransmitter
    <3>3. CASE j = Len(allocations) + 1
      BY <2>4, <2>5, <2>6, <3>1, <3>3
    <3> QED
      BY <2>5, <3>2, <3>3
  <2>11. OneTransmitter'
    BY <1>0, <2>9, <2>10 DEF OneTransmitter
  <2> QED
    BY <2>8, <2>11
<1> QED
  BY <1>1, <1>2, QueueChanges

-----------------------------------------------------------------------------
\* What is sent next is whole when it must be, and is allowed to be sent.
LEMMA SendingStep ==
    ASSUME InputOK, TypeOK, Position, Progress, AtomicNotTorn, SentOnlyWhenAllowed,
           [Next]_vars
    PROVE  AtomicNotTorn' /\ SentOnlyWhenAllowed'
<1>0. sc' = sc
  BY ScenarioFixed
<1>1. /\ admitted \subseteq admitted'
      /\ \A q \in Payloads : completion[q] # None => completion'[q] = completion[q]
  BY RecorderChanges, ReleaseEffect, GenerateEffect, ProgressStep
<1>2. \A d \in sc.after : d[1] \in Payloads
  BY ScenarioTypes
<1>3. ASSUME NEW a \in Records(allocations)
      PROVE  /\ IsAtomic(a.key)' => a.bytes = Object(a.key)'.size
             /\ a.key \in admitted'
             /\ Object(a.key)'.ready <= a.start
             /\ Object(a.key)'.expiry # None => a.start < Object(a.key)'.expiry
             /\ \A d \in sc'.after : d[2] = a.key =>
                   completion'[d[1]] # None /\ completion'[d[1]] <= a.start
  <2>1. \A d \in sc.after : d[2] = a.key =>
            completion[d[1]] # None /\ completion[d[1]] <= a.start
    BY DEF SentOnlyWhenAllowed
  <2>2. \A d \in sc'.after : d[2] = a.key =>
            completion'[d[1]] # None /\ completion'[d[1]] <= a.start
    BY <1>0, <1>1, <1>2, <2>1
  <2> QED
    BY <1>0, <1>1, <2>2 DEF AtomicNotTorn, SentOnlyWhenAllowed, IsAtomic, Object
<1>4. CASE UNCHANGED <<remaining, completion, allocations>>
  <2>1. Records(allocations)' = Records(allocations)
    BY <1>4 DEF Records
  <2> QED
    BY <1>3, <2>1 DEF AtomicNotTorn, SentOnlyWhenAllowed
<1>5. ASSUME NEW p \in Payloads, OpenAllocation(p)
      PROVE  AtomicNotTorn' /\ SentOnlyWhenAllowed'
  <2> DEFINE granted == Grant(p)
             end     == GrantEnd(Session, cursor, granted)
             new     == [key |-> p, session |-> ses, offset |-> Offset(p),
                         start |-> cursor, end |-> end, bytes |-> granted]
  <2>1. allocations' = Append(allocations, new) /\ admitted' = admitted
    BY <1>5, AllocationEffect DEF recorder
  <2>2. /\ granted \in Nat /\ 0 < granted /\ Eligible(p)
        /\ IsAtomic(p) => granted = remaining[p]
    BY <1>5, AllocationFacts
  <2>3. new.key = p /\ new.start = cursor /\ new.bytes = granted
    OBVIOUS
  <2> HIDE DEF granted, end, new
  <2>4. Records(allocations)' \subseteq Records(allocations) \cup {new}
    <3>1. /\ allocations \in Seq(AllocationRecords)
          /\ DOMAIN allocations = 1 .. Len(allocations) /\ Len(allocations) \in Nat
      BY DEF TypeOK
    <3>2. /\ DOMAIN allocations' = 1 .. Len(allocations) + 1
          /\ \A i \in 1 .. Len(allocations) : allocations'[i] = allocations[i]
          /\ allocations'[Len(allocations) + 1] = new
      BY <2>1, <3>1
    <3> QED
      BY <3>1, <3>2 DEF Records
  <2>5. IsAtomic(p) => granted = Object(p).size
    BY <2>2 DEF Progress
  <2>6. /\ p \in admitted /\ Object(p).ready <= cursor
        /\ Object(p).expiry # None => cursor < Object(p).expiry
        /\ \A d \in sc.after : d[2] = p => completion[d[1]] # None /\ completion[d[1]] <= cursor
    BY <2>2 DEF Eligible
  <2>7. \A d \in sc'.after : d[2] = p =>
            completion'[d[1]] # None /\ completion'[d[1]] <= cursor
    BY <1>0, <1>1, <1>2, <2>6
  <2>8. AtomicNotTorn'
    BY <1>0, <1>3, <2>3, <2>4, <2>5 DEF AtomicNotTorn, IsAtomic, Object
  <2>9. SentOnlyWhenAllowed'
    BY <1>0, <1>3, <2>1, <2>3, <2>4, <2>6, <2>7 DEF SentOnlyWhenAllowed, Object
  <2> QED
    BY <2>8, <2>9
<1> QED
  BY <1>4, <1>5, QueueChanges

\* The recorder stays within its limits.
LEMMA OccupancyStep ==
    ASSUME InputOK, TypeOK, OccupancyWithinLimits, [Next]_vars
    PROVE  OccupancyWithinLimits'
<1>0. Store' = Store
  BY ScenarioFixed DEF Store
<1>1. /\ Store.physical \in Nat /\ Store.usable \in Nat /\ Store.initial \in Int
      /\ occupancy \in Int
  <2>1. StorageOK(Store)
    BY ScenarioTypes DEF Store
  <2> QED
    BY <2>1 DEF TypeOK, StorageOK
<1>2. CASE UNCHANGED <<admitted, released, occupancy>>
  BY <1>0, <1>2 DEF OccupancyWithinLimits
<1>3. ASSUME NEW p \in Payloads, Release(p) PROVE OccupancyWithinLimits'
  <2>1. Object(p).store \in Nat
    BY ObjectTypes
  <2>2. occupancy' = occupancy \/ occupancy' = occupancy - Object(p).store
    BY <1>3, ReleaseEffect
  <2>3. occupancy' \in Int /\ occupancy' <= occupancy
    BY <1>1, <2>1, <2>2
  <2>4. Higher(Store.usable, Store.initial) \in Int
    BY <1>1 DEF Higher
  <2> QED
    BY <1>0, <1>1, <2>3, <2>4 DEF OccupancyWithinLimits
<1>4. ASSUME NEW p \in Payloads, Generate(p) PROVE OccupancyWithinLimits'
  <2>1. Object(p).store \in Nat
    BY ObjectTypes
  <2>2. CASE occupancy' = occupancy
    BY <1>0, <2>2 DEF OccupancyWithinLimits
  <2>3. CASE Refusal(p) = "NO" /\ occupancy' = occupancy + Object(p).store
    <3>1. /\ occupancy' <= Store.physical
          /\ Store.hard => occupancy' <= Store.usable
      BY <1>1, <2>1, <2>3 DEF Refusal
    <3>2. occupancy' \in Int
      BY <1>1, <2>1, <2>3
    <3> QED
      BY <1>0, <1>1, <3>1, <3>2 DEF OccupancyWithinLimits, Higher
  <2> QED
    BY <1>4, <2>2, <2>3, GenerateEffect
<1> QED
  BY <1>2, <1>3, <1>4, RecorderChanges

\* Complete objects, and only those, leave the recorder.
LEMMA LeavingStep ==
    ASSUME InputOK, TypeOK, Position, Progress, CompleteObjectsLeave, LeavingUnderTxEnd,
           [Next]_vars
    PROVE  CompleteObjectsLeave' /\ LeavingUnderTxEnd'
<1>0. sc' = sc /\ Store' = Store
  BY ScenarioFixed DEF Store
<1>1. ASSUME \A q \in released' : q \in admitted' /\ remaining'[q] = 0,
             LeavingUnderTxEnd'
      PROVE  CompleteObjectsLeave' /\ LeavingUnderTxEnd'
  BY <1>1 DEF CompleteObjectsLeave, LeavingUnderTxEnd
<1>2. ASSUME NEW p \in Payloads, OpenAllocation(p)
      PROVE  CompleteObjectsLeave' /\ LeavingUnderTxEnd'
  <2> DEFINE end == GrantEnd(Session, cursor, Grant(p))
  <2>1. /\ pc = "serve" /\ pc' = "reclaim"
        /\ UNCHANGED <<admitted, released>>
        /\ remaining' = [remaining EXCEPT ![p] = remaining[p] - Grant(p)]
        /\ completion' = [completion EXCEPT ![p] =
                             IF remaining[p] - Grant(p) = 0 THEN end ELSE completion[p]]
        /\ due' = ReleaseDue(end, completion', acknowledged)
    BY <1>2, AllocationEffect DEF OpenAllocation, Serving, recorder
  <2>2. remaining[p] > 0 /\ p \in admitted
    BY <1>2, AllocationFacts DEF Eligible
  <2>3. remaining \in [Payloads -> Nat] /\ completion \in [Payloads -> OptionalTime]
    BY DEF TypeOK
  <2>4. p \notin released /\ \A q \in Payloads : q # p => remaining'[q] = remaining[q]
    BY <2>1, <2>2, <2>3 DEF CompleteObjectsLeave
  <2>5. \A q \in released' : q \in admitted' /\ remaining'[q] = 0
    <3> SUFFICES ASSUME NEW q \in released' PROVE q \in admitted' /\ remaining'[q] = 0
      OBVIOUS
    <3>1. q \in released /\ q # p /\ q \in Payloads
      BY <2>1, <2>4 DEF TypeOK
    <3> QED
      BY <2>1, <2>4, <3>1 DEF CompleteObjectsLeave
  <2>6. LeavingUnderTxEnd'
    <3> SUFFICES ASSUME Store.enabled, Store.trigger = "TX_END",
                        NEW q \in admitted, remaining'[q] = 0
                 PROVE  q \in released \/ q \in due'
      BY <1>0, <2>1 DEF LeavingUnderTxEnd
    <3>1. q \in Payloads
      BY DEF TypeOK
    <3>2. CASE q = p
      <4>1. remaining[p] - Grant(p) = 0
        BY <2>1, <2>3, <3>2
      <4>2. completion'[p] = end
        BY <2>1, <2>3, <4>1
      <4> QED
        BY <2>1, <2>2, <2>4, <3>2, <4>2 DEF ReleaseDue
    <3>3. CASE q # p
      BY <2>1, <2>4, <3>1, <3>3 DEF LeavingUnderTxEnd
    <3> QED
      BY <3>2, <3>3
  <2> QED
    BY <1>1, <2>5, <2>6
<1>3. ASSUME NEW p \in Payloads, Release(p)
      PROVE  CompleteObjectsLeave' /\ LeavingUnderTxEnd'
  <2>1. /\ p \in admitted /\ UNCHANGED <<admitted, remaining, pc>> /\ due' = due \ {p}
        /\ \/ remaining[p] = 0 /\ released' = released \cup {p}
           \/ remaining[p] # 0 /\ released' = released
    BY <1>3, ReleaseEffect DEF Position
  <2>2. \A q \in released' : q \in admitted' /\ remaining'[q] = 0
    BY <2>1 DEF CompleteObjectsLeave
  <2>3. LeavingUnderTxEnd'
    BY <1>0, <2>1 DEF LeavingUnderTxEnd
  <2> QED
    BY <1>1, <2>2, <2>3
<1>4. ASSUME NEW p \in Payloads, Generate(p)
      PROVE  CompleteObjectsLeave' /\ LeavingUnderTxEnd'
  <2>1. /\ admitted' = admitted \/ admitted' = admitted \cup {p}
        /\ UNCHANGED <<released, remaining, pc, due>>
    BY <1>4, GenerateEffect
  <2>2. p \notin admitted => remaining[p] # 0
    BY ObjectTypes DEF Progress
  <2>3. \A q \in released' : q \in admitted' /\ remaining'[q] = 0
    BY <2>1 DEF CompleteObjectsLeave
  <2>4. LeavingUnderTxEnd'
    BY <1>0, <2>1, <2>2 DEF LeavingUnderTxEnd
  <2> QED
    BY <1>1, <2>3, <2>4
<1>5. CASE UNCHANGED <<remaining, admitted, released>>
           /\ (UNCHANGED <<pc, due>> \/ pc # "reclaim" \/ due = {})
  <2>1. \A q \in released' : q \in admitted' /\ remaining'[q] = 0
    BY <1>5 DEF CompleteObjectsLeave
  <2>2. LeavingUnderTxEnd'
    BY <1>0, <1>5 DEF LeavingUnderTxEnd
  <2> QED
    BY <1>1, <2>1, <2>2
<1>6. ASSUME ~ \E p \in Payloads : OpenAllocation(p) \/ Release(p) \/ Generate(p)
      PROVE  UNCHANGED <<pc, due>> \/ pc # "reclaim" \/ due = {}
  <2>1. CASE StartSession \/ EndAdvance \/ BeginRelease \/ EndInstant \/ BeginInstant \/ Close
    BY <2>1 DEF StartSession, EndAdvance, BeginRelease, EndInstant, BeginInstant, Close
  <2>2. CASE JumpToReady \/ EndSession
    BY <2>2 DEF JumpToReady, EndSession, Serving
  <2>3. CASE EndRelease
    BY <2>3 DEF EndRelease
  <2>4. ASSUME NEW p \in Payloads, IngestDelivery(p) PROVE UNCHANGED <<pc, due>>
    BY <2>4 DEF IngestDelivery, control
  <2>5. CASE Finished \/ UNCHANGED vars
    BY <2>5 DEF Finished, vars, control
  <2> QED
    BY <1>6, <2>1, <2>2, <2>3, <2>4, <2>5 DEF Next, Step
<1>7. ASSUME ~ \E p \in Payloads : OpenAllocation(p) \/ Release(p) \/ Generate(p)
      PROVE  UNCHANGED <<remaining, admitted, released>>
  BY <1>7, QueueChanges, RecorderChanges
<1> QED
  BY <1>2, <1>3, <1>4, <1>5, <1>6, <1>7

-----------------------------------------------------------------------------
\* Every step keeps the invariant, whatever valid scenario is given.
LEMMA InductiveStep ==
    ASSUME Inductive, [Next]_vars
    PROVE  Inductive'
<1> USE DEF Inductive
<1>1. InputOK'
  BY ScenarioFixed DEF InputOK, ScenarioOK, SessionsOK
<1>2. TypeOK'
  BY TypeStep
<1>3. Position'
  BY PositionStep
<1>4. Progress'
  BY ProgressStep
<1>5. Behind' /\ OneTransmitter'
  BY TransmitterStep
<1>6. AtomicNotTorn' /\ SentOnlyWhenAllowed'
  BY SendingStep
<1>7. OccupancyWithinLimits'
  BY OccupancyStep
<1>8. CompleteObjectsLeave' /\ LeavingUnderTxEnd'
  BY LeavingStep
<1> QED
  BY <1>1, <1>2, <1>3, <1>4, <1>5, <1>6, <1>7, <1>8

\* The scenarios the constants give are valid.
LEMMA InitFresh == Init => InputOK /\ Fresh
BY ScenariosAssumption, SessionsAssumption DEF Init, InputOK

\* The invariant all the theorems below are read off from.
LEMMA InductiveInvariant == Spec => []Inductive
<1>1. Init => Inductive
  BY InitFresh, FreshInductive
<1>2. Inductive /\ [Next]_vars => Inductive'
  BY InductiveStep
<1> QED
  BY <1>1, <1>2, PTL DEF Spec

\* Whatever the scenario, _Reducer never brings a byte count of the queue, an
\* offset or a total of the recorder below zero.
THEOREM TypeCorrect == Spec => []TypeOK
<1>1. Inductive => TypeOK
  BY DEF Inductive
<1> QED
  BY <1>1, InductiveInvariant, PTL

\* The single transmitter: the allocations _run_session opens lie inside their
\* sessions and never overlap, for every scenario and every rate arithmetic
\* that ends a grant between its start and the end of its session.
THEOREM Transmitter == Spec => []OneTransmitter
<1>1. Inductive => OneTransmitter
  BY DEF Inductive
<1> QED
  BY <1>1, InductiveInvariant, PTL

\* _choose never splits an atomic object.
THEOREM Atomicity == Spec => []AtomicNotTorn
<1>1. Inductive => AtomicNotTorn
  BY DEF Inductive
<1> QED
  BY <1>1, InductiveInvariant, PTL

\* Nothing goes out that was refused, is not there yet, has expired, or comes
\* before what it must follow.
THEOREM Permission == Spec => []SentOnlyWhenAllowed
<1>1. Inductive => SentOnlyWhenAllowed
  BY DEF Inductive
<1> QED
  BY <1>1, InductiveInvariant, PTL

\* _generate_and_admit keeps the recorder within its physical size and, under
\* HARD enforcement, out of its reserve.
THEOREM StorageLimits == Spec => []OccupancyWithinLimits
<1>1. Inductive => OccupancyWithinLimits
  BY DEF Inductive
<1> QED
  BY <1>1, InductiveInvariant, PTL

\* _release gives back completely sent objects only, and under TX_END misses none.
THEOREM Reclamation == Spec => []CompleteObjectsLeave
<1>1. Inductive => CompleteObjectsLeave
  BY DEF Inductive
<1> QED
  BY <1>1, InductiveInvariant, PTL

-----------------------------------------------------------------------------
(***************************************************************************)
(* Payloads are numbers up to LastPayload.                                 *)
(***************************************************************************)

\* Payload keys are the numbers of a range from 1.
LEMMA PayloadRange == LastPayload \in Nat /\ Payloads \subseteq 1 .. LastPayload
<1> DEFINE S == {0} \cup Payloads
<1>1. S \subseteq Nat /\ S # {}
  BY PayloadsAssumption
<1>2. IsFiniteSet(S)
  BY PayloadsAssumption, FS_Singleton, FS_Union
<1>3. LastPayload \in S /\ \A n \in S : n <= LastPayload
  BY <1>1, <1>2, GreatestOfFinite DEF LastPayload
<1>4. LastPayload \in Nat /\ \A p \in Payloads : p \in Nat \ {0} /\ p <= LastPayload
  BY <1>1, <1>3, PayloadsAssumption
<1> QED
  BY <1>4

-----------------------------------------------------------------------------
(***************************************************************************)
(* An allocation is added to the books of its payload and its session.     *)
(***************************************************************************)

\* An allocation is one record more, of the payload, the session and the bytes granted.
LEMMA AllocationAppended ==
    ASSUME TypeOK, NEW p \in Payloads, OpenAllocation(p)
    PROVE  /\ Len(allocations) \in Nat /\ DOMAIN allocations = 1 .. Len(allocations)
           /\ Len(allocations') = Len(allocations) + 1
           /\ DOMAIN allocations' = 1 .. Len(allocations) + 1
           /\ \A i \in 1 .. Len(allocations) :
                 allocations'[i] = allocations[i] /\ allocations[i] \in AllocationRecords
           /\ allocations'[Len(allocations) + 1].key = p
           /\ allocations'[Len(allocations) + 1].session = ses
           /\ allocations'[Len(allocations) + 1].offset = Offset(p)
           /\ allocations'[Len(allocations) + 1].bytes = Grant(p)
<1> DEFINE end == GrantEnd(Session, cursor, Grant(p))
           new == [key |-> p, session |-> ses, offset |-> Offset(p),
                   start |-> cursor, end |-> end, bytes |-> Grant(p)]
<1>1. allocations' = Append(allocations, new)
  BY AllocationEffect
<1>2. new.key = p /\ new.session = ses /\ new.offset = Offset(p) /\ new.bytes = Grant(p)
  OBVIOUS
<1> HIDE DEF end, new
<1>3. allocations \in Seq(AllocationRecords)
  BY DEF TypeOK
<1>4. /\ Len(allocations') = Len(allocations) + 1 /\ Len(allocations) \in Nat
      /\ DOMAIN allocations = 1 .. Len(allocations)
      /\ DOMAIN allocations' = 1 .. Len(allocations) + 1
      /\ \A i \in 1 .. Len(allocations) :
            allocations'[i] = allocations[i] /\ allocations[i] \in AllocationRecords
      /\ allocations'[Len(allocations) + 1] = new
  BY <1>1, <1>3
<1> QED
  BY <1>2, <1>4

\* What the sums over the allocations become.
LEMMA SumsAfterAllocation ==
    ASSUME InputOK, TypeOK, Position, NEW p \in Payloads, OpenAllocation(p)
    PROVE  /\ \A q \in Payloads : \A k \in 0 .. Len(allocations) :
                 Sum(Sent(q)', k) = Sum(Sent(q), k)
           /\ \A q \in Payloads :
                 Sum(Sent(q)', Len(allocations) + 1)
                     = Sum(Sent(q), Len(allocations)) + (IF q = p THEN Grant(p) ELSE 0)
           /\ \A s \in Nat :
                 Sum(GrantedIn(s)', Len(allocations) + 1)
                     = Sum(GrantedIn(s), Len(allocations)) + (IF s = ses THEN Grant(p) ELSE 0)
           /\ Sum(Granted', Len(allocations) + 1) = Sum(Granted, Len(allocations)) + Grant(p)
<1> DEFINE n == Len(allocations)
<1>1. /\ n \in Nat /\ DOMAIN allocations = 1 .. n /\ DOMAIN allocations' = 1 .. n + 1
      /\ \A i \in 1 .. n : allocations'[i] = allocations[i]
      /\ allocations'[n + 1].key = p /\ allocations'[n + 1].session = ses
      /\ allocations'[n + 1].bytes = Grant(p)
  BY AllocationAppended
<1> HIDE DEF n
<1>2. ASSUME NEW q \in Payloads
      PROVE  /\ \A i \in 1 .. n : Sent(q)'[i] = Sent(q)[i]
             /\ Sent(q)'[n + 1] = IF q = p THEN Grant(p) ELSE 0
  BY <1>1 DEF Sent
<1>3. ASSUME NEW s \in Nat
      PROVE  /\ \A i \in 1 .. n : GrantedIn(s)'[i] = GrantedIn(s)[i]
             /\ GrantedIn(s)'[n + 1] = IF s = ses THEN Grant(p) ELSE 0
  BY <1>1 DEF GrantedIn
<1>4. /\ \A i \in 1 .. n : Granted'[i] = Granted[i]
      /\ Granted'[n + 1] = Grant(p)
  BY <1>1 DEF Granted
<1>5. ASSUME NEW q \in Payloads, NEW k \in 0 .. n PROVE Sum(Sent(q)', k) = Sum(Sent(q), k)
  <2>1. k \in Nat /\ \A i \in 1 .. k : Sent(q)'[i] = Sent(q)[i]
    BY <1>1, <1>2
  <2> QED
    BY <2>1, SumSame
<1>6. ASSUME NEW q \in Payloads
      PROVE  Sum(Sent(q)', n + 1) = Sum(Sent(q), n) + (IF q = p THEN Grant(p) ELSE 0)
  <2>1. Sum(Sent(q)', n + 1) = Sum(Sent(q), n) + Sent(q)'[n + 1]
    BY <1>1, <1>2, SumAppend
  <2> QED
    BY <1>2, <2>1
<1>7. ASSUME NEW s \in Nat
      PROVE  Sum(GrantedIn(s)', n + 1) = Sum(GrantedIn(s), n) + (IF s = ses THEN Grant(p) ELSE 0)
  <2>1. Sum(GrantedIn(s)', n + 1) = Sum(GrantedIn(s), n) + GrantedIn(s)'[n + 1]
    BY <1>1, <1>3, SumAppend
  <2> QED
    BY <1>3, <2>1
<1>8. Sum(Granted', n + 1) = Sum(Granted, n) + Grant(p)
  <2>1. Sum(Granted', n + 1) = Sum(Granted, n) + Granted'[n + 1]
    BY <1>1, <1>4, SumAppend
  <2> QED
    BY <1>4, <2>1
<1> QED
  BY <1>5, <1>6, <1>7, <1>8 DEF n

\* The sums are natural numbers.
LEMMA SumTypes ==
    ASSUME TypeOK
    PROVE  /\ \A q \in Payloads : \A k \in 0 .. Len(allocations) : Sum(Sent(q), k) \in Nat
           /\ \A s \in Nat : Sum(GrantedIn(s), Len(allocations)) \in Nat
           /\ Sum(Granted, Len(allocations)) \in Nat
<1> DEFINE n == Len(allocations)
<1>1. n \in Nat /\ DOMAIN allocations = 1 .. n /\ \A i \in 1 .. n : allocations[i].bytes \in Nat
  <2>1. allocations \in Seq(AllocationRecords)
    BY DEF TypeOK
  <2>2. n \in Nat /\ DOMAIN allocations = 1 .. n /\ \A i \in 1 .. n : allocations[i] \in AllocationRecords
    BY <2>1
  <2> QED
    BY <2>2 DEF AllocationRecords
<1> HIDE DEF n
<1>2. ASSUME NEW q \in Payloads, NEW k \in 0 .. n PROVE Sum(Sent(q), k) \in Nat
  <2>1. k \in Nat /\ \A i \in 1 .. k : Sent(q)[i] \in Nat
    BY <1>1 DEF Sent
  <2> QED
    BY <2>1, SumNat
<1>3. ASSUME NEW s \in Nat PROVE Sum(GrantedIn(s), n) \in Nat
  <2>1. \A i \in 1 .. n : GrantedIn(s)[i] \in Nat
    BY <1>1 DEF GrantedIn
  <2> QED
    BY <1>1, <2>1, SumNat
<1>4. Sum(Granted, n) \in Nat
  <2>1. \A i \in 1 .. n : Granted[i] \in Nat
    BY <1>1 DEF Granted
  <2> QED
    BY <1>1, <2>1, SumNat
<1> QED
  BY <1>2, <1>3, <1>4 DEF n

-----------------------------------------------------------------------------
(***************************************************************************)
(* Bytes.                                                                  *)
(***************************************************************************)

\* A grant that leaves bytes of a chunked payload is whole chunks of it.
LEMMA GrantWhole ==
    ASSUME InputOK, TypeOK, Position, NEW p \in Payloads, OpenAllocation(p),
           ~IsAtomic(p), remaining[p] - Grant(p) > 0
    PROVE  \E share \in Nat : Grant(p) = share - (share % Object(p).chunk)
<1> DEFINE share == Lower(remaining[p], Grantable)
<1>1. Grant(p) \in Nat /\ remaining[p] \in Nat /\ Grantable \in Nat
  BY AllocationFacts DEF TypeOK
<1>2. share \in Nat
  BY <1>1 DEF Lower
<1>3. CASE share = remaining[p]
  <2>1. Grant(p) = remaining[p]
    BY <1>3 DEF Grant
  <2> QED
    BY <1>1, <2>1
<1>4. CASE share # remaining[p]
  <2>1. Grant(p) = share - (share % Object(p).chunk)
    BY <1>4 DEF Grant
  <2> QED
    BY <1>2, <2>1
<1> QED
  BY <1>3, <1>4

\* The bytes of a payload are sent in order and once.
LEMMA BytesStep ==
    ASSUME InputOK, TypeOK, Position, Progress, BytesConserved, WholeChunks, [Next]_vars
    PROVE  BytesConserved' /\ WholeChunks'
<1>0. sc' = sc
  BY ScenarioFixed
<1>1. CASE UNCHANGED <<remaining, completion, allocations>>
  BY <1>0, <1>1 DEF BytesConserved, WholeChunks, Sent, Records, IsAtomic, Object
<1>2. ASSUME NEW p \in Payloads, OpenAllocation(p) PROVE BytesConserved' /\ WholeChunks'
  <2> DEFINE n == Len(allocations)
             granted == Grant(p)
  <2>1. /\ n \in Nat /\ DOMAIN allocations = 1 .. n
        /\ Len(allocations') = n + 1 /\ DOMAIN allocations' = 1 .. n + 1
        /\ \A i \in 1 .. n :
              allocations'[i] = allocations[i] /\ allocations[i] \in AllocationRecords
        /\ allocations'[n + 1].key = p /\ allocations'[n + 1].offset = Offset(p)
    BY <1>2, AllocationAppended
  <2>2. /\ granted \in Nat /\ 0 < granted /\ granted <= remaining[p]
        /\ IsAtomic(p) => granted = remaining[p]
    BY <1>2, AllocationFacts
  <2>3. /\ remaining \in [Payloads -> Nat]
        /\ remaining' = [remaining EXCEPT ![p] = remaining[p] - granted]
    BY <1>2, AllocationEffect DEF TypeOK
  <2>4. /\ \A q \in Payloads : \A k \in 0 .. n : Sum(Sent(q)', k) = Sum(Sent(q), k)
        /\ \A q \in Payloads :
              Sum(Sent(q)', n + 1) = Sum(Sent(q), n) + (IF q = p THEN granted ELSE 0)
    BY <1>2, SumsAfterAllocation
  <2>5. \A q \in Payloads : Sum(Sent(q), n) \in Nat
    <3>1. \A q \in Payloads : \A k \in 0 .. n : Sum(Sent(q), k) \in Nat
      BY SumTypes
    <3> QED
      BY <2>1, <3>1
  <2>6. \A q \in Payloads : Object(q).size \in Nat /\ Object(q)' = Object(q)
    BY <1>0, ObjectTypes DEF Object
  <2>7. Offset(p) = Object(p).size - remaining[p]
    BY DEF Offset
  <2>8. \A q \in Payloads : Sum(Sent(q), n) + remaining[q] = Object(q).size
    BY DEF BytesConserved
  <2> HIDE DEF n, granted
  <2>9. \A q \in Payloads : Sum(Sent(q), Len(allocations))' + remaining'[q] = Object(q)'.size
    <3> SUFFICES ASSUME NEW q \in Payloads
                 PROVE  Sum(Sent(q)', n + 1) + remaining'[q] = Object(q).size
      BY <2>1, <2>6
    <3>1. Sum(Sent(q), n) \in Nat /\ remaining[q] \in Nat
          /\ Sum(Sent(q), n) + remaining[q] = Object(q).size
      BY <2>3, <2>5, <2>8
    <3>2. CASE q = p
      <4>1. Sum(Sent(q)', n + 1) = Sum(Sent(q), n) + granted /\ remaining'[q] = remaining[q] - granted
        BY <2>3, <2>4, <3>2
      <4> QED
        BY <2>2, <3>1, <4>1
    <3>3. CASE q # p
      <4>1. Sum(Sent(q)', n + 1) = Sum(Sent(q), n) + 0 /\ remaining'[q] = remaining[q]
        BY <2>3, <2>4, <3>3
      <4> QED
        BY <3>1, <4>1
    <3> QED
      BY <3>2, <3>3
  <2>10. \A q \in Payloads : \A i \in DOMAIN allocations' :
            allocations'[i].key = q => allocations'[i].offset = Sum(Sent(q)', i - 1)
    <3> SUFFICES ASSUME NEW q \in Payloads, NEW i \in 1 .. n + 1, allocations'[i].key = q
                 PROVE  allocations'[i].offset = Sum(Sent(q)', i - 1)
      BY <2>1
    <3>1. CASE i \in 1 .. n
      <4>1. allocations'[i] = allocations[i] /\ i - 1 \in 0 .. n
        BY <2>1, <3>1
      <4>2. allocations[i].offset = Sum(Sent(q), i - 1)
        BY <2>1, <3>1, <4>1 DEF BytesConserved
      <4> QED
        BY <2>4, <4>1, <4>2
    <3>2. CASE i = n + 1
      <4>1. i - 1 = n /\ q = p /\ allocations'[i].offset = Offset(p) /\ n \in 0 .. n
        BY <2>1, <3>2
      <4>2. Sum(Sent(p)', n) = Sum(Sent(p), n)
        BY <2>4, <4>1
      <4>3. Sum(Sent(p), n) \in Nat /\ remaining[p] \in Nat /\ Object(p).size \in Nat
        BY <2>3, <2>5, <2>6
      <4>4. Offset(p) = Sum(Sent(p), n)
        BY <2>7, <2>8, <4>3
      <4> QED
        BY <4>1, <4>2, <4>4
    <3> QED
      BY <2>1, <3>1, <3>2
  <2>11. \A a \in Records(allocations)' :
            ~IsAtomic(a.key)' => a.offset % Object(a.key)'.chunk = 0
    <3> SUFFICES ASSUME NEW i \in 1 .. n + 1, ~IsAtomic(allocations'[i].key)
                 PROVE  allocations'[i].offset % Object(allocations'[i].key).chunk = 0
      BY <1>0, <2>1 DEF Records, IsAtomic, Object
    <3>1. CASE i \in 1 .. n
      <4>1. allocations'[i] = allocations[i] /\ allocations[i] \in Records(allocations)
        BY <2>1, <3>1 DEF Records
      <4> QED
        BY <4>1 DEF BytesConserved
    <3>2. CASE i = n + 1
      <4>1. allocations'[i].key = p /\ allocations'[i].offset = Offset(p)
        BY <2>1, <3>2
      <4>2. remaining[p] > 0
        BY <2>2, <2>3
      <4> QED
        BY <2>7, <4>1, <4>2 DEF WholeChunks
    <3> QED
      BY <2>1, <3>1, <3>2
  <2>12. WholeChunks'
    <3> SUFFICES ASSUME NEW q \in Payloads, ~IsAtomic(q), remaining'[q] > 0
                 PROVE  (Object(q).size - remaining'[q]) % Object(q).chunk = 0
      BY <1>0 DEF WholeChunks, IsAtomic, Object
    <3>1. CASE q # p
      <4>1. remaining'[q] = remaining[q]
        BY <2>3, <3>1
      <4> QED
        BY <4>1 DEF WholeChunks
    <3>2. CASE q = p
      <4>1. remaining'[p] = remaining[p] - granted /\ remaining[p] \in Nat
        BY <2>3
      <4>2. PICK share \in Nat : granted = share - (share % Object(p).chunk)
        BY <1>2, <3>2, <4>1, GrantWhole DEF granted
      <4>3. Object(p).chunk \in Nat \ {0} /\ Object(p).size \in Nat
        BY <3>2, ObjectTypes DEF IsAtomic
      <4> DEFINE before == Object(p).size - remaining[p]
                 chunk == Object(p).chunk
      <4>4. before \in Nat
        BY <4>1, <4>3 DEF Progress
      <4>5. before % chunk = 0
        BY <2>2, <3>2, <4>1 DEF WholeChunks
      <4>6. Object(p).size - remaining'[p] = before + granted
        BY <2>2, <4>1, <4>3
      <4> HIDE DEF before, chunk
      <4>7. (before + (share - (share % chunk))) % chunk = 0
        BY <4>3, <4>4, <4>5, WholePlusWhole DEF chunk
      <4> QED
        BY <3>2, <4>2, <4>6, <4>7 DEF chunk
    <3> QED
      BY <3>1, <3>2
  <2> QED
    BY <2>9, <2>10, <2>11, <2>12 DEF BytesConserved
<1> QED
  BY <1>1, <1>2, QueueChanges

-----------------------------------------------------------------------------
(***************************************************************************)
(* The course of the run.                                                  *)
(***************************************************************************)

\* What a new session starts with.
LEMMA SessionBegun ==
    ASSUME InputOK, TypeOK, Position, Course, StartSession, ses < Len(sc.sessions)
    PROVE  /\ ses + 1 \in DOMAIN sc.sessions
           /\ ses' = ses + 1 /\ upto' = cursor'
           /\ cursor' = sc.sessions[ses + 1].start /\ cursor' \in Nat /\ cursor <= cursor'
           /\ available' = sc.sessions[ses + 1].cap /\ available' \in Nat
<1>1. /\ DOMAIN sc.sessions = 1 .. Len(sc.sessions) /\ Len(sc.sessions) \in Nat
      /\ SessionsOK(sc.sessions) /\ ses \in Nat /\ cursor \in Nat
  BY ScenarioTypes DEF TypeOK
<1>2. ses + 1 \in DOMAIN sc.sessions
  BY <1>1
<1>3. sc.sessions[ses + 1].start \in Nat /\ sc.sessions[ses + 1].cap \in Nat
  BY <1>1, <1>2 DEF SessionsOK, SessionOK
<1>4. /\ ses' = ses + 1 /\ cursor' = sc.sessions[ses + 1].start
      /\ available' = sc.sessions[ses + 1].cap /\ upto' = cursor'
  BY DEF StartSession
<1>5. CASE ses = 0
  BY <1>2, <1>3, <1>4, <1>5 DEF Course
<1>6. CASE ses # 0
  <2>1. ses \in DOMAIN sc.sessions
    BY <1>1, <1>6
  <2>2. cursor <= sc.sessions[ses].end /\ sc.sessions[ses].end \in Nat
    BY <1>1, <2>1 DEF Position, Session, SessionsOK, SessionOK
  <2>3. sc.sessions[ses].end <= sc.sessions[ses + 1].start
    BY <1>1, <1>2, <2>1 DEF SessionsOK, SessionOK
  <2> QED
    BY <1>1, <1>2, <1>3, <1>4, <2>2, <2>3
<1> QED
  BY <1>5, <1>6

\* An idle jump goes forward inside the session.
LEMMA JumpFacts ==
    ASSUME InputOK, TypeOK, Position, JumpToReady
    PROVE  /\ ses \in DOMAIN sc.sessions
           /\ cursor' \in Nat /\ cursor < cursor' /\ cursor' < Session.end
           /\ upto' = cursor' /\ available' = Grantable /\ pc = "serve" /\ pc' = "advance"
           /\ Grantable \in Nat /\ Grantable <= available
<1>1. ses \in DOMAIN sc.sessions
  BY DEF JumpToReady, Serving, Position
<1>2. /\ Session.end \in Nat /\ cursor \in Nat
      /\ Grantable \in Nat /\ Grantable <= available
  BY <1>1, GrantableBounds DEF TypeOK
<1>3. LaterReady \subseteq cursor + 1 .. Session.end - 1
  BY DEF LaterReady
<1>4. /\ cursor' \in LaterReady /\ upto' = cursor' /\ available' = Grantable
      /\ pc = "serve" /\ pc' = "advance"
  BY DEF JumpToReady, Serving
<1> QED
  BY <1>1, <1>2, <1>3, <1>4

\* The cursor never goes back.
LEMMA CursorAdvances ==
    ASSUME InputOK, TypeOK, Position, Course, [Next]_vars
    PROVE  cursor <= cursor'
<1>1. cursor \in Nat /\ ses \in Nat /\ Len(sc.sessions) \in Nat
  BY ScenarioTypes DEF TypeOK
<1>2. CASE StartSession
  <2>1. CASE ses < Len(sc.sessions)
    BY <1>2, <2>1, SessionBegun
  <2>2. CASE ~(ses < Len(sc.sessions))
    <3>1. cursor' = cursor
      BY <1>2, <2>2 DEF StartSession
    <3> QED
      BY <1>1, <3>1
  <2> QED
    BY <2>1, <2>2
<1>3. CASE JumpToReady
  <2>1. cursor' \in Nat /\ cursor < cursor'
    BY <1>3, JumpFacts
  <2> QED
    BY <1>1, <2>1
<1>4. ASSUME NEW p \in Payloads, OpenAllocation(p) PROVE cursor <= cursor'
  <2>1. /\ cursor' = GrantEnd(Session, cursor, Grant(p)) /\ Session.end \in Nat
        /\ GrantEnd(Session, cursor, Grant(p)) \in cursor .. Session.end
    BY <1>4, AllocationFacts, AllocationEffect
  <2> QED
    BY <1>1, <2>1
<1>5. CASE UNCHANGED cursor
  BY <1>1, <1>5
<1>6. \/ StartSession \/ JumpToReady \/ UNCHANGED cursor
      \/ \E p \in Payloads : OpenAllocation(p)
  BY DEF Next, Step, Finished, vars, control, EndAdvance, BeginRelease, EndRelease, EndInstant,
         BeginInstant, EndSession, Close, IngestDelivery, Release, Generate
<1> QED
  BY <1>2, <1>3, <1>4, <1>5, <1>6

\* A completion instant is behind the cursor.
LEMMA CompletionStep ==
    ASSUME InputOK, TypeOK, Position, Course, [Next]_vars
    PROVE  \A p \in Payloads : completion'[p] # None => completion'[p] <= cursor'
<1>1. cursor \in Nat /\ completion \in [Payloads -> OptionalTime]
  BY DEF TypeOK
<1>2. \A p \in Payloads : completion[p] # None => completion[p] \in Nat /\ completion[p] <= cursor
  BY <1>1 DEF Course, OptionalTime
<1>3. CASE UNCHANGED completion /\ cursor' \in Nat
  <2>1. cursor <= cursor'
    BY CursorAdvances
  <2> QED
    BY <1>1, <1>2, <1>3, <2>1
<1>4. ASSUME NEW p \in Payloads, OpenAllocation(p)
      PROVE  \A q \in Payloads : completion'[q] # None => completion'[q] <= cursor'
  <2> DEFINE end == GrantEnd(Session, cursor, Grant(p))
             done == IF remaining[p] - Grant(p) = 0 THEN end ELSE completion[p]
  <2>1. cursor' = end /\ completion' = [completion EXCEPT ![p] = done]
    BY <1>4, AllocationEffect
  <2>2. end \in cursor .. Session.end /\ Session.end \in Nat
    BY <1>4, AllocationFacts
  <2>3. done = end \/ done = completion[p]
    OBVIOUS
  <2> HIDE DEF done, end
  <2>4. cursor <= end /\ end \in Nat
    BY <1>1, <2>2
  <2> SUFFICES ASSUME NEW q \in Payloads, completion'[q] # None PROVE completion'[q] <= end
    BY <2>1
  <2>5. completion'[q] = end \/ completion'[q] = completion[q]
    BY <1>1, <2>1, <2>3
  <2>6. CASE completion'[q] = completion[q]
    BY <1>1, <1>2, <2>4, <2>6
  <2> QED
    BY <2>4, <2>5, <2>6
<1>5. cursor' \in Nat
  <2>1. CASE StartSession
    <3>1. CASE ses < Len(sc.sessions)
      BY <2>1, <3>1, SessionBegun
    <3>2. CASE ~(ses < Len(sc.sessions))
      BY <1>1, <2>1, <3>2 DEF StartSession
    <3> QED
      BY <3>1, <3>2
  <2>2. CASE JumpToReady
    BY <2>2, JumpFacts
  <2>3. ASSUME NEW p \in Payloads, OpenAllocation(p) PROVE cursor' \in Nat
    <3>1. /\ cursor' = GrantEnd(Session, cursor, Grant(p)) /\ Session.end \in Nat
          /\ GrantEnd(Session, cursor, Grant(p)) \in cursor .. Session.end
      BY <2>3, AllocationFacts, AllocationEffect
    <3> QED
      BY <1>1, <3>1
  <2>4. \/ StartSession \/ JumpToReady \/ UNCHANGED cursor
        \/ \E p \in Payloads : OpenAllocation(p)
    BY DEF Next, Step, Finished, vars, control, EndAdvance, BeginRelease, EndRelease, EndInstant,
           BeginInstant, EndSession, Close, IngestDelivery, Release, Generate
  <2> QED
    BY <1>1, <2>1, <2>2, <2>3, <2>4
<1> QED
  BY <1>3, <1>4, <1>5, QueueChanges

\* The course is kept by each step.
LEMMA CourseStep ==
    ASSUME InputOK, TypeOK, Position, Course, [Next]_vars
    PROVE  Course'
<1>0. /\ sc' = sc /\ ses \in Nat /\ cursor \in Nat
      /\ DOMAIN sc.sessions = 1 .. Len(sc.sessions) /\ Len(sc.sessions) \in Nat
  BY ScenarioFixed, ScenarioTypes DEF TypeOK
<1>1. \A p \in Payloads : completion'[p] # None => completion'[p] <= cursor'
  BY CompletionStep
<1> DEFINE Rest == /\ ses' <= Len(sc.sessions) + 1
                   /\ ses' = 0 => pc' = "next" /\ cursor' = 0
                   /\ pc' = "next" => ses' <= Len(sc.sessions)
                   /\ pc' \in {"close", "done"} => ses' = Len(sc.sessions) + 1
                   /\ (pc' # "next" /\ ses' \in DOMAIN sc.sessions) => upto' = cursor'
                   /\ pc' \notin {"release", "reclaim"} => due' = {}
                   /\ pc' = "ingest" => \A p \in ungenerated' : instant' <= Object(p).ready
                   /\ pc' = "serve" => \A p \in ungenerated' : cursor' < Object(p).ready
<1> SUFFICES Rest
  BY <1>0, <1>1 DEF Course, Object
<1>2. CASE StartSession
  <2>1. ses' = ses + 1 /\ pc = "next" /\ pc' = "advance" /\ due' = due
    BY <1>2 DEF StartSession
  <2>2. ses' \in DOMAIN sc.sessions => upto' = cursor'
    BY <1>0, <1>2, <2>1, SessionBegun
  <2> QED
    BY <1>0, <2>1, <2>2 DEF Course
<1>3. CASE EndAdvance
  <2>1. /\ pc = "advance" /\ UNCHANGED <<ses, cursor, upto, due, ungenerated>>
        /\ pc' = IF ses \in DOMAIN sc.sessions THEN "serve" ELSE "close"
        /\ \A t \in PendingInstants : t > upto
    BY <1>3 DEF EndAdvance, pending
  <2>2. pc' = "serve" => \A p \in ungenerated : Object(p).ready > upto
    BY <2>1 DEF PendingInstants
  <2>3. pc' = "serve" => \A p \in ungenerated : cursor < Object(p).ready
    BY <1>0, <2>1, <2>2, ObjectTypes DEF Course, TypeOK
  <2>4. ses # 0 /\ ses <= Len(sc.sessions) + 1 /\ due = {}
    BY <2>1 DEF Course
  <2>5. pc' = "close" => ses = Len(sc.sessions) + 1
    BY <1>0, <2>1, <2>4
  <2> QED
    BY <1>0, <2>1, <2>3, <2>4, <2>5 DEF Course
<1>4. CASE BeginInstant
  <2>1. /\ pc = "advance" /\ pc' = "ingest" /\ UNCHANGED <<ses, cursor, upto, due, ungenerated>>
        /\ \A u \in PendingInstants : instant' <= u
    BY <1>4, Zenon DEF BeginInstant, pending
  <2>2. \A p \in ungenerated : instant' <= Object(p).ready
    BY <2>1 DEF PendingInstants
  <2> QED
    BY <1>0, <2>1, <2>2 DEF Course
<1>5. CASE BeginRelease \/ EndRelease \/ EndInstant
  <2> QED
    BY <1>0, <1>5 DEF Course, BeginRelease, EndRelease, EndInstant, pending, Position
<1>6. CASE JumpToReady
  <2>1. /\ ses \in DOMAIN sc.sessions /\ upto' = cursor' /\ pc = "serve" /\ pc' = "advance"
        /\ UNCHANGED <<ses, due>>
    BY <1>6, JumpFacts DEF JumpToReady
  <2> QED
    BY <1>0, <2>1 DEF Course
<1>7. CASE EndSession \/ Close
  <2> QED
    BY <1>0, <1>7 DEF Course, EndSession, Close, Position, pending
<1>8. ASSUME NEW p \in Payloads, IngestDelivery(p) \/ Release(p) \/ Generate(p)
      PROVE  Rest
  <2>1. /\ UNCHANGED <<pc, ses, cursor, upto, instant>> /\ ungenerated' \subseteq ungenerated
        /\ due' = due \/ (pc \in {"release", "reclaim"})
    BY <1>8 DEF IngestDelivery, Release, Generate, control, pending
  <2> QED
    BY <1>0, <2>1 DEF Course
<1>9. ASSUME NEW p \in Payloads, OpenAllocation(p) PROVE Rest
  <2>1. /\ pc = "serve" /\ pc' = "reclaim" /\ upto' = cursor' /\ UNCHANGED ses
        /\ ses \in DOMAIN sc.sessions
    BY <1>9, AllocationEffect, AllocationFacts DEF OpenAllocation, Serving
  <2> QED
    BY <1>0, <2>1 DEF Course
<1>10. CASE Finished \/ UNCHANGED vars
  <2>1. UNCHANGED <<pc, ses, cursor, upto, instant, due, ungenerated>>
    BY <1>10 DEF Finished, vars, control, pending
  <2> QED
    BY <1>0, <2>1 DEF Course
<1> QED
  BY <1>2, <1>3, <1>4, <1>5, <1>6, <1>7, <1>8, <1>9, <1>10 DEF Next, Step

-----------------------------------------------------------------------------
(***************************************************************************)
(* Capacity.                                                               *)
(***************************************************************************)

\* What is granted and what may still be stays within the sessions' capacity.
LEMMA CapacityStep ==
    ASSUME InputOK, TypeOK, Position, Course, CapacityBooks, [Next]_vars
    PROVE  CapacityBooks'
<1> DEFINE n == Len(allocations)
           last == Len(sc.sessions)
           In(i) == Sum(GrantedIn(i), n)
           All == Sum(Granted, n)
           Cap(k) == Sum(Capacities, k)
<1>0. /\ sc' = sc /\ Capacities' = Capacities /\ ses \in Nat
      /\ DOMAIN sc.sessions = 1 .. last /\ last \in Nat /\ available \in Nat /\ stranded \in Nat
  BY ScenarioFixed, ScenarioTypes DEF TypeOK, Capacities
<1>1. \A i \in 1 .. last : sc.sessions[i].cap \in Nat
  BY <1>0, ScenarioTypes DEF SessionsOK, SessionOK
<1>2. (\A i \in 1 .. last : In(i) \in Nat) /\ All \in Nat
  BY SumTypes
<1>3. /\ \A k \in 0 .. last : Cap(k) \in Nat
      /\ \A k \in 1 .. last : Cap(k) = Cap(k - 1) + sc.sessions[k].cap
  <2>1. \A k \in 1 .. last : Capacities[k] = sc.sessions[k].cap /\ Capacities[k] \in Nat
    BY <1>0, <1>1 DEF Capacities
  <2>2. ASSUME NEW k \in 0 .. last PROVE Cap(k) \in Nat
    <3>1. k \in Nat /\ \A i \in 1 .. k : Capacities[i] \in Nat
      BY <1>0, <2>1
    <3> QED
      BY <3>1, SumNat
  <2>3. ASSUME NEW k \in 1 .. last PROVE Cap(k) = Cap(k - 1) + sc.sessions[k].cap
    <3>1. k - 1 \in Nat /\ (k - 1) + 1 = k
      BY <1>0
    <3>2. Cap((k - 1) + 1) = Cap(k - 1) + Capacities[(k - 1) + 1]
      BY <3>1, SumNext
    <3> QED
      BY <2>1, <3>1, <3>2
  <2> QED
    BY <2>2, <2>3
<1>4. /\ \A i \in 1 .. last : In(i) + (IF i = ses THEN StillOpen ELSE 0) <= sc.sessions[i].cap
      /\ \A i \in 1 .. last : i > ses => In(i) = 0
      /\ All + stranded + StillOpen <= Cap(Lower(ses, last))
      /\ StillOpen \in Nat
  BY <1>0 DEF CapacityBooks, StillOpen
<1> HIDE DEF n, last, In, All, Cap
<1>5. ASSUME UNCHANGED allocations,
             \A i \in 1 .. last :
                 In(i) + (IF i = ses' THEN StillOpen' ELSE 0) <= sc.sessions[i].cap,
             ses <= ses',
             All + stranded' + StillOpen' <= Cap(Lower(ses', last)), ses' \in Nat
      PROVE  CapacityBooks'
  <2>1. /\ \A i \in 1 .. last : Sum(GrantedIn(i), Len(allocations))' = In(i)
        /\ Sum(Granted, Len(allocations))' = All
        /\ Sum(Capacities, Lower(ses, Len(sc.sessions)))' = Cap(Lower(ses', last))
    BY <1>0, <1>5 DEF GrantedIn, Granted, In, All, n, Cap, last
  <2>2. \A i \in 1 .. last : i > ses' => In(i) = 0
    BY <1>0, <1>4, <1>5
  <2> QED
    BY <1>0, <1>5, <2>1, <2>2 DEF CapacityBooks, last
<1>6. CASE StartSession
  <2>1. pc = "next" /\ pc' = "advance" /\ UNCHANGED <<allocations, stranded>> /\ ses' = ses + 1
    BY <1>6 DEF StartSession, queue
  <2>2. StillOpen = 0 /\ ses <= last
    BY <2>1 DEF StillOpen, Course, last
  <2>3. CASE ses < last
    <3>1. StillOpen' = sc.sessions[ses + 1].cap /\ ses + 1 \in 1 .. last
      BY <1>0, <1>6, <2>1, <2>3, SessionBegun DEF StillOpen, last
    <3>2. \A i \in 1 .. last :
              In(i) + (IF i = ses + 1 THEN StillOpen' ELSE 0) <= sc.sessions[i].cap
      <4> SUFFICES ASSUME NEW i \in 1 .. last
                   PROVE  In(i) + (IF i = ses + 1 THEN StillOpen' ELSE 0) <= sc.sessions[i].cap
        OBVIOUS
      <4>1. CASE i = ses + 1
        <5>1. In(i) = 0 /\ sc.sessions[i].cap \in Nat
          BY <1>0, <1>1, <1>4, <4>1
        <5> QED
          BY <3>1, <4>1, <5>1
      <4>2. CASE i # ses + 1
        <5>1. In(i) <= sc.sessions[i].cap
          BY <1>1, <1>2, <1>4, <2>2
        <5> QED
          BY <1>2, <4>2, <5>1
      <4> QED
        BY <4>1, <4>2
    <3>3. All + stranded + sc.sessions[ses + 1].cap <= Cap(ses + 1)
      <4>1. Lower(ses, last) = ses /\ ses \in 0 .. last
        BY <1>0, <2>3 DEF Lower
      <4>2. All + stranded <= Cap(ses)
        BY <1>0, <1>2, <1>3, <1>4, <2>2, <4>1
      <4>3. Cap(ses + 1) = Cap(ses) + sc.sessions[ses + 1].cap
        <5>1. Cap(ses + 1) = Cap((ses + 1) - 1) + sc.sessions[ses + 1].cap
          BY <1>3, <3>1
        <5>2. (ses + 1) - 1 = ses
          BY <1>0
        <5> QED
          BY <5>1, <5>2
      <4>4. /\ All \in Nat /\ stranded \in Nat /\ Cap(ses) \in Nat
            /\ sc.sessions[ses + 1].cap \in Nat
        BY <1>0, <1>1, <1>2, <1>3, <3>1, <4>1
      <4> QED
        BY <4>2, <4>3, <4>4
    <3>4. Lower(ses + 1, last) = ses + 1
      <4>1. ses \in Nat /\ last \in Nat
        BY <1>0
      <4>2. ses + 1 <= last
        BY <2>3, <4>1
      <4> QED
        BY <4>2 DEF Lower
    <3> QED
      BY <1>0, <1>5, <2>1, <3>1, <3>2, <3>3, <3>4
  <2>4. CASE ~(ses < last)
    <3>1. ses = last
      BY <1>0, <2>2, <2>4
    <3>2. StillOpen' = 0
      BY <1>0, <2>1, <3>1 DEF StillOpen
    <3>3. Lower(ses + 1, last) = last /\ Lower(ses, last) = last
      BY <1>0, <3>1 DEF Lower
    <3>4. \A i \in 1 .. last :
              In(i) + (IF i = ses + 1 THEN StillOpen' ELSE 0) <= sc.sessions[i].cap
      BY <1>0, <1>1, <1>2, <1>4, <2>2, <3>1, <3>2
    <3> QED
      BY <1>0, <1>4, <1>5, <2>1, <2>2, <3>2, <3>3, <3>4
  <2> QED
    BY <2>3, <2>4
<1>7. ASSUME UNCHANGED <<allocations, ses>>,
             StillOpen' \in Nat, stranded' \in Nat,
             stranded' + StillOpen' <= stranded + StillOpen, StillOpen' <= StillOpen
      PROVE  CapacityBooks'
  <2>1. \A i \in 1 .. last :
            In(i) + (IF i = ses THEN StillOpen' ELSE 0) <= sc.sessions[i].cap
    BY <1>1, <1>2, <1>4, <1>7
  <2>2. Lower(ses, last) \in 0 .. last
    BY <1>0 DEF Lower
  <2>3. All + stranded' + StillOpen' <= Cap(Lower(ses, last))
    BY <1>0, <1>2, <1>3, <1>4, <1>7, <2>2
  <2> QED
    BY <1>0, <1>5, <1>7, <2>1, <2>3
<1>8. CASE JumpToReady
  <2>1. /\ StillOpen = available /\ StillOpen' = Grantable
        /\ Grantable \in Nat /\ Grantable <= available
        /\ UNCHANGED <<allocations, ses, stranded>>
    BY <1>0, <1>8, JumpFacts DEF StillOpen, JumpToReady, queue
  <2> QED
    BY <1>0, <1>7, <2>1
<1>9. CASE EndSession
  <2>1. /\ pc = "serve" /\ pc' = "next" /\ UNCHANGED <<allocations, ses>>
        /\ stranded' = stranded + (IF cursor < Session.end THEN Grantable ELSE available)
    BY <1>9 DEF EndSession
  <2>2. ses \in DOMAIN sc.sessions
    BY <2>1 DEF Position
  <2>3. Grantable \in Nat /\ Grantable <= available
    BY <2>2, GrantableBounds
  <2>4. StillOpen = available /\ StillOpen' = 0
    BY <2>1, <2>2 DEF StillOpen
  <2> QED
    BY <1>0, <1>7, <2>1, <2>3, <2>4
<1>10. CASE /\ UNCHANGED <<allocations, ses, available, stranded>>
            /\ pc = "next" <=> pc' = "next"
  <2>1. StillOpen' = StillOpen
    BY <1>0, <1>10 DEF StillOpen
  <2> QED
    BY <1>0, <1>4, <1>7, <1>10, <2>1
<1>11. ASSUME NEW p \in Payloads, OpenAllocation(p) PROVE CapacityBooks'
  <2> DEFINE granted == Grant(p)
  <2>1. /\ ses \in DOMAIN sc.sessions /\ pc = "serve" /\ pc' = "reclaim"
        /\ UNCHANGED <<ses, stranded>> /\ available' = Grantable - granted
        /\ granted \in Nat /\ granted <= Grantable /\ Grantable \in Nat
    BY <1>11, AllocationFacts, AllocationEffect DEF OpenAllocation, Serving
  <2>2. Grantable <= available
    BY <2>1, GrantableBounds
  <2>3. StillOpen = available /\ StillOpen' = Grantable - granted
    BY <1>0, <2>1 DEF StillOpen
  <2>4. /\ Len(allocations') = n + 1
        /\ \A i \in 1 .. last :
              Sum(GrantedIn(i)', n + 1) = In(i) + (IF i = ses THEN granted ELSE 0)
        /\ Sum(Granted', n + 1) = All + granted
    BY <1>11, AllocationAppended, SumsAfterAllocation DEF n, In, All
  <2> HIDE DEF granted
  <2>5. \A i \in 1 .. last :
            /\ Sum(GrantedIn(i), Len(allocations))' + (IF i = ses THEN StillOpen' ELSE 0)
                  <= sc.sessions[i].cap
            /\ i > ses => Sum(GrantedIn(i), Len(allocations))' = 0
    <3> SUFFICES ASSUME NEW i \in 1 .. last
                 PROVE  /\ Sum(GrantedIn(i)', n + 1) + (IF i = ses THEN StillOpen' ELSE 0)
                              <= sc.sessions[i].cap
                        /\ i > ses => Sum(GrantedIn(i)', n + 1) = 0
      BY <2>4
    <3>1. CASE i = ses
      <4>1. In(i) \in Nat /\ available \in Nat /\ sc.sessions[i].cap \in Nat
        BY <1>0, <1>1, <1>2
      <4>2. In(i) + available <= sc.sessions[i].cap
        BY <1>4, <2>3, <3>1
      <4>3. Sum(GrantedIn(i)', n + 1) = In(i) + granted /\ ~(i > ses)
        BY <1>0, <2>4, <3>1
      <4>4. granted \in Nat /\ Grantable \in Nat
        BY <2>1
      <4>5. (In(i) + granted) + (Grantable - granted) <= sc.sessions[i].cap
        BY <2>2, <4>1, <4>2, <4>4
      <4> QED
        BY <2>3, <3>1, <4>3, <4>5
    <3>2. CASE i # ses
      BY <1>0, <1>1, <1>2, <1>4, <2>4, <3>2
    <3> QED
      BY <3>1, <3>2
  <2>6. Sum(Granted, Len(allocations))' + stranded' + StillOpen' <= Cap(Lower(ses, last))
    <3>1. Lower(ses, last) \in 0 .. last
      BY <1>0 DEF Lower
    <3>2. /\ All \in Nat /\ stranded \in Nat /\ available \in Nat
          /\ Cap(Lower(ses, last)) \in Nat
      BY <1>0, <1>2, <1>3, <3>1
    <3>3. All + stranded + available <= Cap(Lower(ses, last))
      BY <1>4, <2>3
    <3>4. Sum(Granted, Len(allocations))' = All + granted
      BY <2>4
    <3> QED
      BY <2>1, <2>2, <2>3, <3>2, <3>3, <3>4
  <2> QED
    BY <1>0, <2>1, <2>5, <2>6 DEF CapacityBooks, Cap, last
<1>12. \/ StartSession \/ JumpToReady \/ EndSession
       \/ /\ UNCHANGED <<allocations, ses, available, stranded>>
          /\ pc = "next" <=> pc' = "next"
       \/ \E p \in Payloads : OpenAllocation(p)
  BY DEF Next, Step, Finished, vars, control, queue, EndAdvance, BeginRelease, EndRelease,
         EndInstant, BeginInstant, Close, IngestDelivery, Release, Generate
<1> QED
  BY <1>6, <1>8, <1>9, <1>10, <1>11, <1>12

-----------------------------------------------------------------------------
(***************************************************************************)
(* The event log.                                                          *)
(***************************************************************************)

\* A log that keeps what another says, with n more events.
Extends(old, new, n) ==
    /\ Len(old) \in Nat /\ DOMAIN old = 1 .. Len(old)
    /\ Len(new) = Len(old) + n /\ DOMAIN new = 1 .. Len(old) + n
    /\ \A i \in 1 .. Len(old) : new[i] = old[i]

\* One event more.
LEMMA AppendExtends ==
    ASSUME NEW S, NEW s \in Seq(S), NEW r \in S
    PROVE  /\ Append(s, r) \in Seq(S) /\ Extends(s, Append(s, r), 1)
           /\ Append(s, r)[Len(s) + 1] = r
BY DEF Extends

\* Two events more, one after the other.
LEMMA AppendTwiceExtends ==
    ASSUME NEW S, NEW s \in Seq(S), NEW r \in S, NEW u \in S
    PROVE  /\ Append(Append(s, r), u) \in Seq(S) /\ Extends(s, Append(Append(s, r), u), 2)
           /\ Append(Append(s, r), u)[Len(s) + 1] = r
           /\ Append(Append(s, r), u)[Len(s) + 2] = u
<1> DEFINE m == Append(s, r)
           t == Append(m, u)
<1>1. m \in Seq(S) /\ Extends(s, m, 1) /\ m[Len(s) + 1] = r
  BY AppendExtends
<1> HIDE DEF m
<1>2. t \in Seq(S) /\ Extends(m, t, 1) /\ t[Len(m) + 1] = u
  BY <1>1, AppendExtends
<1> HIDE DEF t
<1>3. Len(s) \in Nat /\ Len(m) = Len(s) + 1 /\ DOMAIN t = 1 .. Len(s) + 2 /\ Len(t) = Len(s) + 2
  BY <1>1, <1>2 DEF Extends
<1>4. \A i \in 1 .. Len(s) : t[i] = s[i]
  BY <1>1, <1>2, <1>3 DEF Extends
<1>5. t[Len(s) + 1] = r /\ t[Len(s) + 2] = u
  BY <1>1, <1>2, <1>3 DEF Extends
<1>6. Extends(s, t, 2)
  BY <1>1, <1>3, <1>4 DEF Extends
<1> QED
  BY <1>2, <1>5, <1>6 DEF t, m

\* Three events more at once.
LEMMA ThreeMoreExtend ==
    ASSUME NEW S, NEW s \in Seq(S), NEW a \in S, NEW b \in S, NEW c \in S
    PROVE  LET t == s \o <<a, b, c>>
           IN  /\ t \in Seq(S) /\ Extends(s, t, 3)
               /\ t[Len(s) + 1] = a /\ t[Len(s) + 2] = b /\ t[Len(s) + 3] = c
<1> DEFINE more == <<a, b, c>>
           t == s \o more
<1>1. more \in Seq(S) /\ Len(more) = 3 /\ more[1] = a /\ more[2] = b /\ more[3] = c
  OBVIOUS
<1> HIDE DEF more
<1>2. /\ Len(s) \in Nat /\ DOMAIN s = 1 .. Len(s)
      /\ t \in Seq(S) /\ Len(t) = Len(s) + 3 /\ DOMAIN t = 1 .. Len(s) + 3
      /\ \A i \in 1 .. Len(s) : t[i] = s[i]
      /\ \A i \in 1 .. 3 : t[Len(s) + i] = more[i]
  <2>1. /\ Len(s) \in Nat /\ DOMAIN s = 1 .. Len(s)
        /\ t \in Seq(S) /\ Len(t) = Len(s) + 3
        /\ \A i \in 1 .. Len(s) + 3 : t[i] = IF i <= Len(s) THEN s[i] ELSE more[i - Len(s)]
    <3>1. /\ t \in Seq(S) /\ Len(t) = Len(s) + Len(more)
          /\ \A i \in 1 .. Len(s) + Len(more) :
                t[i] = IF i <= Len(s) THEN s[i] ELSE more[i - Len(s)]
      BY <1>1, ConcatProperties, Zenon
    <3> HIDE DEF t
    <3>2. Len(s) \in Nat /\ DOMAIN s = 1 .. Len(s)
      OBVIOUS
    <3> QED
      BY <1>1, <3>1, <3>2
  <2> HIDE DEF t
  <2>2. DOMAIN t = 1 .. Len(s) + 3
    BY <2>1
  <2>3. \A i \in 1 .. Len(s) : t[i] = s[i]
    BY <2>1
  <2>4. \A i \in 1 .. 3 : t[Len(s) + i] = more[i]
    <3> TAKE i \in 1 .. 3
    <3>1. Len(s) + i \in 1 .. Len(s) + 3 /\ ~(Len(s) + i <= Len(s)) /\ (Len(s) + i) - Len(s) = i
      BY <2>1
    <3> QED
      BY <2>1, <3>1
  <2> QED
    BY <2>1, <2>2, <2>3, <2>4
<1> HIDE DEF t
<1>3. Extends(s, t, 3)
  BY <1>2 DEF Extends
<1>4. t[Len(s) + 1] = a /\ t[Len(s) + 2] = b /\ t[Len(s) + 3] = c
  BY <1>1, <1>2
<1> QED
  BY <1>2, <1>3, <1>4 DEF t, more

\* The records of a longer log.
LEMMA RecordsExtended ==
    ASSUME NEW s, NEW t
    PROVE  /\ Extends(s, t, 1) => Records(t) = Records(s) \cup {t[Len(s) + 1]}
           /\ Extends(s, t, 2) => Records(t) = Records(s) \cup {t[Len(s) + 1], t[Len(s) + 2]}
           /\ Extends(s, t, 3) =>
                 Records(t) = Records(s) \cup {t[Len(s) + 1], t[Len(s) + 2], t[Len(s) + 3]}
<1>1. ASSUME Extends(s, t, 1) PROVE Records(t) = Records(s) \cup {t[Len(s) + 1]}
  BY <1>1 DEF Extends, Records
<1>2. ASSUME Extends(s, t, 2) PROVE Records(t) = Records(s) \cup {t[Len(s) + 1], t[Len(s) + 2]}
  BY <1>2 DEF Extends, Records
<1>3. ASSUME Extends(s, t, 3)
      PROVE  Records(t) = Records(s) \cup {t[Len(s) + 1], t[Len(s) + 2], t[Len(s) + 3]}
  BY <1>3 DEF Extends, Records
<1> QED
  BY <1>1, <1>2, <1>3

\* An event has the fields it is made of.
LEMMA EventTyped ==
    ASSUME NEW t \in Nat, NEW k \in EventKinds, NEW q \in Payloads, NEW b \in Int
    PROVE  /\ Event(t, k, q, b) \in EventRecords
           /\ Event(t, k, q, b).at = t /\ Event(t, k, q, b).kind = k
           /\ Event(t, k, q, b).key = q /\ Event(t, k, q, b).bytes = b
BY DEF Event, EventRecords

\* The kinds of the events the actions write.
LEMMA KindsOfEvents ==
    /\ "TEST_DELIVERY_INGESTED" \in EventKinds /\ "OBJECT_GENERATED" \in EventKinds
    /\ "OBJECT_ADMITTED" \in EventKinds /\ "OBJECT_REJECTED" \in EventKinds
    /\ "OBJECT_RELEASED" \in EventKinds /\ "RELEASE_HELD" \in EventKinds
    /\ "ALLOCATION_OPEN" \in EventKinds /\ "ALLOCATION_CLOSE" \in EventKinds
    /\ "MODELED_TX_PROGRESS_AT_TX_END" \in EventKinds
BY DEF EventKinds, StorageKinds

\* What each action writes in the log: a delivery, that it came.
LEMMA DeliveryLogged ==
    ASSUME TypeOK, log \in Seq(EventRecords), NEW p \in Payloads, IngestDelivery(p)
    PROVE  /\ log' \in Seq(EventRecords) /\ Extends(log, log', 1)
           /\ log'[Len(log) + 1].kind = "TEST_DELIVERY_INGESTED"
           /\ log'[Len(log) + 1].key = p
<1> DEFINE e == Event(instant, "TEST_DELIVERY_INGESTED", p, remaining[p])
<1>1. e \in EventRecords /\ e.kind = "TEST_DELIVERY_INGESTED" /\ e.key = p
  <2>1. instant \in Nat /\ remaining[p] \in Int
    BY DEF TypeOK
  <2>2. "TEST_DELIVERY_INGESTED" \in EventKinds
    BY KindsOfEvents
  <2> QED
    BY <2>1, <2>2, EventTyped
<1>2. log' = Append(log, e)
  BY DEF IngestDelivery
<1> HIDE DEF e
<1> QED
  BY <1>1, <1>2, AppendExtends

\* A release tells that it gave the object back, or that it held it.
LEMMA ReleaseLogged ==
    ASSUME InputOK, TypeOK, log \in Seq(EventRecords), NEW p \in Payloads, Release(p)
    PROVE  /\ log' \in Seq(EventRecords) /\ Extends(log, log', 1)
           /\ log'[Len(log) + 1].key = p /\ log'[Len(log) + 1].bytes = occupancy'
           /\ \/ /\ log'[Len(log) + 1].kind = "OBJECT_RELEASED"
                 /\ remaining[p] = 0 /\ released' = released \cup {p}
                 /\ occupancy' = occupancy - Object(p).store
                 /\ tally' = Totals(tally.peak, tally.breach, tally.freed + Object(p).store,
                                    tally.refused)
              \/ /\ log'[Len(log) + 1].kind = "RELEASE_HELD"
                 /\ remaining[p] # 0 /\ UNCHANGED <<released, occupancy, tally>>
                 /\ "RELEASE_HELD_INCOMPLETE_OBJECT" \in notes'[p]
           /\ \A q \in Payloads : notes[q] \subseteq notes'[q]
           /\ p \in due /\ due' = due \ {p}
           /\ pc \in {"release", "reclaim"}
           /\ UNCHANGED <<sc, pc, cursor, instant, ungenerated, admitted, acknowledged>>
<1>1. instant \in Nat /\ occupancy \in Int /\ Object(p).store \in Nat
  BY ObjectTypes DEF TypeOK
<1>2. /\ p \in due /\ due' = due \ {p} /\ pc \in {"release", "reclaim"}
      /\ UNCHANGED <<sc, pc, cursor, instant, ungenerated, admitted, acknowledged>>
  BY DEF Release, control, pending
<1>3. CASE remaining[p] = 0
  <2> DEFINE e == Event(instant, "OBJECT_RELEASED", p, occupancy')
  <2>1. /\ released' = released \cup {p} /\ occupancy' = occupancy - Object(p).store
        /\ tally' = Totals(tally.peak, tally.breach, tally.freed + Object(p).store, tally.refused)
        /\ log' = Append(log, e) /\ notes' = notes
    BY <1>3 DEF Release, CanReclaim
  <2>2. e \in EventRecords /\ e.kind = "OBJECT_RELEASED" /\ e.key = p /\ e.bytes = occupancy'
    <3>1. instant \in Nat /\ occupancy' \in Int
      BY <1>1, <2>1
    <3>2. "OBJECT_RELEASED" \in EventKinds
      BY KindsOfEvents
    <3> QED
      BY <3>1, <3>2, EventTyped
  <2> HIDE DEF e
  <2> QED
    BY <1>2, <1>3, <2>1, <2>2, AppendExtends
<1>4. CASE remaining[p] # 0
  <2> DEFINE e == Event(instant, "RELEASE_HELD", p, occupancy)
  <2>1. /\ UNCHANGED <<released, occupancy, tally>> /\ log' = Append(log, e)
        /\ notes' = Noted({p}, LAMBDA q : "RELEASE_HELD_INCOMPLETE_OBJECT")
    BY <1>4 DEF Release, CanReclaim
  <2>2. e \in EventRecords /\ e.kind = "RELEASE_HELD" /\ e.key = p /\ e.bytes = occupancy
    <3>1. instant \in Nat /\ occupancy \in Int /\ "RELEASE_HELD" \in EventKinds
      BY <1>1, KindsOfEvents
    <3> QED
      BY <3>1, EventTyped
  <2>3. /\ "RELEASE_HELD_INCOMPLETE_OBJECT" \in notes'[p]
        /\ \A q \in Payloads : notes[q] \subseteq notes'[q]
    BY <2>1 DEF Noted
  <2> HIDE DEF e
  <2> QED
    BY <1>2, <1>4, <2>1, <2>2, <2>3, AppendExtends
<1> QED
  BY <1>3, <1>4

\* A generation tells that the object exists, then what the recorder made of it.
LEMMA GenerateLogged ==
    ASSUME InputOK, TypeOK, log \in Seq(EventRecords), NEW p \in Payloads, Generate(p)
    PROVE  /\ log' \in Seq(EventRecords)
           /\ log'[Len(log) + 1].kind = "OBJECT_GENERATED" /\ log'[Len(log) + 1].key = p
           /\ log'[Len(log) + 1].at = instant /\ instant = Object(p).ready
           /\ \/ /\ ~Store.enabled /\ Extends(log, log', 1)
                 /\ admitted' = admitted \cup {p} /\ UNCHANGED <<occupancy, tally>>
              \/ /\ Store.enabled /\ Extends(log, log', 2)
                 /\ log'[Len(log) + 2].key = p /\ log'[Len(log) + 2].at = instant
                 /\ log'[Len(log) + 2].bytes = occupancy'
                 /\ log'[Len(log) + 2].kind = "OBJECT_ADMITTED"
                 /\ admitted' = admitted \cup {p} /\ occupancy' = occupancy + Object(p).store
                 /\ tally' = Totals(Higher(tally.peak, occupancy'),
                                    Higher(tally.breach, Breach(occupancy')),
                                    tally.freed, tally.refused)
              \/ /\ Store.enabled /\ Extends(log, log', 2)
                 /\ log'[Len(log) + 2].key = p /\ log'[Len(log) + 2].at = instant
                 /\ log'[Len(log) + 2].bytes = occupancy'
                 /\ log'[Len(log) + 2].kind = "OBJECT_REJECTED"
                 /\ UNCHANGED <<admitted, occupancy>>
                 /\ tally' = Totals(tally.peak, tally.breach, tally.freed,
                                    tally.refused + Object(p).store)
           /\ \A q \in Payloads : notes[q] \subseteq notes'[q]
           /\ p \in ungenerated /\ ungenerated' = ungenerated \ {p} /\ pc = "admit"
           /\ UNCHANGED <<sc, pc, cursor, instant, due, released, acknowledged>>
<1> DEFINE g == Event(instant, "OBJECT_GENERATED", p, remaining[p])
           logged == Append(log, g)
           projected == occupancy + Object(p).store
<1>1. /\ instant \in Nat /\ occupancy \in Int /\ Object(p).store \in Nat /\ remaining[p] \in Int
  BY ObjectTypes DEF TypeOK
<1>2. /\ g \in EventRecords /\ g.kind = "OBJECT_GENERATED" /\ g.key = p /\ g.at = instant
  <2>1. "OBJECT_GENERATED" \in EventKinds
    BY KindsOfEvents
  <2> HIDE DEF projected
  <2> QED
    BY <1>1, <2>1, EventTyped
<1>3. /\ p \in ungenerated /\ ungenerated' = ungenerated \ {p} /\ pc = "admit"
      /\ instant = Object(p).ready
      /\ UNCHANGED <<sc, pc, cursor, instant, due, released, acknowledged>>
  BY DEF Generate, control
<1>4. \/ /\ ~Store.enabled /\ admitted' = admitted \cup {p} /\ log' = logged
         /\ UNCHANGED <<occupancy, tally, notes>>
      \/ Store.enabled /\ Admit(p, logged)
      \/ Store.enabled /\ Refuse(p, logged)
  BY DEF Generate
<1>5. CASE ~Store.enabled
  <2>1. /\ admitted' = admitted \cup {p} /\ log' = Append(log, g)
        /\ UNCHANGED <<occupancy, tally, notes>>
    BY <1>4, <1>5
  <2> HIDE DEF g
  <2> QED
    BY <1>2, <1>3, <1>5, <2>1, AppendExtends
<1>6. CASE Store.enabled /\ Admit(p, logged)
  <2> DEFINE r == Event(instant, "OBJECT_ADMITTED", p, projected)
  <2>1. /\ occupancy' = projected /\ admitted' = admitted \cup {p}
        /\ tally' = Totals(Higher(tally.peak, projected), Higher(tally.breach, Breach(projected)),
                           tally.freed, tally.refused)
        /\ log' = Append(Append(log, g), r)
    BY <1>6, Zenon DEF Admit
  <2>2. \A q \in Payloads : notes[q] \subseteq notes'[q]
    BY <1>6 DEF Admit, Noted
  <2>3. r \in EventRecords /\ r.kind = "OBJECT_ADMITTED" /\ r.key = p /\ r.at = instant
        /\ r.bytes = projected
    <3>1. instant \in Nat /\ projected \in Int
      BY <1>1
    <3>2. "OBJECT_ADMITTED" \in EventKinds
      BY KindsOfEvents
    <3> HIDE DEF g, logged, projected
    <3> QED
      BY <3>1, <3>2, EventTyped
  <2> HIDE DEF g, r, projected, logged
  <2>4. /\ log' \in Seq(EventRecords) /\ Extends(log, log', 2)
        /\ log'[Len(log) + 1] = g /\ log'[Len(log) + 2] = r
    <3>1. log \in Seq(EventRecords) /\ g \in EventRecords /\ r \in EventRecords
      BY <1>2, <2>3
    <3>2. log' = Append(Append(log, g), r)
      BY <2>1
    <3> QED
      BY <3>1, <3>2, AppendTwiceExtends
  <2> QED
    BY <1>2, <1>3, <1>6, <2>1, <2>2, <2>3, <2>4 DEF projected
<1>7. CASE Store.enabled /\ Refuse(p, logged)
  <2> DEFINE r == Event(instant, "OBJECT_REJECTED", p, occupancy)
  <2>1. /\ UNCHANGED <<occupancy, admitted>>
        /\ tally' = Totals(tally.peak, tally.breach, tally.freed, tally.refused + Object(p).store)
        /\ log' = Append(Append(log, g), r)
    BY <1>7, Zenon DEF Refuse
  <2>2. \A q \in Payloads : notes[q] \subseteq notes'[q]
    BY <1>7 DEF Refuse, Noted
  <2>3. r \in EventRecords /\ r.kind = "OBJECT_REJECTED" /\ r.key = p /\ r.at = instant
        /\ r.bytes = occupancy
    <3>1. instant \in Nat /\ occupancy \in Int
      BY <1>1
    <3>2. "OBJECT_REJECTED" \in EventKinds
      BY KindsOfEvents
    <3> HIDE DEF g, logged, projected
    <3> QED
      BY <3>1, <3>2, EventTyped
  <2> HIDE DEF g, r, projected, logged
  <2>4. /\ log' \in Seq(EventRecords) /\ Extends(log, log', 2)
        /\ log'[Len(log) + 1] = g /\ log'[Len(log) + 2] = r
    <3>1. log \in Seq(EventRecords) /\ g \in EventRecords /\ r \in EventRecords
      BY <1>2, <2>3
    <3>2. log' = Append(Append(log, g), r)
      BY <2>1
    <3> QED
      BY <3>1, <3>2, AppendTwiceExtends
  <2> QED
    BY <1>2, <1>3, <1>7, <2>1, <2>2, <2>3, <2>4
<1> QED
  BY <1>4, <1>5, <1>6, <1>7

\* An allocation tells its start, its end and what is left.
LEMMA AllocationLogged ==
    ASSUME InputOK, TypeOK, Position, log \in Seq(EventRecords),
           NEW p \in Payloads, OpenAllocation(p)
    PROVE  /\ log' \in Seq(EventRecords) /\ Extends(log, log', 3)
           /\ log'[Len(log) + 1].kind = "ALLOCATION_OPEN"
           /\ log'[Len(log) + 2].kind = "ALLOCATION_CLOSE"
           /\ log'[Len(log) + 3].kind = "MODELED_TX_PROGRESS_AT_TX_END"
           /\ \A i \in 1 .. 3 : log'[Len(log) + i].key = p
           /\ log'[Len(log) + 1].at = cursor
           /\ log'[Len(log) + 2].at = cursor' /\ log'[Len(log) + 3].at = cursor'
           /\ \A q \in Payloads : notes[q] \subseteq notes'[q]
           /\ pc = "serve" /\ pc' = "reclaim"
           /\ due' \subseteq admitted \ released
           /\ ~Store.enabled => due' = {}
           /\ UNCHANGED <<sc, ungenerated, admitted, released, occupancy, tally, acknowledged>>
<1> DEFINE end == GrantEnd(Session, cursor, Grant(p))
           left == remaining[p] - Grant(p)
           a == Event(cursor, "ALLOCATION_OPEN", p, remaining[p])
           b == Event(end, "ALLOCATION_CLOSE", p, left)
           c == Event(end, "MODELED_TX_PROGRESS_AT_TX_END", p, left)
<1>1. /\ cursor \in Nat /\ end \in Nat /\ remaining[p] \in Int /\ left \in Int
  <2>1. cursor \in Nat /\ remaining[p] \in Nat
    BY DEF TypeOK
  <2>2. end \in cursor .. Session.end /\ Session.end \in Nat /\ Grant(p) \in Nat
    BY AllocationFacts
  <2> HIDE DEF end
  <2>3. end \in Nat
    BY <2>1, <2>2
  <2>4. remaining[p] \in Int /\ left \in Int
    BY <2>1, <2>2
  <2> QED
    BY <2>1, <2>3, <2>4
<1>2. /\ cursor' = end /\ pc' = "reclaim" /\ due' = ReleaseDue(end, completion', acknowledged)
      /\ UNCHANGED <<sc, ungenerated, admitted, released, occupancy, tally, acknowledged>>
  BY AllocationEffect DEF recorder, pending
<1>3. pc = "serve"
  BY DEF OpenAllocation, Serving
<1>4. log' = log \o <<a, b, c>>
  BY Zenon DEF OpenAllocation, FreeAfter
<1>5. \A q \in Payloads : notes[q] \subseteq notes'[q]
  BY DEF OpenAllocation, Noted
<1>6. due' \subseteq admitted \ released /\ (~Store.enabled => due' = {})
  BY <1>2 DEF ReleaseDue
<1> HIDE DEF end, left
<1>7. /\ a \in EventRecords /\ a.kind = "ALLOCATION_OPEN" /\ a.key = p /\ a.at = cursor
      /\ b \in EventRecords /\ b.kind = "ALLOCATION_CLOSE" /\ b.key = p /\ b.at = end
      /\ c \in EventRecords /\ c.kind = "MODELED_TX_PROGRESS_AT_TX_END" /\ c.key = p /\ c.at = end
  <2>1. a \in EventRecords /\ a.kind = "ALLOCATION_OPEN" /\ a.key = p /\ a.at = cursor
    BY <1>1, EventTyped, KindsOfEvents
  <2>2. b \in EventRecords /\ b.kind = "ALLOCATION_CLOSE" /\ b.key = p /\ b.at = end
    BY <1>1, EventTyped, KindsOfEvents
  <2>3. /\ c \in EventRecords /\ c.kind = "MODELED_TX_PROGRESS_AT_TX_END"
        /\ c.key = p /\ c.at = end
    BY <1>1, EventTyped, KindsOfEvents
  <2> QED
    BY <2>1, <2>2, <2>3
<1> HIDE DEF a, b, c
<1>8. /\ log' \in Seq(EventRecords) /\ Extends(log, log', 3)
      /\ log'[Len(log) + 1] = a /\ log'[Len(log) + 2] = b /\ log'[Len(log) + 3] = c
  BY <1>4, <1>7, ThreeMoreExtend
<1>9. \A i \in 1 .. 3 : log'[Len(log) + i].key = p
  <2> SUFFICES ASSUME NEW i \in 1 .. 3 PROVE log'[Len(log) + i].key = p
    OBVIOUS
  <2>1. i = 1 \/ i = 2 \/ i = 3
    OBVIOUS
  <2> QED
    BY <1>7, <1>8, <2>1
<1> QED
  BY <1>2, <1>3, <1>5, <1>6, <1>7, <1>8, <1>9

\* The other actions write nothing, leave the recorder alone, and at most plan a
\* release.
LEMMA LogChanges ==
    ASSUME [Next]_vars
    PROVE  \/ /\ UNCHANGED <<log, admitted, released, occupancy, tally, ungenerated, acknowledged>>
              /\ due' = due \/ (due' \subseteq admitted \ released /\ (~Store.enabled => due' = {}))
              /\ \A q \in Payloads : notes[q] \subseteq notes'[q]
           \/ \E p \in Payloads :
                 IngestDelivery(p) \/ Release(p) \/ Generate(p) \/ OpenAllocation(p)
<1> DEFINE Quiet == UNCHANGED <<log, admitted, released, occupancy, tally, ungenerated, acknowledged>>
           Grows == \A q \in Payloads : notes[q] \subseteq notes'[q]
<1>1. CASE StartSession \/ EndAdvance \/ EndRelease \/ EndInstant
  BY <1>1 DEF StartSession, EndAdvance, EndRelease, EndInstant, recorder, pending
<1>2. CASE BeginInstant
  <2>1. UNCHANGED <<recorder, pending, log, due, notes>>
    BY <1>2 DEF BeginInstant
  <2> QED
    BY <2>1 DEF recorder, pending
<1>3. CASE BeginRelease
  <2>1. Quiet /\ Grows
    BY <1>3 DEF BeginRelease, recorder, pending
  <2>2. due' \subseteq admitted \ released /\ (~Store.enabled => due' = {})
    BY <1>3 DEF BeginRelease, ReleaseDue
  <2> QED
    BY <2>1, <2>2
<1>4. CASE JumpToReady
  <2>1. Quiet /\ due' = due
    BY <1>4 DEF JumpToReady, recorder, pending
  <2>2. Grows
    BY <1>4 DEF JumpToReady, Noted
  <2> QED
    BY <2>1, <2>2
<1>5. CASE EndSession
  <2>1. Quiet /\ due' = due
    BY <1>5 DEF EndSession, recorder, pending
  <2>2. Grows
    BY <1>5 DEF EndSession, Noted
  <2> QED
    BY <2>1, <2>2
<1>6. CASE Close
  <2>1. Quiet /\ due' = due
    BY <1>6 DEF Close, recorder, pending
  <2>2. Grows
    BY <1>6 DEF Close
  <2> QED
    BY <2>1, <2>2
<1>7. CASE Finished \/ UNCHANGED vars
  BY <1>7 DEF Finished, vars, recorder, pending
<1> QED
  BY <1>1, <1>2, <1>3, <1>4, <1>5, <1>6, <1>7 DEF Next, Step

-----------------------------------------------------------------------------
(***************************************************************************)
(* The recorder's books.                                                   *)
(***************************************************************************)

\* What payloads take is a natural number.
LEMMA StoreTypes ==
    ASSUME InputOK, NEW A \in SUBSET Payloads
    PROVE  /\ \A p \in 1 .. LastPayload : StoreOf(A)[p] \in Nat
           /\ SumStore(A) \in Nat
<1>1. \A p \in 1 .. LastPayload : StoreOf(A)[p] \in Nat
  BY ObjectTypes DEF StoreOf
<1> QED
  BY <1>1, PayloadRange, SumNat DEF SumStore

\* Nothing takes no bytes.
LEMMA StoreOfNothing ==
    ASSUME InputOK
    PROVE  SumStore({}) = 0
<1>1. \A p \in 1 .. LastPayload : StoreOf({})[p] = 0
  BY DEF StoreOf
<1> QED
  BY <1>1, PayloadRange, SumNothing DEF SumStore

\* One payload more takes its bytes more.
LEMMA StoreOfMore ==
    ASSUME InputOK, NEW A \in SUBSET Payloads, NEW p \in Payloads \ A
    PROVE  SumStore(A \cup {p}) = SumStore(A) + Object(p).store
<1> DEFINE f == StoreOf(A)
           g == StoreOf(A \cup {p})
<1>1. /\ \A q \in 1 .. LastPayload : f[q] \in Nat
      /\ \A q \in 1 .. LastPayload : g[q] \in Nat
  BY StoreTypes
<1>2. LastPayload \in Nat /\ p \in 1 .. LastPayload
  BY PayloadRange
<1>3. /\ \A q \in 1 .. LastPayload : q # p => g[q] = f[q]
      /\ g[p] = Object(p).store /\ f[p] = 0
  BY <1>2 DEF StoreOf
<1>4. Object(p).store \in Nat /\ SumStore(A) \in Nat
  BY ObjectTypes, StoreTypes
<1> HIDE DEF f, g
<1>5. Sum(g, LastPayload) = Sum(f, LastPayload) + (g[p] - f[p])
  <2>1. \A q \in 1 .. LastPayload : f[q] \in Int /\ g[q] \in Int
    BY <1>1
  <2> QED
    BY <1>2, <1>3, <2>1, SumChange
<1> QED
  BY <1>3, <1>4, <1>5 DEF SumStore, f, g

\* Fewer payloads take fewer bytes.
LEMMA StoreOfFewer ==
    ASSUME InputOK, NEW A \in SUBSET Payloads, NEW B \in SUBSET A
    PROVE  SumStore(B) <= SumStore(A)
<1>1. \A q \in 1 .. LastPayload :
          StoreOf(B)[q] \in Int /\ StoreOf(A)[q] \in Int /\ StoreOf(B)[q] <= StoreOf(A)[q]
  <2>1. /\ \A q \in 1 .. LastPayload : StoreOf(A)[q] \in Nat
        /\ \A q \in 1 .. LastPayload : StoreOf(B)[q] \in Nat
    BY StoreTypes
  <2>2. \A q \in 1 .. LastPayload : StoreOf(B)[q] = 0 \/ StoreOf(B)[q] = StoreOf(A)[q]
    BY DEF StoreOf
  <2> QED
    BY <2>1, <2>2
<1> QED
  BY <1>1, PayloadRange, SumSmaller DEF SumStore

\* What a longer log says of the recorder.
LEMMA StorageEventsAfter ==
    /\ Extends(log, log', 1) =>
          StorageEvents' = StorageEvents \cup
              {e \in {log'[Len(log) + 1]} : e.kind \in StorageKinds}
    /\ Extends(log, log', 2) =>
          StorageEvents' = StorageEvents \cup
              {e \in {log'[Len(log) + 1], log'[Len(log) + 2]} : e.kind \in StorageKinds}
    /\ Extends(log, log', 3) =>
          StorageEvents' = StorageEvents \cup
              {e \in {log'[Len(log) + 1], log'[Len(log) + 2], log'[Len(log) + 3]} :
                  e.kind \in StorageKinds}
<1>1. PICK old, new : old = log /\ new = log'
  OBVIOUS
<1>2. /\ StorageEvents = {e \in Records(old) : e.kind \in StorageKinds}
      /\ StorageEvents' = {e \in Records(new) : e.kind \in StorageKinds}
  BY <1>1 DEF StorageEvents, Records
<1>3. Extends(old, new, 1) =>
          StorageEvents' = StorageEvents \cup
              {e \in {new[Len(old) + 1]} : e.kind \in StorageKinds}
  BY <1>2, RecordsExtended
<1>4. Extends(old, new, 2) =>
          StorageEvents' = StorageEvents \cup
              {e \in {new[Len(old) + 1], new[Len(old) + 2]} : e.kind \in StorageKinds}
  BY <1>2, RecordsExtended
<1>5. Extends(old, new, 3) =>
          StorageEvents' = StorageEvents \cup
              {e \in {new[Len(old) + 1], new[Len(old) + 2], new[Len(old) + 3]} :
                  e.kind \in StorageKinds}
  BY <1>2, RecordsExtended
<1> QED
  BY <1>1, <1>3, <1>4, <1>5

\* The levels are integers.
LEMMA LevelTypes ==
    ASSUME log \in Seq(EventRecords), Store.initial \in Int
    PROVE  \A l \in Levels : l \in Int
<1>1. \A i \in DOMAIN log : log[i] \in EventRecords
  OBVIOUS
<1>2. \A e \in StorageEvents : e.bytes \in Int
  BY <1>1 DEF StorageEvents, Records, EventRecords
<1> QED
  BY <1>2 DEF Levels

\* The recorder's books are kept by each step.
LEMMA RecorderStep ==
    ASSUME InputOK, TypeOK, Position, CompleteObjectsLeave, RecorderBooks, [Next]_vars
    PROVE  RecorderBooks'
<1>0. sc' = sc /\ Store' = Store
  BY ScenarioFixed DEF Store
<1>1. PICK A, R, U : A = admitted' /\ R = released' /\ U = ungenerated'
  OBVIOUS
<1>2. /\ SumStore(admitted)' = SumStore(A) /\ SumStore(released)' = SumStore(R)
      /\ SumStore(Payloads \ (ungenerated \cup admitted))' = SumStore(Payloads \ (U \cup A))
  BY <1>0, <1>1 DEF SumStore, StoreOf, Object
<1>3. /\ Store.usable \in Nat /\ Store.initial \in Int /\ occupancy \in Int
      /\ tally \in [peak : Nat, breach : Nat, freed : Nat, refused : Nat]
      /\ admitted \subseteq Payloads /\ released \subseteq Payloads
      /\ ungenerated \subseteq Payloads
  <2>1. StorageOK(Store)
    BY ScenarioTypes DEF Store
  <2> QED
    BY <2>1 DEF TypeOK, StorageOK
<1>4. log \in Seq(EventRecords)
  BY DEF RecorderBooks
<1> DEFINE Same == UNCHANGED <<admitted, released, occupancy, tally, ungenerated>>
<1>5. ASSUME Same, StorageEvents' = StorageEvents, log' \in Seq(EventRecords),
             due' \cap released' = {}, ~Store.enabled => due' = {}
      PROVE  RecorderBooks'
  <2>1. Levels' = Levels
    BY <1>0, <1>5 DEF Levels
  <2> QED
    BY <1>0, <1>1, <1>2, <1>5, <2>1 DEF RecorderBooks
<1>6. CASE /\ UNCHANGED log /\ Same
           /\ due' = due \/ (due' \subseteq admitted \ released /\ (~Store.enabled => due' = {}))
  <2>1. StorageEvents' = StorageEvents
    BY <1>6 DEF StorageEvents, Records
  <2>2. due' \cap released' = {} /\ (~Store.enabled => due' = {})
    BY <1>6 DEF RecorderBooks
  <2> QED
    BY <1>4, <1>5, <1>6, <2>1, <2>2
<1>7. ASSUME NEW p \in Payloads, IngestDelivery(p) PROVE RecorderBooks'
  <2>1. /\ log' \in Seq(EventRecords) /\ Extends(log, log', 1)
        /\ log'[Len(log) + 1].kind = "TEST_DELIVERY_INGESTED"
    BY <1>4, <1>7, DeliveryLogged
  <2>2. StorageEvents' = StorageEvents
    BY <2>1, StorageEventsAfter DEF StorageKinds
  <2>3. Same /\ due' = due
    BY <1>7 DEF IngestDelivery, recorder
  <2> QED
    BY <1>5, <2>1, <2>2, <2>3 DEF RecorderBooks
<1>8. ASSUME NEW p \in Payloads, OpenAllocation(p) PROVE RecorderBooks'
  <2>1. /\ log' \in Seq(EventRecords) /\ Extends(log, log', 3)
        /\ log'[Len(log) + 1].kind = "ALLOCATION_OPEN"
        /\ log'[Len(log) + 2].kind = "ALLOCATION_CLOSE"
        /\ log'[Len(log) + 3].kind = "MODELED_TX_PROGRESS_AT_TX_END"
        /\ due' \subseteq admitted \ released
        /\ ~Store.enabled => due' = {}
        /\ Same
    BY <1>4, <1>8, AllocationLogged
  <2>2. StorageEvents' = StorageEvents
    BY <2>1, StorageEventsAfter DEF StorageKinds
  <2> QED
    BY <1>5, <2>1, <2>2
<1> HIDE DEF Same
<1>9. ASSUME NEW p \in Payloads, Release(p) PROVE RecorderBooks'
  <2> DEFINE e == log'[Len(log) + 1]
  <2>1. /\ log' \in Seq(EventRecords) /\ Extends(log, log', 1)
        /\ e.bytes = occupancy'
        /\ \/ /\ e.kind = "OBJECT_RELEASED" /\ released' = released \cup {p}
              /\ occupancy' = occupancy - Object(p).store
              /\ tally' = Totals(tally.peak, tally.breach, tally.freed + Object(p).store,
                                 tally.refused)
           \/ e.kind = "RELEASE_HELD" /\ UNCHANGED <<released, occupancy, tally>>
        /\ p \in due /\ due' = due \ {p}
        /\ UNCHANGED <<ungenerated, admitted>>
    BY <1>4, <1>9, ReleaseLogged
  <2> HIDE DEF e
  <2>2. Store.enabled /\ p \notin released
    BY <2>1 DEF RecorderBooks
  <2>3. StorageEvents' = StorageEvents \cup {e}
    BY <2>1, StorageEventsAfter DEF StorageKinds, e
  <2>4. Levels' = Levels \cup {occupancy'}
    BY <1>0, <2>1, <2>3 DEF Levels
  <2>5. /\ occupancy \in Levels /\ tally.peak \in Levels /\ \A l \in Levels : l <= tally.peak
        /\ occupancy = Store.initial + SumStore(admitted) - SumStore(released)
        /\ tally.freed = SumStore(released)
        /\ admitted \cap ungenerated = {} /\ due \cap released = {}
        /\ tally.breach = Higher(0, tally.peak - Store.usable)
        /\ tally.refused = SumStore(Payloads \ (ungenerated \cup admitted))
    BY <2>2 DEF RecorderBooks
  <2>6. Object(p).store \in Nat /\ SumStore(admitted) \in Nat /\ SumStore(released) \in Nat
    BY <1>3, ObjectTypes, StoreTypes
  <2>7. SumStore(released \cup {p}) = SumStore(released) + Object(p).store
    BY <1>3, <2>2, StoreOfMore
  <2>8. /\ tally'.peak = tally.peak /\ tally'.breach = tally.breach
        /\ tally'.refused = tally.refused
    BY <2>1 DEF Totals
  <2>9. /\ occupancy' \in Int /\ occupancy' <= occupancy
        /\ occupancy' = Store.initial + SumStore(A) - SumStore(R)
        /\ tally'.freed = SumStore(R)
    <3>1. CASE /\ released' = released \cup {p}
               /\ occupancy' = occupancy - Object(p).store
               /\ tally' = Totals(tally.peak, tally.breach, tally.freed + Object(p).store,
                                  tally.refused)
      <4>1. tally'.freed = tally.freed + Object(p).store
        BY <3>1 DEF Totals
      <4>2. A = admitted /\ R = released \cup {p} /\ occupancy' = occupancy - Object(p).store
        BY <1>1, <2>1, <3>1
      <4>3. SumStore(R) = SumStore(released) + Object(p).store /\ SumStore(A) = SumStore(admitted)
        BY <2>7, <4>2
      <4>4. /\ occupancy = Store.initial + SumStore(admitted) - SumStore(released)
            /\ tally.freed = SumStore(released)
        BY <2>5
      <4> QED
        BY <1>3, <2>6, <4>1, <4>2, <4>3, <4>4
    <3>2. CASE UNCHANGED <<released, occupancy, tally>>
      BY <1>1, <1>3, <2>1, <2>5, <2>6, <3>2
    <3> QED
      BY <2>1, <3>1, <3>2
  <2>10. \A l \in Levels' : l <= tally'.peak
    <3>1. occupancy' <= tally.peak
      BY <1>3, <2>5, <2>9
    <3> QED
      BY <2>4, <2>5, <2>8, <3>1
  <2>11. admitted' \cap ungenerated' = {} /\ due' \cap released' = {}
    BY <2>1, <2>5
  <2>12. tally'.refused = SumStore(Payloads \ (U \cup A))
    BY <1>1, <2>1, <2>5, <2>8
  <2> QED
    BY <1>0, <1>2, <2>1, <2>2, <2>4, <2>5, <2>8, <2>9, <2>10, <2>11, <2>12 DEF RecorderBooks
<1>10. ASSUME NEW p \in Payloads, Generate(p) PROVE RecorderBooks'
  <2> DEFINE g == log'[Len(log) + 1]
             r == log'[Len(log) + 2]
             Held == /\ r.kind = "OBJECT_ADMITTED"
                     /\ admitted' = admitted \cup {p} /\ occupancy' = occupancy + Object(p).store
                     /\ tally' = Totals(Higher(tally.peak, occupancy'),
                                        Higher(tally.breach, Breach(occupancy')),
                                        tally.freed, tally.refused)
             Turned == /\ r.kind = "OBJECT_REJECTED"
                       /\ UNCHANGED <<admitted, occupancy>>
                       /\ tally' = Totals(tally.peak, tally.breach, tally.freed,
                                          tally.refused + Object(p).store)
  <2>1. /\ log' \in Seq(EventRecords) /\ g.kind = "OBJECT_GENERATED"
        /\ \/ /\ ~Store.enabled /\ Extends(log, log', 1)
              /\ admitted' = admitted \cup {p} /\ UNCHANGED <<occupancy, tally>>
           \/ Store.enabled /\ Extends(log, log', 2) /\ r.bytes = occupancy' /\ (Held \/ Turned)
        /\ p \in ungenerated /\ ungenerated' = ungenerated \ {p}
        /\ UNCHANGED <<due, released>>
    BY <1>4, <1>10, GenerateLogged
  <2>2. admitted \cap ungenerated = {} /\ due \cap released = {}
    BY DEF RecorderBooks
  <2>3. admitted' \cap ungenerated' = {} /\ due' \cap released' = {}
    BY <2>1, <2>2
  <2>4. CASE ~Store.enabled
    <3>1. StorageEvents' = StorageEvents
      BY <2>1, <2>4, StorageEventsAfter DEF StorageKinds, g
    <3> QED
      BY <1>0, <2>1, <2>3, <2>4, <3>1 DEF RecorderBooks
  <2>5. CASE Store.enabled
    <3>1. /\ occupancy \in Levels /\ tally.peak \in Levels /\ \A l \in Levels : l <= tally.peak
          /\ occupancy = Store.initial + SumStore(admitted) - SumStore(released)
          /\ tally.freed = SumStore(released)
          /\ tally.breach = Higher(0, tally.peak - Store.usable)
          /\ tally.refused = SumStore(Payloads \ (ungenerated \cup admitted))
      BY <2>5 DEF RecorderBooks
    <3>2. /\ Extends(log, log', 2) /\ r.bytes = occupancy' /\ (Held \/ Turned)
          /\ r.kind \in {"OBJECT_ADMITTED", "OBJECT_REJECTED"}
      BY <2>1, <2>5
    <3>3. StorageEvents' = StorageEvents \cup {r}
      BY <2>1, <3>2, StorageEventsAfter DEF StorageKinds, g, r
    <3> HIDE DEF r, g
    <3>4. Levels' = Levels \cup {occupancy'}
      BY <1>0, <3>2, <3>3 DEF Levels
    <3>5. Object(p).store \in Nat /\ SumStore(admitted) \in Nat /\ SumStore(released) \in Nat
      BY <1>3, ObjectTypes, StoreTypes
    <3>6. R = released /\ U = ungenerated \ {p} /\ p \notin admitted
      BY <1>1, <2>1, <2>2
    <3>7. CASE Held
      <4>1. SumStore(admitted \cup {p}) = SumStore(admitted) + Object(p).store
        BY <1>3, <3>6, StoreOfMore
      <4>2. A = admitted \cup {p} /\ Payloads \ (U \cup A) = Payloads \ (ungenerated \cup admitted)
        BY <1>1, <2>1, <3>6, <3>7
      <4>3. occupancy' = Store.initial + SumStore(A) - SumStore(R) /\ occupancy' \in Int
        BY <1>3, <3>1, <3>5, <3>6, <3>7, <4>1, <4>2
      <4>4. /\ tally'.peak = Higher(tally.peak, occupancy')
            /\ tally'.breach = Higher(tally.breach, Breach(occupancy'))
            /\ tally'.freed = tally.freed /\ tally'.refused = tally.refused
        BY <3>7 DEF Totals
      <4>5. tally'.peak \in Levels' /\ \A l \in Levels' : l <= tally'.peak
        <5>1. tally.peak \in Int /\ \A l \in Levels : l <= tally.peak
          BY <1>3, <3>1
        <5>2. CASE tally.peak >= occupancy'
          BY <3>1, <3>4, <4>3, <4>4, <5>1, <5>2 DEF Higher
        <5>3. CASE ~(tally.peak >= occupancy')
          <6>1. tally'.peak = occupancy' /\ tally.peak < occupancy'
            BY <4>3, <4>4, <5>1, <5>3 DEF Higher
          <6>2. \A l \in Levels : l \in Int
            BY <1>3, <1>4, LevelTypes
          <6> QED
            BY <3>4, <4>3, <5>1, <6>1, <6>2
        <5> QED
          BY <5>2, <5>3
      <4>6. tally'.breach = Higher(0, tally'.peak - Store.usable)
        <5>1. tally.peak \in Nat /\ Breach(occupancy') = Higher(0, occupancy' - Store.usable)
          BY <1>3, <2>5 DEF Breach
        <5> QED
          BY <1>3, <3>1, <4>3, <4>4, <5>1 DEF Higher
      <4> QED
        BY <1>0, <1>2, <2>1, <2>3, <2>5, <3>1, <3>4, <3>6, <4>2, <4>3, <4>4, <4>5, <4>6
           DEF RecorderBooks
    <3>8. CASE Turned
      <4>1. A = admitted /\ Payloads \ (U \cup A) = (Payloads \ (ungenerated \cup admitted)) \cup {p}
        BY <1>1, <1>3, <2>1, <3>6, <3>8
      <4>2. SumStore(Payloads \ (U \cup A))
                = SumStore(Payloads \ (ungenerated \cup admitted)) + Object(p).store
        <5>1. p \in Payloads \ (Payloads \ (ungenerated \cup admitted))
          BY <2>1
        <5> DEFINE before == Payloads \ (ungenerated \cup admitted)
        <5>2. before \in SUBSET Payloads
          OBVIOUS
        <5> HIDE DEF before
        <5>3. SumStore(before \cup {p}) = SumStore(before) + Object(p).store
          BY <5>1, <5>2, StoreOfMore DEF before
        <5> QED
          BY <4>1, <5>3 DEF before
      <4>3. /\ tally'.peak = tally.peak /\ tally'.breach = tally.breach
            /\ tally'.freed = tally.freed /\ tally'.refused = tally.refused + Object(p).store
        BY <3>8 DEF Totals
      <4>4. Levels' = Levels /\ occupancy' = occupancy
        BY <3>1, <3>4, <3>8
      <4> QED
        BY <1>0, <1>2, <2>1, <2>3, <2>5, <3>1, <3>6, <4>1, <4>2, <4>3, <4>4 DEF RecorderBooks
    <3> QED
      BY <3>2, <3>7, <3>8
  <2> QED
    BY <2>4, <2>5
<1> QED
  BY <1>6, <1>7, <1>8, <1>9, <1>10, LogChanges DEF Same

-----------------------------------------------------------------------------
(***************************************************************************)
(* Acknowledgements.                                                       *)
(***************************************************************************)

\* What the actions that write nothing do to a release under way.
LEMMA QuietCourse ==
    ASSUME [Next]_vars
    PROVE  \/ \E p \in Payloads :
                 IngestDelivery(p) \/ Release(p) \/ Generate(p) \/ OpenAllocation(p)
           \/ BeginRelease
           \/ /\ due' = due /\ (pc = "ingest" => UNCHANGED <<pc, instant>>)
              /\ pc' = "done" => pc = "done" \/ Close
<1>1. CASE StartSession \/ EndAdvance \/ EndRelease \/ EndInstant
  BY <1>1 DEF StartSession, EndAdvance, EndRelease, EndInstant
<1>2. CASE BeginInstant
  <2>1. pc = "advance" /\ pc' = "ingest" /\ due' = due
    BY <1>2, Zenon DEF BeginInstant
  <2> QED
    BY <2>1
<1>3. CASE JumpToReady
  <2>1. pc = "serve" /\ pc' = "advance" /\ due' = due
    BY <1>3, Zenon DEF JumpToReady, Serving
  <2> QED
    BY <2>1
<1>4. CASE EndSession
  BY <1>4 DEF EndSession
<1>5. CASE Close
  BY <1>5 DEF Close
<1>6. CASE Finished \/ UNCHANGED vars
  BY <1>6 DEF Finished, vars, control
<1> QED
  BY <1>1, <1>2, <1>3, <1>4, <1>5, <1>6 DEF Next, Step

\* Each acknowledgement stays heeded.
LEMMA AcknowledgementStep ==
    ASSUME InputOK, TypeOK, Position, Course, LeavingUnderTxEnd, RecorderBooks,
           AcknowledgementsHeeded, [Next]_vars
    PROVE  AcknowledgementsHeeded'
<1> DEFINE held == "RELEASE_HELD_INCOMPLETE_OBJECT"
           Heeded(p) == \/ p \in released \/ held \in notes[p] \/ p \in due
                        \/ pc = "ingest" /\ acknowledged[p] = instant
           Later(p) == acknowledged[p] # None /\ acknowledged[p] > Object(p).ready
           Acked == Store.enabled /\ Store.trigger = "ACKED"
           TxEnd == Store.enabled /\ Store.trigger = "TX_END"
<1>0. /\ sc' = sc /\ Store' = Store /\ log \in Seq(EventRecords)
      /\ admitted \subseteq Payloads /\ ungenerated \subseteq Payloads
  BY ScenarioFixed DEF Store, RecorderBooks, TypeOK
<1>1. /\ \A p \in ungenerated : acknowledged[p] # None => acknowledged[p] <= Object(p).ready
      /\ Acked => \A p \in admitted : Later(p) => Heeded(p)
      /\ pc = "done" /\ TxEnd => \A p \in admitted : p \in released \/ held \in notes[p]
  BY DEF AcknowledgementsHeeded
<1>2. ASSUME \A p \in ungenerated' : acknowledged'[p] # None => acknowledged'[p] <= Object(p).ready,
             Acked => \A p \in admitted' :
                         (acknowledged'[p] # None /\ acknowledged'[p] > Object(p).ready) =>
                             \/ p \in released' \/ held \in notes'[p] \/ p \in due'
                             \/ pc' = "ingest" /\ acknowledged'[p] = instant',
             pc' = "done" /\ TxEnd => \A p \in admitted' : p \in released' \/ held \in notes'[p]
      PROVE  AcknowledgementsHeeded'
  BY <1>0, <1>2 DEF AcknowledgementsHeeded, Object
<1>3. CASE /\ UNCHANGED <<admitted, released, ungenerated, acknowledged>>
           /\ \A q \in Payloads : notes[q] \subseteq notes'[q]
           /\ ~ \E p \in Payloads :
                   IngestDelivery(p) \/ Release(p) \/ Generate(p) \/ OpenAllocation(p)
  <2>1. CASE BeginRelease
    <3>1. /\ pc = "ingest" /\ pc' = "release"
          /\ due' = ReleaseDue(instant, completion, acknowledged)
      BY <2>1 DEF BeginRelease
    <3>2. due = {}
      BY <3>1 DEF Course
    <3>3. ASSUME Acked, NEW p \in admitted, Later(p)
          PROVE  p \in released \/ held \in notes'[p] \/ p \in due'
      <4>1. Heeded(p)
        BY <1>1, <3>3
      <4>2. (p \in admitted \ released /\ acknowledged[p] = instant) => p \in due'
        BY <3>1, <3>3 DEF ReleaseDue
      <4> QED
        BY <1>0, <1>3, <3>2, <4>1, <4>2
    <3> QED
      BY <1>1, <1>2, <1>3, <3>1, <3>3
  <2>2. CASE /\ due' = due /\ (pc = "ingest" => UNCHANGED <<pc, instant>>)
             /\ pc' = "done" => pc = "done" \/ Close
    <3>1. ASSUME Acked, NEW p \in admitted, Later(p)
          PROVE  \/ p \in released \/ held \in notes'[p] \/ p \in due'
                 \/ pc' = "ingest" /\ acknowledged[p] = instant'
      <4>1. Heeded(p)
        BY <1>1, <3>1
      <4> QED
        BY <1>0, <1>3, <2>2, <4>1
    <3>2. ASSUME pc' = "done", TxEnd, NEW p \in admitted
          PROVE  p \in released \/ held \in notes'[p]
      <4>1. CASE pc = "done"
        BY <1>0, <1>1, <1>3, <3>2, <4>1
      <4>2. CASE Close
        <5>1. pc = "close" /\ notes' = [q \in Payloads |-> notes[q] \cup FinalNotes(q)]
          BY <4>2 DEF Close
        <5>2. p \in Payloads /\ remaining[p] \in Nat
          BY <1>0 DEF TypeOK
        <5>3. remaining[p] = 0 => p \in released
          BY <3>2, <5>1 DEF LeavingUnderTxEnd
        <5>4. (remaining[p] > 0 /\ p \notin released) => held \in FinalNotes(p)
          BY <3>2 DEF FinalNotes
        <5> QED
          BY <5>1, <5>2, <5>3, <5>4
      <4> QED
        BY <2>2, <3>2, <4>1, <4>2
    <3> QED
      BY <1>1, <1>2, <1>3, <3>1, <3>2
  <2> QED
    BY <1>3, <2>1, <2>2, QuietCourse
<1>4. ASSUME NEW p \in Payloads, IngestDelivery(p) PROVE AcknowledgementsHeeded'
  <2>1. /\ pc = "ingest" /\ acknowledged' = [acknowledged EXCEPT ![p] = instant]
        /\ UNCHANGED <<pc, instant, admitted, released, ungenerated, due, notes>>
    BY <1>4 DEF IngestDelivery, control, recorder
  <2>2. acknowledged \in [Payloads -> OptionalTime]
    BY DEF TypeOK
  <2>3. acknowledged'[p] = instant /\ \A q \in Payloads : q # p => acknowledged'[q] = acknowledged[q]
    BY <2>1, <2>2
  <2>4. \A q \in ungenerated : acknowledged'[q] # None => acknowledged'[q] <= Object(q).ready
    BY <1>0, <1>1, <2>1, <2>3 DEF Course
  <2>5. ASSUME Acked, NEW q \in admitted, acknowledged'[q] # None, acknowledged'[q] > Object(q).ready
        PROVE  \/ q \in released \/ held \in notes[q] \/ q \in due
               \/ acknowledged'[q] = instant
    <3>1. CASE q = p
      BY <2>3, <3>1
    <3>2. CASE q # p
      <4>1. acknowledged'[q] = acknowledged[q]
        BY <1>0, <2>3, <3>2
      <4>2. Heeded(q)
        BY <1>1, <2>5, <4>1
      <4> QED
        BY <4>1, <4>2
    <3> QED
      BY <3>1, <3>2
  <2> QED
    BY <1>2, <2>1, <2>4, <2>5
<1>5. ASSUME NEW p \in Payloads, Release(p) PROVE AcknowledgementsHeeded'
  <2>1. /\ p \in released' \/ held \in notes'[p]
        /\ released \subseteq released'
        /\ \A q \in Payloads : notes[q] \subseteq notes'[q]
        /\ p \in due /\ due' = due \ {p} /\ pc \in {"release", "reclaim"}
        /\ UNCHANGED <<pc, instant, ungenerated, admitted, acknowledged>>
    BY <1>0, <1>5, ReleaseLogged
  <2>2. ASSUME Acked, NEW q \in admitted, Later(q)
        PROVE  q \in released' \/ held \in notes'[q] \/ q \in due'
    <3>1. Heeded(q)
      BY <1>1, <2>2
    <3> QED
      BY <1>0, <2>1, <3>1
  <2> QED
    BY <1>1, <1>2, <2>1, <2>2
<1>6. ASSUME NEW p \in Payloads, Generate(p) PROVE AcknowledgementsHeeded'
  <2>1. /\ admitted' \subseteq admitted \cup {p} /\ p \in ungenerated
        /\ \A q \in Payloads : notes[q] \subseteq notes'[q]
        /\ ungenerated' = ungenerated \ {p} /\ pc = "admit"
        /\ UNCHANGED <<pc, instant, due, released, acknowledged>>
    BY <1>0, <1>6, GenerateLogged
  <2>2. ASSUME Acked, NEW q \in admitted', Later(q)
        PROVE  q \in released \/ held \in notes'[q] \/ q \in due
    <3>1. CASE q = p
      <4>1. acknowledged[p] \in Nat /\ Object(p).ready \in Nat
        BY <2>2, <3>1, ObjectTypes DEF TypeOK, OptionalTime
      <4> QED
        BY <1>1, <2>1, <2>2, <3>1, <4>1
    <3>2. CASE q # p
      <4>1. q \in admitted /\ Heeded(q)
        BY <1>1, <2>1, <2>2, <3>2
      <4> QED
        BY <1>0, <2>1, <4>1
    <3> QED
      BY <3>1, <3>2
  <2> QED
    BY <1>1, <1>2, <2>1, <2>2
<1>7. ASSUME NEW p \in Payloads, OpenAllocation(p) PROVE AcknowledgementsHeeded'
  <2>1. /\ pc = "serve" /\ pc' = "reclaim"
        /\ \A q \in Payloads : notes[q] \subseteq notes'[q]
        /\ UNCHANGED <<ungenerated, admitted, released, acknowledged>>
    BY <1>0, <1>7, AllocationLogged
  <2>2. due = {}
    BY <2>1 DEF Course
  <2>3. ASSUME Acked, NEW q \in admitted, Later(q)
        PROVE  q \in released \/ held \in notes'[q]
    <3>1. Heeded(q)
      BY <1>1, <2>3
    <3> QED
      BY <1>0, <2>1, <2>2, <3>1
  <2> QED
    BY <1>1, <1>2, <2>1, <2>3
<1> QED
  BY <1>3, <1>4, <1>5, <1>6, <1>7, LogChanges

-----------------------------------------------------------------------------
(***************************************************************************)
(* The life of a payload in the log.                                       *)
(***************************************************************************)

\* LifeInOrder and LifeSoFar, of one payload.
Ordered(p) ==
    \A i \in Life(p) :
        /\ (log[i].kind = "OBJECT_GENERATED") <=> (\A j \in Life(p) : i <= j)
        /\ log[i].kind \in {"OBJECT_ADMITTED", "OBJECT_REJECTED"} =>
              \A j \in Life(p) : j < i => log[j].kind = "OBJECT_GENERATED"
        /\ log[i].kind \in {"OBJECT_REJECTED", "OBJECT_RELEASED"} =>
              \A j \in Life(p) : j <= i
        /\ log[i].kind # "OBJECT_RELEASED" =>
              \A j \in Life(p) : j < i => log[j].at <= log[i].at

SoFar(p) ==
    /\ p \in ungenerated => Life(p) = {}
    /\ p \notin ungenerated => \E i \in Life(p) : log[i].kind = "OBJECT_GENERATED"
    /\ \A i \in Life(p) :
          /\ log[i].kind = "OBJECT_REJECTED" => p \notin admitted
          /\ log[i].kind = "OBJECT_RELEASED" => p \in released
          /\ log[i].kind # "OBJECT_RELEASED" =>
                log[i].at <= Object(p).ready \/ log[i].at <= cursor

\* What a longer log tells of a payload starts with what it told before.
LEMMA LifeExtended ==
    ASSUME NEW n \in Nat, Extends(log, log', n), NEW q \in Payloads
    PROVE  /\ \A i \in Life(q) : i \in Nat /\ i <= Len(log) /\ log'[i] = log[i]
           /\ Life(q)' = Life(q) \cup {i \in Len(log) + 1 .. Len(log) + n :
                            log'[i].key = q /\ log'[i].kind \notin
                                                   {"TEST_DELIVERY_INGESTED", "RELEASE_HELD"}}
<1>1. /\ Len(log) \in Nat /\ DOMAIN log = 1 .. Len(log)
      /\ DOMAIN log' = 1 .. Len(log) + n
      /\ \A i \in 1 .. Len(log) : log'[i] = log[i]
  BY DEF Extends
<1>2. \A i \in Life(q) : i \in 1 .. Len(log)
  BY <1>1 DEF Life
<1>3. \A i : i \in Life(q)' <=> /\ i \in 1 .. Len(log) + n /\ log'[i].key = q
                                /\ log'[i].kind \notin {"TEST_DELIVERY_INGESTED", "RELEASE_HELD"}
  BY <1>1 DEF Life
<1>4. \A i : i \in Life(q) <=> /\ i \in 1 .. Len(log) /\ log[i].key = q
                               /\ log[i].kind \notin {"TEST_DELIVERY_INGESTED", "RELEASE_HELD"}
  BY <1>1 DEF Life
<1>5. \A i : i \in 1 .. Len(log) + n <=> i \in 1 .. Len(log) \/ i \in Len(log) + 1 .. Len(log) + n
  BY <1>1
<1> QED
  BY <1>1, <1>2, <1>3, <1>4, <1>5

\* The instants of the log.
LEMMA LifeTimes ==
    ASSUME log \in Seq(EventRecords), NEW q \in Payloads, NEW i \in Life(q)
    PROVE  log[i].at \in Nat
<1>1. i \in DOMAIN log
  BY DEF Life
<1>2. log[i] \in EventRecords
  BY <1>1
<1> QED
  BY <1>2 DEF EventRecords

\* A payload the log tells nothing more of stays as it was.
LEMMA LifeKept ==
    ASSUME sc' = sc, NEW n \in Nat, Extends(log, log', n), log \in Seq(EventRecords),
           InputOK, cursor \in Nat, cursor' \in Nat, cursor <= cursor',
           NEW q \in Payloads, Life(q)' = Life(q),
           q \in ungenerated' <=> q \in ungenerated,
           q \in admitted' => q \in admitted, released \subseteq released',
           Ordered(q), SoFar(q)
    PROVE  Ordered(q)' /\ SoFar(q)'
<1>1. \A i \in Life(q) : i \in Nat /\ log'[i] = log[i]
  BY LifeExtended
<1>2. Ordered(q)'
  BY <1>1 DEF Ordered
<1>3. \A i \in Life(q) : log[i].at \in Nat
  BY LifeTimes
<1>4. Object(q)' = Object(q) /\ Object(q).ready \in Nat
  BY ObjectTypes DEF Object
<1>5. \A i \in Life(q) : log'[i].kind # "OBJECT_RELEASED" =>
                            log'[i].at <= Object(q).ready \/ log'[i].at <= cursor'
  BY <1>1, <1>3, <1>4 DEF SoFar
<1>6. SoFar(q)'
  BY <1>1, <1>4, <1>5 DEF SoFar
<1> QED
  BY <1>2, <1>6

\* More of a payload that was generated and neither rejected nor released: it is
\* sent, later than all that is told of it, or at last released.
LEMMA LifeGoesOn ==
    ASSUME NEW n \in Nat, Extends(log, log', n), NEW q \in Payloads, NEW M,
           Life(q)' = Life(q) \cup M, M \subseteq Len(log) + 1 .. Len(log) + n,
           \E i \in Life(q) : log[i].kind = "OBJECT_GENERATED",
           \A i \in Life(q) : log[i].kind \notin {"OBJECT_REJECTED", "OBJECT_RELEASED"},
           \A i \in M : log'[i].kind \notin {"OBJECT_GENERATED", "OBJECT_ADMITTED", "OBJECT_REJECTED"},
           \A i \in M : log'[i].kind = "OBJECT_RELEASED" => M = {i},
           \A i \in M : log'[i].kind # "OBJECT_RELEASED" =>
               /\ \A j \in Life(q) : log[j].at <= log'[i].at
               /\ \A j \in M : j < i => log'[j].at <= log'[i].at,
           Ordered(q)
    PROVE  Ordered(q)'
<1>1. \A i \in Life(q) : i \in Nat /\ i <= Len(log) /\ log'[i] = log[i]
  BY LifeExtended
<1>2. Len(log) \in Nat /\ \A i \in M : i \in Nat /\ Len(log) < i
  BY DEF Extends
<1>3. \A i \in Life(q), j \in M : i < j /\ ~(j < i) /\ i <= j /\ ~(j <= i)
  BY <1>1, <1>2
<1>4. PICK g \in Life(q) : log[g].kind = "OBJECT_GENERATED"
  OBVIOUS
<1> SUFFICES ASSUME NEW i \in Life(q)'
             PROVE  /\ (log'[i].kind = "OBJECT_GENERATED") <=> (\A j \in Life(q)' : i <= j)
                    /\ log'[i].kind \in {"OBJECT_ADMITTED", "OBJECT_REJECTED"} =>
                          \A j \in Life(q)' : j < i => log'[j].kind = "OBJECT_GENERATED"
                    /\ log'[i].kind \in {"OBJECT_REJECTED", "OBJECT_RELEASED"} =>
                          \A j \in Life(q)' : j <= i
                    /\ log'[i].kind # "OBJECT_RELEASED" =>
                          \A j \in Life(q)' : j < i => log'[j].at <= log'[i].at
  BY DEF Ordered
<1>5. CASE i \in Life(q)
  <2>1. (log'[i].kind = "OBJECT_GENERATED") <=> (\A j \in Life(q)' : i <= j)
    BY <1>1, <1>3, <1>5 DEF Ordered
  <2>2. log'[i].kind \in {"OBJECT_ADMITTED", "OBJECT_REJECTED"} =>
            \A j \in Life(q)' : j < i => log'[j].kind = "OBJECT_GENERATED"
    BY <1>1, <1>3, <1>5 DEF Ordered
  <2>3. log'[i].kind \notin {"OBJECT_REJECTED", "OBJECT_RELEASED"}
    BY <1>1, <1>5
  <2>4. \A j \in Life(q)' : j < i => log'[j].at <= log'[i].at
    BY <1>1, <1>3, <1>5, <2>3 DEF Ordered
  <2> QED
    BY <2>1, <2>2, <2>3, <2>4
<1>6. CASE i \in M
  <2>1. log'[i].kind # "OBJECT_GENERATED" /\ ~(i <= g) /\ g \in Life(q)'
    BY <1>3, <1>4, <1>6
  <2>2. log'[i].kind \notin {"OBJECT_ADMITTED", "OBJECT_REJECTED"}
    BY <1>6
  <2>3. log'[i].kind = "OBJECT_RELEASED" => \A j \in Life(q)' : j <= i
    BY <1>1, <1>2, <1>6
  <2>4. log'[i].kind # "OBJECT_RELEASED" => \A j \in Life(q)' : j < i => log'[j].at <= log'[i].at
    BY <1>1, <1>6
  <2> QED
    BY <2>1, <2>2, <2>3, <2>4
<1> QED
  BY <1>5, <1>6

\* Each step keeps the record of each payload's life in order.
LEMMA LifeStep ==
    ASSUME InputOK, TypeOK, TypeOK', Position, Course, CompleteObjectsLeave,
           RecorderBooks, LifeSoFar, LifeInOrder, [Next]_vars
    PROVE  LifeSoFar' /\ LifeInOrder'
<1> DEFINE Other == {"TEST_DELIVERY_INGESTED", "RELEASE_HELD"}
           New(q, n) == {i \in Len(log) + 1 .. Len(log) + n :
                            log'[i].key = q /\ log'[i].kind \notin Other}
<1>0. /\ sc' = sc /\ log \in Seq(EventRecords) /\ cursor \in Nat /\ cursor' \in Nat
      /\ cursor <= cursor' /\ admitted \cap ungenerated = {} /\ due \cap released = {}
  BY ScenarioFixed, CursorAdvances DEF TypeOK, RecorderBooks
<1>1. \A q \in Payloads : Ordered(q) /\ SoFar(q)
  BY DEF LifeInOrder, LifeSoFar, Ordered, SoFar
<1>2. ASSUME \A q \in Payloads : Ordered(q)' /\ SoFar(q)' PROVE LifeSoFar' /\ LifeInOrder'
  <2>1. LifeInOrder'
    BY <1>2 DEF LifeInOrder, Ordered
  <2>2. LifeSoFar'
    BY <1>2 DEF LifeSoFar, SoFar
  <2> QED
    BY <2>1, <2>2
<1>3. \A q \in Payloads : \A i \in Life(q) : log[i].at \in Nat
  BY <1>0, LifeTimes
<1>4. ASSUME NEW n \in Nat, Extends(log, log', n), NEW q \in Payloads
      PROVE  /\ Life(q)' = Life(q) \cup New(q, n)
             /\ \A i \in Life(q) : i \in Nat /\ i <= Len(log) /\ log'[i] = log[i]
  BY <1>4, LifeExtended
<1>5. Len(log) \in Nat /\ Len(log) + 1 .. Len(log) + 0 = {}
      /\ Len(log) + 1 .. Len(log) + 1 = {Len(log) + 1}
      /\ Len(log) + 1 .. Len(log) + 2 = {Len(log) + 1, Len(log) + 2}
      /\ Len(log) + 1 .. Len(log) + 3 = {Len(log) + 1, Len(log) + 2, Len(log) + 3}
  <2>1. Len(log) \in Nat
    BY <1>0
  <2> QED
    BY <2>1
<1> HIDE DEF New
<1>6. ASSUME NEW n \in Nat, Extends(log, log', n), NEW q \in Payloads, New(q, n) = {},
             q \in ungenerated' <=> q \in ungenerated,
             q \in admitted' => q \in admitted, released \subseteq released'
      PROVE  Ordered(q)' /\ SoFar(q)'
  <2>1. Life(q)' = Life(q)
    BY <1>4, <1>6
  <2> QED
    BY <1>0, <1>1, <1>6, <2>1, LifeKept
<1>7. CASE UNCHANGED <<log, admitted, released, ungenerated>>
  <2>1. Extends(log, log', 0)
    BY <1>0, <1>7 DEF Extends
  <2>2. \A q \in Payloads : New(q, 0) = {}
    BY <1>5 DEF New
  <2> QED
    BY <1>2, <1>6, <1>7, <2>1, <2>2
<1>8. ASSUME NEW p \in Payloads, IngestDelivery(p) PROVE LifeSoFar' /\ LifeInOrder'
  <2>1. Extends(log, log', 1) /\ log'[Len(log) + 1].kind = "TEST_DELIVERY_INGESTED"
    BY <1>0, <1>8, DeliveryLogged
  <2>2. UNCHANGED <<admitted, released, ungenerated>>
    BY <1>8 DEF IngestDelivery, recorder
  <2>3. \A q \in Payloads : New(q, 1) = {}
    BY <1>5, <2>1 DEF New
  <2> QED
    BY <1>2, <1>6, <2>1, <2>2, <2>3
<1>9. ASSUME NEW p \in Payloads, Release(p) PROVE LifeSoFar' /\ LifeInOrder'
  <2> DEFINE m == Len(log) + 1
  <2>1. /\ Extends(log, log', 1) /\ log'[m].key = p
        /\ \/ log'[m].kind = "OBJECT_RELEASED" /\ released' = released \cup {p}
           \/ log'[m].kind = "RELEASE_HELD" /\ UNCHANGED released
        /\ p \in due /\ UNCHANGED <<cursor, ungenerated, admitted>>
    BY <1>0, <1>9, ReleaseLogged
  <2>2. p \in admitted /\ p \notin ungenerated /\ p \notin released
    BY <1>0, <2>1 DEF Position
  <2>3. ASSUME NEW q \in Payloads, q # p \/ log'[m].kind = "RELEASE_HELD"
        PROVE  Ordered(q)' /\ SoFar(q)'
    <3>1. New(q, 1) = {}
      BY <1>5, <2>1, <2>3 DEF New
    <3> QED
      BY <1>6, <2>1, <3>1
  <2>4. ASSUME log'[m].kind = "OBJECT_RELEASED" PROVE Ordered(p)' /\ SoFar(p)'
    <3>1. New(p, 1) = {m} /\ {m} \subseteq Len(log) + 1 .. Len(log) + 1
      BY <1>5, <2>1, <2>4 DEF New
    <3>2. /\ Life(p)' = Life(p) \cup {m}
          /\ \A i \in Life(p) : log'[i] = log[i]
      BY <1>4, <2>1, <3>1
    <3>3. /\ \E i \in Life(p) : log[i].kind = "OBJECT_GENERATED"
          /\ \A i \in Life(p) : log[i].kind \notin {"OBJECT_REJECTED", "OBJECT_RELEASED"}
      BY <1>1, <2>2 DEF SoFar
    <3> HIDE DEF m
    <3>4. Ordered(p)'
      <4> DEFINE M == {m}
      <4>1. /\ Life(p)' = Life(p) \cup M /\ M \subseteq Len(log) + 1 .. Len(log) + 1
            /\ \A i \in M : log'[i].kind = "OBJECT_RELEASED" /\ M = {i}
        BY <2>4, <3>1, <3>2
      <4> HIDE DEF M
      <4>2. 1 \in Nat /\ Extends(log, log', 1) /\ Ordered(p)
        BY <1>1, <2>1
      <4> QED
        BY <3>3, <4>1, <4>2, LifeGoesOn
    <3>5. p \in released' /\ Object(p)' = Object(p)
      BY <1>0, <2>1, <2>4 DEF Object
    <3>6. SoFar(p)'
      BY <1>1, <2>1, <2>2, <2>4, <3>2, <3>3, <3>5 DEF SoFar
    <3> QED
      BY <3>4, <3>6
  <2> QED
    BY <1>2, <2>1, <2>3, <2>4
<1>10. ASSUME NEW p \in Payloads, Generate(p) PROVE LifeSoFar' /\ LifeInOrder'
  <2> DEFINE m == Len(log) + 1
             r == Len(log) + 2
  <2>1. /\ log'[m].kind = "OBJECT_GENERATED" /\ log'[m].key = p
        /\ log'[m].at = instant /\ instant = Object(p).ready
        /\ \/ Extends(log, log', 1) /\ admitted' = admitted \cup {p}
           \/ /\ Extends(log, log', 2) /\ log'[r].key = p /\ log'[r].at = instant
              /\ \/ log'[r].kind = "OBJECT_ADMITTED" /\ admitted' = admitted \cup {p}
                 \/ log'[r].kind = "OBJECT_REJECTED" /\ admitted' = admitted
        /\ p \in ungenerated /\ ungenerated' = ungenerated \ {p}
        /\ UNCHANGED <<cursor, released>>
    BY <1>0, <1>10, GenerateLogged
  <2>2. Life(p) = {} /\ p \notin admitted
    BY <1>0, <1>1, <2>1 DEF SoFar
  <2>3. ASSUME NEW q \in Payloads, q # p PROVE Ordered(q)' /\ SoFar(q)'
    <3>1. /\ Extends(log, log', 1) => New(q, 1) = {}
          /\ Extends(log, log', 2) => New(q, 2) = {} \/ log'[r].key # p
      BY <1>5, <2>1, <2>3 DEF New
    <3>2. /\ q \in ungenerated' <=> q \in ungenerated
          /\ q \in admitted' => q \in admitted
      BY <2>1, <2>3
    <3>3. CASE Extends(log, log', 1)
      BY <1>6, <2>1, <3>1, <3>2, <3>3
    <3>4. CASE Extends(log, log', 2) /\ log'[r].key = p
      BY <1>6, <2>1, <3>1, <3>2, <3>4
    <3> QED
      BY <2>1, <3>3, <3>4
  <2>4. instant \in Nat /\ m \in Nat /\ r \in Nat /\ m < r /\ Object(p)' = Object(p)
    <3>1. instant \in Nat
      BY DEF TypeOK
    <3>2. Object(p)' = Object(p)
      BY <1>0 DEF Object
    <3>3. m \in Nat /\ r \in Nat /\ m < r
      BY <1>5
    <3> QED
      BY <3>1, <3>2, <3>3
  <2>5. CASE Extends(log, log', 1) /\ admitted' = admitted \cup {p}
    <3>1. New(p, 1) = {m}
      BY <1>5, <2>1 DEF New
    <3>2. Life(p)' = {m}
      BY <1>4, <2>2, <2>5, <3>1
    <3> HIDE DEF m, r
    <3>3. Ordered(p)'
      BY <2>1, <2>4, <3>2 DEF Ordered
    <3>4. SoFar(p)'
      BY <2>1, <2>4, <3>2 DEF SoFar
    <3> QED
      BY <1>2, <2>3, <3>3, <3>4
  <2>6. CASE /\ Extends(log, log', 2) /\ log'[r].key = p /\ log'[r].at = instant
             /\ \/ log'[r].kind = "OBJECT_ADMITTED" /\ admitted' = admitted \cup {p}
                \/ log'[r].kind = "OBJECT_REJECTED" /\ admitted' = admitted
    <3>1. New(p, 2) = {m, r}
      BY <1>5, <2>1, <2>6 DEF New
    <3>2. Life(p)' = {m, r}
      BY <1>4, <2>2, <2>6, <3>1
    <3> HIDE DEF m, r
    <3>3. Ordered(p)'
      BY <2>1, <2>4, <2>6, <3>2 DEF Ordered
    <3>4. SoFar(p)'
      BY <2>1, <2>2, <2>4, <2>6, <3>2 DEF SoFar
    <3> QED
      BY <1>2, <2>3, <3>3, <3>4
  <2> QED
    BY <2>1, <2>5, <2>6
<1>11. ASSUME NEW p \in Payloads, OpenAllocation(p) PROVE LifeSoFar' /\ LifeInOrder'
  <2> DEFINE a == Len(log) + 1
             b == Len(log) + 2
             c == Len(log) + 3
             M == {a, b, c}
  <2>1. /\ Extends(log, log', 3)
        /\ log'[a].kind = "ALLOCATION_OPEN" /\ log'[b].kind = "ALLOCATION_CLOSE"
        /\ log'[c].kind = "MODELED_TX_PROGRESS_AT_TX_END"
        /\ log'[a].at = cursor /\ log'[b].at = cursor' /\ log'[c].at = cursor'
        /\ UNCHANGED <<ungenerated, admitted, released>>
    BY <1>0, <1>11, AllocationLogged
  <2>2. log'[a].key = p /\ log'[b].key = p /\ log'[c].key = p
    <3>1. \A i \in 1 .. 3 : log'[Len(log) + i].key = p
      BY <1>0, <1>11, AllocationLogged
    <3> QED
      BY <3>1
  <2>3. /\ p \in admitted /\ p \notin released /\ p \notin ungenerated
        /\ Object(p).ready <= cursor /\ Object(p).ready \in Nat
    <3>1. p \in admitted /\ remaining[p] > 0 /\ Object(p).ready <= cursor
      BY <1>11, AllocationFacts DEF Eligible
    <3>2. p \notin released
      BY <3>1 DEF CompleteObjectsLeave
    <3> QED
      BY <1>0, <3>1, <3>2, ObjectTypes
  <2>4. ASSUME NEW q \in Payloads, q # p PROVE Ordered(q)' /\ SoFar(q)'
    <3>1. New(q, 3) = {}
      BY <1>5, <2>2, <2>4 DEF New
    <3> QED
      BY <1>6, <2>1, <3>1
  <2>5. New(p, 3) = M /\ M \subseteq Len(log) + 1 .. Len(log) + 3
    BY <1>5, <2>1, <2>2 DEF New
  <2>6. Life(p)' = Life(p) \cup M /\ \A i \in Life(p) : log'[i] = log[i]
    BY <1>4, <2>1, <2>5
  <2>7. /\ \E i \in Life(p) : log[i].kind = "OBJECT_GENERATED"
        /\ \A i \in Life(p) : /\ log[i].kind \notin {"OBJECT_REJECTED", "OBJECT_RELEASED"}
                              /\ log[i].at \in Nat /\ log[i].at <= cursor
    BY <1>0, <1>1, <1>3, <2>3 DEF SoFar
  <2>8. a \in Nat /\ b \in Nat /\ c \in Nat /\ a < b /\ b < c /\ M = {a, b, c}
    BY <1>5
  <2>9. /\ \A i \in M : log'[i].kind \notin {"OBJECT_GENERATED", "OBJECT_ADMITTED",
                                             "OBJECT_REJECTED", "OBJECT_RELEASED"}
        /\ \A i \in M : log'[i].at \in {cursor, cursor'} /\ cursor <= log'[i].at
    BY <1>0, <2>1
  <2> HIDE DEF a, b, c
  <2>10. \A i \in M : /\ \A j \in Life(p) : log[j].at <= log'[i].at
                      /\ \A j \in M : j < i => log'[j].at <= log'[i].at
    <3> SUFFICES ASSUME NEW i \in M
                 PROVE  /\ \A j \in Life(p) : log[j].at <= log'[i].at
                        /\ \A j \in M : j < i => log'[j].at <= log'[i].at
      OBVIOUS
    <3>1. cursor \in Nat /\ log'[i].at \in Int /\ cursor <= log'[i].at
      BY <1>0, <2>9
    <3>2. \A j \in Life(p) : log[j].at <= log'[i].at
      BY <2>7, <3>1
    <3>3. i = a \/ log'[i].at = cursor'
      BY <2>1, <2>8
    <3>4. \A j \in M : j < i => log'[j].at <= log'[i].at
      BY <1>0, <2>8, <2>9, <3>1, <3>3
    <3> QED
      BY <3>2, <3>4
  <2> HIDE DEF M
  <2>11. Ordered(p)'
    BY <1>1, <2>1, <2>5, <2>6, <2>7, <2>9, <2>10, LifeGoesOn
  <2>12. Object(p)' = Object(p)
    BY <1>0 DEF Object
  <2>13. SoFar(p)'
    BY <1>0, <1>1, <2>1, <2>3, <2>6, <2>7, <2>9, <2>12 DEF SoFar
  <2> QED
    BY <1>2, <2>4, <2>11, <2>13
<1> QED
  BY <1>7, <1>8, <1>9, <1>10, <1>11, LogChanges

-----------------------------------------------------------------------------
(***************************************************************************)
(* The invariant, and what is read off from it.                            *)
(***************************************************************************)

\* Before anything has happened the books are empty.
LEMMA FreshBooks == InputOK /\ Fresh => Books
<1> SUFFICES ASSUME InputOK, Fresh PROVE Books
  OBVIOUS
<1>1. Inductive /\ InputOK
  BY FreshInductive
<1>2. /\ pc = "next" /\ ses = 0 /\ cursor = 0 /\ due = {} /\ ungenerated = Payloads
      /\ remaining = [p \in Payloads |-> Object(p).size]
      /\ completion = [p \in Payloads |-> None] /\ acknowledged = [p \in Payloads |-> None]
      /\ admitted = {} /\ released = {} /\ log = <<>> /\ allocations = <<>> /\ stranded = 0
      /\ occupancy = (IF Store.enabled THEN Store.initial ELSE 0)
      /\ tally = Totals(occupancy, Breach(occupancy), 0, 0)
  BY DEF Fresh
<1>3. /\ Len(allocations) = 0 /\ DOMAIN allocations = {} /\ DOMAIN log = {}
      /\ Records(allocations) = {} /\ Records(log) = {} /\ log \in Seq(EventRecords)
  BY <1>2 DEF Records
<1>4. /\ DOMAIN sc.sessions = 1 .. Len(sc.sessions) /\ Len(sc.sessions) \in Nat
      /\ SessionsOK(sc.sessions) /\ StorageOK(Store)
  BY <1>1, ScenarioTypes DEF Store
<1>5. Course
  BY <1>2, <1>4 DEF Course
<1>6. BytesConserved /\ WholeChunks
  <2>1. \A p \in Payloads : Object(p).size \in Nat /\ remaining[p] = Object(p).size
    BY <1>1, <1>2, ObjectTypes
  <2>2. \A p \in Payloads : Sum(Sent(p), 0) = 0
    BY SumNext
  <2>3. \A p \in Payloads : Sum(Sent(p), Len(allocations)) + remaining[p] = Object(p).size
    BY <1>3, <2>1, <2>2
  <2>4. BytesConserved
    BY <1>3, <2>3 DEF BytesConserved
  <2>5. WholeChunks
    <3> SUFFICES ASSUME NEW p \in Payloads, ~IsAtomic(p)
                 PROVE  (Object(p).size - remaining[p]) % Object(p).chunk = 0
      BY DEF WholeChunks
    <3>1. Object(p).chunk \in Nat \ {0} /\ Object(p).size - remaining[p] = 0
      BY <1>1, <2>1, ObjectTypes DEF IsAtomic
    <3> DEFINE chunk == Object(p).chunk
    <3> HIDE DEF chunk
    <3>2. chunk \in Nat \ {0} => 0 % chunk = 0
      OBVIOUS
    <3> QED
      BY <3>1, <3>2 DEF chunk
  <2> QED
    BY <2>4, <2>5
<1>7. CapacityBooks
  <2>1. StillOpen = 0 /\ Lower(ses, Len(sc.sessions)) = 0
    BY <1>2, <1>4 DEF StillOpen, Lower
  <2>2. Sum(Granted, 0) = 0 /\ Sum(Capacities, 0) = 0 /\ \A i : Sum(GrantedIn(i), 0) = 0
    BY SumNext
  <2>3. \A i \in DOMAIN sc.sessions : sc.sessions[i].cap \in Nat /\ i # 0
    BY <1>4 DEF SessionsOK, SessionOK
  <2> QED
    BY <1>2, <1>3, <2>1, <2>2, <2>3 DEF CapacityBooks
<1>8. RecorderBooks
  <2>1. StorageEvents = {} /\ Levels = {Store.initial}
    BY <1>3 DEF StorageEvents, Levels
  <2>2. SumStore({}) = 0 /\ Payloads \ (ungenerated \cup admitted) = {}
    BY <1>1, <1>2, StoreOfNothing
  <2>3. /\ tally.peak = occupancy /\ tally.breach = Breach(occupancy)
        /\ tally.freed = 0 /\ tally.refused = 0
    <3>1. tally = Totals(occupancy, Breach(occupancy), 0, 0)
      BY <1>2
    <3> QED
      BY <3>1 DEF Totals
  <2>4. CASE Store.enabled
    <3>1. occupancy = Store.initial /\ Store.initial \in Nat
      BY <1>2, <1>4, <2>4 DEF StorageOK
    <3>2. Breach(occupancy) = Higher(0, tally.peak - Store.usable)
      BY <2>3, <2>4 DEF Breach
    <3>3. /\ occupancy = Store.initial + SumStore(admitted) - SumStore(released)
          /\ tally.freed = SumStore(released)
          /\ tally.refused = SumStore(Payloads \ (ungenerated \cup admitted))
      <4>1. SumStore(admitted) = 0 /\ SumStore(released) = 0
        BY <1>2, <2>2
      <4>2. SumStore(Payloads \ (ungenerated \cup admitted)) = 0
        BY <2>2
      <4> QED
        BY <2>3, <3>1, <4>1, <4>2
    <3>4. occupancy \in Levels /\ tally.peak \in Levels /\ \A l \in Levels : l <= tally.peak
      BY <2>1, <2>3, <3>1
    <3>5. admitted \cap ungenerated = {} /\ due \cap released = {}
      BY <1>2
    <3> QED
      BY <1>3, <2>3, <2>4, <3>2, <3>3, <3>4, <3>5 DEF RecorderBooks
  <2>5. CASE ~Store.enabled
    BY <1>2, <1>3, <2>1, <2>5 DEF RecorderBooks
  <2> QED
    BY <2>4, <2>5
<1>9. AcknowledgementsHeeded
  BY <1>2 DEF AcknowledgementsHeeded
<1>10. \A p \in Payloads : Life(p) = {}
  BY <1>3 DEF Life
<1>11. LifeSoFar /\ LifeInOrder
  BY <1>2, <1>10 DEF LifeSoFar, LifeInOrder
<1> QED
  BY <1>1, <1>5, <1>6, <1>7, <1>8, <1>9, <1>11 DEF Books

\* Every step keeps the books.
LEMMA BooksStep ==
    ASSUME Books, [Next]_vars
    PROVE  Books'
<1> USE DEF Books, Inductive
<1>1. Inductive'
  BY InductiveStep
<1>2. Course'
  BY CourseStep
<1>3. BytesConserved' /\ WholeChunks'
  BY BytesStep
<1>4. CapacityBooks'
  BY CapacityStep
<1>5. RecorderBooks'
  BY RecorderStep
<1>6. AcknowledgementsHeeded'
  BY <1>1, AcknowledgementStep
<1>7. LifeSoFar' /\ LifeInOrder'
  BY <1>1, LifeStep
<1> QED
  BY <1>1, <1>2, <1>3, <1>4, <1>5, <1>6, <1>7

\* The books are right in every reachable state of the reducer.
LEMMA BooksInvariant == Spec => []Books
<1>1. Init => Books
  BY InitFresh, FreshBooks
<1>2. Books /\ [Next]_vars => Books'
  BY BooksStep
<1> QED
  BY <1>1, <1>2, PTL DEF Spec

\* Whatever the scenario, the queue sends the bytes of each payload in order and
\* once, from chunk boundaries, and `remaining` is what is left to send.
THEOREM Conservation == Spec => []BytesConserved
<1>1. Books => BytesConserved
  BY DEF Books
<1> QED
  BY <1>1, BooksInvariant, PTL

\* What is granted in a session and what is stranded fits the capacity.
LEMMA CapacityKept == Books => CapacityNotExceeded
<1> SUFFICES ASSUME Books PROVE CapacityNotExceeded
  OBVIOUS
<1>1. /\ InputOK /\ TypeOK /\ Course /\ CapacityBooks
  BY DEF Books, Inductive
<1>2. /\ DOMAIN sc.sessions = 1 .. Len(sc.sessions) /\ Len(sc.sessions) \in Nat
      /\ \A i \in DOMAIN sc.sessions : sc.sessions[i].cap \in Nat
  BY <1>1, ScenarioTypes DEF SessionsOK, SessionOK
<1>3. available \in Nat /\ stranded \in Nat /\ StillOpen \in Nat
  BY <1>1 DEF TypeOK, StillOpen
<1>4. /\ \A i \in DOMAIN sc.sessions : Sum(GrantedIn(i), Len(allocations)) \in Nat
      /\ Sum(Granted, Len(allocations)) \in Nat
  BY <1>1, <1>2, SumTypes
<1>5. \A i \in DOMAIN sc.sessions :
          Sum(GrantedIn(i), Len(allocations)) <= sc.sessions[i].cap
  <2> TAKE i \in DOMAIN sc.sessions
  <2>1. Sum(GrantedIn(i), Len(allocations)) + (IF i = ses THEN StillOpen ELSE 0)
            <= sc.sessions[i].cap
    BY <1>1, Zenon DEF CapacityBooks
  <2> QED
    BY <1>2, <1>3, <1>4, <2>1
<1>6. ASSUME pc = "done"
      PROVE  Sum(Granted, Len(allocations)) + stranded <= Sum(Capacities, Len(sc.sessions))
  <2>1. ses = Len(sc.sessions) + 1
    BY <1>1, <1>6 DEF Course
  <2>2. Lower(ses, Len(sc.sessions)) = Len(sc.sessions) /\ StillOpen = 0
    BY <1>2, <2>1 DEF Lower, StillOpen
  <2>3. Sum(Granted, Len(allocations)) + stranded + 0 <= Sum(Capacities, Len(sc.sessions))
    <3>1. Sum(Granted, Len(allocations)) + stranded + StillOpen
              <= Sum(Capacities, Lower(ses, Len(sc.sessions)))
      BY <1>1, Zenon DEF CapacityBooks
    <3> QED
      BY <2>2, <3>1
  <2> QED
    BY <1>3, <1>4, <2>3
<1> QED
  BY <1>5, <1>6 DEF CapacityNotExceeded

\* _run_session never grants more than the capacity of the session, and run
\* never counts a byte of capacity both as granted and as stranded.
THEOREM Capacity == Spec => []CapacityNotExceeded
BY CapacityKept, BooksInvariant, PTL

\* The recorder's figures are those of its events.
LEMMA OccupancyKept == Books => OccupancyAccounted
<1> SUFFICES ASSUME Books PROVE OccupancyAccounted
  OBVIOUS
<1>1. InputOK /\ TypeOK /\ RecorderBooks /\ CompleteObjectsLeave
  BY DEF Books, Inductive
<1>2. CASE ~Store.enabled
  BY <1>1, <1>2 DEF RecorderBooks, OccupancyAccounted
<1>3. CASE Store.enabled
  <2>1. /\ occupancy = Store.initial + SumStore(admitted) - SumStore(released)
        /\ tally.peak \in Levels /\ \A l \in Levels : l <= tally.peak
        /\ tally.breach = Higher(0, tally.peak - Store.usable)
        /\ tally.freed = SumStore(released)
        /\ tally.refused = SumStore(Payloads \ (ungenerated \cup admitted))
        /\ log \in Seq(EventRecords)
    BY <1>1, <1>3 DEF RecorderBooks
  <2>2. StorageOK(Store)
    BY <1>1, ScenarioTypes DEF Store
  <2>3. Store.initial \in Nat /\ Store.usable \in Nat
    BY <2>2 DEF StorageOK
  <2>4. admitted \in SUBSET Payloads /\ released \in SUBSET admitted /\ released \in SUBSET Payloads
    BY <1>1 DEF TypeOK, CompleteObjectsLeave
  <2>5. /\ SumStore(admitted) \in Nat /\ SumStore(released) \in Nat
        /\ SumStore(released) <= SumStore(admitted)
    BY <1>1, <2>4, StoreTypes, StoreOfFewer
  <2>6. occupancy >= 0
    BY <2>1, <2>3, <2>5
  <2>7. \A l \in Levels : l \in Int
    BY <2>1, <2>3, LevelTypes
  <2>8. tally.breach \in {0} \cup {l - Store.usable : l \in Levels}
    BY <2>1 DEF Higher
  <2>9. \A l \in Levels : l - Store.usable <= tally.breach
    BY <2>1, <2>3, <2>7 DEF Higher
  <2> QED
    BY <1>3, <2>1, <2>6, <2>8, <2>9 DEF OccupancyAccounted
<1> QED
  BY <1>2, <1>3

\* The recorder's occupancy, peak, breach, freed and refused bytes are what the
\* admissions, rejections and releases of the event log make them, for every
\* finite set of payloads and every reserve.
THEOREM Occupancy == Spec => []OccupancyAccounted
BY OccupancyKept, BooksInvariant, PTL

\* An acknowledgement that nothing heeds any more is settled.
LEMMA SettlementKept == Books => AcknowledgedSettled
<1> SUFFICES ASSUME Books, pc = "done", Store.enabled, Store.trigger # "NEVER",
                    NEW p \in admitted,
                    acknowledged[p] # None, acknowledged[p] > Object(p).ready
             PROVE  p \in released \/ "RELEASE_HELD_INCOMPLETE_OBJECT" \in notes[p]
  BY DEF AcknowledgedSettled
<1>1. InputOK /\ Course /\ AcknowledgementsHeeded
  BY DEF Books, Inductive
<1>2. StorageOK(Store)
  BY <1>1, ScenarioTypes DEF Store
<1>3. Store.trigger = "TX_END" \/ Store.trigger = "ACKED"
  BY <1>2 DEF StorageOK, Triggers
<1>4. due = {}
  BY <1>1 DEF Course
<1> QED
  BY <1>1, <1>3, <1>4 DEF AcknowledgementsHeeded

\* An acknowledgement _ingest_deliveries has recorded of an object that exists is
\* settled by the time run returns: the object left the recorder, or its result
\* tells why it was held.
THEOREM Settlement == Spec => []AcknowledgedSettled
BY SettlementKept, BooksInvariant, PTL

\* The events of a payload tell its life in the order it is lived.
THEOREM LifeTold == Spec => []LifeInOrder
<1>1. Books => LifeInOrder
  BY DEF Books
<1> QED
  BY <1>1, BooksInvariant, PTL

-----------------------------------------------------------------------------
(***************************************************************************)
(* What a session leaves.                                                  *)
(***************************************************************************)

\* Only the end of a session leads from serving to the next one.
LEMMA SessionEnds ==
    ASSUME [Next]_vars, pc = "serve", pc' = "next"
    PROVE  EndSession
BY DEF Next, Step, Finished, vars, control, StartSession, EndAdvance, BeginRelease, EndRelease,
       EndInstant, BeginInstant, JumpToReady, Close, IngestDelivery, Release, Generate,
       OpenAllocation

\* A payload that may be sent at the cursor and is granted nothing wants more
\* than the session can give it.
LEMMA TooLarge ==
    ASSUME InputOK, TypeOK, Position, ses \in DOMAIN sc.sessions, NEW p \in Payloads,
           remaining[p] > 0, ~(Grant(p) > 0)
    PROVE  Grantable < (IF IsAtomic(p) THEN remaining[p] ELSE Lower(remaining[p], Object(p).chunk))
<1> DEFINE share == Lower(remaining[p], Grantable)
<1>1. remaining[p] \in Nat /\ Grantable \in Nat /\ Grant(p) \in 0 .. remaining[p]
  BY GrantableBounds, GrantBounds DEF TypeOK
<1>2. Grant(p) = 0
  BY <1>1
<1>3. share # remaining[p]
  BY <1>2 DEF Grant
<1>4. share = Grantable /\ Grantable < remaining[p]
  BY <1>1, <1>3 DEF Lower
<1>5. CASE IsAtomic(p)
  BY <1>4, <1>5
<1>6. CASE ~IsAtomic(p)
  <2> DEFINE chunk == Object(p).chunk
  <2>1. chunk \in Nat \ {0}
    BY <1>6, ObjectTypes DEF IsAtomic
  <2>2. share - (share % chunk) = 0
    BY <1>2, <1>3, <1>6 DEF Grant
  <2>3. share \in Nat
    BY <1>1, <1>4
  <2> HIDE DEF chunk, share
  <2>4. share % chunk \in 0 .. chunk - 1
    BY <2>1, <2>3, Division
  <2>5. share < chunk
    BY <2>1, <2>2, <2>3, <2>4
  <2>6. Grantable < Lower(remaining[p], chunk)
    BY <1>1, <1>4, <2>1, <2>5 DEF Lower
  <2> QED
    BY <1>6, <2>6 DEF chunk
<1> QED
  BY <1>5, <1>6

\* A rate-driven session that ends leaves nothing it could have sent in the time
\* it had left.
LEMMA ExhaustionStep ==
    ASSUME Books, [Next]_vars
    PROVE  SessionExhausted
<1> SUFFICES ASSUME pc = "serve", pc' = "next", ~Session.plan.fixed,
                    NEW t \in cursor .. Session.end - 1, NEW p \in Payloads,
                    remaining[p] # 0, p \in ungenerated \cup admitted, ~(t < Object(p).ready),
                    ~(Object(p).expiry # None /\ Object(p).expiry <= t),
                    ~ \E d \in sc.after : d[2] = p /\ remaining[d[1]] > 0
             PROVE  CouldSend(t) < (IF IsAtomic(p) THEN remaining[p]
                                    ELSE Lower(remaining[p], Object(p).chunk))
  BY DEF SessionExhausted
<1>1. InputOK /\ TypeOK /\ Position /\ Progress /\ Course
  BY DEF Books, Inductive
<1>2. EndSession
  BY SessionEnds
<1>3. ses \in DOMAIN sc.sessions
  BY <1>1 DEF Position
<1>4. /\ cursor \in Nat /\ Session.start \in Nat /\ Session.end \in Nat
      /\ cursor \in Session.start .. Session.end
      /\ available \in Nat /\ remaining[p] \in Nat /\ remaining[p] > 0
      /\ Object(p).ready \in Nat
  <2>1. SessionsOK(sc.sessions)
    BY <1>1, ScenarioTypes
  <2>2. Session.start \in Nat /\ Session.end \in Nat
    BY <1>3, <2>1 DEF SessionsOK, SessionOK, Session
  <2> QED
    BY <1>1, <1>3, <2>2, ObjectTypes DEF TypeOK, Position
<1>5. t \in Nat /\ cursor <= t /\ t < Session.end /\ t \in cursor .. Session.end
  BY <1>4
<1>6. /\ BytesLeft(Session, cursor) \in Nat /\ BytesLeft(Session, t) \in Nat
      /\ BytesLeft(Session, t) <= BytesLeft(Session, cursor)
  <2>1. SessionsOK(sc.sessions)
    BY <1>1, ScenarioTypes
  <2>2. \A c \in Session.start .. Session.end :
           /\ BytesLeft(Session, c) \in Nat
           /\ ~Session.plan.fixed =>
                 \A d \in c .. Session.end : BytesLeft(Session, d) <= BytesLeft(Session, c)
    BY <1>3, <2>1 DEF SessionsOK, SessionOK, Session
  <2>3. t \in Session.start .. Session.end
    BY <1>4, <1>5
  <2> QED
    BY <1>4, <1>5, <2>2, <2>3
<1>7. CouldSend(t) \in Nat /\ Grantable \in Nat /\ CouldSend(t) <= Grantable
  BY <1>4, <1>6 DEF CouldSend, Grantable, Lower
<1>8. Grantable < (IF IsAtomic(p) THEN remaining[p] ELSE Lower(remaining[p], Object(p).chunk))
  <2>1. CASE ~Serving
    <3>1. Grantable = 0
      BY <1>4, <1>5, <1>6, <1>7, <2>1 DEF Serving, Grantable, Lower
    <3>2. ~IsAtomic(p) => Object(p).chunk \in Nat \ {0}
      BY <1>1, ObjectTypes DEF IsAtomic
    <3> QED
      BY <1>4, <3>1, <3>2 DEF Lower
  <2>2. CASE Startable = {} /\ LaterReady = {}
    <3>1. Object(p).ready <= cursor
      <4> SUFFICES ASSUME cursor < Object(p).ready PROVE FALSE
        BY <1>4
      <4>1. Object(p).ready \in cursor + 1 .. Session.end - 1
        BY <1>4, <1>5
      <4>2. Object(p).ready \in LaterReady
        BY <1>4, <4>1 DEF LaterReady
      <4> QED
        BY <2>2, <4>2
    <3>2. p \in admitted
      BY <1>1, <1>4, <3>1 DEF Course
    <3>3. Object(p).expiry = None \/ cursor < Object(p).expiry
      <4>1. Object(p).expiry \in OptionalTime
        BY <1>1, ObjectTypes
      <4> QED
        BY <1>4, <1>5, <4>1 DEF OptionalTime
    <3>4. ASSUME NEW d \in sc.after, d[2] = p
          PROVE  completion[d[1]] # None /\ completion[d[1]] <= cursor
      <4>1. d[1] \in Payloads
        BY <1>1, ScenarioTypes
      <4>2. remaining[d[1]] \in Nat /\ ~(remaining[d[1]] > 0)
        BY <1>1, <3>4, <4>1 DEF TypeOK
      <4>3. remaining[d[1]] = 0
        BY <4>2
      <4> QED
        BY <1>1, <4>1, <4>3 DEF Progress, Course
    <3>5. Eligible(p)
      BY <1>4, <3>1, <3>2, <3>3, <3>4 DEF Eligible
    <3>6. ~(Grant(p) > 0)
      BY <2>2, <3>5 DEF Startable
    <3> QED
      BY <1>1, <1>3, <1>4, <3>6, TooLarge
  <2> QED
    BY <1>2, <2>1, <2>2 DEF EndSession
<1>9. IsAtomic(p) \/ Object(p).chunk \in Nat \ {0}
  BY <1>1, ObjectTypes DEF IsAtomic
<1> QED
  BY <1>4, <1>7, <1>8, <1>9 DEF Lower

\* _run_session never ends a rate-driven session early: at every instant it gives
\* up, each payload is sent, refused, not ready, expired, waiting or too large.
THEOREM Exhaustion == Spec => NothingLeftUnsent
<1>1. Books /\ [Next]_vars => [SessionExhausted]_vars
  BY ExhaustionStep
<1> QED
  BY <1>1, BooksInvariant, PTL DEF Spec, NothingLeftUnsent
=============================================================================
