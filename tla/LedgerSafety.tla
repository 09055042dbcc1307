---------------------------- MODULE LedgerSafety ----------------------------
(***************************************************************************)
(* The safety properties of the reducer that LedgerProofs.tla proves for   *)
(* every scenario, and the inductive invariant that carries the proof.     *)
(***************************************************************************)
EXTENDS Ledger

Records(s) == {s[i] : i \in DOMAIN s}

\* The single transmitter: allocations lie inside their session and follow one
\* another in time, so no two ever overlap.
OneTransmitter ==
    /\ \A a \in Records(allocations) :
          /\ a.start <= a.end
          /\ sc.sessions[a.session].start <= a.start /\ a.end <= sc.sessions[a.session].end
    /\ \A i, j \in DOMAIN allocations : i < j => allocations[i].end <= allocations[j].start

\* An atomic object is sent in one allocation or not at all.
AtomicNotTorn ==
    \A a \in Records(allocations) : IsAtomic(a.key) => a.bytes = Object(a.key).size

\* Nothing is sent that the recorder refused, before it exists, once it has
\* expired, or before everything it must follow is completely sent.
SentOnlyWhenAllowed ==
    \A a \in Records(allocations) :
        /\ a.key \in admitted
        /\ Object(a.key).ready <= a.start
        /\ Object(a.key).expiry # None => a.start < Object(a.key).expiry
        /\ \A d \in sc.after : d[2] = a.key =>
              completion[d[1]] # None /\ completion[d[1]] <= a.start

\* The recorder never holds more than it can, and under a hard reserve never
\* digs into the reserve further than the scenario already did.
OccupancyWithinLimits ==
    Store.enabled =>
        /\ occupancy <= Store.physical
        /\ Store.hard => occupancy <= Higher(Store.usable, Store.initial)

\* Storage is only given back for whole objects that were completely sent, and
\* under TX_END each of them is given back by the time the next is chosen.
CompleteObjectsLeave ==
    /\ \A p \in released : p \in admitted /\ remaining[p] = 0
    /\ (pc = "serve" /\ Store.enabled /\ Store.trigger = "TX_END") =>
          \A p \in admitted : remaining[p] = 0 => p \in released

-----------------------------------------------------------------------------
\* Where the reducer is: inside the session it runs, with an acknowledgement
\* instant for every delivery it still expects, about to visit objects it holds.
Position ==
    /\ pc \in {"serve", "reclaim"} => ses \in DOMAIN sc.sessions
    /\ ses \in DOMAIN sc.sessions => cursor \in Session.start .. Session.end
    /\ undelivered \subseteq {p \in Payloads : sc.ack[p] # None}
    /\ due \subseteq admitted

\* How far each payload is: no more is left than it had, its completion instant is set with its last byte,
\* an object the recorder does not hold is untouched, and so is an atomic one
\* that is not sent.
Progress ==
    \A p \in Payloads :
        /\ remaining[p] <= Object(p).size
        /\ completion[p] # None <=> remaining[p] = 0
        /\ p \notin admitted => remaining[p] = Object(p).size
        /\ IsAtomic(p) => remaining[p] \in {0, Object(p).size}

\* Under TX_END a complete object is on its way out of the recorder: it is
\* released, or the release that follows its last allocation is still to visit it.
LeavingUnderTxEnd ==
    (Store.enabled /\ Store.trigger = "TX_END") =>
        \A p \in admitted : remaining[p] = 0 => \/ p \in released
                                                \/ pc = "reclaim" /\ p \in due

\* Every allocation is behind the cursor and belongs to a session begun.
Behind ==
    \A a \in Records(allocations) :
        /\ a.session <= ses /\ a.session \in DOMAIN sc.sessions
        /\ a.end <= cursor

\* The scenario is one that validation lets through, with sessions the scheduler makes.
InputOK == ScenarioOK(sc) /\ SessionsOK(sc.sessions)

\* The inductive invariant of LedgerProofs.tla.
Inductive ==
    /\ InputOK /\ TypeOK /\ Position /\ Progress /\ Behind
    /\ OneTransmitter /\ AtomicNotTorn /\ SentOnlyWhenAllowed
    /\ OccupancyWithinLimits /\ CompleteObjectsLeave /\ LeavingUnderTxEnd
=============================================================================
