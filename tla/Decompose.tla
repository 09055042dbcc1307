----------------------------- MODULE Decompose -----------------------------
(***************************************************************************)
(* The typed catalog rows of an input, as application/decompose.py derives *)
(* them: what the run store of either tier writes next to the snapshot.    *)
(*                                                                         *)
(* A stable key is a number, and numbers are ordered as the texts are.     *)
(* Columns that are only copied are one value: `detail` of a station's     *)
(* capacity, of a payload and of an orbit.  An input is a record           *)
(*   fixture, question, window, mode, policy, source, orbit, enabled,      *)
(*   stations  [key -> [rank, site, capacity]],                            *)
(*   payloads  [key -> [chunk, media, sequence, detail]],                  *)
(*   after     the dependencies, <<predecessor, successor>> pairs.         *)
(***************************************************************************)
EXTENDS Optional, FiniteSets

\* ProfileKind, numbered as its values sort.
KindRank == [COMMUNICATION |-> 1, GROUND_STATION |-> 2, ORBIT |-> 3,
             PAYLOAD_TYPE |-> 4, POLICY |-> 5, SPACECRAFT |-> 6]

\* The elements of a set in a strict order (SetToSortSeq tries every sequence of them).
Ordered(set, Before(_, _)) ==
    [i \in 1 .. Cardinality(set) |->
        CHOOSE x \in set : Cardinality({y \in set : Before(y, x)}) = i - 1]

Profile(kind, key, payload) == [kind |-> kind, key |-> key, payload |-> payload]

\* The whole-contact contract has no rate semantics; the segments of a rate
\* come first, by ordinal, and the time reserves after them, by start.
CommunicationPayload(capacity) ==
    LET fixed    == capacity.provider = "FIXED_CAPACITY_PER_CONTACT"
        byOrder  == Ordered(capacity.segments, LAMBDA a, b : a.ordinal < b.ordinal)
        byStart  == Ordered(capacity.reserves, LAMBDA a, b : a.start < b.start)
    IN  [provider  |-> capacity.provider,
         bytes     |-> capacity.bytes,
         semantics |-> IF fixed THEN None ELSE capacity.semantics,
         reserve   |-> IF capacity.byteReserve # 0 THEN "BYTE"
                       ELSE IF byStart # <<>> THEN "TIME" ELSE "NONE",
         detail    |-> capacity.detail,
         timeline  |-> byOrder \o byStart]

\* Payloads of one chunk size share one type.
PayloadTypeKey(payload) ==
    IF payload.chunk = None THEN <<"PT-ATOMIC">> ELSE <<"PT-CHUNK", payload.chunk>>

PayloadTypePayload(payload) == [media |-> payload.media, chunk |-> payload.chunk]

\* An orbit is named by the digest of its columns.
OrbitProfiles(s) ==
    IF s.source # "ORBIT_DERIVED" \/ s.orbit = None THEN {}
    ELSE {Profile("ORBIT", <<"ORB", s.orbit>>, [orbit |-> s.orbit])}

PolicyProfiles(s) ==
    IF s.mode # "QUEUE_AWARE" \/ s.policy = None THEN {}
    ELSE {Profile("POLICY", <<"POLICY", s.policy>>, [policy |-> s.policy])}

SpacecraftKey(s)      == <<"SC", s.fixture>>
GroundStationKey(k)   == <<"GS", k>>
CommunicationKey(k)   == <<"COMM", k>>

StationProfiles(s) ==
    UNION {{Profile("GROUND_STATION", GroundStationKey(k), s.stations[k].site),
            Profile("COMMUNICATION", CommunicationKey(k),
                    CommunicationPayload(s.stations[k].capacity))}
           : k \in DOMAIN s.stations}

\* Of the payloads of one type the first by key describes it.
TypeProfiles(s) ==
    {Profile("PAYLOAD_TYPE", PayloadTypeKey(s.payloads[k]), PayloadTypePayload(s.payloads[k]))
     : k \in {k \in DOMAIN s.payloads :
                ~\E j \in DOMAIN s.payloads :
                    j < k /\ PayloadTypeKey(s.payloads[j]) = PayloadTypeKey(s.payloads[k])}}

ProfilesOf(s) ==
    {Profile("SPACECRAFT", SpacecraftKey(s), [transmitter |-> "TX1"])}
        \cup OrbitProfiles(s) \cup PolicyProfiles(s) \cup StationProfiles(s) \cup TypeProfiles(s)

\* The number a key sorts by within its kind: an atomic type before any chunk.
KeyRank(key) == IF key[1] = "PT-ATOMIC" THEN 0 ELSE IF key[1] \in {"GS", "COMM", "PT-CHUNK"} THEN key[2] ELSE 1

\* Keys have their places in the order of texts, chunks after the atomic type.
Numbered(s) ==
    /\ IsFiniteSet(DOMAIN s.stations) /\ DOMAIN s.stations \subseteq Nat
    /\ IsFiniteSet(DOMAIN s.payloads) /\ DOMAIN s.payloads \subseteq Nat
    /\ \A k \in DOMAIN s.payloads : s.payloads[k].chunk = None \/ s.payloads[k].chunk \in Nat \ {0}

\* A slip: stations in the order of preference they were typed in with, not of their keys.
ProfilesByPreference(s) ==
    LET Rank(p) == IF p.kind \in {"COMMUNICATION", "GROUND_STATION"}
                   THEN s.stations[p.key[2]].rank ELSE KeyRank(p.key)
    IN  Ordered(ProfilesOf(s), LAMBDA a, b :
            \/ KindRank[a.kind] < KindRank[b.kind]
            \/ a.kind = b.kind /\ Rank(a) < Rank(b))

Precedes(a, b) ==
    \/ KindRank[a.kind] < KindRank[b.kind]
    \/ a.kind = b.kind /\ KeyRank(a.key) < KeyRank(b.key)

\* CatalogGraph.profiles: by kind, then by key, whatever order the input lists them in.
Profiles(s) == Ordered(ProfilesOf(s), Precedes)

\* CatalogGraph.stations and .payloads; the rows are sets, for only keys order them.
Stations(s) ==
    {[key |-> k, ground |-> GroundStationKey(k), comm |-> CommunicationKey(k),
      rank |-> s.stations[k].rank,
      mask |-> IF s.stations[k].site = None THEN None ELSE s.stations[k].site.mask]
     : k \in DOMAIN s.stations}

Payloads(s) ==
    {[key |-> k, type |-> PayloadTypeKey(s.payloads[k]), sequence |-> s.payloads[k].sequence,
      detail |-> s.payloads[k].detail]
     : k \in DOMAIN s.payloads}
=============================================================================
