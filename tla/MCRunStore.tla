----------------------------- MODULE MCRunStore -----------------------------
(***************************************************************************)
(* RunStore on a small instance.  Runs 1 and 2 have inputs of one shape    *)
(* that differ in what they say of stations and payloads, run 3 is of      *)
(* another revision of their scenario, derived from an orbit, with another *)
(* provider under the same manifest key.  Run 4 breaks a constraint of its *)
(* input, run 5 one of its result, and run 6 names a stage twice.          *)
(***************************************************************************)
EXTENDS RunStoreProperties

CONSTANTS p1, p2

Fixed(n) == [provider |-> "FIXED_CAPACITY_PER_CONTACT", bytes |-> n, semantics |-> None,
             segments |-> {}, reserves |-> {}, byteReserve |-> 0, detail |-> "whole"]
Rated == [provider |-> "RATE", bytes |-> None, semantics |-> "GROSS",
          segments |-> {[ordinal |-> 1, rate |-> 8], [ordinal |-> 0, rate |-> 4]},
          reserves |-> {[start |-> 3, length |-> 1]}, byteReserve |-> 0, detail |-> "guarded"]

Station(rank, site, capacity) == [rank |-> rank, site |-> site, capacity |-> capacity]
Load(chunk, sequence, detail) ==
    [chunk |-> chunk, media |-> "image", sequence |-> sequence, detail |-> detail]

Input(stations, payloads, after) ==
    [fixture |-> 1, question |-> "which", window |-> "day", mode |-> "QUEUE_AWARE",
     policy |-> 1, source |-> "SYNTHETIC", orbit |-> None, enabled |-> TRUE,
     stations |-> stations, payloads |-> payloads, after |-> after]

Shaped == Input(<<Station(1, None, Fixed(5)), Station(2, None, Rated)>>,
                <<Load(None, 1, "a"), Load(None, 2, "b")>>, {<<1, 2>>})
Alike  == Input(<<Station(2, None, Rated), Station(1, None, Fixed(7))>>,
                <<Load(2, 2, "c"), Load(None, 1, "d")>>, {})
Derived == [Input(<<Station(1, [mask |-> 10], Rated)>>,
                  <<Load(2, 1, "e"), Load(2, 2, "f")>>, {})
            EXCEPT !.source = "ORBIT_DERIVED", !.orbit = 1, !.enabled = FALSE]
Tied == [Input(<<Station(1, None, Fixed(5))>>, <<Load(None, 1, "a"), Load(None, 1, "b")>>, {})
         EXCEPT !.mode = "NETWORK_ONLY", !.policy = None]

\* A contact of a station is usable, a candidate, and scheduled; it carries a payload.
Result(station, payload, end) ==
    LET key(kind) == <<kind, station>> IN
    [source |-> "SYNTHETIC",
     geometric |-> <<[key |-> key("geometric"), station |-> station, aos |-> 0, los |-> 9,
                      status |-> "COMPUTED", grade |-> "CONCEPT_ONLY"]>>,
     modeled |-> <<[key |-> key("modeled"), geometric |-> key("geometric"), usable |-> 9,
                    reasons |-> <<>>, status |-> "COMPUTED", grade |-> "CONCEPT_ONLY"]>>,
     candidates |-> <<[key |-> key("candidate"), modeled |-> key("modeled"), capacity |-> 5,
                       status |-> "COMPUTED", grade |-> "CONCEPT_ONLY"]>>,
     scheduled |-> <<[key |-> key("scheduled"), candidate |-> key("candidate"), ordinal |-> 1,
                      reasons |-> <<"only">>, status |-> "COMPUTED", grade |-> "CONCEPT_ONLY"]>>,
     allocations |-> <<[key |-> key("allocation"), session |-> key("candidate"),
                        payload |-> payload, ordinal |-> 1, offset |-> 0, bytes |-> 4,
                        start |-> 1, end |-> end, late |-> FALSE, reasons |-> <<>>]>>,
     events |-> <<[at |-> 5, order |-> 0, domain |-> "QUEUE", kind |-> "FINISH",
                   payload |-> payload, allocation |-> key("allocation"), delta |-> 4]>>,
     metrics |-> <<[code |-> "capacity", station |-> station, payload |-> None,
                    scope |-> "STATION", value |-> 5, status |-> "COMPUTED"]>>,
     warnings |-> <<"synthetic">>, suppressed |-> <<>>,
     progress |-> <<[payload |-> payload, reasons |-> <<"first">>]>>]

Stage(code, ordinal) == [code |-> code, ordinal |-> ordinal, status |-> "SUCCEEDED", count |-> 1]

Run(id, snapshot, result) ==
    [id |-> id, snapshot |-> snapshot,
     manifest |-> [version |-> 1, code |-> 1, provider |-> snapshot.source],
     status |-> "SUCCEEDED", stages |-> <<Stage("CONTACT", 0), Stage("RESULT", 1)>>,
     result |-> result, hash |-> <<"sha256", id>>]

MCRuns == {Run(1, Shaped, Result(2, 1, 4)), Run(2, Alike, Result(2, 2, 6)),
           Run(3, Derived, Result(1, 1, 4)), Run(4, Tied, Result(1, 1, 4)),
           Run(5, Shaped, Result(1, 2, 1)),
           [Run(6, Derived, Result(1, 1, 4))
               EXCEPT !.stages = <<Stage("CONTACT", 0), Stage("CONTACT", 1)>>]}
MCOffers == (p1 :> {run \in MCRuns : run.id \in {1, 3}})
         @@ (p2 :> {run \in MCRuns : run.id \in {1, 2, 4, 5, 6}})
=============================================================================
