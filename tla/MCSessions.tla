---------------------------- MODULE MCSessions ----------------------------
(***************************************************************************)
(* Contact sessions for the small scenarios of MCLedger and MCAnalysis, on  *)
(* the real rate arithmetic of RateTimeline, with a window of ten ticks.   *)
(***************************************************************************)
EXTENDS Integers, Sequences

Rate == INSTANCE RateTimeline WITH UnitsPerByte <- 2

Flat(rate) == [fixed |-> FALSE, fixedBytes |-> 0, guardIn |-> 0, guardOut |-> 0,
               byteReserve |-> 0, reserves |-> <<>>,
               segments |-> <<[from |-> 0, to |-> 10, rate |-> rate]>>]

\* slow: a byte per tick. uneven: one and a half, then three quarters, with a
\* reserved tick between. instant: four bytes per tick, so a byte takes no tick.
Plan(name) ==
    CASE name = "slow"    -> Flat(2)
      [] name = "uneven"  -> [Flat(3) EXCEPT !.segments =
                                  <<[from |-> 0, to |-> 2, rate |-> 3],
                                    [from |-> 2, to |-> 10, rate |-> 1]>>,
                              !.reserves = <<[from |-> 1, to |-> 2]>>]
      [] name = "instant" -> Flat(8)
      [] name = "silent"  -> Flat(0)
      [] name = "unproven" -> Flat(2)
      [] name = "fixed"   -> [Flat(0) EXCEPT !.fixed = TRUE, !.fixedBytes = 3,
                                             !.segments = <<>>]

\* TLC computes the elements of a sequence it selects from once, and those of a
\* function at every application.
Computed(q) == SelectSeq(q, LAMBDA x : TRUE)

\* A candidate session as _contacts_and_candidates builds it from a contact.
SessionOf(from, to, name) ==
    LET c == Rate!ContactCapacity([start |-> from, end |-> to], Plan(name),
                                  [start |-> 0, end |-> 10])
    IN  [start |-> c.start, end |-> c.end, cap |-> c.cap, plan |-> Plan(name)]

\* The same with the rate arithmetic of its station tabulated beside it.
WithRates(s) ==
    LET instants == Computed([i \in 1 .. s.end - s.start + 1 |-> s.start + i - 1])
        left == Computed([i \in DOMAIN instants |-> Rate!RateBytesRemaining(s, instants[i])])
        ends == Computed([i \in DOMAIN instants |->
                    Computed([n \in 1 .. left[i] |-> Rate!AllocationEnd(s, instants[i], n)])])
    IN  [s EXCEPT !.plan = [fixed |-> s.plan.fixed, left |-> left, ends |-> ends]]

MCBytesLeft(session, t)   == session.plan.left[t - session.start + 1]
MCGrantEnd(session, t, n) == session.plan.ends[t - session.start + 1][n]
=============================================================================
