---------------------------- MODULE RateTimeline ----------------------------
(***************************************************************************)
(* The exact rate arithmetic of domain/queue.py and domain/capacity.py:    *)
(* how many whole bytes a contact session can still carry from an instant, *)
(* when a grant of bytes ends, and the capacity a contact is credited with *)
(* before any session exists.                                              *)
(*                                                                         *)
(* Time is counted in ticks (the code's microseconds).  A rate is counted  *)
(* in units per tick and a byte is UnitsPerByte units: the code's exact    *)
(* fractions rate * efficiency / 8e6 over a common denominator.            *)
(*                                                                         *)
(* A plan is the CapacityProfile of a station: `fixed` (provider),         *)
(* `fixedBytes`, `segments` in ordinal order and `reserves`, both with     *)
(* offsets from a session start, the two guards and the byte reserve.      *)
(***************************************************************************)
EXTENDS Sums, Sequences

CONSTANT UnitsPerByte \* units (fractions of a byte) in one byte
ASSUME UnitsPerByteAssumption == UnitsPerByte \in Nat \ {0}

Lesser(a, b) == IF a <= b THEN a ELSE b
Greater(a, b) == IF a >= b THEN a ELSE b

\* What CapacityProfile.validate and the checks of its parts leave of a profile:
\* segments follow each other in time.
SpanOK(span) == span.from \in Nat /\ span.to \in Nat /\ span.from < span.to

PlanOK(p) ==
    /\ p.fixed \in BOOLEAN /\ p.fixedBytes \in Nat /\ p.byteReserve \in Nat
    /\ p.guardIn \in Nat /\ p.guardOut \in Nat
    /\ Len(p.segments) \in Nat /\ DOMAIN p.segments = 1 .. Len(p.segments)
    /\ Len(p.reserves) \in Nat /\ DOMAIN p.reserves = 1 .. Len(p.reserves)
    /\ \A i \in DOMAIN p.segments : SpanOK(p.segments[i]) /\ p.segments[i].rate \in Nat
    /\ \A i, j \in DOMAIN p.segments : i < j => p.segments[i].to <= p.segments[j].from
    /\ \A i \in DOMAIN p.reserves : SpanOK(p.reserves[i])

\* A slip: the tick is cut off.
RoundDown(num, den) == num \div den

\* A rational tick count to the nearest tick, a tie to the even one.
RoundHalfEven(num, den) ==
    LET quotient == num \div den
        doubled  == 2 * (num % den)
    IN  IF doubled < den \/ (doubled = den /\ quotient % 2 = 0)
        THEN quotient
        ELSE quotient + 1

\* The sequences of a sequence, one after the other.
Joins(parts) ==
    LET upTo[i \in 0 .. Len(parts)] == IF i = 0 THEN <<>> ELSE upTo[i - 1] \o parts[i]
    IN  upTo

Joined(parts) == Joins(parts)[Len(parts)]

\* What a reserve leaves of one span: nothing, one piece or two.
CutByReserve(span, reserve) ==
    IF reserve.to <= span.from \/ span.to <= reserve.from
    THEN <<span>>
    ELSE (IF span.from < reserve.from
          THEN <<[from |-> span.from, to |-> reserve.from]>> ELSE <<>>)
         \o
         (IF reserve.to < span.to
          THEN <<[from |-> reserve.to, to |-> span.to]>> ELSE <<>>)

CutSpans(spans, reserve) == Joined([i \in DOMAIN spans |-> CutByReserve(spans[i], reserve)])

Shifted(reserve, by) == [from |-> by + reserve.from, to |-> by + reserve.to]

\* A slip: each reserve cuts the whole span, not what the others left of it.
UnreservedSpansAnew(reserves, sessionStart, from, to) ==
    IF reserves = <<>> THEN <<[from |-> from, to |-> to]>>
    ELSE Joined([i \in DOMAIN reserves |->
             CutByReserve([from |-> from, to |-> to], Shifted(reserves[i], sessionStart))])

Cuts(reserves, sessionStart, from, to) ==
    LET cut[i \in 0 .. Len(reserves)] ==
            IF i = 0 THEN <<[from |-> from, to |-> to]>>
            ELSE CutSpans(cut[i - 1], Shifted(reserves[i], sessionStart))
    IN  cut

UnreservedSpans(reserves, sessionStart, from, to) ==
    Cuts(reserves, sessionStart, from, to)[Len(reserves)]

\* The stretches of one constant rate that a session still has from `cursor`; the
\* code passes over those that are empty.
SegmentPieces(session, cursor, seg) ==
    LET spans == UnreservedSpans(session.plan.reserves, session.start,
                                 Greater(cursor, session.start + seg.from),
                                 Lesser(session.start + seg.to, session.end))
    IN  [i \in DOMAIN spans |-> [from |-> spans[i].from, to |-> spans[i].to, rate |-> seg.rate]]

ActivePieces(session, cursor) ==
    Joined([i \in DOMAIN session.plan.segments |->
               SegmentPieces(session, cursor, session.plan.segments[i])])

PieceUnits(piece) == IF piece.from < piece.to THEN piece.rate * (piece.to - piece.from) ELSE 0

UnitsOf(pieces) == [i \in DOMAIN pieces |-> PieceUnits(pieces[i])]

RateBytesRemaining(session, cursor) ==
    IF session.plan.fixed
    THEN session.cap
    ELSE LET pieces == ActivePieces(session, cursor)
         IN  Sum(UnitsOf(pieces), Len(pieces)) \div UnitsPerByte

\* Where `bytes` sent from `start` are out: the first piece by whose end they are
\* all sent decides.
AllocationEnd(session, start, bytes) ==
    LET pieces == ActivePieces(session, start)
        units  == UnitsOf(pieces)
        needed == bytes * UnitsPerByte
        enough == {i \in DOMAIN pieces : units[i] > 0 /\ needed <= Sum(units, i)}
        last   == CHOOSE i \in enough : \A j \in enough : i <= j
        left   == needed - Sum(units, last - 1)
    IN  IF session.plan.fixed \/ enough = {}
        THEN session.end
        ELSE Lesser(pieces[last].from + RoundHalfEven(left, pieces[last].rate), session.end)

-----------------------------------------------------------------------------
\* calculate_contact_capacity: guards, clip to the window, then the bytes of
\* the clipped part of the plan, whose offsets count from the GUARDED start.
NoCapacity == [start |-> 0, end |-> 0, cap |-> 0]

OverlapLength(aFrom, aTo, bFrom, bTo) ==
    Greater(0, Lesser(aTo, bTo) - Greater(aFrom, bFrom))

\* A slip: the reserved ticks are not taken off.
SegmentUnitsUnreserved(plan, seg, from, to) == seg.rate * OverlapLength(from, to, seg.from, seg.to)

SegmentUnits(plan, seg, from, to) ==
    LET oFrom == Greater(from, seg.from)
        oTo   == Lesser(to, seg.to)
        reserved == Sum([i \in DOMAIN plan.reserves |->
                            OverlapLength(oFrom, oTo, plan.reserves[i].from, plan.reserves[i].to)],
                        Len(plan.reserves))
    IN  IF oFrom < oTo THEN seg.rate * (oTo - oFrom - reserved) ELSE 0

PlanUnits(plan, from, to) ==
    Sum([i \in DOMAIN plan.segments |-> SegmentUnits(plan, plan.segments[i], from, to)],
        Len(plan.segments))

ContactCapacity(contact, plan, window) ==
    LET guardedStart == contact.start + plan.guardIn
        guardedEnd   == contact.end - plan.guardOut
        from == Greater(guardedStart, window.start)
        to   == Lesser(guardedEnd, window.end)
        bytes == PlanUnits(plan, from - guardedStart, to - guardedStart) \div UnitsPerByte
    IN  IF guardedStart >= guardedEnd \/ from >= to
        THEN NoCapacity
        ELSE [start |-> from, end |-> to,
              cap |-> IF plan.fixed THEN plan.fixedBytes
                      ELSE Greater(0, bytes - plan.byteReserve)]
=============================================================================
