------------------------------ MODULE RateLink ------------------------------
(***************************************************************************)
(* One contact session from its selection to its end, on the rate          *)
(* arithmetic of RateTimeline: it is credited with a capacity              *)
(* (calculate_contact_capacity), and grants are carved from it one after   *)
(* the other the way _run_session does, with or without idle time between  *)
(* them.  The grants are any the reducer could choose.                     *)
(*                                                                         *)
(* The properties compare the arithmetic with a reference that walks the   *)
(* session tick by tick.                                                   *)
(***************************************************************************)
EXTENDS RateTimeline

CONSTANTS
    Contacts, \* [start, end] intervals of geometric contacts
    Plans,    \* capacity profiles
    Window    \* the analysis window, [start, end]

ASSUME ContactsAssumption == \A c \in Contacts : c.start \in Nat /\ c.end \in Nat
ASSUME PlansAssumption    == \A p \in Plans : PlanOK(p)
ASSUME WindowAssumption   == Window.start \in Nat /\ Window.end \in Nat

VARIABLES
    contact,  \* the contact and the profile of its station: never change
    plan,
    cursor,   \* the instant the session has reached
    left,     \* bytes of its capacity not yet granted
    sent,     \* bytes granted
    grants    \* grants made

vars == <<contact, plan, cursor, left, sent, grants>>

\* The candidate session _contacts_and_candidates makes of the contact.
Credited == ContactCapacity(contact, plan, Window)
Session  == [start |-> Credited.start, end |-> Credited.end, cap |-> Credited.cap, plan |-> plan]

Init ==
    /\ contact \in Contacts /\ plan \in Plans
    /\ Credited # NoCapacity
    /\ cursor = Credited.start /\ left = Credited.cap /\ sent = 0 /\ grants = 0

Grantable == Lesser(left, RateBytesRemaining(Session, cursor))

\* A grant of some of the bytes that are left, and the instant it ends at.
Send ==
    /\ cursor < Session.end
    /\ \E n \in 1 .. Grantable :
          /\ cursor' = AllocationEnd(Session, cursor, n)
          /\ left' = Grantable - n
          /\ sent' = sent + n
    /\ grants' = grants + 1
    /\ UNCHANGED <<contact, plan>>

\* Nothing to send until a payload is ready: the cursor jumps there.
Idle ==
    /\ ~plan.fixed /\ Grantable > 0
    /\ cursor' \in cursor + 1 .. Session.end - 1
    /\ left' = Grantable
    /\ UNCHANGED <<contact, plan, sent, grants>>

Next == Send \/ Idle

Spec == Init /\ [][Next]_vars

-----------------------------------------------------------------------------
\* The reference: the rate in force during the tick that starts at t.
InReserve(p, offset) == \E i \in DOMAIN p.reserves :
                            p.reserves[i].from <= offset /\ offset < p.reserves[i].to

TickRate(p, start, t) ==
    LET seg == {i \in DOMAIN p.segments :
                   p.segments[i].from <= t - start /\ t - start < p.segments[i].to}
    IN  IF seg = {} \/ InReserve(p, t - start) THEN 0 ELSE p.segments[CHOOSE i \in seg : TRUE].rate

UnitsBetween(p, start, from, to) ==
    Sum([i \in 1 .. to - from |-> TickRate(p, start, from + i - 1)], to - from)

Units(from, to) == UnitsBetween(plan, Session.start, from, to)

HighestRate == Greatest({0} \cup {plan.segments[i].rate : i \in DOMAIN plan.segments})

-----------------------------------------------------------------------------
\* rate_bytes_remaining counts every unreserved tick once, and rounds down once.
RemainingCountsTicks ==
    ~plan.fixed =>
        RateBytesRemaining(Session, cursor) = Units(cursor, Session.end) \div UnitsPerByte

\* However a session is cut into grants, the bytes sent by an instant outrun
\* what the link could carry by then by half a tick per grant at most.
DriftBounded ==
    ~plan.fixed =>
        2 * sent * UnitsPerByte <=
            2 * Units(Session.start, cursor) + grants * HighestRate

\* A contact the window does not clip at its start is credited with no more
\* than its own timeline can carry.
CapacityDeliverable ==
    (~plan.fixed /\ Session.start = contact.start + plan.guardIn) =>
        Session.cap <= RateBytesRemaining(Session, Session.start)

\* "Total usable capacity in the selected contact schedule" (README_EN.md:101):
\* the capacity a session is credited with is bytes it can carry.
CapacityUsable ==
    ~plan.fixed => Session.cap <= RateBytesRemaining(Session, Session.start)
=============================================================================
