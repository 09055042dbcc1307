-------------------------- MODULE SessionContract --------------------------
(***************************************************************************)
(* What the reducer of Ledger relies on of one contact session: the        *)
(* interval and the capacity the scheduler hands it, and the two functions *)
(* of domain/queue.py it asks about the session's rate.                    *)
(***************************************************************************)
EXTENDS Integers

CONSTANTS
    BytesLeft(_, _),  \* rate_bytes_remaining: bytes left in a session from an instant
    GrantEnd(_, _, _) \* allocation_end: when a grant that starts at an instant ends

SessionOK(s) ==
    /\ s.start \in Nat /\ s.end \in Nat /\ s.cap \in Nat
    /\ s.start < s.end
    /\ s.plan.fixed \in BOOLEAN
    /\ \A c \in s.start .. s.end :
          /\ BytesLeft(s, c) \in Nat
          /\ \A n \in 1 .. BytesLeft(s, c) : GrantEnd(s, c, n) \in c .. s.end
          /\ ~s.plan.fixed => \A d \in c .. s.end : BytesLeft(s, d) <= BytesLeft(s, c)
=============================================================================
