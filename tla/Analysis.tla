------------------------------ MODULE Analysis ------------------------------
(***************************************************************************)
(* One analysis, RunScenarioService.run: the candidates its contacts make, *)
(* the selection its mode calls for, and the reducer once more on the      *)
(* sessions selected, whose result is the one that is reported.            *)
(*                                                                         *)
(* Beside what Horizon reads, a scenario says its mode, its stations and   *)
(* `contacts`, the sequence of its contact results: a contact that lasts   *)
(* from aos to los, and the fields of the candidate it may become, with    *)
(* start = None when nothing of it is usable and cap = None when the rate  *)
(* in it is unknown.  What the search is offered is empty until the        *)
(* candidates are made.                                                    *)
(***************************************************************************)
EXTENDS Horizon

QueueAware == sc.mode = "QUEUE_AWARE"

Contacts == {sc.contacts[i] : i \in DOMAIN sc.contacts}

\* The status of a contact result: one blocked contact blocks the whole run.
CapacityStatus(c) ==
    IF c.cap = None THEN "BLOCKED" ELSE IF c.cap = 0 THEN "KNOWN_ZERO" ELSE "COMPUTED"

Blocked == \E c \in Contacts : CapacityStatus(c) = "BLOCKED"

\* Only a contact with capacity becomes a candidate.
Credited(c) == c.start # None /\ CapacityStatus(c) = "COMPUTED"

\* What validation lets through of the contacts, and calculate_contact_capacity leaves.
\* Only where a queue is served does anything ask for the rates of a session.
ContactsOK(s) ==
    /\ {"mode", "strategy", "contacts", "offered", "sessions", "object", "after", "ack",
        "storage", "windowEnd"} \subseteq DOMAIN s
    /\ DOMAIN s.contacts \subseteq Nat /\ IsFiniteSet(DOMAIN s.contacts)
    /\ \A i \in DOMAIN s.contacts :
          LET c == s.contacts[i]
          IN  /\ c.aos \in Int /\ c.los \in Int /\ c.aos < c.los
              /\ c.start # None => c.start \in Int /\ c.end \in Int /\ c.start < c.end
              /\ Credited(c) => CandidateOK(c)
              /\ Credited(c) /\ s.mode = "QUEUE_AWARE" => SessionOK(c)

ASSUME ContactsAssumption == \A s \in Scenarios : ContactsOK(s)

AInit ==
    /\ Init
    /\ phase = "contacts" /\ todo = {} /\ trial = {} /\ scores = {} /\ answer = None

\* _contacts_and_candidates.
MakeCandidates ==
    /\ phase = "contacts" /\ phase' = "select"
    /\ sc' = [sc EXCEPT !.offered = {c \in Contacts : Credited(c)}]
    /\ UNCHANGED <<pc, ses, cursor, available, upto, instant, queue, recorder, pending, due,
                   notes, log, todo, trial, scores, answer>>

\* No session is selected by what a queue makes of it.
SelectNetwork ==
    /\ phase = "select" /\ (~QueueAware \/ Blocked)
    /\ Answers(IF Blocked THEN "NOT_APPLICABLE" ELSE "EXACT", MaximumNonoverlap(Offered))

SelectQueueAware ==
    /\ QueueAware /\ ~Blocked
    /\ SelectExact \/ SelectBounded

\* run_ledger on the answer.  A refusal is raised and ends the analysis.
BeginLedger ==
    /\ phase = "answered" /\ answer.status # "REFUSED" /\ QueueAware /\ ~Blocked
    /\ trial' = answer.sessions /\ FreshReducer(answer.sessions)
    /\ phase' = "ledger"
    /\ UNCHANGED <<todo, scores, answer>>

RunLedger ==
    /\ phase = "ledger" /\ Step
    /\ UNCHANGED search

Report ==
    /\ \/ phase = "ledger" /\ pc = "done"
       \/ phase = "answered" /\ (~QueueAware \/ Blocked)
    /\ phase' = "reported"
    /\ UNCHANGED <<vars, todo, trial, scores, answer>>

ANext ==
    \/ MakeCandidates \/ SelectNetwork \/ SelectQueueAware
    \/ BeginRollout \/ Rollout \/ EndRollout \/ Choose
    \/ BeginLedger \/ RunLedger \/ Report

ASpec == AInit /\ [][ANext]_hvars
=============================================================================
