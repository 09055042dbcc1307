---------------------------- MODULE DailyBudget ----------------------------
(***************************************************************************)
(* application/daily_budget.py: a result's contacts and sessions, counted  *)
(* by the date they start on.  A date is the number of a day of DayLength  *)
(* ticks; `result` is a document of ResultDocument.                        *)
(***************************************************************************)
EXTENDS Optional, FiniteSetsExt, SequencesExt

CONSTANT DayLength

DateOf(t) == t \div DayLength

\* The end is exclusive: one on midnight adds no day.
WindowDates(window) == DateOf(window.start) .. DateOf(window.end - 1)

\* A slip: a session that crosses midnight counts on both of its days.
OnEachDate(sessions, date) ==
    SelectSeq(sessions, LAMBDA s : s.usable # None
                  /\ date \in DateOf(s.usable[1]) .. DateOf(s.usable[2] - 1))

\* A session with no usable interval belongs to no day.
OnDate(sessions, date) ==
    SelectSeq(sessions, LAMBDA s : s.usable # None /\ DateOf(s.usable[1]) = date)

Bytes(sessions) ==
    FoldLeft(LAMBDA n, s : n + IF s.capacity = None THEN 0 ELSE s.capacity, 0, sessions)

Day(result, date) ==
    [contacts       |-> Len(SelectSeq(result.geometric, LAMBDA g : DateOf(g.aos) = date)),
     scheduled      |-> Len(OnDate(result.scheduled, date)),
     scheduledBytes |-> Bytes(OnDate(result.scheduled, date)),
     candidates     |-> Len(OnDate(result.candidates, date)),
     candidateBytes |-> Bytes(OnDate(result.candidates, date))]

\* Every date of the window, and every date something starts on.
Dates(result, window) ==
    WindowDates(window)
    \cup {DateOf(g.aos) : g \in Elements(result.geometric)}
    \cup {DateOf(s.usable[1]) : s \in {s \in Elements(result.candidates) \cup Elements(result.scheduled) :
                                           s.usable # None}}

DailyBudget(result, window) == [date \in Dates(result, window) |-> Day(result, date)]

ScheduledByDay(result, window) ==
    MapThenSumSet(LAMBDA date : Day(result, date).scheduledBytes, Dates(result, window))
CandidatesByDay(result, window) ==
    MapThenSumSet(LAMBDA date : Day(result, date).candidateBytes, Dates(result, window))
=============================================================================
