-------------------------- MODULE WorkspaceProofs --------------------------
(***************************************************************************)
(* The safety properties of the workspace hold for any number of edits,    *)
(* submissions, switches and operations of the library, in any order of    *)
(* their answers.  Each follows from Runner /\ Library (WorkspaceSafety):  *)
(* Runner speaks of the run hook, Library of the draft, the panel and the  *)
(* server's scenarios.                                                     *)
(***************************************************************************)
EXTENDS WorkspaceSafety, TLAPS, SequenceTheorems, WellFoundedInduction

-----------------------------------------------------------------------------
(***************************************************************************)
(* Numbers and sequences.                                                  *)
(***************************************************************************)

\* A set of naturals that is not empty has a least element.
LEMMA LeastExists ==
    ASSUME NEW S \in SUBSET Nat, S # {}
    PROVE  \E m \in S : \A n \in S : m <= n
<1>1. PICK x \in S : \A y \in S : ~ (<<y, x>> \in OpToRel(<,Nat))
  BY NatLessThanWellFounded, WFMin
<1>2. \A y \in S : ~(y < x)
  BY <1>1 DEF OpToRel
<1> QED
  BY <1>2

\* And a greatest one when it is bounded, as the revisions of a scenario are.
LEMMA GreatestExists ==
    ASSUME NEW n \in Nat, NEW S \in SUBSET (1 .. n), S # {}
    PROVE  \E m \in S : \A r \in S : r <= m
<1> DEFINE D == {n - r : r \in S}
<1>1. PICK r \in S : TRUE
  OBVIOUS
<1>2. n - r \in D /\ \A s \in S : n - s \in Nat
  OBVIOUS
<1>3. D \in SUBSET Nat /\ D # {}
  BY <1>2
<1>4. PICK d \in D : \A e \in D : d <= e
  BY <1>3, LeastExists
<1>5. PICK m \in S : d = n - m
  BY <1>4
<1>6. \A s \in S : n - m <= n - s
  BY <1>4, <1>5
<1> QED
  BY <1>6

\* The history after a result: the result, then what it held before, as far as it fits.
LEMMA TrimEffect ==
    ASSUME NEW e \in Results, NEW h \in Seq(Results)
    PROVE  LET g == Trim(<<e>> \o h) IN
           /\ g \in Seq(Results)
           /\ Len(g) <= Len(h) + 1
           /\ \A i \in 1 .. Len(g) : g[i] = IF i = 1 THEN e ELSE h[i - 1]
<1> DEFINE f == <<e>> \o h
           n == IF Len(f) < MaxHistory THEN Len(f) ELSE MaxHistory
<1>1. <<e>> \in Seq(Results) /\ Len(<<e>>) = 1 /\ <<e>>[1] = e
  OBVIOUS
<1>2. /\ f \in Seq(Results) /\ Len(f) = Len(h) + 1
      /\ \A i \in 1 .. Len(f) : f[i] = IF i = 1 THEN e ELSE h[i - 1]
  <2>1. /\ f \in Seq(Results) /\ Len(f) = 1 + Len(h)
        /\ \A i \in 1 .. 1 + Len(h) : f[i] = IF i <= 1 THEN <<e>>[i] ELSE h[i - 1]
    BY <1>1, ConcatProperties, Zenon
  <2> QED
    BY <1>1, <2>1
<1>3. n \in Nat /\ n >= 1 /\ n <= Len(f)
  BY <1>2, WorkspaceAssumption
<1> HIDE DEF f, n
<1>4. \A i \in 1 .. n : f[i] \in Results
  BY <1>2, <1>3, ElementOfSeq
<1>5. /\ SubSeq(f, 1, n) \in Seq(Results)
      /\ Len(SubSeq(f, 1, n)) = n
      /\ \A i \in 1 .. n : SubSeq(f, 1, n)[i] = f[i]
  <2>1. /\ SubSeq(f, 1, n) \in Seq(Results)
        /\ Len(SubSeq(f, 1, n)) = IF 1 <= n THEN n - 1 + 1 ELSE 0
        /\ \A i \in 1 .. n - 1 + 1 : SubSeq(f, 1, n)[i] = f[1 + i - 1]
    BY <1>3, <1>4, SubSeqProperties
  <2> QED
    BY <1>3, <2>1
<1>6. Trim(f) = SubSeq(f, 1, n)
  BY DEF Trim, n
<1>7. \A i \in 1 .. n : i \in 1 .. Len(f)
  BY <1>2, <1>3
<1> QED
  BY <1>2, <1>3, <1>5, <1>6, <1>7 DEF f

-----------------------------------------------------------------------------
(***************************************************************************)
(* The run hook.                                                           *)
(***************************************************************************)

\* Aborting calls only marks them.
LEMMA AbortedEffect ==
    ASSUME NEW cs \in SUBSET CallSet
    PROVE  /\ Aborted(cs) \in SUBSET CallSet
           /\ \A d \in Aborted(cs) : \E c \in cs :
                 /\ d = [c EXCEPT !.aborted = TRUE]
                 /\ d.seq = c.seq /\ d.at = c.at /\ d.run = c.run /\ d.content = c.content
<1>1. \A c \in cs : LET d == [c EXCEPT !.aborted = TRUE] IN
          d \in CallSet /\ d.seq = c.seq /\ d.at = c.at /\ d.run = c.run /\ d.content = c.content
  BY DEF CallSet
<1> QED
  BY <1>1 DEF Aborted

\* A call whose run is stored is the same call at its next await.
LEMMA StoredEffect ==
    ASSUME NEW c \in CallSet, NEW n \in Nat
    PROVE  LET d == [c EXCEPT !.at = "results", !.run = n] IN
           /\ d \in CallSet /\ d.seq = c.seq /\ d.at = "results" /\ d.run = n
           /\ d.content = c.content /\ d.aborted = c.aborted
BY DEF CallSet, Number

\* Nothing of it changes when none of its variables does.
LEMMA RunnerKept ==
    ASSUME Runner, UNCHANGED <<runner, switched, runs>>
    PROVE  Runner'
BY DEF Runner, runner, RunnerTyped, CallsApart, RunsComputed, Computed, HistoryBehind,
       LateAnswersDropped, ProgressReal

LEMMA RunKeepsRunner ==
    ASSUME Runner, LibraryTyped, Run
    PROVE  Runner'
<1> DEFINE new == Call(seq + 1, draft.content, draft.opened)
<1>1. /\ new \in CallSet /\ new.seq = seq + 1 /\ new.at = "create" /\ ~new.aborted
  BY DEF Runner, RunnerTyped, LibraryTyped, Drafts, Call, CallSet, Number
<1>2. /\ seq' = seq + 1 /\ phase' = "submitting" /\ calls' = Aborted(calls) \cup {new}
      /\ UNCHANGED <<switched, lastRun, history, runs>>
  BY DEF Run, Submitted
<1> HIDE DEF new
<1>3. calls \in SUBSET CallSet /\ seq \in Nat /\ switched \in Nat /\ switched <= seq
  BY DEF Runner, RunnerTyped
<1>4. \A c \in calls : c.seq \in Nat /\ c.seq <= seq /\ c.seq # switched
  BY <1>3 DEF Runner, CallsApart, CallSet
<1>5. /\ Aborted(calls) \in SUBSET CallSet
      /\ \A d \in Aborted(calls) : \E c \in calls :
            /\ d = [c EXCEPT !.aborted = TRUE]
            /\ d.seq = c.seq /\ d.at = c.at /\ d.run = c.run /\ d.content = c.content
  BY <1>3, AbortedEffect
<1>6. RunnerTyped'
  BY <1>1, <1>2, <1>3, <1>5 DEF Runner, RunnerTyped, Phases
<1>7. CallsApart'
  <2>1. \A d \in Aborted(calls) : d.seq \in Nat /\ d.seq <= seq /\ d.seq # switched
    BY <1>4, <1>5
  <2>2. \A d, e \in Aborted(calls) : d.seq = e.seq => d = e
    <3>1. \A b, c \in calls : b.seq = c.seq => b = c
      BY DEF Runner, CallsApart
    <3> TAKE d, e \in Aborted(calls)
    <3>2. PICK b \in calls : d = [b EXCEPT !.aborted = TRUE] /\ d.seq = b.seq
      BY <1>5
    <3>3. PICK c \in calls : e = [c EXCEPT !.aborted = TRUE] /\ e.seq = c.seq
      BY <1>5
    <3> QED
      BY <3>1, <3>2, <3>3
  <2> QED
    BY <1>1, <1>2, <1>3, <2>1, <2>2 DEF CallsApart
<1>8. RunsComputed'
  BY <1>1, <1>2, <1>5 DEF Runner, RunsComputed, Computed
<1>9. HistoryBehind'
  <2> SUFFICES ASSUME NEW i \in 1 .. Len(history)
               PROVE  history[i].seq <= seq + 1 /\ \A c \in calls' : history[i].seq # c.seq
    BY <1>2 DEF HistoryBehind
  <2>1. history[i].seq \in Nat
    <3>1. history \in Seq(Results)
      BY DEF Runner, RunnerTyped
    <3>2. history[i] \in Results
      BY <3>1, ElementOfSeq
    <3> QED
      BY <3>2 DEF Results
  <2>2. history[i].seq <= seq /\ \A c \in calls : history[i].seq # c.seq
    BY DEF Runner, HistoryBehind
  <2> QED
    BY <1>1, <1>2, <1>3, <1>5, <2>1, <2>2
<1>10. LateAnswersDropped'
  BY <1>2 DEF Runner, LateAnswersDropped
<1>11. ProgressReal'
  <2>1. \A d \in Aborted(calls) : d.seq # seq + 1
    BY <1>3, <1>4, <1>5
  <2> QED
    BY <1>1, <1>2, <2>1 DEF ProgressReal
<1> QED
  BY <1>6, <1>7, <1>8, <1>9, <1>10, <1>11 DEF Runner

\* A switch supersedes whatever awaits an answer.
LEMMA ResetKeepsRunner ==
    ASSUME Runner, Reset, switched' = seq + 1, UNCHANGED runs
    PROVE  Runner'
<1>1. /\ seq' = seq + 1 /\ calls' = Aborted(calls) /\ phase' = "idle" /\ lastRun' = None
      /\ UNCHANGED history
  BY DEF Reset
<1>2. calls \in SUBSET CallSet /\ seq \in Nat
  BY DEF Runner, RunnerTyped
<1>3. /\ Aborted(calls) \in SUBSET CallSet
      /\ \A d \in Aborted(calls) : \E c \in calls :
            /\ d = [c EXCEPT !.aborted = TRUE]
            /\ d.seq = c.seq /\ d.at = c.at /\ d.run = c.run /\ d.content = c.content
  BY <1>2, AbortedEffect
<1>4. \A d \in Aborted(calls) : d.seq \in Nat /\ d.seq <= seq
  BY <1>2, <1>3 DEF Runner, CallsApart, CallSet
<1>5. RunnerTyped'
  BY <1>1, <1>2, <1>3 DEF Runner, RunnerTyped, Phases
<1>6. CallsApart'
  <2>1. \A d, e \in Aborted(calls) : d.seq = e.seq => d = e
    <3>1. \A b, c \in calls : b.seq = c.seq => b = c
      BY DEF Runner, CallsApart
    <3> TAKE d, e \in Aborted(calls)
    <3>2. PICK b \in calls : d = [b EXCEPT !.aborted = TRUE] /\ d.seq = b.seq
      BY <1>3
    <3>3. PICK c \in calls : e = [c EXCEPT !.aborted = TRUE] /\ e.seq = c.seq
      BY <1>3
    <3> QED
      BY <3>1, <3>2, <3>3
  <2> QED
    BY <1>1, <1>2, <1>4, <2>1 DEF CallsApart
<1>7. RunsComputed'
  BY <1>1, <1>3 DEF Runner, RunsComputed, Computed
<1>8. HistoryBehind'
  <2> SUFFICES ASSUME NEW i \in 1 .. Len(history)
               PROVE  history[i].seq <= seq + 1 /\ \A c \in calls' : history[i].seq # c.seq
    BY <1>1 DEF HistoryBehind
  <2>1. history[i].seq \in Nat
    <3>1. history \in Seq(Results)
      BY DEF Runner, RunnerTyped
    <3>2. history[i] \in Results
      BY <3>1, ElementOfSeq
    <3> QED
      BY <3>2 DEF Results
  <2>2. history[i].seq <= seq /\ \A c \in calls : history[i].seq # c.seq
    BY DEF Runner, HistoryBehind
  <2> QED
    BY <1>1, <1>2, <1>3, <2>1, <2>2
<1>9. LateAnswersDropped'
  BY <1>1 DEF Runner, LateAnswersDropped
<1>10. ProgressReal'
  <2>1. \A d \in Aborted(calls) : d.seq # seq + 1
    BY <1>2, <1>4
  <2> QED
    BY <1>1, <2>1 DEF ProgressReal
<1> QED
  BY <1>5, <1>6, <1>7, <1>8, <1>9, <1>10 DEF Runner

LEMMA CreateKeepsRunner ==
    ASSUME Runner, NEW c \in calls, CreateAnswered(c), UNCHANGED switched
    PROVE  Runner'
<1> DEFINE d == [c EXCEPT !.at = "results", !.run = Len(runs) + 1]
<1>1. /\ c \in CallSet /\ runs \in Seq(Contents) /\ seq \in Nat /\ calls \in SUBSET CallSet
      /\ history \in Seq(Results)
  BY DEF Runner, RunnerTyped
<1>2. /\ Len(runs) \in Nat /\ c.seq \in Nat /\ c.content \in Contents
  BY <1>1, LenProperties DEF CallSet
<1>3. /\ d \in CallSet /\ d.seq = c.seq /\ d.at = "results" /\ d.run = Len(runs) + 1
      /\ d.content = c.content /\ d.aborted = c.aborted
  <2>1. Len(runs) + 1 \in Nat
    BY <1>2
  <2> QED
    BY <1>1, <2>1, StoredEffect
<1>4. /\ runs' \in Seq(Contents) /\ Len(runs') = Len(runs) + 1
      /\ \A i \in 1 .. Len(runs) : runs'[i] = runs[i]
      /\ runs'[Len(runs) + 1] = c.content
  BY <1>1, <1>2, AppendProperties DEF CreateAnswered
<1>5. c.at = "create" /\ UNCHANGED <<seq, lastRun, history, switched>>
  BY DEF CreateAnswered
<1>6. \/ c.seq = seq /\ phase' = "loading-results" /\ calls' = (calls \ {c}) \cup {d}
      \/ c.seq # seq /\ phase' = phase /\ calls' = calls \ {c}
  BY DEF CreateAnswered, IsCurrent
<1> HIDE DEF d
<1>7. RunnerTyped'
  BY <1>1, <1>3, <1>4, <1>5, <1>6 DEF Runner, RunnerTyped, Phases
<1>8. CallsApart'
  BY <1>3, <1>5, <1>6 DEF Runner, CallsApart
<1>9. RunsComputed'
  <2> DEFINE Known(e) == e.run \in 1 .. Len(runs') /\ runs'[e.run] = e.content
  <2>1. ASSUME NEW e, Computed(e) PROVE Known(e)
    <3>1. e.run \in 1 .. Len(runs) /\ runs[e.run] = e.content
      BY <2>1 DEF Computed
    <3> QED
      BY <1>2, <1>4, <3>1
  <2>2. Known(d)
    BY <1>2, <1>3, <1>4
  <2> HIDE DEF Known
  <2>3. \A b \in calls' : b.at = "results" => Known(b)
    <3> SUFFICES ASSUME NEW b \in calls', b.at = "results" PROVE Known(b)
      OBVIOUS
    <3>1. b = d \/ b \in calls
      BY <1>6
    <3>2. b \in calls => Computed(b)
      BY DEF Runner, RunsComputed
    <3> QED
      BY <2>1, <2>2, <3>1, <3>2
  <2>4. lastRun # None => Known(lastRun)
    BY <2>1 DEF Runner, RunsComputed
  <2>5. \A i \in 1 .. Len(history) : Known(history[i])
    BY <2>1 DEF Runner, RunsComputed
  <2> QED
    BY <1>5, <2>3, <2>4, <2>5 DEF RunsComputed, Computed, Known
<1>10. HistoryBehind'
  BY <1>3, <1>5, <1>6 DEF Runner, HistoryBehind
<1>11. LateAnswersDropped'
  BY <1>5 DEF Runner, LateAnswersDropped
<1>12. ProgressReal'
  BY <1>3, <1>5, <1>6 DEF Runner, ProgressReal, CallsApart
<1> QED
  BY <1>7, <1>8, <1>9, <1>10, <1>11, <1>12 DEF Runner

\* What a call whose result is shown was submitted after all that is shown already.
LEMMA ResultsKeepRunner ==
    ASSUME Runner, NEW c \in calls, ResultsAnswered(c), UNCHANGED switched
    PROVE  Runner'
<1>1. /\ c \in CallSet /\ seq \in Nat /\ switched \in Nat /\ switched <= seq
      /\ history \in Seq(Results) /\ lastRun \in Results \cup {None}
      /\ Computed(c) /\ c.at = "results"
  BY DEF Runner, RunnerTyped, RunsComputed, ResultsAnswered
<1>2. /\ calls' = calls \ {c} /\ UNCHANGED <<seq, runs, switched>>
  BY DEF ResultsAnswered
<1>3. Len(history) \in Nat
  BY <1>1, LenProperties
<1>4. CallsApart'
  BY <1>2 DEF Runner, CallsApart
<1>5. CASE ~IsCurrent(c)
  <2>1. UNCHANGED <<lastRun, phase, history>>
    BY <1>5 DEF ResultsAnswered
  <2>2. c.seq # seq
    BY <1>5 DEF IsCurrent
  <2>3. RunnerTyped' /\ HistoryBehind' /\ LateAnswersDropped'
    BY <1>2, <2>1 DEF Runner, RunnerTyped, HistoryBehind, LateAnswersDropped
  <2>4. RunsComputed'
    BY <1>2, <2>1 DEF Runner, RunsComputed, Computed
  <2>5. ProgressReal'
    BY <1>2, <2>1, <2>2 DEF Runner, ProgressReal
  <2> QED
    BY <1>4, <2>3, <2>4, <2>5 DEF Runner
<1>6. CASE IsCurrent(c)
  <2> DEFINE s == Shown(c)
  <2>1. /\ lastRun' = s /\ phase' = "succeeded" /\ history' = Trim(<<s>> \o history)
    BY <1>6 DEF ResultsAnswered
  <2>2. c.seq = seq
    BY <1>6 DEF IsCurrent
  <2>3. Computed(s) /\ s.seq = seq /\ s \in Results
    <3>1. c.run \in Nat
      BY <1>1, LenProperties DEF Computed, Runner, RunnerTyped
    <3> QED
      BY <1>1, <2>2, <3>1 DEF Shown, Computed, Results, CallSet
  <2> HIDE DEF s
  <2>4. /\ history' \in Seq(Results)
        /\ Len(history') <= Len(history) + 1
        /\ \A i \in 1 .. Len(history') : history'[i] = IF i = 1 THEN s ELSE history[i - 1]
    BY <1>1, <2>1, <2>3, TrimEffect
  <2>5. Len(history') \in Nat
    BY <2>4, LenProperties
  <2>6. \A i \in 1 .. Len(history') : i = 1 \/ i - 1 \in 1 .. Len(history)
    BY <1>3, <2>4, <2>5
  <2>7. RunnerTyped'
    BY <1>2, <2>1, <2>3, <2>4 DEF Runner, RunnerTyped, Phases
  <2>8. RunsComputed'
    <3>1. \A i \in 1 .. Len(history') : Computed(history'[i])
      BY <2>3, <2>4, <2>6 DEF Runner, RunsComputed
    <3> QED
      BY <1>2, <2>1, <2>3, <3>1 DEF Runner, RunsComputed, Computed
  <2>9. HistoryBehind'
    <3>1. \A b \in calls' : b.seq # seq
      BY <1>2, <2>2 DEF Runner, CallsApart
    <3> QED
      BY <1>1, <1>2, <2>3, <2>4, <2>6, <3>1 DEF Runner, HistoryBehind
  <2>10. LateAnswersDropped'
    <3>1. s.seq > switched
      BY <1>1, <2>2, <2>3 DEF Runner, CallsApart
    <3>2. \A i \in 1 .. Len(history) : history[i].seq \in Nat /\ history[i].seq < seq
      <4> TAKE i \in 1 .. Len(history)
      <4>1. history[i] \in Results
        BY <1>1, ElementOfSeq
      <4>2. history[i].seq <= seq /\ history[i].seq # c.seq
        BY DEF Runner, HistoryBehind
      <4> QED
        BY <1>1, <2>2, <4>1, <4>2 DEF Results
    <3>3. ASSUME NEW i \in 1 .. Len(history') - 1
          PROVE  history'[i].seq > history'[i + 1].seq
      <4>1. i \in 1 .. Len(history') /\ i + 1 \in 1 .. Len(history') /\ i \in 1 .. Len(history)
        BY <1>3, <2>4, <2>5
      <4>2. history'[i + 1] = history[i]
        BY <2>4, <4>1
      <4>3. CASE i = 1
        BY <1>1, <2>3, <2>4, <3>2, <4>1, <4>2, <4>3
      <4>4. CASE i # 1
        <5>1. i - 1 \in 1 .. Len(history) - 1 /\ i - 1 + 1 = i
          BY <1>3, <4>1, <4>4
        <5>2. history[i - 1].seq > history[i - 1 + 1].seq
          BY <5>1 DEF Runner, LateAnswersDropped
        <5> QED
          BY <2>4, <4>1, <4>2, <4>4, <5>1, <5>2
      <4> QED
        BY <4>3, <4>4
    <3> QED
      BY <1>2, <2>1, <3>1, <3>3 DEF LateAnswersDropped
  <2>11. ProgressReal'
    BY <1>2, <2>1, <2>2 DEF Runner, ProgressReal, CallsApart
  <2> QED
    BY <1>4, <2>7, <2>8, <2>9, <2>10, <2>11 DEF Runner
<1> QED
  BY <1>5, <1>6

\* A call that fails or is aborted writes nothing.
LEMMA FailureKeepsRunner ==
    ASSUME Runner, NEW c \in calls, AnswerFailed(c) \/ AnswerAborted(c), UNCHANGED switched
    PROVE  Runner'
<1>1. calls' = calls \ {c} /\ UNCHANGED <<seq, lastRun, history, runs, switched>>
  BY DEF AnswerFailed, AnswerAborted
<1>2. \/ c.seq = seq /\ phase' = "failed"
      \/ c.seq # seq /\ phase' = phase
  BY DEF AnswerFailed, AnswerAborted, IsCurrent, Runner, CallsApart
<1>3. RunnerTyped' /\ CallsApart' /\ HistoryBehind' /\ LateAnswersDropped'
  BY <1>1, <1>2 DEF Runner, RunnerTyped, Phases, CallsApart, HistoryBehind, LateAnswersDropped
<1>4. RunsComputed'
  BY <1>1 DEF Runner, RunsComputed, Computed
<1>5. ProgressReal'
  BY <1>1, <1>2 DEF Runner, ProgressReal, CallsApart
<1> QED
  BY <1>3, <1>4, <1>5 DEF Runner

-----------------------------------------------------------------------------
(***************************************************************************)
(* The server's scenarios only grow: a revision that is stored stays, with *)
(* its content.                                                            *)
(***************************************************************************)
Filled(s) == \A id \in 1 .. Len(s) : 1 <= Len(s[id])

GrowsTo(s, u) ==
    /\ u \in Seq(Seq(Revisions)) /\ Filled(u)
    /\ Len(s) <= Len(u)
    /\ \A id \in 1 .. Len(s) :
          /\ Len(s[id]) <= Len(u[id])
          /\ \A r \in 1 .. Len(s[id]) : u[id][r].content = s[id][r].content

Grows == GrowsTo(scenarios, scenarios')

\* An element of a sequence is replaced.
LEMMA ReplaceEffect ==
    ASSUME NEW S, NEW s \in Seq(S), NEW i \in 1 .. Len(s), NEW e \in S,
           NEW u, u = [s EXCEPT ![i] = e]
    PROVE  /\ u \in Seq(S) /\ Len(u) = Len(s)
           /\ u[i] = e
           /\ \A j \in 1 .. Len(s) : j # i => u[j] = s[j]
<1> DEFINE new == [s EXCEPT ![i] = e]
<1>1. new \in Seq(S) /\ Len(new) = Len(s)
  BY ExceptSeq
<1>2. s \in [1 .. Len(s) -> S]
  BY LenProperties
<1>3. new[i] = e /\ \A j \in 1 .. Len(s) : j # i => new[j] = s[j]
  BY <1>2
<1> QED
  BY <1>1, <1>3

LEMMA Lengths ==
    ASSUME NEW s \in Seq(Seq(Revisions))
    PROVE  /\ Len(s) \in Nat
           /\ \A id \in 1 .. Len(s) : s[id] \in Seq(Revisions) /\ Len(s[id]) \in Nat
BY ElementOfSeq, LenProperties

\* A scenario of its own, with one draft revision.
LEMMA GrowsCreated ==
    ASSUME NEW s \in Seq(Seq(Revisions)), Filled(s), NEW content \in Contents,
           NEW u, u = Append(s, <<Revision(content, FALSE)>>)
    PROVE  /\ GrowsTo(s, u) /\ Len(u) = Len(s) + 1
           /\ Len(u[Len(u)]) = 1 /\ u[Len(u)][1].content = content
<1> DEFINE first == <<Revision(content, FALSE)>>
<1>1. Len(s) \in Nat /\ \A id \in 1 .. Len(s) : Len(s[id]) \in Nat
  BY Lengths
<1>2. first \in Seq(Revisions) /\ Len(first) = 1 /\ first[1].content = content
  BY DEF Revisions, Revision
<1>3. u = Append(s, first)
  OBVIOUS
<1> HIDE DEF first
<1>4. /\ u \in Seq(Seq(Revisions)) /\ Len(u) = Len(s) + 1
      /\ \A id \in 1 .. Len(s) : u[id] = s[id]
      /\ u[Len(s) + 1] = first
  <2> DEFINE new == Append(s, first)
  <2>1. /\ new \in Seq(Seq(Revisions)) /\ Len(new) = Len(s) + 1
        /\ \A id \in 1 .. Len(s) : new[id] = s[id]
        /\ new[Len(s) + 1] = first
    BY <1>2, AppendProperties
  <2> HIDE DEF new
  <2>2. u = new
    BY <1>3 DEF new
  <2> QED
    BY <2>1, <2>2
<1>5. Filled(u)
  <2> SUFFICES ASSUME NEW id \in 1 .. Len(u) PROVE 1 <= Len(u[id])
    BY DEF Filled
  <2>1. id \in 1 .. Len(s) \/ id = Len(s) + 1
    BY <1>1, <1>4
  <2> QED
    BY <1>2, <1>4, <2>1 DEF Filled
<1>6. ASSUME NEW id \in 1 .. Len(s)
      PROVE  /\ Len(s[id]) <= Len(u[id])
             /\ \A r \in 1 .. Len(s[id]) : u[id][r].content = s[id][r].content
  BY <1>1, <1>4
<1>7. GrowsTo(s, u)
  <2>1. Len(s) <= Len(u)
    BY <1>1, <1>4
  <2> QED
    BY <1>4, <1>5, <1>6, <2>1 DEF GrowsTo
<1> QED
  BY <1>2, <1>4, <1>7

\* A scenario is replaced by one that has its revisions and possibly more.
LEMMA GrowsReplaced ==
    ASSUME NEW s \in Seq(Seq(Revisions)), Filled(s), NEW id \in 1 .. Len(s),
           NEW ours \in Seq(Revisions), NEW u, u = [s EXCEPT ![id] = ours],
           Len(s[id]) <= Len(ours),
           \A r \in 1 .. Len(s[id]) : ours[r].content = s[id][r].content
    PROVE  GrowsTo(s, u) /\ u[id] = ours
<1>1. Len(s) \in Nat /\ Len(ours) \in Nat /\ \A i \in 1 .. Len(s) : Len(s[i]) \in Nat
  BY Lengths, LenProperties
<1>2. /\ u \in Seq(Seq(Revisions)) /\ Len(u) = Len(s) /\ u[id] = ours
      /\ \A i \in 1 .. Len(s) : i # id => u[i] = s[i]
  BY ReplaceEffect
<1>3. ASSUME NEW i \in 1 .. Len(s)
      PROVE  /\ 1 <= Len(s[i]) /\ Len(s[i]) <= Len(u[i])
             /\ \A r \in 1 .. Len(s[i]) : u[i][r].content = s[i][r].content
  <2>1. CASE i = id
    BY <1>2, <2>1 DEF Filled
  <2>2. CASE i # id
    BY <1>1, <1>2, <2>2 DEF Filled
  <2> QED
    BY <2>1, <2>2
<1>4. Filled(u)
  <2> SUFFICES ASSUME NEW i \in 1 .. Len(s) PROVE 1 <= Len(u[i])
    BY <1>2 DEF Filled
  <2>1. Len(s[i]) \in Nat /\ Len(u[i]) \in Nat
    BY <1>2, Lengths
  <2> QED
    BY <1>3, <2>1
<1>5. Len(s) <= Len(u)
  BY <1>1, <1>2
<1> QED
  BY <1>2, <1>3, <1>4, <1>5 DEF GrowsTo

\* One revision more.
LEMMA RevisedEffect ==
    ASSUME NEW o \in Seq(Revisions), NEW rev \in Revisions
    PROVE  LET n == Append(o, rev) IN
           /\ n \in Seq(Revisions) /\ Len(n) \in Nat /\ Len(o) <= Len(n) /\ 1 <= Len(n)
           /\ \A r \in 1 .. Len(o) : n[r].content = o[r].content
           /\ n[Len(n)] = rev
<1> DEFINE n == Append(o, rev)
<1>1. /\ n \in Seq(Revisions) /\ Len(n) = Len(o) + 1 /\ n[Len(o) + 1] = rev
      /\ \A r \in 1 .. Len(o) : n[r] = o[r]
  BY AppendProperties
<1>2. Len(o) \in Nat
  BY LenProperties
<1> HIDE DEF n
<1>3. /\ n \in Seq(Revisions) /\ Len(n) \in Nat /\ Len(o) <= Len(n) /\ 1 <= Len(n)
      /\ \A r \in 1 .. Len(o) : n[r].content = o[r].content
      /\ n[Len(n)] = rev
  BY <1>1, <1>2
<1> QED
  BY <1>3 DEF n

LEMMA GrowsRevised ==
    ASSUME NEW s \in Seq(Seq(Revisions)), Filled(s), NEW id \in 1 .. Len(s),
           NEW content \in Contents
    PROVE  LET u == [s EXCEPT ![id] = Append(@, Revision(content, FALSE))] IN
           /\ GrowsTo(s, u)
           /\ Len(u[id]) \in Nat /\ 1 <= Len(u[id]) /\ u[id][Len(u[id])].content = content
<1> DEFINE rev == Revision(content, FALSE)
           ours == Append(s[id], rev)
           u == [s EXCEPT ![id] = ours]
<1>1. s[id] \in Seq(Revisions)
  BY Lengths
<1>2. rev \in Revisions /\ rev.content = content
  BY DEF Revisions, Revision
<1> HIDE DEF rev
<1>3. /\ ours \in Seq(Revisions) /\ Len(ours) \in Nat /\ Len(s[id]) <= Len(ours) /\ 1 <= Len(ours)
      /\ \A r \in 1 .. Len(s[id]) : ours[r].content = s[id][r].content
      /\ ours[Len(ours)] = rev
  BY <1>1, <1>2, RevisedEffect
<1> HIDE DEF ours
<1>4. GrowsTo(s, u) /\ u[id] = ours
  BY <1>3, GrowsReplaced
<1> QED
  BY <1>2, <1>3, <1>4 DEF ours, rev

\* A revision is published.
LEMMA PublishedEffect ==
    ASSUME NEW o \in Seq(Revisions), NEW r \in 1 .. Len(o)
    PROVE  LET n == [o EXCEPT ![r].published = TRUE] IN
           /\ n \in Seq(Revisions) /\ Len(o) <= Len(n)
           /\ \A q \in 1 .. Len(o) : n[q].content = o[q].content
<1> DEFINE rev == [o[r] EXCEPT !.published = TRUE]
           n == [o EXCEPT ![r] = rev]
<1>1. o[r] \in Revisions
  BY ElementOfSeq
<1>2. rev \in Revisions /\ rev.content = o[r].content
  BY <1>1 DEF Revisions
<1> HIDE DEF rev
<1>3. /\ n \in Seq(Revisions) /\ Len(n) = Len(o) /\ n[r] = rev
      /\ \A q \in 1 .. Len(o) : q # r => n[q] = o[q]
  BY <1>2, ReplaceEffect
<1>4. Len(o) \in Nat
  BY LenProperties
<1> HIDE DEF n
<1>5. /\ n \in Seq(Revisions) /\ Len(o) <= Len(n)
      /\ \A q \in 1 .. Len(o) : n[q].content = o[q].content
  BY <1>2, <1>3, <1>4
<1> QED
  BY <1>5 DEF n, rev

LEMMA GrowsPublished ==
    ASSUME NEW s \in Seq(Seq(Revisions)), Filled(s), NEW id \in 1 .. Len(s),
           NEW r \in 1 .. Len(s[id])
    PROVE  GrowsTo(s, [s EXCEPT ![id][r].published = TRUE])
<1> DEFINE ours == [s[id] EXCEPT ![r].published = TRUE]
<1>1. s[id] \in Seq(Revisions)
  BY Lengths
<1>2. /\ ours \in Seq(Revisions) /\ Len(s[id]) <= Len(ours)
      /\ \A q \in 1 .. Len(s[id]) : ours[q].content = s[id][q].content
  BY <1>1, PublishedEffect
<1> HIDE DEF ours
<1>3. GrowsTo(s, [s EXCEPT ![id] = ours])
  BY <1>2, GrowsReplaced
<1> QED
  BY <1>3 DEF ours

LEMMA GrowsKept ==
    ASSUME NEW s \in Seq(Seq(Revisions)), Filled(s)
    PROVE  GrowsTo(s, s)
<1>1. Len(s) \in Nat /\ \A id \in 1 .. Len(s) : Len(s[id]) \in Nat
  BY Lengths
<1> QED
  BY <1>1 DEF GrowsTo

\* What was stored is.
LEMMA StaysStored ==
    ASSUME NEW s \in Seq(Seq(Revisions)), NEW u, GrowsTo(s, u),
           NEW id \in 1 .. Len(s)
    PROVE  /\ id \in 1 .. Len(u)
           /\ \A r \in 1 .. Len(s[id]) : r \in 1 .. Len(u[id]) /\ u[id][r].content = s[id][r].content
<1>1. u \in Seq(Seq(Revisions)) /\ Len(s) <= Len(u)
  BY DEF GrowsTo
<1>2. Len(s) \in Nat /\ Len(u) \in Nat
  BY <1>1, Lengths
<1>3. id \in 1 .. Len(u)
  BY <1>1, <1>2
<1>4. Len(s[id]) \in Nat /\ Len(u[id]) \in Nat
  BY <1>1, <1>3, Lengths
<1>5. Len(s[id]) <= Len(u[id])
  BY DEF GrowsTo
<1> QED
  BY <1>3, <1>4, <1>5 DEF GrowsTo

\* What a task goes on with stays.
LEMMA SoundKept ==
    ASSUME Library, Grows, NEW t, TaskSound(t)
    PROVE  TaskSound(t)'
<1>1. scenarios \in Seq(Seq(Revisions)) /\ GrowsTo(scenarios, scenarios')
  BY DEF Grows, Library, LibraryTyped
<1>2. \A id \in 1 .. Len(scenarios) :
          /\ id \in 1 .. Len(scenarios')
          /\ \A r \in 1 .. Len(scenarios[id]) :
                r \in 1 .. Len(scenarios'[id]) /\ scenarios'[id][r].content = scenarios[id][r].content
  BY <1>1, StaysStored
<1> QED
  BY <1>2 DEF TaskSound, StoredAs, StoredRevision, Stored

\* The baseline stays a revision of the scenario the draft is saved as.
LEMMA BaselineKept ==
    ASSUME Library, Grows, draft'.saved = draft.saved, UNCHANGED baseline
    PROVE  BaselineStored'
<1>1. scenarios \in Seq(Seq(Revisions)) /\ GrowsTo(scenarios, scenarios')
  BY DEF Grows, Library, LibraryTyped
<1>2. \A id \in 1 .. Len(scenarios) :
          /\ id \in 1 .. Len(scenarios')
          /\ \A r \in 1 .. Len(scenarios[id]) :
                r \in 1 .. Len(scenarios'[id]) /\ scenarios'[id][r].content = scenarios[id][r].content
  BY <1>1, StaysStored
<1> QED
  BY <1>2 DEF Library, BaselineStored, Stored

-----------------------------------------------------------------------------
(***************************************************************************)
(* The draft, the panel and the tasks.                                     *)
(***************************************************************************)

\* What every step of the library has to keep.
LEMMA LibraryStep ==
    ASSUME Library, Grows,
           draft' \in Drafts, baseline' \in Contents, mount' \in Nat, started' \in Nat,
           listed' \in SUBSET (1 .. Len(scenarios')), bookmarks' \in SUBSET (1 .. Len(scenarios')),
           tasks' \in SUBSET TaskSet, \A t \in tasks' \ tasks : TaskSound(t)',
           BaselineStored'
    PROVE  Library'
<1>1. scenarios' \in Seq(Seq(Revisions)) /\ ScenariosFilled'
  BY DEF Grows, GrowsTo, Filled, ScenariosFilled
<1>2. Len(scenarios') \in Nat
  BY <1>1, Lengths
<1>3. LibraryTyped'
  BY <1>1, <1>2 DEF LibraryTyped
<1>4. \A t \in tasks' : TaskSound(t)'
  BY SoundKept DEF Library, LibrarySound
<1>5. \A id \in listed' \cup bookmarks' : Stored(id)'
  BY DEF Stored
<1> QED
  BY <1>1, <1>3, <1>4, <1>5 DEF Library, LibrarySound

\* What holds of the library before a step.
LEMMA LibraryFacts ==
    ASSUME Library
    PROVE  /\ scenarios \in Seq(Seq(Revisions)) /\ Filled(scenarios) /\ Len(scenarios) \in Nat
           /\ draft \in Drafts /\ baseline \in Contents /\ mount \in Nat /\ started \in Nat
           /\ draft.content \in Contents /\ draft.saved \in Number /\ draft.opened \in Nat
           /\ listed \in SUBSET (1 .. Len(scenarios)) /\ bookmarks \in SUBSET (1 .. Len(scenarios))
           /\ tasks \in SUBSET TaskSet /\ \A t \in tasks : TaskSound(t)
           /\ draft.saved # None => draft.saved \in 1 .. Len(scenarios)
<1>1. scenarios \in Seq(Seq(Revisions))
  BY DEF Library, LibraryTyped
<1>2. Len(scenarios) \in Nat
  BY <1>1, Lengths
<1>3. draft.content \in Contents /\ draft.saved \in Number /\ draft.opened \in Nat
  BY DEF Library, LibraryTyped, Drafts
<1> QED
  BY <1>1, <1>2, <1>3 DEF Library, LibraryTyped, LibrarySound, ScenariosFilled, Filled,
     BaselineStored, Stored

\* Nothing of it changes when none of its variables does.
LEMMA LibraryKept ==
    ASSUME Library, UNCHANGED <<draft, baseline, mount, listed, tasks, bookmarks, started, scenarios>>
    PROVE  Library'
<1>1. Grows
  BY LibraryFacts, GrowsKept DEF Grows
<1>2. BaselineStored'
  BY <1>1, BaselineKept
<1> QED
  BY <1>1, <1>2, LibraryFacts, LibraryStep

LEMMA EditKeepsLibrary ==
    ASSUME Library, Edit
    PROVE  Library'
<1>1. PICK content \in Contents : draft' = [draft EXCEPT !.content = content]
  BY DEF Edit
<1>2. UNCHANGED <<baseline, mount, listed, tasks, bookmarks, started, scenarios>>
  BY DEF Edit, library
<1>3. draft' \in Drafts /\ draft'.saved = draft.saved
  BY <1>1, LibraryFacts DEF Drafts
<1>4. Grows
  BY <1>2, LibraryFacts, GrowsKept DEF Grows
<1>5. BaselineStored'
  BY <1>2, <1>3, <1>4, BaselineKept
<1> QED
  BY <1>2, <1>3, <1>4, <1>5, LibraryFacts, LibraryStep

\* A new scenario or a preset is saved as nothing.
LEMMA UnsavedSwitchKeepsLibrary ==
    ASSUME Library, RunnerTyped, NEW content \in Contents, SwitchTo(content, None),
           UNCHANGED <<library, scenarios>>
    PROVE  Library'
<1>1. draft' = Draft(content, None, seq + 1) /\ baseline' = content
  BY DEF SwitchTo, LoadDraft, Draft
<1>2. draft' \in Drafts /\ draft'.saved = None
  BY <1>1 DEF Draft, Drafts, Number, RunnerTyped
<1>3. UNCHANGED <<mount, listed, tasks, bookmarks, started, scenarios>>
  BY DEF library
<1>4. Grows
  BY <1>3, LibraryFacts, GrowsKept DEF Grows
<1>5. BaselineStored'
  BY <1>2 DEF BaselineStored
<1> QED
  BY <1>1, <1>2, <1>3, <1>4, <1>5, LibraryFacts, LibraryStep

LEMMA PanelKeepsLibrary ==
    ASSUME Library, OpenLibrary \/ CloseLibrary \/ ForgetPointer
    PROVE  Library'
<1>1. /\ UNCHANGED <<draft, baseline, tasks, started, scenarios>>
      /\ mount' \in Nat /\ listed' \in SUBSET (listed \cup bookmarks)
      /\ bookmarks' \in SUBSET bookmarks
  BY LibraryFacts DEF OpenLibrary, CloseLibrary, ForgetPointer
<1>2. Grows
  BY <1>1, LibraryFacts, GrowsKept DEF Grows
<1>3. BaselineStored'
  BY <1>1, <1>2, BaselineKept
<1> QED
  BY <1>1, <1>2, <1>3, LibraryFacts, LibraryStep

\* A task begins with rows that exist.
LEMMA StartKeepsLibrary ==
    ASSUME Library, SaveNew \/ SaveRevision \/ Load \/ Clone
    PROVE  Library'
<1>1. PICK kind \in Kinds, at \in {"create", "revise", "scenario"}, id \in Number :
          Start(kind, at, id) /\ (at # "create" => id \in 1 .. Len(scenarios))
  <2>1. CASE SaveNew
    BY <2>1 DEF SaveNew, Kinds, Number
  <2>2. CASE SaveRevision
    BY <2>2, LibraryFacts DEF SaveRevision, Kinds, Number
  <2>3. CASE Load
    BY <2>3, LibraryFacts DEF Load, Kinds, Number
  <2>4. CASE Clone
    BY <2>4, LibraryFacts DEF Clone, Kinds, Number
  <2> QED
    BY <2>1, <2>2, <2>3, <2>4
<1> DEFINE new == [no |-> started + 1, mount |-> mount, kind |-> kind, at |-> at,
                   id |-> id, rev |-> None, draft |-> draft]
<1>2. /\ started' = started + 1 /\ tasks' = tasks \cup {new}
      /\ UNCHANGED <<draft, baseline, mount, listed, bookmarks, scenarios>>
  BY <1>1 DEF Start
<1>3. new \in TaskSet /\ new.at = at /\ new.id = id
  BY LibraryFacts DEF TaskSet, Stops, Number
<1> HIDE DEF new
<1>4. Grows
  BY <1>2, LibraryFacts, GrowsKept DEF Grows
<1>5. BaselineStored'
  BY <1>2, <1>4, BaselineKept
<1>6. \A t \in tasks' \ tasks : TaskSound(t)'
  BY <1>1, <1>2, <1>3 DEF TaskSound, Stored
<1>7. started' \in Nat /\ tasks' \in SUBSET TaskSet
  BY <1>2, <1>3, LibraryFacts
<1> QED
  BY <1>2, <1>4, <1>5, <1>6, <1>7, LibraryFacts, LibraryStep

\* The row getScenario answers with exists.
LEMMA LatestExists ==
    ASSUME Library, NEW id \in 1 .. Len(scenarios)
    PROVE  Latest(id) \in 1 .. Len(scenarios[id])
<1> DEFINE ours      == scenarios[id]
           published == {r \in DOMAIN ours : ours[r].published}
           shown     == IF published # {} THEN published ELSE DOMAIN ours
<1>1. /\ ours \in Seq(Revisions) /\ Len(ours) \in Nat /\ DOMAIN ours = 1 .. Len(ours)
      /\ 1 <= Len(ours)
  BY LibraryFacts, Lengths, LenProperties DEF Filled
<1> HIDE DEF ours
<1>2. shown \in SUBSET (1 .. Len(ours)) /\ shown # {}
  BY <1>1
<1>3. PICK m \in shown : \A r \in shown : r <= m
  BY <1>1, <1>2, GreatestExists
<1>4. m \in DOMAIN ours /\ (published # {} => m \in published) /\ \A q \in shown : q <= m
  BY <1>1, <1>2, <1>3
<1>5. Latest(id) = CHOOSE r \in DOMAIN ours :
          /\ published # {} => r \in published
          /\ \A q \in shown : q <= r
  BY DEF Latest, ours
<1> HIDE DEF published, shown
<1>6. Latest(id) \in DOMAIN ours
  BY <1>4, <1>5
<1> QED
  BY <1>1, <1>6 DEF ours

\* A task goes on with rows that exist.
LEMMA ProceedKeepsLibrary ==
    ASSUME Library, Grows, NEW t \in tasks, NEW at \in Stops, NEW id \in Nat, NEW rev \in Nat,
           Proceeds(t, at, id, rev),
           UNCHANGED <<draft, baseline, mount, listed, bookmarks, started>>,
           at # "create",
           id \in 1 .. Len(scenarios'), rev \in 1 .. Len(scenarios'[id]),
           at \in {"publish", "snapshot"} => scenarios'[id][rev].content = t.draft.content
    PROVE  Library'
<1> DEFINE new == [t EXCEPT !.at = at, !.id = id, !.rev = rev]
<1>1. t \in TaskSet
  BY LibraryFacts
<1>2. new \in TaskSet /\ new.at = at /\ new.id = id /\ new.rev = rev /\ new.draft = t.draft
  <2>1. id \in Number /\ rev \in Number
    BY DEF Number
  <2> QED
    BY <1>1, <2>1, at \in Stops DEF TaskSet
<1>3. tasks' = (tasks \ {t}) \cup {new}
  BY DEF Proceeds
<1> HIDE DEF new
<1>4. BaselineStored'
  BY BaselineKept
<1>5. scenarios \in Seq(Seq(Revisions)) /\ \A i \in 1 .. Len(scenarios) : i \in 1 .. Len(scenarios')
  BY LibraryFacts, StaysStored DEF Grows
<1>6. \A u \in tasks' \ tasks : TaskSound(u)'
  BY <1>2, <1>3 DEF TaskSound, StoredAs, StoredRevision, Stored
<1>7. tasks' \in SUBSET TaskSet
  BY <1>2, <1>3, LibraryFacts
<1> QED
  BY <1>4, <1>5, <1>6, <1>7, LibraryFacts, LibraryStep

LEMMA CreateKeepsLibrary ==
    ASSUME Library, NEW t \in tasks, ScenarioCreated(t), UNCHANGED <<mount, started>>
    PROVE  Library'
<1>1. t.draft.content \in Contents
  BY LibraryFacts DEF TaskSet, Drafts
<1>2. /\ scenarios' = Append(scenarios, <<Revision(t.draft.content, FALSE)>>)
      /\ Proceeds(t, "publish", Len(scenarios'), 1)
      /\ UNCHANGED <<draft, baseline, bookmarks, listed>>
  BY DEF ScenarioCreated
<1>3. /\ Grows /\ Len(scenarios') = Len(scenarios) + 1 /\ Len(scenarios) \in Nat
      /\ Len(scenarios'[Len(scenarios')]) = 1
      /\ scenarios'[Len(scenarios')][1].content = t.draft.content
  <2> DEFINE u == Append(scenarios, <<Revision(t.draft.content, FALSE)>>)
  <2>1. scenarios \in Seq(Seq(Revisions)) /\ Filled(scenarios) /\ Len(scenarios) \in Nat
    BY LibraryFacts
  <2>2. /\ GrowsTo(scenarios, u) /\ Len(u) = Len(scenarios) + 1
        /\ Len(u[Len(u)]) = 1 /\ u[Len(u)][1].content = t.draft.content
    BY <1>1, <2>1, GrowsCreated
  <2>3. scenarios' = u
    BY <1>2
  <2> HIDE DEF u
  <2> QED
    BY <2>1, <2>2, <2>3 DEF Grows
<1>4. /\ Len(scenarios') \in Nat /\ Len(scenarios') \in 1 .. Len(scenarios')
      /\ 1 \in 1 .. Len(scenarios'[Len(scenarios')])
  BY <1>3
<1> QED
  BY <1>2, <1>3, <1>4, ProceedKeepsLibrary DEF Stops

LEMMA ReviseKeepsLibrary ==
    ASSUME Library, NEW t \in tasks, RevisionCreated(t), UNCHANGED <<mount, started>>
    PROVE  Library'
<1>1. t.draft.content \in Contents /\ t.id \in 1 .. Len(scenarios)
  BY LibraryFacts DEF TaskSet, Drafts, RevisionCreated, TaskSound, Stored
<1>2. /\ scenarios' = [scenarios EXCEPT ![t.id] = Append(@, Revision(t.draft.content, FALSE))]
      /\ Proceeds(t, "publish", t.id, Len(scenarios'[t.id]))
      /\ UNCHANGED <<draft, baseline, bookmarks, listed>>
  BY DEF RevisionCreated
<1>3. /\ Grows /\ Len(scenarios'[t.id]) \in Nat /\ 1 <= Len(scenarios'[t.id])
      /\ scenarios'[t.id][Len(scenarios'[t.id])].content = t.draft.content
  <2> DEFINE u == [scenarios EXCEPT ![t.id] = Append(@, Revision(t.draft.content, FALSE))]
  <2>1. scenarios \in Seq(Seq(Revisions)) /\ Filled(scenarios)
    BY LibraryFacts
  <2>2. /\ GrowsTo(scenarios, u)
        /\ Len(u[t.id]) \in Nat /\ 1 <= Len(u[t.id])
        /\ u[t.id][Len(u[t.id])].content = t.draft.content
    <3> DEFINE content == t.draft.content
               id == t.id
               v == [scenarios EXCEPT ![id] = Append(scenarios[id], Revision(content, FALSE))]
    <3>1. content \in Contents /\ id \in 1 .. Len(scenarios)
      BY <1>1
    <3> HIDE DEF content, id
    <3>2. /\ GrowsTo(scenarios, v)
          /\ Len(v[id]) \in Nat /\ 1 <= Len(v[id]) /\ v[id][Len(v[id])].content = content
      BY <2>1, <3>1, GrowsRevised
    <3> QED
      BY <3>2 DEF content, id
  <2>3. scenarios' = u
    BY <1>2
  <2> HIDE DEF u
  <2> QED
    BY <2>2, <2>3 DEF Grows
<1>4. t.id \in 1 .. Len(scenarios') /\ t.id \in Nat
      /\ Len(scenarios'[t.id]) \in 1 .. Len(scenarios'[t.id])
  BY <1>1, <1>3, LibraryFacts, StaysStored DEF Grows
<1> QED
  BY <1>2, <1>3, <1>4, ProceedKeepsLibrary DEF Stops

LEMMA PublishKeepsLibrary ==
    ASSUME Library, NEW t \in tasks, RevisionPublished(t), UNCHANGED <<mount, started>>
    PROVE  Library'
<1>1. /\ t.id \in 1 .. Len(scenarios) /\ t.rev \in 1 .. Len(scenarios[t.id])
      /\ scenarios[t.id][t.rev].content = t.draft.content
  BY LibraryFacts DEF RevisionPublished, TaskSound, StoredAs, StoredRevision, Stored
<1>2. /\ scenarios' = [scenarios EXCEPT ![t.id][t.rev].published = TRUE]
      /\ Proceeds(t, "snapshot", t.id, t.rev)
      /\ UNCHANGED <<draft, baseline, bookmarks, listed>>
  BY DEF RevisionPublished
<1>3. Grows
  BY <1>1, <1>2, LibraryFacts, GrowsPublished DEF Grows
<1>4. /\ t.id \in 1 .. Len(scenarios') /\ t.rev \in 1 .. Len(scenarios'[t.id])
      /\ scenarios'[t.id][t.rev].content = t.draft.content
  BY <1>1, <1>3, LibraryFacts, StaysStored DEF Grows
<1>5. t.id \in Nat /\ t.rev \in Nat
  BY <1>1
<1> QED
  BY <1>2, <1>3, <1>4, <1>5, ProceedKeepsLibrary DEF Stops

LEMMA ReadKeepsLibrary ==
    ASSUME Library, NEW t \in tasks, ScenarioRead(t), UNCHANGED <<mount, started>>
    PROVE  Library'
<1>1. t.id \in 1 .. Len(scenarios)
  BY LibraryFacts DEF ScenarioRead, TaskSound, Stored
<1>2. Latest(t.id) \in 1 .. Len(scenarios[t.id])
  BY <1>1, LatestExists
<1> DEFINE at == IF t.kind = "load" THEN "content" ELSE "clone"
<1>3. /\ Proceeds(t, at, t.id, Latest(t.id))
      /\ UNCHANGED <<draft, baseline, bookmarks, listed, scenarios>>
  BY DEF ScenarioRead
<1>4. Grows
  BY <1>3, LibraryFacts, GrowsKept DEF Grows
<1>5. at \in Stops /\ at # "create" /\ at \notin {"publish", "snapshot"}
  BY DEF Stops
<1>6. t.id \in Nat /\ Latest(t.id) \in Nat
  BY <1>1, <1>2
<1> HIDE DEF at
<1> QED
  BY <1>1, <1>2, <1>3, <1>4, <1>5, <1>6, ProceedKeepsLibrary

\* What the draft is rebased on is what the task has saved.
LEMMA SaveKeepsLibrary ==
    ASSUME Library, NEW t \in tasks, SaveDone(t), UNCHANGED <<mount, started>>
    PROVE  Library'
<1>1. /\ t.id \in 1 .. Len(scenarios) /\ t.rev \in 1 .. Len(scenarios[t.id])
      /\ scenarios[t.id][t.rev].content = t.draft.content
      /\ t.draft \in Drafts
  BY LibraryFacts DEF SaveDone, TaskSound, StoredAs, StoredRevision, Stored, TaskSet
<1>2. /\ draft' = Draft(t.draft.content, t.id, t.draft.opened) /\ baseline' = t.draft.content
      /\ tasks' = tasks \ {t} /\ UNCHANGED scenarios
  BY DEF SaveDone, LoadDraft, Rebased, Draft, Ends
<1>3. /\ bookmarks' \in SUBSET (bookmarks \cup {t.id})
      /\ listed' \in SUBSET (listed \cup bookmarks \cup {t.id})
  BY DEF SaveDone, Bookmarks
<1>4. Grows
  BY <1>2, LibraryFacts, GrowsKept DEF Grows
<1>5. draft' \in Drafts /\ draft'.saved = t.id /\ baseline' \in Contents
  BY <1>1, <1>2 DEF Draft, Drafts, Number
<1>6. BaselineStored'
  BY <1>1, <1>2, <1>5 DEF BaselineStored, Stored
<1> QED
  BY <1>1, <1>2, <1>3, <1>4, <1>5, <1>6, LibraryFacts, LibraryStep

LEMMA LoadKeepsLibrary ==
    ASSUME Library, RunnerTyped, NEW t \in tasks, LoadDone(t), UNCHANGED <<mount, started>>
    PROVE  Library'
<1> DEFINE content == scenarios[t.id][t.rev].content
<1>1. t.id \in 1 .. Len(scenarios) /\ t.rev \in 1 .. Len(scenarios[t.id])
  BY LibraryFacts DEF LoadDone, TaskSound, StoredRevision, Stored
<1>2. content \in Contents
  <2>1. scenarios[t.id] \in Seq(Revisions)
    BY <1>1, LibraryFacts, Lengths
  <2>2. scenarios[t.id][t.rev] \in Revisions
    BY <1>1, <2>1, ElementOfSeq
  <2> QED
    BY <2>2 DEF Revisions
<1>3. /\ draft' = Draft(content, t.id, seq + 1) /\ baseline' = content
      /\ tasks' = tasks \ {t} /\ UNCHANGED <<bookmarks, listed, scenarios>>
  BY DEF LoadDone, SwitchTo, LoadDraft, Draft, Ends
<1>4. Grows
  BY <1>3, LibraryFacts, GrowsKept DEF Grows
<1>5. draft' \in Drafts /\ draft'.saved = t.id /\ baseline' \in Contents
  BY <1>1, <1>2, <1>3 DEF Draft, Drafts, Number, RunnerTyped
<1>6. BaselineStored'
  BY <1>1, <1>3, <1>5 DEF BaselineStored, Stored
<1> QED
  BY <1>1, <1>3, <1>4, <1>5, <1>6, LibraryFacts, LibraryStep

LEMMA CloneKeepsLibrary ==
    ASSUME Library, NEW t \in tasks, CloneDone(t), UNCHANGED <<mount, started>>
    PROVE  Library'
<1> DEFINE content == scenarios[t.id][t.rev].content
<1>1. t.id \in 1 .. Len(scenarios) /\ t.rev \in 1 .. Len(scenarios[t.id])
  BY LibraryFacts DEF CloneDone, TaskSound, StoredRevision, Stored
<1>2. content \in Contents
  <2>1. scenarios[t.id] \in Seq(Revisions)
    BY <1>1, LibraryFacts, Lengths
  <2>2. scenarios[t.id][t.rev] \in Revisions
    BY <1>1, <2>1, ElementOfSeq
  <2> QED
    BY <2>2 DEF Revisions
<1>3. /\ scenarios' = Append(scenarios, <<Revision(content, FALSE)>>)
      /\ bookmarks' = bookmarks \cup {Len(scenarios')}
      /\ listed' \in SUBSET (listed \cup bookmarks \cup {Len(scenarios')})
      /\ tasks' = tasks \ {t} /\ UNCHANGED <<draft, baseline>>
  BY DEF CloneDone, Bookmarks, Ends
<1> HIDE DEF content
<1>4. Grows /\ Len(scenarios') = Len(scenarios) + 1 /\ Len(scenarios) \in Nat
  BY <1>2, <1>3, LibraryFacts, GrowsCreated DEF Grows
<1>5. BaselineStored'
  BY <1>3, <1>4, BaselineKept
<1>6. \A id \in 1 .. Len(scenarios) : id \in 1 .. Len(scenarios')
  BY <1>4
<1>7. Len(scenarios') \in 1 .. Len(scenarios')
  BY <1>4
<1> QED
  BY <1>3, <1>4, <1>5, <1>6, <1>7, LibraryFacts, LibraryStep

LEMMA TaskFailureKeepsLibrary ==
    ASSUME Library, NEW t \in tasks, TaskFailed(t), UNCHANGED <<mount, started>>
    PROVE  Library'
<1>1. tasks' = tasks \ {t} /\ UNCHANGED <<draft, baseline, bookmarks, listed, scenarios>>
  BY DEF TaskFailed, Ends
<1>2. Grows
  BY <1>1, LibraryFacts, GrowsKept DEF Grows
<1>3. BaselineStored'
  BY <1>1, <1>2, BaselineKept
<1> QED
  BY <1>1, <1>2, <1>3, LibraryFacts, LibraryStep

-----------------------------------------------------------------------------
(***************************************************************************)
(* The theorems.                                                           *)
(***************************************************************************)
LEMMA InitInductive == Init => Runner /\ Library
<1> SUFFICES ASSUME Init PROVE Runner /\ Library
  OBVIOUS
<1>1. /\ draft = Draft(Preset, None, 0) /\ baseline = Preset /\ switched = 0
      /\ seq = 0 /\ phase = "idle" /\ lastRun = None /\ history = <<>> /\ calls = {}
      /\ mount = 0 /\ listed = {} /\ tasks = {} /\ bookmarks = {}
      /\ scenarios = <<>> /\ runs = <<>> /\ started = 0
  BY DEF Init
<1>2. /\ history \in Seq(Results) /\ runs \in Seq(Contents) /\ scenarios \in Seq(Seq(Revisions))
      /\ Len(history) = 0 /\ Len(scenarios) = 0
  BY <1>1, EmptySeq
<1>3. RunnerTyped
  BY <1>1, <1>2 DEF RunnerTyped, Phases
<1>4. CallsApart /\ RunsComputed /\ HistoryBehind /\ LateAnswersDropped /\ ProgressReal
  BY <1>1, <1>2 DEF CallsApart, RunsComputed, HistoryBehind, LateAnswersDropped, ProgressReal
<1>5. draft \in Drafts /\ draft.saved = None
  BY <1>1, WorkspaceAssumption DEF Draft, Drafts, Number
<1>6. LibraryTyped
  BY <1>1, <1>2, <1>5, WorkspaceAssumption DEF LibraryTyped
<1>7. LibrarySound /\ BaselineStored
  BY <1>1, <1>2, <1>5 DEF LibrarySound, ScenariosFilled, BaselineStored
<1> QED
  BY <1>3, <1>4, <1>6, <1>7 DEF Runner, Library

LEMMA RunAnsweredKeeps == ASSUME Runner, Library, RunAnswered PROVE Runner' /\ Library'
<1>1. UNCHANGED <<draft, baseline, switched, mount, listed, tasks, bookmarks, started, scenarios>>
  BY DEF RunAnswered, library
<1>2. PICK c \in calls :
          CreateAnswered(c) \/ ResultsAnswered(c) \/ AnswerFailed(c) \/ AnswerAborted(c)
  BY DEF RunAnswered
<1>3. Runner'
  BY <1>1, <1>2, CreateKeepsRunner, ResultsKeepRunner, FailureKeepsRunner
<1> QED
  BY <1>1, <1>3, LibraryKept

LEMMA TaskAnsweredKeeps == ASSUME Runner, Library, TaskAnswered PROVE Runner' /\ Library'
<1>1. UNCHANGED <<mount, started, runs>>
  BY DEF TaskAnswered
<1>2. PICK t \in tasks :
          \/ ScenarioCreated(t) \/ RevisionCreated(t) \/ RevisionPublished(t) \/ SaveDone(t)
          \/ ScenarioRead(t) \/ LoadDone(t) \/ CloneDone(t) \/ TaskFailed(t)
  BY DEF TaskAnswered
<1>3. CASE LoadDone(t)
  <2>1. Reset /\ switched' = seq + 1
    BY <1>3 DEF LoadDone, SwitchTo
  <2>2. Runner'
    BY <1>1, <2>1, ResetKeepsRunner
  <2>3. Library'
    BY <1>1, <1>3, LoadKeepsLibrary DEF Runner
  <2> QED
    BY <2>2, <2>3
<1>4. CASE ~LoadDone(t)
  <2>1. UNCHANGED <<runner, switched>>
    BY <1>2, <1>4 DEF ScenarioCreated, RevisionCreated, RevisionPublished, SaveDone, ScenarioRead,
       CloneDone, TaskFailed
  <2>2. Runner'
    BY <1>1, <2>1, RunnerKept
  <2>3. Library'
    BY <1>1, <1>2, <1>4, CreateKeepsLibrary, ReviseKeepsLibrary, PublishKeepsLibrary,
       SaveKeepsLibrary, ReadKeepsLibrary, CloneKeepsLibrary, TaskFailureKeepsLibrary
  <2> QED
    BY <2>2, <2>3
<1> QED
  BY <1>3, <1>4

LEMMA NextInductive == Runner /\ Library /\ [Next]_vars => Runner' /\ Library'
<1> SUFFICES ASSUME Runner, Library, [Next]_vars PROVE Runner' /\ Library'
  OBVIOUS
<1>1. CASE Run
  <2>1. UNCHANGED <<draft, baseline, mount, listed, tasks, bookmarks, started, scenarios>>
    BY <1>1 DEF Run, library
  <2> QED
    BY <1>1, <2>1, RunKeepsRunner, LibraryKept DEF Library
<1>2. CASE RunAnswered
  BY <1>2, RunAnsweredKeeps
<1>3. CASE Edit
  <2>1. UNCHANGED <<runner, switched, runs>>
    BY <1>3 DEF Edit
  <2> QED
    BY <1>3, <2>1, RunnerKept, EditKeepsLibrary
<1>4. CASE NewScenario \/ LoadBuiltin
  <2>1. PICK content \in Contents : SwitchTo(content, None) /\ UNCHANGED <<library, scenarios, runs>>
    BY <1>4, WorkspaceAssumption DEF NewScenario, LoadBuiltin
  <2>2. Reset /\ switched' = seq + 1
    BY <2>1 DEF SwitchTo
  <2> QED
    BY <2>1, <2>2, ResetKeepsRunner, UnsavedSwitchKeepsLibrary DEF Runner
<1>5. CASE OpenLibrary \/ CloseLibrary \/ ForgetPointer
  <2>1. UNCHANGED <<runner, switched, runs>>
    BY <1>5 DEF OpenLibrary, CloseLibrary, ForgetPointer
  <2> QED
    BY <1>5, <2>1, RunnerKept, PanelKeepsLibrary
<1>6. CASE SaveNew \/ SaveRevision \/ Load \/ Clone
  <2>1. UNCHANGED <<runner, switched, runs>>
    BY <1>6 DEF SaveNew, SaveRevision, Load, Clone, Start
  <2> QED
    BY <1>6, <2>1, RunnerKept, StartKeepsLibrary
<1>7. CASE TaskAnswered
  BY <1>7, TaskAnsweredKeeps
<1>8. CASE UNCHANGED vars
  <2>1. /\ UNCHANGED <<runner, switched, runs>>
        /\ UNCHANGED <<draft, baseline, mount, listed, tasks, bookmarks, started, scenarios>>
    BY <1>8 DEF vars, library
  <2> QED
    BY <2>1, RunnerKept, LibraryKept
<1> QED
  BY <1>1, <1>2, <1>3, <1>4, <1>5, <1>6, <1>7, <1>8 DEF Next

LEMMA InductiveHolds == Spec => [](Runner /\ Library)
BY InitInductive, NextInductive, PTL DEF Spec

\* Beside every result, and in the history, stands the input the server computed it
\* from, in whatever order answers, edits, saves and switches come.
THEOREM ResultsBesideTheirInput == Spec => []ResultOfItsInput
<1>1. Runner => ResultOfItsInput
  <2> SUFFICES ASSUME Runner, NEW e \in Entries PROVE runs[e.run] = e.content
    BY DEF ResultOfItsInput
  <2>1. DOMAIN history = 1 .. Len(history)
    BY LenProperties DEF Runner, RunnerTyped
  <2> QED
    BY <2>1 DEF Entries, Runner, RunsComputed, Computed
<1> QED
  BY <1>1, InductiveHolds, PTL

\* An answer to what was superseded or submitted before a switch is never shown as
\* current, and the history is in the order of submission.
THEOREM SupersededDropped == Spec => []LateAnswersDropped
<1>1. Runner => LateAnswersDropped
  BY DEF Runner
<1> QED
  BY <1>1, InductiveHolds, PTL

\* The phase says what the newest submission awaits.
THEOREM PhaseOfTheNewest == Spec => []ProgressReal
<1>1. Runner => ProgressReal
  BY DEF Runner
<1> QED
  BY <1>1, InductiveHolds, PTL

\* A draft shown as saved is a revision of the scenario it is saved as.
THEOREM SavedMeansStored == Spec => []SavedIsStored
<1>1. Library => SavedIsStored
  <2> SUFFICES ASSUME Library, ~Unsaved, draft.saved # None
               PROVE  \E r \in DOMAIN scenarios[draft.saved] :
                          scenarios[draft.saved][r].content = draft.content
    BY DEF SavedIsStored
  <2>1. /\ draft.saved \in 1 .. Len(scenarios) /\ draft.content = baseline
        /\ \E r \in 1 .. Len(scenarios[draft.saved]) : scenarios[draft.saved][r].content = baseline
    BY DEF Library, BaselineStored, Stored, Unsaved
  <2>2. DOMAIN scenarios[draft.saved] = 1 .. Len(scenarios[draft.saved])
    BY <2>1, LibraryFacts, Lengths, LenProperties
  <2> QED
    BY <2>1, <2>2
<1> QED
  BY <1>1, InductiveHolds, PTL
=============================================================================
