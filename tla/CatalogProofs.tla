--------------------------- MODULE CatalogProofs ---------------------------
(***************************************************************************)
(* The rows of the catalog keep their promises for any number of threads,  *)
(* heads, revisions, snapshots and runs, whichever calls fail and whenever *)
(* the process dies, on both tiers unless a theorem says otherwise.        *)
(***************************************************************************)
EXTENDS CatalogProperties, SequenceTheorems, FiniteSetTheorems, TLAPS

-----------------------------------------------------------------------------
(***************************************************************************)
(* The invariant.                                                          *)
(***************************************************************************)

Listed(s) == \E S : s \in Seq(S)

Shape ==
    /\ Listed(heads) /\ Listed(revisions) /\ Listed(snapshots)
    /\ DOMAIN job = Processes /\ faults \in Nat

RevisionsOwned == \A r \in RevisionId : revisions[r].head \in HeadId

\* What a thread has read of a revision is still so, for nothing of it can
\* change but its status, and that only to published.
Reads(r, head, no, content) ==
    /\ r \in RevisionId
    /\ revisions[r].head = head /\ revisions[r].no = no /\ revisions[r].content = content

JobSound(p) ==
    LET j == job[p] IN
    /\ "step" \in DOMAIN j
    /\ j.step \in {"list_revisions", "add_revision"} => j.head \in HeadId
    /\ j.step \in {"read_draft", "read_published"} => j.rev \in RevisionId
    /\ j.step = "replace" => Reads(j.rev, j.head, j.no, j.content)
    /\ j.step = "point" => /\ j.rev \in RevisionId /\ Published(j.rev)
                           /\ revisions[j.rev].head = j.head
    /\ j.step = "add_snapshot" => /\ Published(j.rev)
                                  /\ Reads(j.rev, revisions[j.rev].head, j.no, j.content)

JobsSound == \A p \in Processes : JobSound(p)

PointersSound ==
    \A h \in HeadId : heads[h].current # None =>
        /\ heads[h].current \in RevisionId /\ Published(heads[h].current)
        /\ revisions[heads[h].current].head = h

SnapshotsSound ==
    \A s \in DOMAIN snapshots :
        LET x == snapshots[s]
        IN  Published(x.rev) /\ Reads(x.rev, revisions[x.rev].head, x.no, x.content)

Inductive == Shape /\ RevisionsOwned /\ JobsSound /\ PointersSound /\ SnapshotsSound

-----------------------------------------------------------------------------
(***************************************************************************)
(* Lists of rows.                                                          *)
(***************************************************************************)

\* A row is inserted behind the others.
LEMMA Appended ==
    ASSUME NEW s, Listed(s), NEW e
    PROVE  /\ Listed(Append(s, e))
           /\ Len(s) \in Nat /\ DOMAIN s = 1 .. Len(s)
           /\ DOMAIN Append(s, e) = 1 .. (Len(s) + 1)
           /\ DOMAIN Append(s, e) = DOMAIN s \cup {Len(s) + 1}
           /\ Len(s) + 1 \notin DOMAIN s
           /\ \A i \in DOMAIN s : Append(s, e)[i] = s[i]
           /\ Append(s, e)[Len(s) + 1] = e
<1>1. PICK S : s \in Seq(S)
  BY DEF Listed
<1>2. s \in Seq(S \cup {e}) /\ e \in S \cup {e}
  BY <1>1
<1>3. /\ Append(s, e) \in Seq(S \cup {e}) /\ Len(Append(s, e)) = Len(s) + 1
      /\ \A i \in 1 .. Len(s) : Append(s, e)[i] = s[i]
      /\ Append(s, e)[Len(s) + 1] = e
  BY <1>2, AppendProperties
<1>4. Len(s) \in Nat /\ DOMAIN s = 1 .. Len(s)
  BY <1>1, LenProperties
<1>5. DOMAIN Append(s, e) = 1 .. (Len(s) + 1)
  BY <1>3, LenProperties
<1> QED
  BY <1>3, <1>4, <1>5 DEF Listed

\* A row is replaced.
LEMMA Replaced ==
    ASSUME NEW s, Listed(s), NEW i \in DOMAIN s, NEW e
    PROVE  Listed([s EXCEPT ![i] = e])
<1>1. PICK S : s \in Seq(S)
  BY DEF Listed
<1>2. s \in Seq(S \cup {e}) /\ e \in S \cup {e} /\ i \in 1 .. Len(s)
  BY <1>1, LenProperties
<1>3. [s EXCEPT ![i] = e] \in Seq(S \cup {e})
  BY <1>2, ExceptSeq
<1> QED
  BY <1>3 DEF Listed

\* A table starts empty.
LEMMA EmptyListed == Listed(<<>>)
<1>1. <<>> \in Seq({})
  OBVIOUS
<1> QED
  BY <1>1 DEF Listed

-----------------------------------------------------------------------------
(***************************************************************************)
(* What a step may do to the rows: revisions keep what they hold, and at   *)
(* most become published; heads and snapshots are not taken away.          *)
(***************************************************************************)

RevisionsKept ==
    \A r \in RevisionId :
        /\ r \in RevisionId'
        /\ revisions'[r].head = revisions[r].head /\ revisions'[r].no = revisions[r].no
        /\ revisions'[r].content = revisions[r].content
        /\ Published(r) => revisions'[r].status = "PUBLISHED"

RowsKept == RevisionsKept /\ \A h \in HeadId : h \in HeadId'

\* Only the thread of a step moves.
Moves(p) == DOMAIN job' = Processes /\ \A q \in Processes \ {p} : job'[q] = job[q]

\* A thread that goes on leaves the others where they are.
LEMMA GoesMoves ==
    ASSUME DOMAIN job = Processes, NEW p \in Processes, NEW next, Goes(p, next)
    PROVE  Moves(p) /\ job'[p] = next
BY DEF Goes, Moves

\* A thread that does not move still knows what it knew.
LEMMA JobKept ==
    ASSUME RowsKept, NEW q \in Processes, job'[q] = job[q], JobSound(q)
    PROVE  JobSound(q)'
BY DEF RowsKept, RevisionsKept, JobSound, Reads, Published

\* A head that is not written still points where it did.
LEMMA PointersKept ==
    ASSUME RowsKept, heads' = heads, PointersSound PROVE PointersSound'
BY DEF RowsKept, RevisionsKept, PointersSound, Published, HeadId

\* A snapshot that is not written is still a copy of its revision.
LEMMA SnapshotsKept ==
    ASSUME RowsKept, snapshots' = snapshots, SnapshotsSound PROVE SnapshotsSound'
BY DEF RowsKept, RevisionsKept, SnapshotsSound, Reads, Published

\* The jobs are sound after a step when the job of the thread that took it is.
LEMMA JobsKept ==
    ASSUME RowsKept, JobsSound, NEW p \in Processes, Moves(p), JobSound(p)'
    PROVE  JobsSound'
<1> SUFFICES ASSUME NEW q \in Processes PROVE JobSound(q)'
  BY DEF JobsSound
<1>1. CASE q = p
  BY <1>1
<1>2. CASE q # p
  BY <1>2, JobKept DEF Moves, JobsSound
<1> QED
  BY <1>1, <1>2

\* Rows that are not written are kept.
LEMMA SameRowsKept == UNCHANGED <<heads, revisions>> => RowsKept
BY DEF RowsKept, RevisionsKept, HeadId, RevisionId, Published

\* A step that leaves the rows alone keeps the invariant, if its thread knows
\* what it has to.
LEMMA MoveKeeps ==
    ASSUME Inductive, UNCHANGED <<heads, revisions, snapshots>>, faults' \in Nat,
           NEW p \in Processes, Moves(p), JobSound(p)'
    PROVE  Inductive'
<1>1. RowsKept
  BY SameRowsKept
<1>2. JobsSound'
  BY <1>1, JobsKept DEF Inductive
<1>3. Shape'
  BY DEF Inductive, Shape, Moves
<1>4. RevisionsOwned'
  BY DEF Inductive, RevisionsOwned, RevisionId, HeadId
<1> QED
  BY <1>1, <1>2, <1>3, <1>4, PointersKept, SnapshotsKept DEF Inductive

\* An idle thread knows nothing.
LEMMA IdleSound ==
    ASSUME NEW p \in Processes, job'[p] = Idle PROVE JobSound(p)'
BY DEF JobSound, Idle, Job

\* What a request leaves a thread to do.
LEMMA RequestEffect ==
    ASSUME NEW w \in Workers, Request(w)
    PROVE  \E next :
              /\ Requests(w, next)
              /\ "step" \in DOMAIN next
              /\ \/ next.step \in {"list_heads", "add_run"}
                 \/ next.step = "list_revisions" /\ next.head \in HeadId
                 \/ next.step \in {"read_draft", "read_published"} /\ next.rev \in RevisionId
<1>1. CASE RequestCreate(w)
  BY <1>1 DEF RequestCreate, Job
<1>2. CASE RequestRevision(w)
  BY <1>2 DEF RequestRevision, Job, HeadId
<1>3. CASE RequestPublish(w)
  BY <1>3 DEF RequestPublish, Job, RevisionId
<1>4. CASE RequestClone(w)
  BY <1>4 DEF RequestClone, Job
<1>5. CASE RequestSnapshot(w)
  BY <1>5 DEF RequestSnapshot, Job, RevisionId
<1>6. CASE RequestRun(w)
  BY <1>6 DEF RequestRun, Job
<1> QED
  BY <1>1, <1>2, <1>3, <1>4, <1>5, <1>6 DEF Request

\* A client names rows that are there.
LEMMA RequestKeeps ==
    ASSUME Inductive, NEW w \in Workers, Request(w) PROVE Inductive'
<1>2. PICK next :
        /\ Requests(w, next)
        /\ "step" \in DOMAIN next
        /\ \/ next.step \in {"list_heads", "add_run"}
           \/ next.step = "list_revisions" /\ next.head \in HeadId
           \/ next.step \in {"read_draft", "read_published"} /\ next.rev \in RevisionId
  BY RequestEffect
<1>3. w \in Processes /\ DOMAIN job = Processes /\ faults \in Nat
  BY DEF Processes, Inductive, Shape
<1>4. Moves(w) /\ job'[w] = next /\ UNCHANGED <<heads, revisions, snapshots, faults>>
  BY <1>2, <1>3, GoesMoves DEF Requests, rows
<1>5. JobSound(w)'
  BY <1>2, <1>4 DEF JobSound, HeadId, RevisionId
<1> QED
  BY <1>3, <1>4, <1>5, MoveKeeps

-----------------------------------------------------------------------------
(***************************************************************************)
(* The calls that only read.                                               *)
(***************************************************************************)

\* An error ends the use case.
LEMMA RaisesMoves ==
    ASSUME DOMAIN job = Processes, NEW p \in Processes, Raises(p)
    PROVE  Moves(p) /\ JobSound(p)'
BY GoesMoves, IdleSound DEF Raises

\* What a thread takes along is what the rows hold.
LEMMA ReadsKeep ==
    ASSUME Inductive, NEW p \in Processes,
           ListHeads(p) \/ ListRevisions(p) \/ ReadDraft(p) \/ ReadPublished(p)
    PROVE  Inductive'
<1>1. DOMAIN job = Processes /\ faults \in Nat /\ JobSound(p)
  BY DEF Inductive, Shape, JobsSound
<1>2. UNCHANGED <<heads, revisions, snapshots, faults>>
  BY DEF ListHeads, ListRevisions, ReadDraft, ReadPublished, rows
<1>3. Moves(p) /\ JobSound(p)'
  <2>1. CASE Raises(p)
    BY <1>1, <2>1, RaisesMoves
  <2>2. CASE ListHeads(p) /\ Goes(p, [job[p] EXCEPT !.step = "add_head"])
    <3>1. Moves(p) /\ job'[p] = [job[p] EXCEPT !.step = "add_head"]
      BY <1>1, <2>2, GoesMoves
    <3>2. job'[p].step = "add_head" /\ "step" \in DOMAIN job'[p]
      BY <1>1, <3>1 DEF JobSound
    <3> QED
      BY <3>1, <3>2 DEF JobSound
  <2>3. CASE ListRevisions(p)
    <3>1. Moves(p) /\ job'[p] = Job("add_revision", job[p].shelf, job[p].key, job[p].head, None,
                                    NextNumber(job[p].head), job[p].content)
      BY <1>1, <2>3, GoesMoves DEF ListRevisions
    <3>2. job[p].head \in HeadId
      BY <1>1, <2>3 DEF ListRevisions, JobSound, At
    <3> QED
      BY <1>2, <3>1, <3>2 DEF JobSound, Job, HeadId
  <2>4. CASE /\ ReadDraft(p)
             /\ LET r == job[p].rev
                IN  Goes(p, Job("replace", None, None, revisions[r].head, r, revisions[r].no,
                                revisions[r].content))
    <3> DEFINE r == job[p].rev
    <3>1. Moves(p) /\ job'[p] = Job("replace", None, None, revisions[r].head, r, revisions[r].no,
                                    revisions[r].content)
      BY <1>1, <2>4, GoesMoves
    <3>2. r \in RevisionId
      BY <1>1, <2>4 DEF ReadDraft, JobSound, At
    <3> QED
      BY <1>2, <3>1, <3>2 DEF JobSound, Job, RevisionId, Reads
  <2>5. CASE /\ ReadPublished(p)
             /\ LET r == job[p].rev
                IN  /\ Promotable(r)
                    /\ Goes(p, Job("add_snapshot", None, None, None, r, revisions[r].no,
                                   revisions[r].content))
    <3> DEFINE r == job[p].rev
    <3>1. /\ Moves(p) /\ Promotable(r)
          /\ job'[p] = Job("add_snapshot", None, None, None, r, revisions[r].no,
                           revisions[r].content)
      BY <1>1, <2>5, GoesMoves
    <3>2. r \in RevisionId
      BY <1>1, <2>5 DEF ReadPublished, JobSound, At
    <3> QED
      BY <1>2, <3>1, <3>2 DEF JobSound, Job, RevisionId, Reads, Published, Promotable
  <2> QED
    BY <2>1, <2>2, <2>3, <2>4, <2>5 DEF ListHeads, ReadDraft, ReadPublished
<1> QED
  BY <1>1, <1>2, <1>3, MoveKeeps

-----------------------------------------------------------------------------
(***************************************************************************)
(* The calls that write.                                                   *)
(***************************************************************************)

\* Runs and their links touch nothing the invariant is about.
LEMMA RunsKeep ==
    ASSUME Inductive, NEW p \in Processes, AddRun(p) \/ RecordRun(p) PROVE Inductive'
<1>1. DOMAIN job = Processes /\ faults \in Nat
  BY DEF Inductive, Shape
<1>2. UNCHANGED <<heads, revisions, snapshots, faults>>
  BY DEF AddRun, RecordRun
<1>3. Moves(p) /\ JobSound(p)'
  <2>1. CASE AddRun(p)
    <3>1. Moves(p) /\ job'[p] = Job("record_run", None, None, RecordedUnder(job[p].rev),
                                    Len(runs) + 1, None, None)
      BY <1>1, <2>1, GoesMoves DEF AddRun
    <3> QED
      BY <3>1 DEF JobSound, Job
  <2>2. CASE RecordRun(p)
    BY <1>1, <2>2, GoesMoves, IdleSound DEF RecordRun
  <2> QED
    BY <2>1, <2>2
<1> QED
  BY <1>1, <1>2, <1>3, MoveKeeps

\* A new head points nowhere; a scenario's thread goes on to its first revision.
LEMMA AddHeadEffect ==
    ASSUME Inductive, NEW p \in Processes, AddHead(p)
    PROVE  \/ Raises(p) /\ UNCHANGED heads
           \/ \E n : /\ Listed(heads') /\ HeadId' = HeadId \cup {n} /\ n \notin HeadId
                     /\ \A h \in HeadId : heads'[h] = heads[h]
                     /\ heads'[n].current = None /\ heads'[n].shelf = job[p].shelf
                     /\ \/ Goes(p, Idle) /\ job[p].shelf # "scenario"
                        \/ Goes(p, Job("list_revisions", job[p].shelf, job[p].key, n, None, None,
                                       job[p].content))
<1> DEFINE row == HeadRow(job[p].shelf, job[p].key, p = Boot, None)
           n   == Len(heads) + 1
<1>1. Listed(heads)
  BY DEF Inductive, Shape
<1>2. SUFFICES
         ASSUME heads' = Append(heads, row),
                \/ Goes(p, Idle) /\ job[p].shelf # "scenario"
                \/ Goes(p, Job("list_revisions", job[p].shelf, job[p].key, n, None, None,
                               job[p].content))
         PROVE  /\ Listed(heads') /\ HeadId' = HeadId \cup {n} /\ n \notin HeadId
                /\ \A h \in HeadId : heads'[h] = heads[h]
                /\ heads'[n].current = None /\ heads'[n].shelf = job[p].shelf
  <2>1. \/ Raises(p) /\ UNCHANGED heads
        \/ /\ heads' = Append(heads, row)
           /\ Goes(p, IF job[p].shelf = "scenario" \/ p = Boot
                      THEN Job("list_revisions", job[p].shelf, job[p].key, n, None, None,
                               job[p].content)
                      ELSE Idle)
    BY Zenon DEF AddHead
  <2> HIDE DEF row, n
  <2> QED
    BY <1>2, <2>1
<1>3. row.current = None /\ row.shelf = job[p].shelf
  BY DEF HeadRow
<1> HIDE DEF row
<1> QED
  BY <1>1, <1>2, <1>3, Appended DEF HeadId

\* Inserting a head keeps the invariant.
LEMMA AddHeadKeeps ==
    ASSUME Inductive, NEW p \in Processes, AddHead(p) PROVE Inductive'
<1>1. /\ DOMAIN job = Processes /\ faults \in Nat
      /\ UNCHANGED <<revisions, snapshots, faults>>
  BY DEF Inductive, Shape, AddHead
<1>2. CASE Raises(p) /\ UNCHANGED heads
  BY <1>1, <1>2, RaisesMoves, MoveKeeps
<1>3. ASSUME NEW n, Listed(heads'), HeadId' = HeadId \cup {n}, n \notin HeadId,
             \A h \in HeadId : heads'[h] = heads[h], heads'[n].current = None,
             \/ Goes(p, Idle)
             \/ Goes(p, Job("list_revisions", job[p].shelf, job[p].key, n, None, None,
                            job[p].content))
      PROVE  Inductive'
  <2>1. RowsKept
    BY <1>1, <1>3 DEF RowsKept, RevisionsKept, RevisionId, Published
  <2>2. Moves(p) /\ JobSound(p)'
    <3>1. CASE Goes(p, Idle)
      BY <1>1, <3>1, GoesMoves, IdleSound
    <3>2. CASE Goes(p, Job("list_revisions", job[p].shelf, job[p].key, n, None, None,
                           job[p].content))
      BY <1>1, <1>3, <3>2, GoesMoves DEF JobSound, Job
    <3> QED
      BY <1>3, <3>1, <3>2
  <2>3. PointersSound'
    BY <1>1, <1>3 DEF Inductive, PointersSound, HeadId, RevisionId, Published
  <2>4. RevisionsOwned'
    BY <1>1, <1>3 DEF Inductive, RevisionsOwned, RevisionId
  <2>5. JobsSound'
    BY <2>1, <2>2, JobsKept DEF Inductive
  <2>6. Shape'
    BY <1>1, <1>3, <2>2 DEF Inductive, Shape, Moves
  <2> QED
    BY <1>1, <2>1, <2>3, <2>4, <2>5, <2>6, SnapshotsKept DEF Inductive
<1> QED
  BY <1>2, <1>3, AddHeadEffect

\* A revision begins as a draft of the head its number was counted for.
LEMMA AddRevisionEffect ==
    ASSUME Inductive, NEW p \in Processes, AddRevision(p)
    PROVE  /\ job[p].head \in HeadId
           /\ \/ /\ Raises(p) /\ UNCHANGED revisions
                 /\ NumberConflict(job[p].head, job[p].no)
              \/ \E n : /\ ~NumberConflict(job[p].head, job[p].no)
                        /\ Listed(revisions') /\ RevisionId' = RevisionId \cup {n}
                        /\ n \notin RevisionId
                        /\ \A r \in RevisionId : revisions'[r] = revisions[r]
                        /\ revisions'[n].head = job[p].head /\ revisions'[n].no = job[p].no
                        /\ revisions'[n].status = "DRAFT"
                        /\ \/ Goes(p, Idle)
                           \/ Goes(p, Job("read_draft", None, None, None, n, None, None))
<1> DEFINE row == RevisionRow(job[p].head, job[p].no, "DRAFT", job[p].content, None)
           n   == Len(revisions) + 1
<1>1. Listed(revisions) /\ job[p].head \in HeadId
  BY DEF Inductive, Shape, AddRevision, At, JobsSound, JobSound
<1>2. SUFFICES ASSUME revisions' = Append(revisions, row)
               PROVE  /\ Listed(revisions') /\ RevisionId' = RevisionId \cup {n}
                      /\ n \notin RevisionId
                      /\ \A r \in RevisionId : revisions'[r] = revisions[r]
                      /\ revisions'[n].head = job[p].head /\ revisions'[n].no = job[p].no
                      /\ revisions'[n].status = "DRAFT"
  <2>1. \/ /\ Raises(p) /\ UNCHANGED revisions /\ NumberConflict(job[p].head, job[p].no)
        \/ /\ ~NumberConflict(job[p].head, job[p].no)
           /\ revisions' = Append(revisions, row)
           /\ Goes(p, IF p = Boot THEN Job("read_draft", None, None, None, n, None, None) ELSE Idle)
    BY Zenon DEF AddRevision
  <2> HIDE DEF row, n
  <2> QED
    BY <1>1, <1>2, <2>1
<1>3. row.head = job[p].head /\ row.no = job[p].no /\ row.status = "DRAFT"
  BY DEF RevisionRow
<1> HIDE DEF row
<1> QED
  BY <1>1, <1>2, <1>3, Appended DEF RevisionId

\* Inserting a draft keeps it: nobody points at a draft.
LEMMA AddRevisionKeeps ==
    ASSUME Inductive, NEW p \in Processes, AddRevision(p) PROVE Inductive'
<1>1. /\ DOMAIN job = Processes /\ faults \in Nat
      /\ UNCHANGED <<heads, snapshots, faults>> /\ job[p].head \in HeadId
  BY AddRevisionEffect DEF Inductive, Shape, AddRevision
<1>2. CASE Raises(p) /\ UNCHANGED revisions
  BY <1>1, <1>2, RaisesMoves, MoveKeeps
<1>3. ASSUME NEW n, Listed(revisions'), RevisionId' = RevisionId \cup {n}, n \notin RevisionId,
             \A r \in RevisionId : revisions'[r] = revisions[r],
             revisions'[n].head = job[p].head,
             \/ Goes(p, Idle)
             \/ Goes(p, Job("read_draft", None, None, None, n, None, None))
      PROVE  Inductive'
  <2>1. RowsKept
    BY <1>1, <1>3 DEF RowsKept, RevisionsKept, HeadId, Published
  <2>2. Moves(p) /\ JobSound(p)'
    <3>1. CASE Goes(p, Idle)
      BY <1>1, <3>1, GoesMoves, IdleSound
    <3>2. CASE Goes(p, Job("read_draft", None, None, None, n, None, None))
      BY <1>1, <1>3, <3>2, GoesMoves DEF JobSound, Job
    <3> QED
      BY <1>3, <3>1, <3>2
  <2>3. RevisionsOwned'
    BY <1>1, <1>3 DEF Inductive, RevisionsOwned, HeadId
  <2>4. JobsSound'
    BY <2>1, <2>2, JobsKept DEF Inductive
  <2>5. Shape'
    BY <1>1, <1>3, <2>2 DEF Inductive, Shape, Moves
  <2> QED
    BY <1>1, <2>1, <2>3, <2>4, <2>5, PointersKept, SnapshotsKept DEF Inductive
<1> QED
  BY <1>2, <1>3, AddRevisionEffect

\* The row is written back with what was read of it, and published.
LEMMA ReplaceEffect ==
    ASSUME Inductive, NEW p \in Processes, Replace(p)
    PROVE  /\ job[p].rev \in RevisionId /\ RevisionId' = RevisionId /\ Listed(revisions')
           /\ \A r \in RevisionId \ {job[p].rev} : revisions'[r] = revisions[r]
           /\ revisions'[job[p].rev].status = "PUBLISHED"
           /\ \A r \in RevisionId : /\ revisions'[r].head = revisions[r].head
                                    /\ revisions'[r].no = revisions[r].no
                                    /\ revisions'[r].content = revisions[r].content
<1>1. /\ Listed(revisions)
      /\ Reads(job[p].rev, job[p].head, job[p].no, job[p].content)
      /\ revisions' = [revisions EXCEPT ![job[p].rev] = Replacement(p)]
  BY DEF Inductive, Shape, JobsSound, JobSound, Replace, At
<1>2. job[p].rev \in DOMAIN revisions /\ Listed(revisions')
  BY <1>1, Replaced DEF Reads, RevisionId
<1>3. /\ Replacement(p).status = "PUBLISHED" /\ Replacement(p).head = job[p].head
      /\ Replacement(p).no = job[p].no /\ Replacement(p).content = job[p].content
  BY DEF Replacement, RevisionRow
<1>4. /\ DOMAIN revisions' = DOMAIN revisions
      /\ \A r \in DOMAIN revisions \ {job[p].rev} : revisions'[r] = revisions[r]
      /\ revisions'[job[p].rev] = Replacement(p)
  BY <1>1, <1>2
<1> QED
  BY <1>1, <1>2, <1>3, <1>4 DEF Reads, RevisionId

\* Writing a revision back keeps it: what is written is what was read.
LEMMA ReplaceKeeps ==
    ASSUME Inductive, NEW p \in Processes, Replace(p) PROVE Inductive'
<1>1. /\ DOMAIN job = Processes /\ faults \in Nat
      /\ UNCHANGED <<heads, snapshots, faults>> /\ job[p].step = "replace" /\ JobSound(p)
      /\ Goes(p, Job("point", None, None, job[p].head, job[p].rev, None, None))
  BY DEF Inductive, Shape, Replace, At, JobsSound
<1>2. RowsKept
  BY <1>1, ReplaceEffect DEF RowsKept, RevisionsKept, HeadId, Published
<1>3. Moves(p) /\ job'[p] = Job("point", None, None, job[p].head, job[p].rev, None, None)
  BY <1>1, GoesMoves
<1>4. JobSound(p)'
  BY <1>1, <1>3, ReplaceEffect DEF JobSound, Job, Reads, RevisionId, Published
<1>5. RevisionsOwned'
  BY <1>1, ReplaceEffect DEF Inductive, RevisionsOwned, HeadId
<1>6. JobsSound'
  BY <1>2, <1>3, <1>4, JobsKept DEF Inductive
<1>7. Shape'
  BY <1>1, <1>3, ReplaceEffect DEF Inductive, Shape, Moves
<1> QED
  BY <1>1, <1>2, <1>5, <1>6, <1>7, PointersKept, SnapshotsKept DEF Inductive

\* The pointer moves to the revision its thread has published.
LEMMA SetCurrentEffect ==
    ASSUME Inductive, NEW p \in Processes, SetCurrent(p)
    PROVE  /\ Listed(heads') /\ HeadId' = HeadId /\ job[p].head \in HeadId
           /\ \A h \in HeadId \ {job[p].head} : heads'[h] = heads[h]
           /\ heads'[job[p].head].current = job[p].rev
           /\ heads'[job[p].head].shelf = heads[job[p].head].shelf
<1> DEFINE row == HeadRow(heads[job[p].head].shelf, heads[job[p].head].key,
                          heads[job[p].head].preset, job[p].rev)
<1>1. /\ heads' = [heads EXCEPT ![job[p].head] = row]
      /\ Listed(heads) /\ JobSound(p) /\ job[p].step = "point"
  BY DEF SetCurrent, At, Inductive, Shape, JobsSound
<1>2. row.current = job[p].rev /\ row.shelf = heads[job[p].head].shelf
  BY DEF HeadRow
<1> HIDE DEF row
<1>3. job[p].head \in DOMAIN heads
  BY <1>1 DEF JobSound, Inductive, RevisionsOwned, HeadId
<1>4. Listed(heads')
  BY <1>1, <1>3, Replaced
<1> QED
  BY <1>1, <1>2, <1>3, <1>4 DEF HeadId

\* Pointing a head at a revision keeps it: the revision is published by then.
LEMMA SetCurrentKeeps ==
    ASSUME Inductive, NEW p \in Processes, SetCurrent(p) PROVE Inductive'
<1>1. /\ DOMAIN job = Processes /\ faults \in Nat /\ Listed(heads)
      /\ UNCHANGED <<revisions, snapshots, faults>> /\ job[p].step = "point" /\ JobSound(p)
      /\ Goes(p, Idle)
  BY DEF Inductive, Shape, SetCurrent, At, JobsSound
<1>2. RowsKept
  BY <1>1, SetCurrentEffect DEF RowsKept, RevisionsKept, RevisionId, Published
<1>3. Moves(p) /\ JobSound(p)'
  BY <1>1, GoesMoves, IdleSound
<1>4. PointersSound'
  <2>1. /\ job[p].rev \in RevisionId /\ Published(job[p].rev)
        /\ revisions[job[p].rev].head = job[p].head
    BY <1>1 DEF JobSound
  <2> QED
    BY <1>1, <2>1, SetCurrentEffect DEF Inductive, PointersSound, RevisionId, Published
<1>5. RevisionsOwned'
  BY <1>1, SetCurrentEffect DEF Inductive, RevisionsOwned, RevisionId
<1>6. JobsSound'
  BY <1>2, <1>3, JobsKept DEF Inductive
<1>7. Shape'
  BY <1>1, <1>3, SetCurrentEffect DEF Inductive, Shape, Moves
<1> QED
  BY <1>1, <1>2, <1>4, <1>5, <1>6, <1>7, SnapshotsKept DEF Inductive

\* A snapshot is inserted some calls after its revision was read.
LEMMA AddSnapshotKeeps ==
    ASSUME Inductive, NEW p \in Processes, AddSnapshot(p) PROVE Inductive'
<1> DEFINE row == [rev |-> job[p].rev, no |-> job[p].no, content |-> job[p].content]
<1>1. /\ DOMAIN job = Processes /\ faults \in Nat /\ Listed(snapshots)
      /\ UNCHANGED <<heads, revisions, faults>> /\ job[p].step = "add_snapshot" /\ JobSound(p)
      /\ Goes(p, Idle) /\ snapshots' = Append(snapshots, row)
  BY DEF Inductive, Shape, AddSnapshot, At, JobsSound
<1>2. RowsKept
  BY <1>1, SameRowsKept
<1>3. Moves(p) /\ JobSound(p)'
  BY <1>1, GoesMoves, IdleSound
<1>4. /\ Listed(snapshots') /\ DOMAIN snapshots' = DOMAIN snapshots \cup {Len(snapshots) + 1}
      /\ \A s \in DOMAIN snapshots : snapshots'[s] = snapshots[s]
      /\ snapshots'[Len(snapshots) + 1] = row
  <2> HIDE DEF row
  <2> QED
    BY <1>1, Appended
<1>5. SnapshotsSound'
  <2>1. Published(row.rev) /\ Reads(row.rev, revisions[row.rev].head, row.no, row.content)
    BY <1>1 DEF JobSound
  <2> QED
    BY <1>1, <1>4, <2>1 DEF Inductive, SnapshotsSound, Published, Reads, RevisionId
<1>6. RevisionsOwned'
  BY <1>1 DEF Inductive, RevisionsOwned, RevisionId, HeadId
<1>7. JobsSound'
  BY <1>2, <1>3, JobsKept DEF Inductive
<1>8. Shape'
  BY <1>1, <1>3, <1>4 DEF Inductive, Shape, Moves
<1> QED
  BY <1>1, <1>2, <1>5, <1>6, <1>7, <1>8, PointersKept DEF Inductive

-----------------------------------------------------------------------------
(***************************************************************************)
(* Seeding, faults, and the invariant as a whole.                          *)
(***************************************************************************)

\* No thread moves: the mode changes, or seeding looks at the next preset.
LEMMA RestKeeps ==
    ASSUME Inductive, UNCHANGED <<heads, revisions, snapshots, faults, job>> PROVE Inductive'
<1>1. Boot \in Processes /\ DOMAIN job = Processes /\ faults \in Nat /\ JobSound(Boot)
  BY DEF Processes, Inductive, Shape, JobsSound
<1>2. Moves(Boot)
  BY <1>1 DEF Moves
<1>3. JobSound(Boot)'
  BY <1>1, SameRowsKept, JobKept
<1> QED
  BY <1>1, <1>2, <1>3, MoveKeeps

\* Seeding is a client of its own.
LEMMA SeedKeeps ==
    ASSUME Inductive, Seed PROVE Inductive'
<1>1. Boot \in Processes /\ DOMAIN job = Processes /\ faults \in Nat
  BY DEF Processes, Inductive, Shape
<1>2. UNCHANGED <<heads, revisions, snapshots, faults>>
  BY DEF Seed, BeginPreset, SeedProfile, SeedScenario, Serve, rows
<1>3. CASE UNCHANGED job
  BY <1>2, <1>3, RestKeeps
<1>4. ASSUME NEW shelf, NEW key, NEW content,
             Goes(Boot, Job("list_heads", shelf, key, None, None, None, content))
      PROVE  Inductive'
  <2>1. /\ Moves(Boot)
        /\ job'[Boot] = Job("list_heads", shelf, key, None, None, None, content)
    BY <1>1, <1>4, GoesMoves
  <2>2. JobSound(Boot)'
    BY <2>1 DEF JobSound, Job
  <2> QED
    BY <1>1, <1>2, <2>1, <2>2, MoveKeeps
<1>5. \/ UNCHANGED job
      \/ \E shelf, key, content :
            Goes(Boot, Job("list_heads", shelf, key, None, None, None, content))
  <2>1. CASE SeedProfile
    BY <2>1, Zenon DEF SeedProfile
  <2>2. CASE SeedScenario
    BY <2>2, Zenon DEF SeedScenario
  <2> QED
    BY <2>1, <2>2 DEF Seed, BeginPreset, Serve
<1> QED
  BY <1>3, <1>4, <1>5

\* A call that fails takes the place of its thread, and nothing else.
LEMMA CallFailsKeeps ==
    ASSUME Inductive, NEW p \in Processes, CallFails(p) PROVE Inductive'
<1>1. /\ DOMAIN job = Processes /\ faults' \in Nat /\ Goes(p, Idle)
      /\ UNCHANGED <<heads, revisions, snapshots>>
  BY DEF Inductive, Shape, CallFails, rows
<1>2. Moves(p) /\ JobSound(p)'
  BY <1>1, GoesMoves, IdleSound
<1> QED
  BY <1>1, <1>2, MoveKeeps

\* The rows stay as they are, or go altogether; no thread remembers anything.
LEMMA CrashKeeps ==
    ASSUME Inductive, Crash PROVE Inductive'
<1>1. job' = [p \in Processes |-> Idle] /\ faults' \in Nat
  BY DEF Inductive, Shape, Crash
<1>2. DOMAIN job' = Processes /\ JobsSound'
  BY <1>1, IdleSound DEF JobsSound
<1>3. CASE UNCHANGED <<heads, revisions, snapshots>>
  BY <1>1, <1>2, <1>3, SameRowsKept, PointersKept, SnapshotsKept
     DEF Inductive, Shape, RevisionsOwned, RevisionId, HeadId
<1>4. CASE heads' = <<>> /\ revisions' = <<>> /\ snapshots' = <<>>
  <2>1. DOMAIN heads' = {} /\ DOMAIN revisions' = {} /\ DOMAIN snapshots' = {}
    BY <1>4
  <2>2. Shape'
    BY <1>1, <1>2, <1>4, EmptyListed DEF Shape
  <2> QED
    BY <1>2, <2>1, <2>2
       DEF Inductive, RevisionsOwned, PointersSound, SnapshotsSound, HeadId, RevisionId
<1> QED
  BY <1>3, <1>4 DEF Crash, rows

\* There is nothing to be wrong in an empty catalog.
LEMMA InitInductive == Init => Inductive
<1> SUFFICES ASSUME Init PROVE Inductive
  OBVIOUS
<1>1. DOMAIN heads = {} /\ DOMAIN revisions = {} /\ DOMAIN snapshots = {}
  BY DEF Init
<1>2. Shape
  BY EmptyListed DEF Init, Shape
<1>3. JobsSound
  BY DEF Init, JobsSound, JobSound, Idle, Job
<1> QED
  BY <1>1, <1>2, <1>3
     DEF Inductive, RevisionsOwned, PointersSound, SnapshotsSound, HeadId, RevisionId

\* Every call keeps the invariant,
LEMMA CallKeeps ==
    ASSUME Inductive, NEW p \in Processes, Call(p) PROVE Inductive'
BY ReadsKeep, AddHeadKeeps, AddRevisionKeeps, ReplaceKeeps, SetCurrentKeeps, AddSnapshotKeeps,
   RunsKeep DEF Call

\* and every step,
LEMMA NextInductive == Inductive /\ [Next]_vars => Inductive'
<1> SUFFICES ASSUME Inductive, [Next]_vars PROVE Inductive'
  OBVIOUS
<1>1. CASE UNCHANGED vars
  BY <1>1, RestKeeps DEF vars, rows
<1>2. CASE Restart
  BY <1>2, RestKeeps DEF Restart, rows
<1> QED
  BY <1>1, <1>2, RequestKeeps, CallKeeps, CallFailsKeeps, SeedKeeps, CrashKeeps DEF Next

\* and every behaviour.
LEMMA InductiveHolds == Spec => []Inductive
BY InitInductive, NextInductive, PTL DEF Spec

\* Who writes revisions.
LEMMA RevisionsWritten ==
    ASSUME [Next]_vars
    PROVE  \/ UNCHANGED revisions
           \/ \E p \in Processes : AddRevision(p) \/ Replace(p)
           \/ Crash
<1>1. ASSUME NEW p \in Processes, Call(p) PROVE UNCHANGED revisions \/ AddRevision(p) \/ Replace(p)
  <2>1. CASE ListHeads(p) \/ ListRevisions(p) \/ ReadDraft(p) \/ ReadPublished(p)
    BY <2>1, Zenon DEF ListHeads, ListRevisions, ReadDraft, ReadPublished, rows
  <2>2. CASE AddHead(p) \/ SetCurrent(p) \/ AddSnapshot(p) \/ AddRun(p) \/ RecordRun(p)
    BY <2>2, Zenon DEF AddHead, SetCurrent, AddSnapshot, AddRun, RecordRun
  <2> QED
    BY <1>1, <2>1, <2>2 DEF Call
<1>2. ASSUME NEW w \in Workers, Request(w) PROVE UNCHANGED revisions
  BY <1>2 DEF Request, RequestCreate, RequestRevision, RequestPublish, RequestClone,
              RequestSnapshot, RequestRun, Requests, rows
<1>3. ASSUME NEW p \in Processes, CallFails(p) PROVE UNCHANGED revisions
  BY <1>3 DEF CallFails, rows
<1>4. CASE Seed \/ Restart
  BY <1>4 DEF Seed, BeginPreset, SeedProfile, SeedScenario, Serve, Restart, rows
<1>5. CASE UNCHANGED vars
  BY <1>5 DEF vars, rows
<1> QED
  BY <1>1, <1>2, <1>3, <1>4, <1>5 DEF Next

-----------------------------------------------------------------------------
\* Whatever threads publish at the same time, and wherever one of them is cut
\* off, a head points at a published revision of its own (publish_*_revision).
THEOREM HeadsPointAtPublished == Spec => []CurrentIsPublished
<1>1. Inductive => CurrentIsPublished
  BY DEF Inductive, PointersSound, CurrentIsPublished
<1> QED
  BY <1>1, InductiveHolds, PTL

\* A snapshot is, and stays, a copy of a published revision, although it is
\* inserted some calls after the revision was read (create_snapshot).
THEOREM SnapshotsStayTrue == Spec => []SnapshotsFrozen
<1>1. Inductive => SnapshotsFrozen
  BY DEF Inductive, SnapshotsSound, SnapshotsFrozen, Reads
<1> QED
  BY <1>1, InductiveHolds, PTL

\* No step but a write-back touches a revision, and a thread that writes one back
\* holds what the row holds, however long ago it read it (publish_*_revision).
THEOREM PublishedForGood == Spec => PublishedStays
<1> DEFINE Kept ==
      \A r \in RevisionId : Published(r) /\ r \in DOMAIN revisions' =>
          LET row == revisions[r]
          IN  /\ revisions'[r].status = "PUBLISHED" /\ revisions'[r].head = row.head
              /\ revisions'[r].no = row.no /\ revisions'[r].content = row.content
<1>1. ASSUME Inductive, [Next]_vars PROVE [Kept]_vars
  <2>1. CASE UNCHANGED revisions
    BY <2>1 DEF Published
  <2>2. ASSUME NEW p \in Processes, AddRevision(p) PROVE Kept
    BY <1>1, <2>2, AddRevisionEffect DEF Published
  <2>3. ASSUME NEW p \in Processes, Replace(p) PROVE Kept
    BY <1>1, <2>3, ReplaceEffect DEF Published
  <2>4. CASE Crash
    BY <2>4 DEF Crash, rows, Published
  <2> QED
    BY <1>1, <2>1, <2>2, <2>3, <2>4, RevisionsWritten
<1> QED
  BY <1>1, InductiveHolds, PTL DEF Spec, PublishedStays

-----------------------------------------------------------------------------
(***************************************************************************)
(* What a step leaves of heads and of threads.                             *)
(***************************************************************************)

\* What every step leaves of the rows, unless the catalog was in memory only.
Lost == Crash /\ ~durable

PointersLeft ==
    \A h \in HeadId : /\ h \in HeadId' /\ heads'[h].shelf = heads[h].shelf
                      /\ heads'[h].current = None => heads[h].current = None

\* Who writes heads.
LEMMA HeadsWritten ==
    ASSUME [Next]_vars
    PROVE  \/ UNCHANGED heads
           \/ \E p \in Processes : AddHead(p) \/ SetCurrent(p)
           \/ Lost
<1>1. ASSUME NEW p \in Processes, Call(p) PROVE UNCHANGED heads \/ AddHead(p) \/ SetCurrent(p)
  <2>1. CASE ListHeads(p) \/ ListRevisions(p) \/ ReadDraft(p) \/ ReadPublished(p)
    BY <2>1, Zenon DEF ListHeads, ListRevisions, ReadDraft, ReadPublished, rows
  <2>2. CASE AddRevision(p) \/ Replace(p) \/ AddSnapshot(p) \/ AddRun(p) \/ RecordRun(p)
    BY <2>2, Zenon DEF AddRevision, Replace, AddSnapshot, AddRun, RecordRun
  <2> QED
    BY <1>1, <2>1, <2>2 DEF Call
<1>2. ASSUME NEW w \in Workers, Request(w) PROVE UNCHANGED heads
  BY <1>2 DEF Request, RequestCreate, RequestRevision, RequestPublish, RequestClone,
              RequestSnapshot, RequestRun, Requests, rows
<1>3. ASSUME NEW p \in Processes, CallFails(p) PROVE UNCHANGED heads
  BY <1>3 DEF CallFails, rows
<1>4. CASE Seed \/ Restart
  BY <1>4 DEF Seed, BeginPreset, SeedProfile, SeedScenario, Serve, Restart, rows
<1>5. CASE Crash
  BY <1>5 DEF Crash, Lost, rows
<1>6. CASE UNCHANGED vars
  BY <1>6 DEF vars, rows
<1> QED
  BY <1>1, <1>2, <1>3, <1>4, <1>5, <1>6 DEF Next

\* Heads stay, and stay pointed once they are.
LEMMA HeadsLeft ==
    ASSUME Inductive, [Next]_vars, ~Lost
    PROVE  PointersLeft
<1>1. CASE UNCHANGED heads
  BY <1>1 DEF PointersLeft, HeadId
<1>2. ASSUME NEW p \in Processes, AddHead(p) PROVE PointersLeft
  BY <1>2, AddHeadEffect DEF PointersLeft, HeadId
<1>3. ASSUME NEW p \in Processes, SetCurrent(p) PROVE PointersLeft
  <2>1. job[p].rev # None
    <3>1. job[p].rev \in DOMAIN revisions /\ Listed(revisions)
      BY <1>3 DEF Inductive, Shape, JobsSound, JobSound, SetCurrent, At, RevisionId
    <3>2. job[p].rev \in Nat
      BY <3>1, Appended
    <3> QED
      BY <3>2, NoneAssumption
  <2> QED
    BY <1>3, <2>1, SetCurrentEffect DEF PointersLeft
<1> QED
  BY <1>1, <1>2, <1>3, HeadsWritten

\* Revisions stay, with what they hold.
LEMMA RevisionsLeft ==
    ASSUME Inductive, [Next]_vars, ~Lost
    PROVE  RevisionsKept
<1>1. CASE UNCHANGED revisions
  BY <1>1 DEF RevisionsKept, RevisionId, Published
<1>2. ASSUME NEW p \in Processes, AddRevision(p) PROVE RevisionsKept
  BY <1>2, AddRevisionEffect DEF RevisionsKept, RevisionId, Published
<1>3. ASSUME NEW p \in Processes, Replace(p) PROVE RevisionsKept
  BY <1>3, ReplaceEffect DEF RevisionsKept, Published
<1>4. CASE Crash
  BY <1>1, <1>4 DEF Crash, Lost, rows
<1> QED
  BY <1>1, <1>2, <1>3, <1>4, RevisionsWritten

\* A thread moves by a request or by seeding, by a call, or by a fault.
LEMMA ThreadsMove ==
    ASSUME DOMAIN job = Processes, [Next]_vars, NEW q \in Processes, job'[q] # job[q]
    PROVE  \/ Call(q)
           \/ /\ At(q, "idle")
              /\ job'[q].step \notin {"add_revision", "point"}
           \/ faults' = faults + 1 /\ job'[q] = Idle
<1>1. ASSUME NEW p \in Processes, Call(p) PROVE p = q
  <2>1. \E next : Goes(p, next)
    <3>1. CASE ListHeads(p) \/ ListRevisions(p) \/ ReadDraft(p) \/ ReadPublished(p)
      BY <3>1, Zenon DEF ListHeads, ListRevisions, ReadDraft, ReadPublished, Raises
    <3>2. CASE AddHead(p) \/ AddRevision(p)
      BY <3>2, Zenon DEF AddHead, AddRevision, Raises
    <3>3. CASE Replace(p) \/ SetCurrent(p) \/ AddSnapshot(p) \/ AddRun(p) \/ RecordRun(p)
      BY <3>3, Zenon DEF Replace, SetCurrent, AddSnapshot, AddRun, RecordRun
    <3> QED
      BY <1>1, <3>1, <3>2, <3>3 DEF Call
  <2>2. PICK next : Goes(p, next)
    BY <2>1
  <2> QED
    BY <2>2, GoesMoves DEF Moves
<1>2. ASSUME NEW w \in Workers, Request(w)
      PROVE  At(q, "idle") /\ job'[q].step \notin {"add_revision", "point"}
  <2>1. \E next : Requests(w, next) /\ next.step \notin {"add_revision", "point"}
    BY <1>2, RequestEffect
  <2> QED
    BY <2>1 DEF Requests, Free, Goes
<1>3. ASSUME NEW p \in Processes, CallFails(p) PROVE faults' = faults + 1 /\ job'[q] = Idle
  BY <1>3 DEF CallFails, Goes
<1>4. CASE Seed
  <2>1. \/ UNCHANGED job
        \/ /\ At(Boot, "idle")
           /\ \E next : Goes(Boot, next) /\ next.step \notin {"add_revision", "point"}
    BY <1>4 DEF Seed, BeginPreset, SeedProfile, SeedScenario, Serve, Job
  <2> QED
    BY <2>1 DEF Goes
<1>5. CASE Crash
  BY <1>5 DEF Crash
<1>6. CASE Restart \/ UNCHANGED vars
  BY <1>6 DEF Restart, vars
<1> QED
  BY <1>1, <1>2, <1>3, <1>4, <1>5, <1>6 DEF Next

-----------------------------------------------------------------------------
(***************************************************************************)
(* Rest.  What is half done has a thread that will do the other half.      *)
(***************************************************************************)

Begun == \A h \in HeadId :
    heads[h].shelf = "scenario" /\ RevisionsOf(h) = {} =>
        \E p \in Processes : /\ job[p].step \in {"list_revisions", "add_revision"}
                            /\ job[p].head = h

Pointed == \A r \in RevisionId :
    Published(r) /\ heads[revisions[r].head].current = None =>
        \E p \in Processes : At(p, "point") /\ job[p].head = revisions[r].head

Settling == faults = 0 => Begun /\ Pointed

\* A thread that has a scenario without revisions in hand goes on with it.
LEMMA BegunKept ==
    ASSUME Inductive, Begun, [Next]_vars, faults = 0, faults' = 0 PROVE Begun'
<1>1. ~Lost /\ DOMAIN job = Processes /\ faults' # faults + 1
  BY DEF Lost, Crash, Inductive, Shape
<1>2. PointersLeft /\ RevisionsKept
  BY <1>1, HeadsLeft, RevisionsLeft
<1> SUFFICES ASSUME NEW h \in HeadId', heads'[h].shelf = "scenario", RevisionsOf(h)' = {}
             PROVE  \E p \in Processes : /\ job'[p].step \in {"list_revisions", "add_revision"}
                                        /\ job'[p].head = h
  BY DEF Begun
<1>3. CASE h \in HeadId
  <2>1. heads[h].shelf = "scenario" /\ RevisionsOf(h) = {}
    BY <1>2, <1>3 DEF PointersLeft, RevisionsKept, RevisionsOf, RevisionId
  <2>2. PICK p \in Processes : /\ job[p].step \in {"list_revisions", "add_revision"}
                              /\ job[p].head = h
    BY <1>3, <2>1 DEF Begun
  <2>3. CASE job'[p] = job[p]
    BY <2>2, <2>3
  <2>4. CASE job'[p] # job[p]
    <3>1. Call(p)
      BY <1>1, <2>2, <2>4, ThreadsMove DEF At
    <3>2. CASE ListRevisions(p)
      <4>1. job'[p] = Job("add_revision", job[p].shelf, job[p].key, job[p].head, None,
                          NextNumber(job[p].head), job[p].content)
        BY <1>1, <3>2, GoesMoves DEF ListRevisions
      <4> QED
        BY <2>2, <4>1 DEF Job
    <3>3. CASE AddRevision(p)
      <4>1. CASE NumberConflict(job[p].head, job[p].no)
        BY <2>1, <2>2, <4>1 DEF NumberConflict
      <4>2. CASE \E n : n \in RevisionId' /\ revisions'[n].head = job[p].head
        BY <2>2, <4>2 DEF RevisionsOf, RevisionId
      <4> QED
        BY <3>3, <4>1, <4>2, AddRevisionEffect
    <3> QED
      BY <2>2, <3>1, <3>2, <3>3
         DEF Call, ListHeads, AddHead, ReadDraft, Replace, SetCurrent, ReadPublished, AddSnapshot,
             AddRun, RecordRun, At
  <2> QED
    BY <2>3, <2>4
<1>4. CASE h \notin HeadId
  <2>1. PICK p \in Processes : AddHead(p)
    BY <1>1, <1>4, HeadsWritten, SetCurrentEffect DEF HeadId
  <2>2. PICK n : /\ HeadId' = HeadId \cup {n} /\ heads'[n].shelf = job[p].shelf
                 /\ \/ Goes(p, Idle) /\ job[p].shelf # "scenario"
                    \/ Goes(p, Job("list_revisions", job[p].shelf, job[p].key, n, None, None,
                                   job[p].content))
    BY <1>4, <2>1, AddHeadEffect DEF HeadId
  <2>3. h = n
    BY <1>4, <2>2
  <2>4. Goes(p, Job("list_revisions", job[p].shelf, job[p].key, h, None, None, job[p].content))
    BY <2>2, <2>3
  <2> QED
    BY <1>1, <2>4, GoesMoves DEF Job
<1> QED
  BY <1>3, <1>4

\* Whoever publishes a revision of a head that points nowhere is about to point it.
LEMMA PointedKept ==
    ASSUME Inductive, Pointed, [Next]_vars, faults = 0, faults' = 0 PROVE Pointed'
<1>1. ~Lost /\ DOMAIN job = Processes /\ faults' # faults + 1
  BY DEF Lost, Crash, Inductive, Shape
<1>2. PointersLeft /\ RevisionsKept
  BY <1>1, HeadsLeft, RevisionsLeft
<1> SUFFICES ASSUME NEW r \in RevisionId', revisions'[r].status = "PUBLISHED",
                    heads'[revisions'[r].head].current = None
             PROVE  \E p \in Processes : /\ job'[p].step = "point"
                                        /\ job'[p].head = revisions'[r].head
  BY DEF Pointed, Published, At
<1>3. r \in RevisionId
  BY <1>1, RevisionsWritten, AddRevisionEffect, ReplaceEffect DEF RevisionId, Crash
<1>4. /\ revisions'[r].head = revisions[r].head
      /\ heads[revisions[r].head].current = None
  BY <1>2, <1>3 DEF RevisionsKept, PointersLeft, Inductive, RevisionsOwned
<1>5. CASE Published(r)
  <2>1. PICK p \in Processes : At(p, "point") /\ job[p].head = revisions[r].head
    BY <1>3, <1>4, <1>5 DEF Pointed
  <2>2. CASE job'[p] = job[p]
    BY <1>4, <2>1, <2>2 DEF At
  <2>3. CASE job'[p] # job[p]
    <3>1. Call(p)
      BY <1>1, <2>1, <2>3, ThreadsMove DEF At
    <3>2. SetCurrent(p)
      BY <2>1, <3>1
         DEF Call, ListHeads, AddHead, ListRevisions, AddRevision, ReadDraft, Replace,
             ReadPublished, AddSnapshot, AddRun, RecordRun, At
    <3>3. heads'[revisions[r].head].current = job[p].rev /\ job[p].rev \in DOMAIN revisions
      BY <2>1, <3>2, SetCurrentEffect DEF Inductive, JobsSound, JobSound, At, RevisionId
    <3>4. job[p].rev \in Nat
      BY <3>3, Appended DEF Inductive, Shape
    <3> QED
      BY <1>4, <3>3, <3>4, NoneAssumption
  <2> QED
    BY <2>2, <2>3
<1>6. CASE ~Published(r)
  <2>1. PICK p \in Processes : Replace(p)
    BY <1>1, <1>3, <1>6, RevisionsWritten, AddRevisionEffect DEF Published, Crash
  <2>2. r = job[p].rev
    BY <1>3, <1>6, <2>1, ReplaceEffect DEF Published
  <2>3. job[p].head = revisions[r].head
    BY <2>1, <2>2 DEF Inductive, JobsSound, JobSound, Reads, Replace, At
  <2>4. job'[p] = Job("point", None, None, job[p].head, job[p].rev, None, None)
    BY <1>1, <2>1, GoesMoves DEF Replace
  <2> QED
    BY <1>4, <2>3, <2>4 DEF Job
<1> QED
  BY <1>5, <1>6

\* Faults are only ever counted up.
LEMMA FaultsCount ==
    ASSUME faults \in Nat, [Next]_vars, faults' = 0 PROVE faults = 0
<1>1. faults' = faults \/ faults' = faults + 1
  <2>1. ASSUME NEW p \in Processes, Call(p) PROVE faults' = faults
    <3>1. CASE ListHeads(p) \/ ListRevisions(p) \/ ReadDraft(p) \/ ReadPublished(p)
      BY <3>1, Zenon DEF ListHeads, ListRevisions, ReadDraft, ReadPublished
    <3>2. CASE AddHead(p) \/ AddRevision(p) \/ Replace(p) \/ SetCurrent(p) \/ AddSnapshot(p)
               \/ AddRun(p) \/ RecordRun(p)
      BY <3>2, Zenon DEF AddHead, AddRevision, Replace, SetCurrent, AddSnapshot, AddRun, RecordRun
    <3> QED
      BY <2>1, <3>1, <3>2 DEF Call
  <2>2. ASSUME NEW w \in Workers, Request(w) PROVE faults' = faults
    BY <2>2, RequestEffect DEF Requests
  <2>3. CASE Seed \/ Restart \/ UNCHANGED vars
    BY <2>3 DEF Seed, BeginPreset, SeedProfile, SeedScenario, Serve, Restart, vars
  <2>4. CASE Crash \/ \E p \in Processes : CallFails(p)
    BY <2>4 DEF Crash, CallFails
  <2> QED
    BY <2>1, <2>2, <2>3, <2>4 DEF Next
<1> QED
  BY <1>1

\* When no call has failed, a rest of all threads leaves no scenario without a
\* revision and no published revision without a pointer, however their calls
\* were interleaved (create_scenario, publish_*_revision).
THEOREM RestIsSettled == Spec => []SettledAtRest
<1>1. Init => Settling
  BY DEF Init, Settling, Begun, Pointed, HeadId, RevisionId
<1>2. Inductive /\ Settling /\ [Next]_vars => Settling'
  <2> SUFFICES ASSUME Inductive, Settling, [Next]_vars, faults' = 0 PROVE Begun' /\ Pointed'
    BY DEF Settling
  <2>1. faults = 0 /\ Begun /\ Pointed
    BY FaultsCount DEF Inductive, Shape, Settling
  <2> QED
    BY <2>1, BegunKept, PointedKept
<1>3. Settling => SettledAtRest
  <2> SUFFICES ASSUME Settling, faults = 0, \A p \in Processes : At(p, "idle"), NEW h \in HeadId
               PROVE  /\ heads[h].shelf = "scenario" => RevisionsOf(h) # {}
                      /\ (\E r \in RevisionsOf(h) : Published(r)) => heads[h].current # None
    BY DEF SettledAtRest
  <2> QED
    BY DEF Settling, Begun, Pointed, At, RevisionsOf, RevisionId
<1> QED
  BY <1>1, <1>2, <1>3, InductiveHolds, PTL DEF Spec

-----------------------------------------------------------------------------
(***************************************************************************)
(* Numbers.  They are counted in one call and used in another, and the     *)
(* UNIQUE constraint of the SQLite tier refuses what is out of date.       *)
(***************************************************************************)

Counted == \A p \in Processes, h \in HeadId :
    At(p, "add_revision") /\ job[p].head = h => job[p].no \in 1 .. NextNumber(h)

Numbered == durable => NumbersGapless /\ Counted

\* The revisions of a head can be counted.
LEMMA RevisionsFinite ==
    ASSUME NEW rs, Listed(rs), NEW h
    PROVE  LET ours == {r \in DOMAIN rs : rs[r].head = h}
           IN  IsFiniteSet(ours) /\ Cardinality(ours) \in Nat
<1> DEFINE ours == {r \in DOMAIN rs : rs[r].head = h}
<1>1. DOMAIN rs = 1 .. Len(rs) /\ Len(rs) \in Nat
  BY Appended
<1>2. IsFiniteSet(1 .. Len(rs))
  BY <1>1, FS_Interval
<1>3. ours \in SUBSET (1 .. Len(rs))
  BY <1>1
<1> QED
  BY <1>2, <1>3, FS_Subset, FS_CardinalityType

\* Nobody takes a revision from a head.
LEMMA CountGrows ==
    ASSUME Inductive, Inductive', [Next]_vars, ~Lost, NEW h
    PROVE  NextNumber(h) \in Nat /\ NextNumber(h)' \in Nat /\ NextNumber(h) <= NextNumber(h)'
<1>1. RevisionsOf(h) \in SUBSET RevisionsOf(h)'
  BY RevisionsLeft DEF RevisionsKept, RevisionsOf, RevisionId
<1>2. /\ Cardinality(RevisionsOf(h)) \in Nat
      /\ IsFiniteSet(RevisionsOf(h)') /\ Cardinality(RevisionsOf(h)') \in Nat
  BY RevisionsFinite DEF Inductive, Shape, RevisionsOf
<1>3. Cardinality(RevisionsOf(h)) <= Cardinality(RevisionsOf(h)')
  BY <1>1, <1>2, FS_Subset
<1> QED
  BY <1>2, <1>3 DEF NextNumber

\* A number that is not taken, and not above the next one, is the next one.
LEMMA NumbersKept ==
    ASSUME Inductive, durable, NumbersGapless, Counted, [Next]_vars
    PROVE  NumbersGapless'
<1>1. (~Lost /\ ~Crash) \/ UNCHANGED <<heads, revisions>>
  BY DEF Lost, Crash, rows
<1>2. CASE UNCHANGED <<heads, revisions>>
  BY <1>2 DEF NumbersGapless, RevisionsOf, HeadId
<1> SUFFICES ASSUME ~Lost, ~Crash, NEW h \in HeadId'
             PROVE  {revisions'[r].no : r \in RevisionsOf(h)'} = 1 .. Cardinality(RevisionsOf(h)')
  BY <1>1, <1>2 DEF NumbersGapless
<1>3. CASE h \notin HeadId
  <2>1. UNCHANGED revisions
    <3>1. PICK p \in Processes : AddHead(p)
      BY <1>3, HeadsWritten, SetCurrentEffect DEF HeadId
    <3> QED
      BY <3>1 DEF AddHead
  <2>2. RevisionsOf(h)' = {}
    BY <1>3, <2>1 DEF Inductive, RevisionsOwned, RevisionsOf, RevisionId
  <2>3. Cardinality(RevisionsOf(h)') = 0
    BY <2>2, FS_EmptySet
  <2> QED
    BY <2>2, <2>3
<1>4. CASE h \in HeadId
  <2>1. {revisions[r].no : r \in RevisionsOf(h)} = 1 .. Cardinality(RevisionsOf(h))
    BY <1>4 DEF NumbersGapless
  <2>2. ASSUME RevisionsOf(h)' = RevisionsOf(h),
               \A r \in RevisionsOf(h) : revisions'[r].no = revisions[r].no
        PROVE  {revisions'[r].no : r \in RevisionsOf(h)'} = 1 .. Cardinality(RevisionsOf(h)')
    BY <2>1, <2>2
  <2>3. CASE UNCHANGED revisions
    BY <2>2, <2>3 DEF RevisionsOf
  <2>4. ASSUME NEW p \in Processes, Replace(p)
        PROVE  {revisions'[r].no : r \in RevisionsOf(h)'} = 1 .. Cardinality(RevisionsOf(h)')
    BY <2>2, <2>4, ReplaceEffect DEF RevisionsOf, RevisionId
  <2>5. ASSUME NEW p \in Processes, AddRevision(p), NEW n,
               ~NumberConflict(job[p].head, job[p].no),
               RevisionId' = RevisionId \cup {n}, n \notin RevisionId,
               \A r \in RevisionId : revisions'[r] = revisions[r],
               revisions'[n].head = job[p].head, revisions'[n].no = job[p].no
        PROVE  {revisions'[r].no : r \in RevisionsOf(h)'} = 1 .. Cardinality(RevisionsOf(h)')
    <3>1. CASE h # job[p].head
      BY <2>2, <2>5, <3>1 DEF RevisionsOf, RevisionId
    <3>2. CASE h = job[p].head
      <4> DEFINE ours  == RevisionsOf(h)
                 count == Cardinality(ours)
                 no    == job[p].no
      <4>1. RevisionsOf(h)' = ours \cup {n} /\ n \notin ours
        BY <2>5, <3>2 DEF RevisionsOf, RevisionId
      <4>2. IsFiniteSet(ours) /\ count \in Nat
        BY RevisionsFinite DEF Inductive, Shape, RevisionsOf
      <4>3. Cardinality(RevisionsOf(h)') = count + 1
        BY <4>1, <4>2, FS_AddElement
      <4>4. no \in 1 .. (count + 1)
        BY <1>4, <2>5, <3>2 DEF Counted, AddRevision, NextNumber
      <4>5. no \notin {revisions[r].no : r \in ours}
        BY <2>5, <3>2 DEF NumberConflict
      <4>6. {revisions'[r].no : r \in RevisionsOf(h)'} = {revisions[r].no : r \in ours} \cup {no}
        BY <2>5, <4>1 DEF RevisionsOf, RevisionId
      <4> HIDE DEF ours, count, no
      <4>7. {revisions[r].no : r \in ours} = 1 .. count
        BY <2>1 DEF ours, count
      <4>8. no = count + 1
        <5>1. no \notin 1 .. count
          BY <4>5, <4>7, Zenon
        <5> HIDE <4>5, <4>7
        <5> QED
          BY <4>2, <4>4, <5>1
      <4>9. (1 .. count) \cup {count + 1} = 1 .. (count + 1)
        BY <4>2
      <4> QED
        BY <4>3, <4>6, <4>7, <4>8, <4>9
    <3> QED
      BY <3>1, <3>2
  <2> QED
    BY <2>3, <2>4, <2>5, RevisionsWritten, AddRevisionEffect
<1> QED
  BY <1>3, <1>4

\* Only the call that counts leaves a thread about to insert a revision.
LEMMA OnlyCounted ==
    ASSUME Inductive, NEW q \in Processes, Call(q), job'[q].step = "add_revision"
    PROVE  ListRevisions(q)
<1>1. DOMAIN job = Processes /\ JobSound(q)
  BY DEF Inductive, Shape, JobsSound
<1>2. \A next : Goes(q, next) => next.step = "add_revision"
  BY <1>1, GoesMoves
<1>3. ~Raises(q) /\ ~Goes(q, Idle)
  BY <1>2 DEF Raises, Idle, Job
<1>4. ~ListHeads(q)
  <2>1. [job[q] EXCEPT !.step = "add_head"].step = "add_head"
    BY <1>1 DEF JobSound
  <2> HIDE <1>1
  <2> QED
    BY <1>2, <1>3, <2>1, Zenon DEF ListHeads
<1>5. ~AddHead(q)
  <2>1. \A shelf, key, n, c :
            Job("list_revisions", shelf, key, n, None, None, c).step # "add_revision"
    BY DEF Job
  <2> QED
    BY <1>2, <1>3, <2>1, AddHeadEffect
<1>6. ~AddRevision(q)
  <2>1. \A n : Job("read_draft", None, None, None, n, None, None).step # "add_revision"
    BY DEF Job
  <2> QED
    BY <1>2, <1>3, <2>1, AddRevisionEffect
<1>7. ~ReadDraft(q) /\ ~ReadPublished(q)
  BY <1>2, <1>3 DEF ReadDraft, ReadPublished, Job
<1>8. ~Replace(q) /\ ~AddRun(q)
  BY <1>2 DEF Replace, AddRun, Job
<1>9. ~SetCurrent(q) /\ ~AddSnapshot(q) /\ ~RecordRun(q)
  BY <1>3, Zenon DEF SetCurrent, AddSnapshot, RecordRun
<1> QED
  BY <1>4, <1>5, <1>6, <1>7, <1>8, <1>9 DEF Call

\* What a thread has counted was the next number, and those only grow.
LEMMA CountedKept ==
    ASSUME Inductive, Inductive', durable, Counted, [Next]_vars
    PROVE  Counted'
<1>1. ~Lost /\ DOMAIN job = Processes
  BY DEF Lost, Inductive, Shape
<1> SUFFICES ASSUME NEW q \in Processes, NEW h \in HeadId',
                    job'[q].step = "add_revision", job'[q].head = h
             PROVE  job'[q].no \in 1 .. NextNumber(h)'
  BY DEF Counted, At
<1>2. NextNumber(h) \in Nat /\ NextNumber(h)' \in Nat /\ NextNumber(h) <= NextNumber(h)'
  BY <1>1, CountGrows
<1>3. job'[q].no \in 1 .. NextNumber(h)
  <2>1. CASE job'[q] = job[q]
    <3>1. h \in HeadId
      BY <2>1 DEF Inductive, JobsSound, JobSound
    <3> QED
      BY <2>1, <3>1 DEF Counted, At
  <2>2. CASE job'[q] # job[q]
    <3>1. ListRevisions(q)
      BY <1>1, <2>2, ThreadsMove, OnlyCounted DEF Idle, Job
    <3>2. job'[q] = Job("add_revision", job[q].shelf, job[q].key, job[q].head, None,
                        NextNumber(job[q].head), job[q].content)
      BY <1>1, <3>1, GoesMoves DEF ListRevisions
    <3>3. job'[q].no = NextNumber(h)
      BY <3>2 DEF Job
    <3>4. NextNumber(h) \in Nat \ {0}
      <4>1. Cardinality(RevisionsOf(h)) \in Nat
        BY RevisionsFinite DEF RevisionsOf, Inductive, Shape
      <4> QED
        BY <4>1 DEF NextNumber
    <3> QED
      BY <3>3, <3>4
  <2> QED
    BY <2>1, <2>2
<1> HIDE DEF NextNumber
<1> QED
  BY <1>2, <1>3

\* The tier is what the process was started with.
LEMMA TierStays == [Next]_vars => durable' = durable
<1> SUFFICES ASSUME [Next]_vars PROVE durable' = durable
  OBVIOUS
<1>1. ASSUME NEW p \in Processes, Call(p) PROVE durable' = durable
  <2>1. CASE ListHeads(p) \/ ListRevisions(p) \/ ReadDraft(p) \/ ReadPublished(p)
    BY <2>1, Zenon DEF ListHeads, ListRevisions, ReadDraft, ReadPublished
  <2>2. CASE AddHead(p) \/ AddRevision(p) \/ Replace(p) \/ SetCurrent(p) \/ AddSnapshot(p)
             \/ AddRun(p) \/ RecordRun(p)
    BY <2>2, Zenon DEF AddHead, AddRevision, Replace, SetCurrent, AddSnapshot, AddRun, RecordRun
  <2> QED
    BY <1>1, <2>1, <2>2 DEF Call
<1>2. ASSUME NEW w \in Workers, Request(w) PROVE durable' = durable
  BY <1>2, RequestEffect DEF Requests
<1>3. CASE Seed \/ Restart \/ UNCHANGED vars
  BY <1>3, Zenon DEF Seed, BeginPreset, SeedProfile, SeedScenario, Serve, Restart, vars
<1>4. CASE Crash \/ \E p \in Processes : CallFails(p)
  BY <1>4, Zenon DEF Crash, CallFails
<1> QED
  BY <1>1, <1>2, <1>3, <1>4 DEF Next

\* On the SQLite tier the revisions of a head are numbered 1 .. n for ever,
\* whichever threads count at the same time and whichever are cut off between
\* counting and inserting (create_profile_revision, _new_scenario_revision).
THEOREM NumbersStayGapless == Spec => [](durable => NumbersGapless)
<1>1. Init => Numbered
  BY DEF Init, Numbered, NumbersGapless, Counted, HeadId, At, Idle, Job
<1>2. Inductive /\ Inductive' /\ Numbered /\ [Next]_vars => Numbered'
  BY TierStays, NumbersKept, CountedKept DEF Numbered
<1>3. Numbered => (durable => NumbersGapless)
  BY DEF Numbered
<1> QED
  BY <1>1, <1>2, <1>3, InductiveHolds, PTL DEF Spec
=============================================================================
