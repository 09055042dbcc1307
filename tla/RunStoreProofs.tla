--------------------------- MODULE RunStoreProofs ---------------------------
(***************************************************************************)
(* A file of the SQLite tier holds the scripts it says it holds, however   *)
(* many processes open it, whatever else they do and wherever they die.    *)
(*                                                                         *)
(* Two adds of the PostgreSQL tier never wait for each other: every add    *)
(* inserts into its tables in one order, and decompose_snapshot lists the  *)
(* profiles of every input in one order, by kind and then by key.          *)
(***************************************************************************)
EXTENDS RunStoreProperties, FiniteSetTheorems, TLAPS

-----------------------------------------------------------------------------
(***************************************************************************)
(* The invariant.                                                          *)
(***************************************************************************)

Opening == {"closed", "migrate", "recorded", "down"}

Shape == DOMAIN at = Processes /\ DOMAIN known = Processes /\ DOMAIN reply = Processes

Versioned == version \in Nat /\ scripts = 1 .. version

\* What a process read is not newer than the file, and it is as new while the
\* process holds the lock for a script it has applied.
ReadBefore ==
    \A p \in Processes :
        /\ at[p] \in {"migrate", "recorded"} => known[p].version \in Nat /\ known[p].version <= version
        /\ at[p] = "recorded" => lock = p /\ known[p].version = version /\ Pending(p) # {}

\* Who found a table made knows less than the file.
Overtaken ==
    \A p \in Processes :
        reply[p] # None /\ reply[p].how = "exists" =>
            /\ tier = "sqlite"
            /\ at[p] \in {"down", "closed"}
            /\ known[p] # <<>> => known[p].version \in Nat /\ version > known[p].version

Migration == Shape /\ Versioned /\ ReadBefore /\ Overtaken

-----------------------------------------------------------------------------
(***************************************************************************)
(* A step of p that is not one of opening the file leaves the schema, what *)
(* the other processes know, and a lock they hold alone.                   *)
(***************************************************************************)

Others(f, g, p) == DOMAIN g = DOMAIN f /\ \A q \in Processes \ {p} : g[q] = f[q]

LockMoves(p) ==
    \/ lock' = lock
    \/ lock = p /\ lock' = None
    \/ lock = None /\ lock' = p

Moves(p)   == Others(at, at', p) /\ at'[p] \notin {"closed", "migrate", "recorded"}
Learns(p)  == Others(known, known', p)
Answers(p) ==
    /\ Others(reply, reply', p)
    /\ reply'[p] = reply[p] \/ reply'[p] = None \/ reply'[p].how # "exists"

Quiet(p) ==
    /\ at[p] \notin Opening
    /\ UNCHANGED <<tier, scripts, version>>
    /\ LockMoves(p) /\ Moves(p) /\ Learns(p) /\ Answers(p)

\* Quiet steps keep the invariant.
LEMMA QuietKeeps ==
    ASSUME Migration, NEW p \in Processes, Quiet(p)
    PROVE  Migration'
<1>1. /\ at[p] \notin Opening /\ UNCHANGED <<tier, scripts, version>>
      /\ LockMoves(p) /\ Moves(p) /\ Learns(p) /\ Answers(p)
  BY DEF Quiet
<1>2. Shape' /\ Versioned'
  BY <1>1 DEF Migration, Shape, Versioned, Moves, Learns, Answers, Others
<1>3. \A q \in Processes \ {p} : at'[q] = at[q] /\ known'[q] = known[q] /\ reply'[q] = reply[q]
  BY <1>1 DEF Moves, Learns, Answers, Others
<1>4. \A q \in Processes \ {p} : at[q] = "recorded" => lock' = lock
  BY <1>1, ProcessesAssumption DEF LockMoves, Migration, ReadBefore
<1>5. ReadBefore'
  BY <1>1, <1>3, <1>4 DEF Migration, ReadBefore, Pending, Moves
<1>6. Overtaken'
  BY <1>1, <1>3 DEF Migration, Overtaken, Opening, Answers
<1> QED
  BY <1>2, <1>5, <1>6 DEF Migration

\* A step of p moves only p.
LEMMA GotoMoves ==
    ASSUME Shape, NEW p \in Processes, NEW step, Goto(p, step),
           step \notin {"closed", "migrate", "recorded"}
    PROVE  Moves(p)
BY DEF Shape, Goto, Moves, Others

\* A call of p answers only p.
LEMMA RepliedAnswers ==
    ASSUME Shape, NEW p \in Processes, NEW id, NEW how, NEW run, how # "exists",
           Replied(p, id, how, run)
    PROVE  Answers(p)
BY DEF Shape, Replied, Answers, Others

\* A call that begins takes the last answer of p back.
LEMMA NoReplyAnswers ==
    ASSUME Shape, NEW p \in Processes, reply' = [reply EXCEPT ![p] = None]
    PROVE  Answers(p)
BY DEF Shape, Answers, Others

\* p gives back no lock but its own.
LEMMA ReleaseMoves ==
    ASSUME NEW p \in Processes, Release(p) PROVE LockMoves(p)
BY DEF Release, LockMoves

\* What p learns, only p knows.
LEMMA KnownLearns ==
    ASSUME Shape, NEW p \in Processes, NEW k, known' = [known EXCEPT ![p] = k] PROVE Learns(p)
BY DEF Shape, Learns, Others

\* A step that leaves them alone.
LEMMA SameLearns ==
    ASSUME UNCHANGED known, NEW p \in Processes PROVE Learns(p)
BY DEF Learns, Others

LEMMA SameAnswers ==
    ASSUME UNCHANGED reply, NEW p \in Processes PROVE Answers(p)
BY DEF Answers, Others

-----------------------------------------------------------------------------
(***************************************************************************)
(* The calls of add and get are quiet.                                     *)
(***************************************************************************)

\* A statement that goes on with the call.
LEMMA WriteQuiet ==
    ASSUME Shape, NEW p \in Processes, at[p] \notin Opening, NEW new, NEW learnt,
           NEW next, next \notin {"closed", "migrate", "recorded"}, Write(p, new, learnt, next)
    PROVE  Quiet(p)
<1>1. Goto(p, next) /\ UNCHANGED <<tier, scripts, version, lock, reply>>
  BY DEF Write, schema
<1>2. Learns(p)
  BY KnownLearns DEF Write
<1> QED
  BY <1>1, <1>2, GotoMoves, SameAnswers DEF Quiet, LockMoves

\* A call that fails, for anything but a table it found made.
LEMMA FailQuiet ==
    ASSUME Shape, NEW p \in Processes, at[p] \notin Opening, NEW how, how # "exists", Fail(p, how)
    PROVE  Quiet(p)
<1>1. Goto(p, "ready") /\ Release(p) /\ UNCHANGED <<tier, scripts, version>>
  BY DEF Fail, schema
<1>2. Learns(p)
  BY KnownLearns DEF Fail
<1>3. Answers(p)
  BY RepliedAnswers DEF Fail, Ended
<1>4. Moves(p)
  BY <1>1, GotoMoves
<1> QED
  BY <1>1, <1>2, <1>3, <1>4, ReleaseMoves DEF Quiet

\* No result is refused for a table that exists.
LEMMA RefusalNamed == \A p : \A how \in Refusals(p) : how # "exists"
BY DEF Refusals
\* A client asks for a run to be stored.
LEMMA RequestAddQuiet ==
    ASSUME Shape, NEW p \in Processes, NEW run, RequestAdd(p, run) PROVE Quiet(p)
<1>1. /\ at[p] \notin Opening /\ Goto(p, "check")
      /\ UNCHANGED <<tier, scripts, version, lock>>
  BY DEF RequestAdd, Idle, Opening, schema
<1>2. Learns(p) /\ Answers(p)
  BY KnownLearns, NoReplyAnswers DEF RequestAdd
<1> QED
  BY <1>1, <1>2, GotoMoves DEF Quiet, LockMoves

\* The identifier is looked for.
LEMMA CheckRunQuiet ==
    ASSUME Shape, NEW p \in Processes, CheckRun(p, "begin") PROVE Quiet(p)
<1>1. at[p] \notin Opening
  BY DEF CheckRun, Opening
<1>2. CASE Fail(p, "duplicate")
  BY <1>1, <1>2, FailQuiet
<1>3. CASE Goto(p, "begin") /\ UNCHANGED <<tier, schema, lock, known, reply>>
  BY <1>1, <1>3, GotoMoves, SameLearns, SameAnswers DEF Quiet, LockMoves, schema
<1> QED
  BY <1>2, <1>3 DEF CheckRun

\* A client asks for a run.
LEMMA GetHeadQuiet ==
    ASSUME Shape, NEW p \in Processes, NEW id, GetHead(p, id) PROVE Quiet(p)
<1>1. at[p] \notin Opening /\ UNCHANGED <<tier, scripts, version, lock>>
  BY DEF GetHead, Idle, Opening, schema
<1>2. CASE Replied(p, id, "absent", None) /\ UNCHANGED <<known, at>>
  <2>1. Moves(p)
    BY <1>1, <1>2 DEF Moves, Others, Opening
  <2> QED
    BY <1>1, <1>2, <2>1, RepliedAnswers, SameLearns DEF Quiet, LockMoves
<1>3. CASE /\ known' = [known EXCEPT ![p] = [head |-> ReadHead(db, id), document |-> None]]
           /\ reply' = [reply EXCEPT ![p] = None]
           /\ Goto(p, "stages")
  <2>1. Learns(p) /\ Answers(p)
    BY <1>3, KnownLearns, NoReplyAnswers
  <2> QED
    BY <1>1, <1>3, <2>1, GotoMoves DEF Quiet, LockMoves
<1> QED
  BY <1>2, <1>3 DEF GetHead

\* The other reads of a get.
LEMMA GetQuiet ==
    ASSUME Shape, NEW p \in Processes, Get(p) PROVE Quiet(p)
<1>1. CASE GetStages(p)
  <2>1. /\ at[p] \notin Opening /\ UNCHANGED <<tier, scripts, version, lock, reply>>
        /\ Goto(p, "document") \/ Goto(p, "rows")
    BY <1>1 DEF GetStages, Opening, schema
  <2>2. Learns(p)
    BY <1>1, KnownLearns DEF GetStages
  <2> QED
    BY <2>1, <2>2, GotoMoves, SameAnswers DEF Quiet, LockMoves
<1>2. CASE GetDocument(p)
  <2>1. /\ at[p] \notin Opening /\ UNCHANGED <<tier, scripts, version, lock, reply>>
        /\ Goto(p, "rows")
    BY <1>2 DEF GetDocument, Opening, schema
  <2>2. Learns(p)
    BY <1>2, KnownLearns DEF GetDocument
  <2> QED
    BY <2>1, <2>2, GotoMoves, SameAnswers DEF Quiet, LockMoves
<1>3. CASE GetRows(p)
  <2>1. /\ at[p] \notin Opening /\ UNCHANGED <<tier, scripts, version, lock>>
        /\ Goto(p, "ready")
    BY <1>3 DEF GetRows, Opening, schema
  <2>2. Learns(p)
    BY <1>3, KnownLearns DEF GetRows
  <2>3. Answers(p)
    BY <1>3, RepliedAnswers DEF GetRows
  <2> QED
    BY <2>1, <2>2, <2>3, GotoMoves DEF Quiet, LockMoves
<1> QED
  BY <1>1, <1>2, <1>3 DEF Get

\* The transaction of an add becomes visible.
LEMMA CommitQuiet ==
    ASSUME Shape, NEW p \in Processes, Commit(p) PROVE Quiet(p)
<1>1. /\ at[p] \notin Opening /\ UNCHANGED <<tier, scripts, version>>
      /\ Goto(p, "ready") /\ Release(p)
  BY DEF Commit, Opening, schema
<1>2. Learns(p) /\ Answers(p)
  BY KnownLearns, RepliedAnswers DEF Commit, Ended
<1> QED
  BY <1>1, <1>2, GotoMoves, ReleaseMoves DEF Quiet

\* A statement of add fails, or its commit is not acknowledged.
LEMMA FaultsQuiet ==
    ASSUME Shape, NEW p \in Processes, StatementFails(p) \/ LostAnswer(p) PROVE Quiet(p)
<1>1. CASE StatementFails(p)
  <2>1. /\ at[p] \notin Opening /\ UNCHANGED <<tier, scripts, version>>
        /\ Goto(p, "ready") /\ Release(p)
    BY <1>1 DEF StatementFails, InTransaction, Opening, schema
  <2>2. Learns(p) /\ Answers(p)
    BY <1>1, KnownLearns, RepliedAnswers DEF StatementFails, Ended
  <2> QED
    BY <2>1, <2>2, GotoMoves, ReleaseMoves DEF Quiet
<1>2. CASE LostAnswer(p)
  <2>1. /\ at[p] \notin Opening /\ UNCHANGED <<tier, scripts, version, lock>>
        /\ Goto(p, "ready")
    BY <1>2 DEF LostAnswer, Opening, schema
  <2>2. Learns(p) /\ Answers(p)
    BY <1>2, KnownLearns, RepliedAnswers DEF LostAnswer, Ended
  <2> QED
    BY <2>1, <2>2, GotoMoves DEF Quiet, LockMoves
<1> QED
  BY <1>1, <1>2

\* A statement of add either goes on or ends the call.
LEMMA StatementQuiet ==
    ASSUME Shape, NEW p \in Processes, at[p] \notin Opening,
           \/ \E next : /\ next \notin {"closed", "migrate", "recorded"}
                        /\ \E new, learnt : Write(p, new, learnt, next)
           \/ \E how : how # "exists" /\ Fail(p, how)
    PROVE  Quiet(p)
BY WriteQuiet, FailQuiet

\* The find-or-inserts of an add on SQLite, under its write lock.
LEMMA SqliteCallQuiet ==
    ASSUME Shape, NEW p \in Processes,
           EnsureScenario(p) \/ EnsureSnapshot(p) \/ EnsureManifest(p) \/ WriteRun(p)
    PROVE  Quiet(p)
<1>1. CASE EnsureScenario(p)
  <2>1. at[p] \notin Opening
    BY <1>1 DEF EnsureScenario, Opening
  <2>2. \/ \E new, learnt : Write(p, new, learnt, "snapshot")
        \/ \E how \in {"constraint"} : Fail(p, how)
    BY <1>1, Zenon DEF EnsureScenario
  <2> QED
    BY <2>1, <2>2, StatementQuiet
<1>2. CASE EnsureSnapshot(p)
  <2>1. at[p] \notin Opening
    BY <1>2 DEF EnsureSnapshot, Opening
  <2>2. \E new, learnt : Write(p, new, learnt, "manifest")
    BY <1>2, Zenon DEF EnsureSnapshot
  <2> QED
    BY <2>1, <2>2, StatementQuiet
<1>3. CASE EnsureManifest(p)
  <2>1. at[p] \notin Opening
    BY <1>3 DEF EnsureManifest, Opening
  <2>2. \E new, learnt : Write(p, new, learnt, "run")
    BY <1>3, Zenon DEF EnsureManifest
  <2> QED
    BY <2>1, <2>2, StatementQuiet
<1>4. CASE WriteRun(p)
  <2>1. at[p] \notin Opening
    BY <1>4 DEF WriteRun, Opening
  <2>2. \/ \E new, learnt : Write(p, new, learnt, "commit")
        \/ \E how \in {"constraint"} \cup Refusals(p) : Fail(p, how)
    BY <1>4, Zenon DEF WriteRun
  <2> QED
    BY <2>1, <2>2, StatementQuiet, RefusalNamed
<1> QED
  BY <1>1, <1>2, <1>3, <1>4

\* The statements of an add on PostgreSQL.
LEMMA PostgresCallQuiet ==
    ASSUME Shape, NEW p \in Processes,
           PostgresStep(p)
    PROVE  Quiet(p)
<1>1. CASE BeginProfiles(p)
  <2>1. at[p] \notin Opening
    BY <1>1 DEF BeginProfiles, Opening
  <2>2. \E new, learnt : Write(p, new, learnt, "profiles")
    BY <1>1, Zenon DEF BeginProfiles, Learn
  <2> QED
    BY <2>1, <2>2, StatementQuiet
<1>2. CASE Conflict(p)
  <2>1. at[p] \notin Opening
    BY <1>2 DEF Conflict, Inserting, Opening
  <2>2. \E how \in {"conflict"} : Fail(p, how)
    BY <1>2, Zenon DEF Conflict
  <2> QED
    BY <2>1, <2>2, StatementQuiet
<1>3. CASE FindProfile(p)
  <2>1. at[p] \notin Opening
    BY <1>3 DEF FindProfile, Opening
  <2>2. \/ \E new, learnt : Write(p, new, learnt, "insert_profile")
        \/ \E new, learnt : Write(p, new, learnt, "profiles")
    BY <1>3, Zenon DEF FindProfile, Learn
  <2> QED
    BY <2>1, <2>2, StatementQuiet
<1>4. CASE InsertProfile(p)
  <2>1. at[p] \notin Opening
    BY <1>4 DEF InsertProfile, Opening
  <2>2. \E new, learnt : Write(p, new, learnt, "profiles")
    BY <1>4, Zenon DEF InsertProfile
  <2> QED
    BY <2>1, <2>2, StatementQuiet
<1>5. CASE FindScenario(p)
  <2>1. at[p] \notin Opening
    BY <1>5 DEF FindScenario, Opening
  <2>2. \/ \E new, learnt : Write(p, new, learnt, "insert_scenario")
        \/ \E new, learnt : Write(p, new, learnt, "revision")
    BY <1>5, Zenon DEF FindScenario, Learn
  <2> QED
    BY <2>1, <2>2, StatementQuiet
<1>6. CASE InsertScenario(p)
  <2>1. at[p] \notin Opening
    BY <1>6 DEF InsertScenario, Opening
  <2>2. \E new, learnt : Write(p, new, learnt, "revision")
    BY <1>6, Zenon DEF InsertScenario
  <2> QED
    BY <2>1, <2>2, StatementQuiet
<1>7. CASE FindRevision(p)
  <2>1. at[p] \notin Opening
    BY <1>7 DEF FindRevision, Opening
  <2>2. \/ \E new, learnt : Write(p, new, learnt, "count")
        \/ \E new, learnt : Write(p, new, learnt, "snapshot")
    BY <1>7, Zenon DEF FindRevision, Learn
  <2> QED
    BY <2>1, <2>2, StatementQuiet
<1>8. CASE CountRevisions(p)
  <2>1. at[p] \notin Opening
    BY <1>8 DEF CountRevisions, Opening
  <2>2. \E new, learnt : Write(p, new, learnt, "insert_revision")
    BY <1>8, Zenon DEF CountRevisions, Learn
  <2> QED
    BY <2>1, <2>2, StatementQuiet
<1>9. CASE InsertRevision(p)
  <2>1. at[p] \notin Opening
    BY <1>9 DEF InsertRevision, Opening
  <2>2. \/ \E new, learnt : Write(p, new, learnt, "snapshot")
        \/ \E how \in {"constraint"} : Fail(p, how)
    BY <1>9, Zenon DEF InsertRevision
  <2> QED
    BY <2>1, <2>2, StatementQuiet
<1>10. CASE FindSnapshot(p)
  <2>1. at[p] \notin Opening
    BY <1>10 DEF FindSnapshot, Opening
  <2>2. \/ \E new, learnt : Write(p, new, learnt, "insert_snapshot")
        \/ \E new, learnt : Write(p, new, learnt, "manifest")
    BY <1>10, Zenon DEF FindSnapshot, Learn
  <2> QED
    BY <2>1, <2>2, StatementQuiet
<1>11. CASE InsertSnapshot(p)
  <2>1. at[p] \notin Opening
    BY <1>11 DEF InsertSnapshot, Opening
  <2>2. \E new, learnt : Write(p, new, learnt, "manifest")
    BY <1>11, Zenon DEF InsertSnapshot
  <2> QED
    BY <2>1, <2>2, StatementQuiet
<1>12. CASE FindManifest(p)
  <2>1. at[p] \notin Opening
    BY <1>12 DEF FindManifest, Opening
  <2>2. \/ \E new, learnt : Write(p, new, learnt, "insert_manifest")
        \/ \E new, learnt : Write(p, new, learnt, "run")
    BY <1>12, Zenon DEF FindManifest, Learn
  <2> QED
    BY <2>1, <2>2, StatementQuiet
<1>13. CASE InsertManifest(p)
  <2>1. at[p] \notin Opening
    BY <1>13 DEF InsertManifest, Opening
  <2>2. \E new, learnt : Write(p, new, learnt, "run")
    BY <1>13, Zenon DEF InsertManifest
  <2> QED
    BY <2>1, <2>2, StatementQuiet
<1>14. CASE InsertRun(p)
  <2>1. at[p] \notin Opening
    BY <1>14 DEF InsertRun, Opening
  <2>2. \/ \E new, learnt : Write(p, new, learnt, "commit")
        \/ \E how \in Refusals(p) : Fail(p, how)
    BY <1>14, Zenon DEF InsertRun
  <2> QED
    BY <2>1, <2>2, StatementQuiet, RefusalNamed
<1> QED
  BY <1>1, <1>2, <1>3, <1>4, <1>5, <1>6, <1>7, <1>8, <1>9, <1>10, <1>11, <1>12, <1>13, <1>14 DEF PostgresStep

\* The write lock is taken for an add.
LEMMA BeginImmediateQuiet ==
    ASSUME Shape, NEW p \in Processes, BeginImmediate(p) PROVE Quiet(p)
<1>1. /\ at[p] \notin Opening /\ Goto(p, "scenario") /\ lock = None /\ lock' = p
      /\ UNCHANGED <<tier, scripts, version, known, reply>>
  BY DEF BeginImmediate, Opening, schema
<1> QED
  BY <1>1, GotoMoves, SameLearns, SameAnswers DEF Quiet, LockMoves

-----------------------------------------------------------------------------
(***************************************************************************)
(* Opening the file.                                                       *)
(***************************************************************************)

\* The next script is the one above the version that was read.
LEMMA NextScript ==
    ASSUME NEW p \in Processes, known[p].version \in Nat, Pending(p) # {}
    PROVE  Min(Pending(p)) = known[p].version + 1
<1> DEFINE v == known[p].version
<1>1. Pending(p) = {s \in 1 .. 2 : s > v} /\ v \in Nat
  BY DEF Pending, Scripts, SchemaVersion
<1> HIDE DEF v
<1>2. v + 1 \in Pending(p) /\ \A s \in Pending(p) : v + 1 =< s
  BY <1>1
<1>3. ASSUME NEW m \in Pending(p), \A s \in Pending(p) : m =< s PROVE m = v + 1
  <2>1. m =< v + 1
    BY <1>2, <1>3
  <2>2. m \in Nat /\ m > v
    BY <1>1
  <2> QED
    BY <1>1, <2>1, <2>2
<1>4. Min(Pending(p)) = CHOOSE x \in Pending(p) : \A y \in Pending(p) : x =< y
  BY Zenon DEF Min
<1>5. Min(Pending(p)) \in Pending(p) /\ \A s \in Pending(p) : Min(Pending(p)) =< s
  BY <1>2, <1>4, Zenon
<1> QED
  BY <1>3, <1>5 DEF v

\* Opening begins with a read of the version, without a lock.
LEMMA ReadVersionKeeps ==
    ASSUME Migration, NEW p \in Processes, ReadVersion(p) PROVE Migration'
<1>1. /\ at[p] = "closed"
      /\ known' = [known EXCEPT ![p] = [version |-> version]]
      /\ reply' = [reply EXCEPT ![p] = None]
      /\ at' = [at EXCEPT ![p] = "migrate"]
      /\ UNCHANGED <<tier, scripts, version, lock>>
  BY DEF ReadVersion, Goto, schema
<1>2. Shape' /\ Versioned'
  BY <1>1 DEF Migration, Shape, Versioned
<1>3. ReadBefore'
  BY <1>1 DEF Migration, Shape, Versioned, ReadBefore, Pending
<1>4. Overtaken'
  BY <1>1 DEF Migration, Shape, Overtaken
<1> QED
  BY <1>2, <1>3, <1>4 DEF Migration

\* An open that fails; it found a table made only when it was overtaken.
LEMMA OpenFailsKeeps ==
    ASSUME Migration, NEW p \in Processes, NEW how, at[p] = "migrate", OpenFails(p, how),
           how = "exists" => tier = "sqlite" /\ version > known[p].version
    PROVE  Migration'
<1>1. /\ reply' = [reply EXCEPT ![p] = [id |-> None, how |-> how, run |-> None]]
      /\ at' = [at EXCEPT ![p] = "down"]
      /\ Release(p)
      /\ UNCHANGED <<tier, scripts, version, known>>
  BY DEF OpenFails, Replied, Goto, schema
<1>2. Shape' /\ Versioned'
  BY <1>1 DEF Migration, Shape, Versioned
<1>3. \A q \in Processes \ {p} : at[q] = "recorded" => lock' = lock
  BY <1>1 DEF Release, Migration, ReadBefore
<1>4. ReadBefore'
  BY <1>1, <1>3 DEF Migration, Shape, ReadBefore, Pending
<1>5. Overtaken'
  <2>1. /\ at'[p] = "down" /\ reply'[p].how = how /\ known[p].version \in Nat
        /\ UNCHANGED <<tier, version, known>>
    BY <1>1 DEF Migration, Shape, ReadBefore
  <2>2. \A q \in Processes \ {p} : at'[q] = at[q] /\ reply'[q] = reply[q]
    BY <1>1 DEF Migration, Shape
  <2> QED
    BY <2>1, <2>2 DEF Migration, Overtaken
<1> QED
  BY <1>2, <1>4, <1>5 DEF Migration

\* A file of a newer build is left alone.
LEMMA RefuseNewerKeeps ==
    ASSUME Migration, NEW p \in Processes, RefuseNewer(p) PROVE Migration'
BY OpenFailsKeeps DEF RefuseNewer

\* The script's number is one more than what was read.
LEMMA TableExistsKeeps ==
    ASSUME Migration, tier = "sqlite", NEW p \in Processes, TableExists(p) PROVE Migration'
<1>1. /\ at[p] = "migrate" /\ Pending(p) # {} /\ OpenFails(p, "exists")
      /\ Min(Pending(p)) \in scripts
  BY DEF TableExists
<1>2. known[p].version \in Nat /\ version \in Nat /\ scripts = 1 .. version
  BY <1>1 DEF Migration, ReadBefore, Versioned
<1>3. version > known[p].version
  BY <1>1, <1>2, NextScript
<1> QED
  BY <1>1, <1>3, OpenFailsKeeps

\* Whoever takes the lock for a script read the version the file has.
LEMMA ApplyKeeps ==
    ASSUME Migration, NEW p \in Processes, Apply(p) PROVE Migration'
<1>1. /\ at[p] = "migrate" /\ Pending(p) # {} /\ lock = None
      /\ Min(Pending(p)) \notin scripts
      /\ lock' = p
      /\ at' = [at EXCEPT ![p] = "recorded"]
      /\ UNCHANGED <<tier, scripts, version, known, reply>>
  BY DEF Apply, Goto, schema
<1>2. known[p].version \in Nat /\ known[p].version <= version /\ version \in Nat
      /\ scripts = 1 .. version
  BY <1>1 DEF Migration, ReadBefore, Versioned
<1>3. known[p].version = version
  BY <1>1, <1>2, NextScript
<1>4. Shape' /\ Versioned'
  BY <1>1 DEF Migration, Shape, Versioned
<1>5. \A q \in Processes : at[q] # "recorded"
  BY <1>1, ProcessesAssumption DEF Migration, ReadBefore
<1>6. ReadBefore'
  BY <1>1, <1>2, <1>3, <1>5 DEF Migration, Shape, ReadBefore, Pending
<1>7. Overtaken'
  BY <1>1 DEF Migration, Shape, Overtaken
<1> QED
  BY <1>4, <1>6, <1>7 DEF Migration

\* The lock is held since the script began: the version has not moved.
LEMMA RecordKeeps ==
    ASSUME Migration, NEW p \in Processes, Record(p) PROVE Migration'
<1>1. at[p] = "recorded" /\ tier' = tier /\ reply' = reply /\ at' = [at EXCEPT ![p] = "migrate"]
  BY DEF Record, Goto
<1>2. /\ lock = p /\ Pending(p) # {} /\ version \in Nat /\ scripts = 1 .. version
      /\ known[p].version = version
  BY <1>1 DEF Migration, ReadBefore, Versioned
<1>3. Min(Pending(p)) = version + 1
  BY <1>2, NextScript
<1>4. /\ scripts' = scripts \cup {version + 1}
      /\ version' = version + 1
      /\ known' = [known EXCEPT ![p] = [version |-> version + 1]]
  BY <1>3 DEF Record
<1>5. Versioned'
  <2>1. scripts' = 1 .. (version + 1)
    BY <1>2, <1>4
  <2> QED
    BY <1>2, <1>4, <2>1 DEF Versioned
<1>6. Shape'
  BY <1>1, <1>4 DEF Migration, Shape
<1>7. at'[p] = "migrate" /\ known'[p].version = version + 1
      /\ \A q \in Processes \ {p} : at'[q] = at[q] /\ known'[q] = known[q]
  BY <1>1, <1>4 DEF Migration, Shape
<1>8. \A q \in Processes \ {p} : at[q] # "recorded"
  BY <1>2 DEF Migration, ReadBefore
<1>9. ReadBefore'
  BY <1>2, <1>4, <1>7, <1>8 DEF Migration, ReadBefore
<1>10. Overtaken'
  <2> SUFFICES ASSUME NEW q \in Processes, reply'[q] # None, reply'[q].how = "exists"
               PROVE  /\ tier' = "sqlite" /\ at'[q] \in {"down", "closed"}
                      /\ known'[q] # <<>> => known'[q].version \in Nat /\ version' > known'[q].version
    BY DEF Overtaken
  <2>1. q # p /\ reply[q] # None /\ reply[q].how = "exists"
    BY <1>1 DEF Migration, Overtaken
  <2>2. tier = "sqlite" /\ at[q] \in {"down", "closed"}
        /\ (known[q] # <<>> => known[q].version \in Nat /\ version > known[q].version)
    BY <2>1 DEF Migration, Overtaken
  <2> QED
    BY <1>1, <1>2, <1>4, <1>7, <2>1, <2>2
<1> QED
  BY <1>5, <1>6, <1>9, <1>10 DEF Migration
\* The file is at the current schema.
LEMMA OpenedKeeps ==
    ASSUME Migration, NEW p \in Processes, Opened(p) PROVE Migration'
<1>1. /\ at[p] = "migrate" /\ at' = [at EXCEPT ![p] = "ready"]
      /\ UNCHANGED <<tier, scripts, version, lock, known, reply>>
  BY DEF Opened, Goto, schema
<1> QED
  BY <1>1 DEF Migration, Shape, Versioned, ReadBefore, Pending, Overtaken

\* A process gives up waiting for the lock, in an add or in opening.
LEMMA BusyKeeps ==
    ASSUME Migration, NEW p \in Processes, Busy(p) PROVE Migration'
<1>1. UNCHANGED <<tier, scripts, version, lock, known>>
  BY DEF Busy, schema
<1>2. CASE at[p] = "begin" /\ Ended(p, "busy") /\ Goto(p, "ready")
  <2>1. at[p] \notin Opening /\ Shape
    BY <1>2 DEF Opening, Migration
  <2>2. Answers(p)
    BY <1>2, <2>1, RepliedAnswers DEF Ended
  <2>3. Quiet(p)
    BY <1>1, <1>2, <2>1, <2>2, GotoMoves, SameLearns DEF Quiet, LockMoves
  <2> QED
    BY <2>3, QuietKeeps
<1>3. CASE at[p] = "migrate" /\ Replied(p, None, "busy", None) /\ Goto(p, "down")
  <2>1. /\ reply' = [reply EXCEPT ![p] = [id |-> None, how |-> "busy", run |-> None]]
        /\ at' = [at EXCEPT ![p] = "down"] /\ at[p] = "migrate"
    BY <1>3 DEF Replied, Goto
  <2>2. Shape' /\ Versioned'
    BY <1>1, <2>1 DEF Migration, Shape, Versioned
  <2>3. ReadBefore'
    BY <1>1, <2>1 DEF Migration, Shape, ReadBefore, Pending
  <2>4. Overtaken'
    BY <1>1, <2>1 DEF Migration, Shape, Overtaken
  <2> QED
    BY <2>2, <2>3, <2>4 DEF Migration
<1> QED
  BY <1>2, <1>3 DEF Busy

\* The dead process has forgotten what it read, and its transaction is gone.
LEMMA CrashKeeps ==
    ASSUME Migration, NEW p \in Processes, Crash(p) PROVE Migration'
<1>1. /\ at' = [at EXCEPT ![p] = "down"] /\ known' = [known EXCEPT ![p] = <<>>] /\ Release(p)
      /\ UNCHANGED <<tier, scripts, version, reply>>
  BY DEF Crash, Goto, schema
<1>2. Shape' /\ Versioned'
  BY <1>1 DEF Migration, Shape, Versioned
<1>3. \A q \in Processes \ {p} : at[q] = "recorded" => lock' = lock
  BY <1>1 DEF Release, Migration, ReadBefore
<1>4. ReadBefore'
  BY <1>1, <1>3 DEF Migration, Shape, ReadBefore, Pending
<1>5. Overtaken'
  BY <1>1 DEF Migration, Shape, Overtaken
<1> QED
  BY <1>2, <1>4, <1>5 DEF Migration

\* A process that starts again has read nothing.
LEMMA RestartKeeps ==
    ASSUME Migration, NEW p \in Processes, Restart(p) PROVE Migration'
<1>1. /\ at[p] = "down" /\ at' = [at EXCEPT ![p] = Started]
      /\ UNCHANGED <<tier, scripts, version, lock, known, reply>>
  BY DEF Restart, Goto, schema
<1>2. Shape' /\ Versioned'
  BY <1>1 DEF Migration, Shape, Versioned
<1>3. ReadBefore'
  BY <1>1 DEF Migration, Shape, ReadBefore, Pending, Started
<1>4. Overtaken'
  BY <1>1 DEF Migration, Shape, Overtaken, Started
<1> QED
  BY <1>2, <1>3, <1>4 DEF Migration

-----------------------------------------------------------------------------
\* A file of any earlier build holds the scripts up to its version.
LEMMA InitMigration == Init => Migration
<1> SUFFICES ASSUME Init PROVE Migration
  OBVIOUS
<1>1. version \in Nat /\ scripts = 1 .. version
  BY FilesAssumption DEF Init
<1>2. /\ at = [p \in Processes |-> Started] /\ known = [p \in Processes |-> <<>>]
      /\ reply = [p \in Processes |-> None]
  BY DEF Init
<1>3. Shape /\ Versioned
  BY <1>1, <1>2 DEF Shape, Versioned
<1>4. ReadBefore /\ Overtaken
  BY <1>2 DEF ReadBefore, Overtaken, Started
<1> QED
  BY <1>3, <1>4 DEF Migration

\* The steps of a process that does not fail.
LEMMA StepKeeps ==
    ASSUME Migration, NEW p \in Processes, Step(p) PROVE Migration'
<1>1. Shape
  BY DEF Migration
<1>2. CASE tier = "sqlite" /\ SqliteStep(p)
  <2>1. CASE ReadVersion(p) \/ RefuseNewer(p) \/ Apply(p) \/ TableExists(p) \/ Record(p) \/ Opened(p)
    BY <1>2, <2>1, ReadVersionKeeps, RefuseNewerKeeps, ApplyKeeps, TableExistsKeeps, RecordKeeps,
       OpenedKeeps
  <2>2. CASE BeginImmediate(p)
    BY <1>1, <2>2, BeginImmediateQuiet, QuietKeeps
  <2>3. CASE EnsureScenario(p) \/ EnsureSnapshot(p) \/ EnsureManifest(p) \/ WriteRun(p)
    BY <1>1, <2>3, SqliteCallQuiet, QuietKeeps
  <2> QED
    BY <1>2, <2>1, <2>2, <2>3 DEF SqliteStep
<1>3. CASE PostgresStep(p)
  BY <1>1, <1>3, PostgresCallQuiet, QuietKeeps
<1>4. CASE CheckRun(p, "begin") \/ Commit(p) \/ Get(p)
  BY <1>1, <1>4, CheckRunQuiet, CommitQuiet, GetQuiet, QuietKeeps
<1> QED
  BY <1>2, <1>3, <1>4 DEF Step

\* What a process read of the schema, and the lock it holds, stay true of the
\* file whatever any process does next.
LEMMA NextMigration == Migration /\ [Next]_vars => Migration'
<1> SUFFICES ASSUME Migration, [Next]_vars PROVE Migration'
  OBVIOUS
<1>1. CASE UNCHANGED vars
  BY <1>1 DEF vars, Migration, Shape, Versioned, ReadBefore, Pending, Overtaken
<1>2. ASSUME NEW p \in Processes, Step(p) PROVE Migration'
  BY <1>2, StepKeeps
<1>3. ASSUME NEW p \in Processes, NEW run \in Offers[p],
             RequestAdd(p, run) \/ GetHead(p, run.id)
      PROVE  Migration'
  <2>1. CASE RequestAdd(p, run)
    BY <2>1, RequestAddQuiet, QuietKeeps DEF Migration
  <2>2. CASE GetHead(p, run.id)
    BY <2>2, GetHeadQuiet, QuietKeeps DEF Migration
  <2> QED
    BY <1>3, <2>1, <2>2
<1>4. ASSUME NEW p \in Processes, StatementFails(p) \/ LostAnswer(p) PROVE Migration'
  BY <1>4, FaultsQuiet, QuietKeeps DEF Migration
<1>5. ASSUME NEW p \in Processes, Busy(p) \/ Crash(p) \/ Restart(p) PROVE Migration'
  BY <1>5, BusyKeeps, CrashKeeps, RestartKeeps
<1> QED
  BY <1>1, <1>2, <1>3, <1>4, <1>5 DEF Next

\* For any number of processes, any runs, and whatever fails: a SQLite file
\* holds exactly the scripts up to the version it records, and an open finds a
\* table made only when another process has migrated the file since (migrate).
THEOREM SchemaStaysWhole == Spec => []SchemaWhole
<1>1. Migration => SchemaWhole
  BY DEF Migration, Versioned, Overtaken, SchemaWhole
<1> QED
  BY <1>1, InitMigration, NextMigration, PTL DEF Spec

-----------------------------------------------------------------------------
(***************************************************************************)
(* A finite set of which any two elements come one before the other.       *)
(***************************************************************************)

\* A finite set has finitely many images.
LEMMA ImagesFinite ==
    ASSUME NEW S, IsFiniteSet(S), NEW f, DOMAIN f = S PROVE IsFiniteSet({f[x] : x \in S})
<1> DEFINE T == {f[x] : x \in S}
           g == [x \in S |-> f[x]]
<1>1. g \in Surjection(S, T)
  BY DEF Surjection
<1> QED
  BY <1>1, FS_Surjection

\* Any set of profiles whose members the order of kinds and keys tells apart.
Ranked(S) ==
    /\ \A x \in S : KindRank[x.kind] \in Int /\ KeyRank(x.key) \in Int
    /\ \A x, y \in S : x # y => Precedes(x, y) \/ Precedes(y, x)

Before(S, x) == {y \in S : Precedes(y, x)}

\* The order is transitive and nothing precedes itself.
LEMMA PrecedesOrders ==
    ASSUME NEW S, Ranked(S), NEW x \in S, NEW y \in S, NEW z \in S
    PROVE  /\ Precedes(x, y) /\ Precedes(y, z) => Precedes(x, z)
           /\ ~Precedes(x, x)
BY DEF Ranked, Precedes

\* The profiles before one are fewer than those before a later one.
LEMMA FewerBefore ==
    ASSUME NEW S, IsFiniteSet(S), Ranked(S), NEW x \in S, NEW y \in S, Precedes(x, y)
    PROVE  /\ Cardinality(Before(S, x)) \in Nat /\ Cardinality(Before(S, y)) \in Nat
           /\ Cardinality(Before(S, x)) < Cardinality(Before(S, y))
<1>1. Before(S, x) \subseteq Before(S, y) /\ x \in Before(S, y) /\ x \notin Before(S, x)
  BY PrecedesOrders DEF Before
<1>2. Before(S, y) \subseteq S
  BY DEF Before
<1> DEFINE A == Before(S, x)
           B == Before(S, y)
<1> HIDE DEF A, B
<1>3. IsFiniteSet(B) /\ A \in SUBSET B /\ A # B
  BY <1>1, <1>2, FS_Subset DEF A, B
<1>4. IsFiniteSet(A) /\ Cardinality(A) <= Cardinality(B) /\ Cardinality(A) # Cardinality(B)
  BY <1>3, FS_Subset
<1>5. Cardinality(A) \in Nat /\ Cardinality(B) \in Nat
  BY <1>3, <1>4, FS_CardinalityType
<1>6. Cardinality(A) < Cardinality(B)
  BY <1>4, <1>5
<1> QED
  BY <1>5, <1>6 DEF A, B

\* Of a finite set of profiles, one comes at every place.
LEMMA EveryPlaceTaken ==
    ASSUME NEW S, IsFiniteSet(S), Ranked(S), NEW n \in 0 .. Cardinality(S) - 1
    PROVE  \E x \in S : Cardinality(Before(S, x)) = n
<1> DEFINE c == Cardinality(S)
           T == 0 .. c - 1
           f == [x \in S |-> Cardinality(Before(S, x))]
<1>1. c \in Nat
  BY FS_CardinalityType
<1>2. IsFiniteSet(T) /\ Cardinality(T) = c
  BY <1>1, FS_Interval
<1>3. \A x \in S : Cardinality(Before(S, x)) \in T
  <2> TAKE x \in S
  <2> DEFINE A == Before(S, x)
  <2>1. A \in SUBSET S /\ x \notin A
    BY PrecedesOrders DEF Before
  <2> HIDE DEF A
  <2>2. IsFiniteSet(A) /\ Cardinality(A) <= c /\ Cardinality(A) # c
    BY <2>1, FS_Subset
  <2>3. Cardinality(A) \in Nat
    BY <2>2, FS_CardinalityType
  <2> HIDE DEF c
  <2>4. Cardinality(A) \in T
    BY <1>1, <2>2, <2>3
  <2> QED
    BY <2>4 DEF A
<1>4. \A x, y \in S : Cardinality(Before(S, x)) = Cardinality(Before(S, y)) => x = y
  <2> SUFFICES ASSUME NEW x \in S, NEW y \in S, x # y
               PROVE  Cardinality(Before(S, x)) # Cardinality(Before(S, y))
    OBVIOUS
  <2>1. Precedes(x, y) \/ Precedes(y, x)
    BY DEF Ranked
  <2> QED
    BY <2>1, FewerBefore
<1>5. f \in Injection(S, T)
  <2> HIDE DEF T
  <2> QED
    BY <1>3, <1>4 DEF Injection, IsInjective
<1>6. f \in Surjection(S, T)
  <2> HIDE DEF T, f, c
  <2> QED
    BY <1>2, <1>5, FS_Injection DEF c
<1>7. n \in T
  OBVIOUS
<1> HIDE DEF T
<1>8. \E x \in S : f[x] = n
  BY <1>6, <1>7 DEF Surjection
<1> QED
  BY <1>8

\* The profiles of a finite set, in a sequence, are in order.
LEMMA InOrder ==
    ASSUME NEW S, IsFiniteSet(S), Ranked(S), NEW P, P = Ordered(S, Precedes)
    PROVE  /\ P \in Seq(S) /\ Len(P) = Cardinality(S)
           /\ \A i, j \in 1 .. Len(P) : i < j => Precedes(P[i], P[j])
<1> DEFINE n == Cardinality(S)
<1>1. n \in Nat
  BY FS_CardinalityType
<1>2. P = [i \in 1 .. n |-> CHOOSE x \in S : Cardinality(Before(S, x)) = i - 1]
  BY DEF Ordered, Before
<1>3. \A i \in 1 .. n : P[i] \in S /\ Cardinality(Before(S, P[i])) = i - 1
  <2> TAKE i \in 1 .. n
  <2>1. i - 1 \in 0 .. Cardinality(S) - 1
    BY <1>1
  <2>2. \E x \in S : Cardinality(Before(S, x)) = i - 1
    BY <2>1, EveryPlaceTaken
  <2>3. P[i] = CHOOSE x \in S : Cardinality(Before(S, x)) = i - 1
    BY <1>2
  <2> QED
    BY <2>2, <2>3
<1> HIDE DEF n
<1>4. P \in Seq(S) /\ Len(P) = n
  BY <1>1, <1>2, <1>3
<1>5. ASSUME NEW i \in 1 .. n, NEW j \in 1 .. n, i < j PROVE Precedes(P[i], P[j])
  <2>1. P[i] \in S /\ P[j] \in S
    BY <1>3
  <2>2. P[i] # P[j]
    BY <1>1, <1>3, <1>5
  <2>3. ~Precedes(P[j], P[i])
    <3> SUFFICES ASSUME Precedes(P[j], P[i]) PROVE FALSE
      OBVIOUS
    <3>1. Cardinality(Before(S, P[j])) < Cardinality(Before(S, P[i]))
      BY <2>1, FewerBefore
    <3>2. j - 1 < i - 1
      BY <1>3, <3>1
    <3> QED
      BY <1>1, <1>5, <3>2
  <2> QED
    BY <2>1, <2>2, <2>3 DEF Ranked
<1> QED
  BY <1>4, <1>5 DEF n

-----------------------------------------------------------------------------
(***************************************************************************)
(* The profiles of an input.                                               *)
(***************************************************************************)

\* The rank of each profile of an input.
LEMMA KindsRanked ==
    /\ KindRank["COMMUNICATION"] = 1 /\ KindRank["GROUND_STATION"] = 2 /\ KindRank["ORBIT"] = 3
    /\ KindRank["PAYLOAD_TYPE"] = 4 /\ KindRank["POLICY"] = 5 /\ KindRank["SPACECRAFT"] = 6
BY DEF KindRank

\* What a profile of an input is, by its kind.
Placed(s, x) ==
    \/ x.kind = "SPACECRAFT" /\ x = Profile("SPACECRAFT", SpacecraftKey(s), [transmitter |-> "TX1"])
    \/ x.kind = "ORBIT" /\ x = Profile("ORBIT", <<"ORB", s.orbit>>, [orbit |-> s.orbit])
    \/ x.kind = "POLICY" /\ x = Profile("POLICY", <<"POLICY", s.policy>>, [policy |-> s.policy])
    \/ /\ x.kind = "GROUND_STATION"
       /\ \E k \in DOMAIN s.stations :
             x = Profile("GROUND_STATION", GroundStationKey(k), s.stations[k].site)
    \/ /\ x.kind = "COMMUNICATION"
       /\ \E k \in DOMAIN s.stations :
             x = Profile("COMMUNICATION", CommunicationKey(k),
                         CommunicationPayload(s.stations[k].capacity))
    \/ /\ x.kind = "PAYLOAD_TYPE"
       /\ \E k \in DOMAIN s.payloads :
             /\ ~\E j \in DOMAIN s.payloads :
                    j < k /\ PayloadTypeKey(s.payloads[j]) = PayloadTypeKey(s.payloads[k])
             /\ x = Profile("PAYLOAD_TYPE", PayloadTypeKey(s.payloads[k]),
                            PayloadTypePayload(s.payloads[k]))

\* Every profile of an input is placed.
LEMMA ProfilesPlaced == ASSUME NEW s, NEW x \in ProfilesOf(s) PROVE Placed(s, x)
<1>1. CASE x \in {Profile("SPACECRAFT", SpacecraftKey(s), [transmitter |-> "TX1"])}
  BY <1>1 DEF Placed, Profile
<1>2. CASE x \in OrbitProfiles(s)
  BY <1>2 DEF Placed, Profile, OrbitProfiles
<1>3. CASE x \in PolicyProfiles(s)
  BY <1>3 DEF Placed, Profile, PolicyProfiles
<1>4. CASE x \in StationProfiles(s)
  <2>1. PICK k \in DOMAIN s.stations :
            \/ x = Profile("GROUND_STATION", GroundStationKey(k), s.stations[k].site)
            \/ x = Profile("COMMUNICATION", CommunicationKey(k),
                           CommunicationPayload(s.stations[k].capacity))
    BY <1>4, Zenon DEF StationProfiles
  <2>2. CASE x = Profile("GROUND_STATION", GroundStationKey(k), s.stations[k].site)
    <3>1. x.kind = "GROUND_STATION"
      BY <2>2 DEF Profile
    <3> QED
      BY <2>2, <3>1, Zenon DEF Placed
  <2>3. CASE x = Profile("COMMUNICATION", CommunicationKey(k),
                         CommunicationPayload(s.stations[k].capacity))
    <3>1. x.kind = "COMMUNICATION"
      BY <2>3 DEF Profile
    <3> QED
      BY <2>3, <3>1, Zenon DEF Placed
  <2> QED
    BY <2>1, <2>2, <2>3
<1>5. CASE x \in TypeProfiles(s)
  <2>1. PICK k \in DOMAIN s.payloads :
            /\ ~\E j \in DOMAIN s.payloads :
                    j < k /\ PayloadTypeKey(s.payloads[j]) = PayloadTypeKey(s.payloads[k])
            /\ x = Profile("PAYLOAD_TYPE", PayloadTypeKey(s.payloads[k]),
                           PayloadTypePayload(s.payloads[k]))
    BY <1>5, Zenon DEF TypeProfiles
  <2>2. x.kind = "PAYLOAD_TYPE"
    BY <2>1 DEF Profile
  <2> QED
    BY <2>1, <2>2, Zenon DEF Placed
<1> QED
  BY <1>1, <1>2, <1>3, <1>4, <1>5, Zenon DEF ProfilesOf

\* The numbers keys are ordered by.
LEMMA KeysRanked ==
    /\ \A k : KeyRank(GroundStationKey(k)) = k /\ KeyRank(CommunicationKey(k)) = k
    /\ \A s : KeyRank(SpacecraftKey(s)) = 1
    /\ \A o : KeyRank(<<"ORB", o>>) = 1 /\ KeyRank(<<"POLICY", o>>) = 1
    /\ \A p : KeyRank(PayloadTypeKey(p)) = IF p.chunk = None THEN 0 ELSE p.chunk
<1>1. \A k : KeyRank(GroundStationKey(k)) = k /\ KeyRank(CommunicationKey(k)) = k
  BY DEF KeyRank, GroundStationKey, CommunicationKey
<1>2. \A s : KeyRank(SpacecraftKey(s)) = 1
  BY DEF KeyRank, SpacecraftKey
<1>3. \A o : KeyRank(<<"ORB", o>>) = 1 /\ KeyRank(<<"POLICY", o>>) = 1
  BY DEF KeyRank
<1>4. \A p : KeyRank(PayloadTypeKey(p)) = IF p.chunk = None THEN 0 ELSE p.chunk
  BY DEF KeyRank, PayloadTypeKey
<1> QED
  BY <1>1, <1>2, <1>3, <1>4

\* One key for every chunk size.
LEMMA TypeKeysDiffer ==
    ASSUME NEW p, NEW q, p.chunk = None \/ p.chunk \in Nat \ {0},
           q.chunk = None \/ q.chunk \in Nat \ {0},
           KeyRank(PayloadTypeKey(p)) = KeyRank(PayloadTypeKey(q))
    PROVE  PayloadTypeKey(p) = PayloadTypeKey(q)
<1>1. /\ KeyRank(PayloadTypeKey(p)) = IF p.chunk = None THEN 0 ELSE p.chunk
      /\ KeyRank(PayloadTypeKey(q)) = IF q.chunk = None THEN 0 ELSE q.chunk
  BY KeysRanked
<1>2. p.chunk = None <=> q.chunk = None
  BY <1>1
<1>3. p.chunk = q.chunk
  BY <1>1, <1>2
<1> QED
  BY <1>3, Zenon DEF PayloadTypeKey

\* Kinds and keys are ordered by whole numbers.
LEMMA RanksWhole ==
    ASSUME NEW s, Numbered(s), NEW x \in ProfilesOf(s)
    PROVE  KindRank[x.kind] \in Int /\ KeyRank(x.key) \in Int
<1>1. Placed(s, x)
  BY ProfilesPlaced
<1>2. KindRank[x.kind] \in Int
  BY <1>1, KindsRanked DEF Placed
<1>3. KeyRank(x.key) \in Int
  <2>1. CASE x = Profile("SPACECRAFT", SpacecraftKey(s), [transmitter |-> "TX1"])
    BY <2>1, KeysRanked DEF Profile
  <2>2. CASE x.kind \in {"ORBIT", "POLICY"}
    BY <1>1, <2>2, KeysRanked DEF Placed, Profile
  <2>3. CASE x.kind \in {"GROUND_STATION", "COMMUNICATION"}
    <3>1. PICK k \in DOMAIN s.stations : x.key \in {GroundStationKey(k), CommunicationKey(k)}
      BY <1>1, <2>3 DEF Placed, Profile
    <3> QED
      BY <3>1, KeysRanked DEF Numbered
  <2>4. CASE x.kind = "PAYLOAD_TYPE"
    <3>1. PICK k \in DOMAIN s.payloads : x.key = PayloadTypeKey(s.payloads[k])
      BY <1>1, <2>4 DEF Placed, Profile
    <3>2. KeyRank(x.key) = IF s.payloads[k].chunk = None THEN 0 ELSE s.payloads[k].chunk
      BY <3>1, KeysRanked
    <3> QED
      BY <3>2 DEF Numbered
  <2> QED
    BY <1>1, <2>1, <2>2, <2>3, <2>4 DEF Placed
<1> QED
  BY <1>2, <1>3

\* Kind and key tell the profiles of an input apart.
LEMMA ProfilesRanked ==
    ASSUME NEW s, Numbered(s) PROVE Ranked(ProfilesOf(s))
<1>1. ASSUME NEW x \in ProfilesOf(s) PROVE KindRank[x.kind] \in Int /\ KeyRank(x.key) \in Int
  BY RanksWhole
<1>2. ASSUME NEW x \in ProfilesOf(s), NEW y \in ProfilesOf(s), x.kind = y.kind,
             KeyRank(x.key) = KeyRank(y.key)
      PROVE  x = y
  <2>1. Placed(s, x) /\ Placed(s, y)
    BY ProfilesPlaced
  <2>2. CASE x.kind \in {"SPACECRAFT", "ORBIT", "POLICY"}
    BY <1>2, <2>1, <2>2 DEF Placed
  <2>3. CASE x.kind = "GROUND_STATION"
    <3>1. PICK j \in DOMAIN s.stations :
              x = Profile("GROUND_STATION", GroundStationKey(j), s.stations[j].site)
      BY <2>1, <2>3 DEF Placed
    <3>2. PICK k \in DOMAIN s.stations :
              y = Profile("GROUND_STATION", GroundStationKey(k), s.stations[k].site)
      BY <1>2, <2>1, <2>3 DEF Placed
    <3>3. KeyRank(x.key) = j /\ KeyRank(y.key) = k
      BY <3>1, <3>2, KeysRanked DEF Profile
    <3> QED
      BY <1>2, <3>1, <3>2, <3>3
  <2>4. CASE x.kind = "COMMUNICATION"
    <3>1. PICK j \in DOMAIN s.stations :
              x = Profile("COMMUNICATION", CommunicationKey(j),
                          CommunicationPayload(s.stations[j].capacity))
      BY <2>1, <2>4 DEF Placed
    <3>2. PICK k \in DOMAIN s.stations :
              y = Profile("COMMUNICATION", CommunicationKey(k),
                          CommunicationPayload(s.stations[k].capacity))
      BY <1>2, <2>1, <2>4 DEF Placed
    <3>3. KeyRank(x.key) = j /\ KeyRank(y.key) = k
      BY <3>1, <3>2, KeysRanked DEF Profile
    <3> QED
      BY <1>2, <3>1, <3>2, <3>3
  <2>5. CASE x.kind = "PAYLOAD_TYPE"
    <3> DEFINE First(k) == ~\E j \in DOMAIN s.payloads :
                    j < k /\ PayloadTypeKey(s.payloads[j]) = PayloadTypeKey(s.payloads[k])
    <3>1. PICK j \in DOMAIN s.payloads :
              /\ First(j)
              /\ x = Profile("PAYLOAD_TYPE", PayloadTypeKey(s.payloads[j]),
                             PayloadTypePayload(s.payloads[j]))
      BY <2>1, <2>5 DEF Placed
    <3>2. PICK k \in DOMAIN s.payloads :
              /\ First(k)
              /\ y = Profile("PAYLOAD_TYPE", PayloadTypeKey(s.payloads[k]),
                             PayloadTypePayload(s.payloads[k]))
      BY <1>2, <2>1, <2>5 DEF Placed
    <3>3. x.key = PayloadTypeKey(s.payloads[j]) /\ y.key = PayloadTypeKey(s.payloads[k])
      BY <3>1, <3>2 DEF Profile
    <3>4. PayloadTypeKey(s.payloads[j]) = PayloadTypeKey(s.payloads[k])
      <4>1. /\ s.payloads[j].chunk = None \/ s.payloads[j].chunk \in Nat \ {0}
            /\ s.payloads[k].chunk = None \/ s.payloads[k].chunk \in Nat \ {0}
        BY DEF Numbered
      <4> QED
        BY <1>2, <3>3, <4>1, TypeKeysDiffer
    <3>5. j \in Nat /\ k \in Nat
      BY DEF Numbered
    <3>6. j = k
      BY <3>1, <3>2, <3>4, <3>5
    <3> QED
      BY <3>1, <3>2, <3>6
  <2> QED
    BY <2>1, <2>2, <2>3, <2>4, <2>5 DEF Placed
<1>3. ASSUME NEW x \in ProfilesOf(s), NEW y \in ProfilesOf(s), x # y
      PROVE  Precedes(x, y) \/ Precedes(y, x)
  <2>1. KindRank[x.kind] = KindRank[y.kind] => x.kind = y.kind
    <3>1. Placed(s, x) /\ Placed(s, y)
      BY ProfilesPlaced
    <3> QED
      BY <3>1, KindsRanked DEF Placed
  <2> QED
    BY <1>1, <1>2, <1>3, <2>1 DEF Precedes
<1> QED
  BY <1>1, <1>3 DEF Ranked

\* An input has finitely many profiles.
LEMMA ProfilesFinite ==
    ASSUME NEW s, Numbered(s) PROVE IsFiniteSet(ProfilesOf(s))
<1>1. IsFiniteSet({Profile("SPACECRAFT", SpacecraftKey(s), [transmitter |-> "TX1"])})
  BY FS_Singleton
<1>2. IsFiniteSet(OrbitProfiles(s)) /\ IsFiniteSet(PolicyProfiles(s))
  BY FS_Singleton, FS_EmptySet DEF OrbitProfiles, PolicyProfiles
<1>3. IsFiniteSet(StationProfiles(s))
  <2> DEFINE two == [k \in DOMAIN s.stations |->
                        {Profile("GROUND_STATION", GroundStationKey(k), s.stations[k].site),
                         Profile("COMMUNICATION", CommunicationKey(k),
                                 CommunicationPayload(s.stations[k].capacity))}]
             S == {two[k] : k \in DOMAIN s.stations}
  <2>1. StationProfiles(s) = UNION S
    BY DEF StationProfiles
  <2>2. \A T \in S : IsFiniteSet(T)
    <3> TAKE T \in S
    <3>1. PICK a, b : T = {a, b}
      BY Zenon
    <3>2. T = {a} \cup {b}
      BY <3>1
    <3>3. IsFiniteSet({a}) /\ IsFiniteSet({b})
      BY FS_Singleton
    <3> QED
      BY <3>2, <3>3, FS_Union
  <2>3. IsFiniteSet(S)
    <3>1. DOMAIN two = DOMAIN s.stations
      OBVIOUS
    <3> HIDE DEF two
    <3> QED
      BY <3>1, ImagesFinite DEF Numbered
  <2> HIDE DEF S
  <2> QED
    BY <2>1, <2>2, <2>3, FS_UNION
<1>4. IsFiniteSet(TypeProfiles(s))
  <2> DEFINE D == {k \in DOMAIN s.payloads :
                ~\E j \in DOMAIN s.payloads :
                    j < k /\ PayloadTypeKey(s.payloads[j]) = PayloadTypeKey(s.payloads[k])}
             type == [k \in D |-> Profile("PAYLOAD_TYPE", PayloadTypeKey(s.payloads[k]),
                                          PayloadTypePayload(s.payloads[k]))]
  <2>1. TypeProfiles(s) = {type[k] : k \in D}
    BY DEF TypeProfiles
  <2>2. D \in SUBSET DOMAIN s.payloads
    OBVIOUS
  <2>3. DOMAIN type = D
    OBVIOUS
  <2> HIDE DEF D, type
  <2>4. IsFiniteSet(D)
    BY <2>2, FS_Subset DEF Numbered
  <2> QED
    BY <2>1, <2>3, <2>4, ImagesFinite
<1> QED
  BY <1>1, <1>2, <1>3, <1>4, FS_Union DEF ProfilesOf

\* decompose_snapshot lists the profiles of every input in one strict order.
LEMMA ProfilesAscend ==
    ASSUME NEW s, Numbered(s)
    PROVE  /\ Profiles(s) \in Seq(ProfilesOf(s))
           /\ \A i, j \in 1 .. Len(Profiles(s)) : i < j => Precedes(Profiles(s)[i], Profiles(s)[j])
BY ProfilesFinite, ProfilesRanked, InOrder DEF Profiles

\* The kind of a profile goes with its key, in whatever input.
LEMMA KindOfKey ==
    ASSUME NEW s, NEW x \in ProfilesOf(s), NEW t, NEW y \in ProfilesOf(t), x.key = y.key
    PROVE  x.kind = y.kind
<1> DEFINE Prefixed(z) ==
        \/ z.kind = "SPACECRAFT" /\ z.key[1] = "SC"
        \/ z.kind = "ORBIT" /\ z.key[1] = "ORB"
        \/ z.kind = "POLICY" /\ z.key[1] = "POLICY"
        \/ z.kind = "GROUND_STATION" /\ z.key[1] = "GS"
        \/ z.kind = "COMMUNICATION" /\ z.key[1] = "COMM"
        \/ z.kind = "PAYLOAD_TYPE" /\ z.key[1] \in {"PT-ATOMIC", "PT-CHUNK"}
<1>1. ASSUME NEW r, NEW z \in ProfilesOf(r) PROVE Prefixed(z)
  <2>1. Placed(r, z)
    BY ProfilesPlaced
  <2>2. CASE z.kind \in {"SPACECRAFT", "ORBIT", "POLICY"}
    BY <2>1, <2>2 DEF Placed, Profile, SpacecraftKey
  <2>3. CASE z.kind = "GROUND_STATION"
    <3>1. PICK k \in DOMAIN r.stations : z.key = <<"GS", k>>
      BY <2>1, <2>3 DEF Placed, Profile, GroundStationKey
    <3> QED
      BY <2>3, <3>1
  <2>4. CASE z.kind = "COMMUNICATION"
    <3>1. PICK k \in DOMAIN r.stations : z.key = <<"COMM", k>>
      BY <2>1, <2>4 DEF Placed, Profile, CommunicationKey
    <3> QED
      BY <2>4, <3>1
  <2>5. CASE z.kind = "PAYLOAD_TYPE"
    <3>1. PICK k \in DOMAIN r.payloads : z.key = PayloadTypeKey(r.payloads[k])
      BY <2>1, <2>5 DEF Placed, Profile
    <3> QED
      BY <2>5, <3>1 DEF PayloadTypeKey
  <2> QED
    BY <2>1, <2>2, <2>3, <2>4, <2>5 DEF Placed
<1> QED
  BY <1>1

-----------------------------------------------------------------------------
(***************************************************************************)
(* What an add has done so far.                                            *)
(***************************************************************************)

PastRun      == {"commit"}
PastManifest == {"run"} \cup PastRun
PastSnapshot == {"manifest", "insert_manifest"} \cup PastManifest
PastRevision == {"snapshot", "insert_snapshot"} \cup PastSnapshot
PastScenario == {"revision", "count", "insert_revision"} \cup PastRevision
Adding       == {"profiles", "insert_profile", "insert_scenario"} \cup PastScenario

\* A transaction has rows only in the tables it has come past.
Taken(p) ==
    /\ tx[p]["profile"] # {}           => at[p] \in Adding
    /\ tx[p]["scenario"] # {}          => at[p] \in PastScenario
    /\ tx[p]["scenario_revision"] # {} => at[p] \in PastRevision
    /\ tx[p]["input_snapshot"] # {}    => at[p] \in PastSnapshot
    /\ tx[p]["engine_manifest"] # {}   => at[p] \in PastManifest
    /\ tx[p]["scenario_run"] # {}      => at[p] \in PastRun

\* The profiles of the input come in their order: n of them are done.
DoneInOrder(p, n) ==
    LET all  == Profiles(Snapshot(p))
        todo == known[p].todo
    IN  /\ n + Len(todo) = Len(all)
        /\ \A i \in 1 .. Len(todo) : todo[i] = all[n + i]
        /\ \A x \in tx[p]["profile"] : \E i \in 1 .. n : x.key = all[i].key

Listed(p) ==
    at[p] \in {"profiles", "insert_profile"} =>
        /\ "todo" \in DOMAIN known[p]
        /\ known[p].todo \in Seq(ProfilesOf(Snapshot(p)))
        /\ at[p] = "insert_profile" => known[p].todo # <<>>
        /\ \E n \in Nat : DoneInOrder(p, n)

Tasked(p) == at[p] \in Adding \cup {"check", "begin"} => task[p] \in Runs

Turn(p) == Tasked(p) /\ Taken(p) /\ Listed(p)

Connections ==
    /\ DOMAIN at = Processes /\ DOMAIN known = Processes
    /\ DOMAIN task = Processes /\ DOMAIN tx = Processes

Turns == Connections /\ \A p \in Processes : Turn(p)

\* Only p moves.
Only(p) ==
    /\ Others(at, at', p) /\ Others(known, known', p)
    /\ Others(task, task', p) /\ Others(tx, tx', p)

\* The others are where they were.
LEMMA OnlyKeeps ==
    ASSUME Turns, NEW p \in Processes, Only(p), Turn(p)' PROVE Turns'
<1>1. Connections'
  BY DEF Turns, Connections, Only, Others
<1>2. ASSUME NEW q \in Processes \ {p} PROVE Turn(q)'
  <2>1. at'[q] = at[q] /\ known'[q] = known[q] /\ task'[q] = task[q] /\ tx'[q] = tx[q]
    BY DEF Only, Others
  <2>2. Tasked(q) /\ Taken(q) /\ Listed(q)
    BY DEF Turns, Turn
  <2>3. Tasked(q)' /\ Taken(q)'
    BY <2>1, <2>2 DEF Tasked, Taken
  <2>4. \A n : DoneInOrder(q, n)' <=> DoneInOrder(q, n)
    BY <2>1 DEF DoneInOrder, Snapshot
  <2>5. Listed(q)'
    BY <2>1, <2>2, <2>4 DEF Listed, Snapshot
  <2> QED
    BY <2>3, <2>5 DEF Turn
<1> QED
  BY <1>1, <1>2 DEF Turns

\* A transaction that ends has no rows.
LEMMA EndKeeps ==
    ASSUME Turns, NEW p \in Processes, Only(p), tx'[p] = NoRows,
           at'[p] \notin Adding \cup {"check", "begin"}
    PROVE  Turns'
<1>1. Tasked(p)'
  BY DEF Tasked
<1>2. Taken(p)'
  BY DEF Taken, NoRows, Tables
<1>3. Listed(p)'
  BY DEF Listed, Adding
<1> QED
  BY <1>1, <1>2, <1>3, OnlyKeeps DEF Turn

\* Outside of a transaction there are none.
LEMMA OutsideKeeps ==
    ASSUME Turns, NEW p \in Processes, Only(p), tx' = tx, at[p] \notin Adding,
           at'[p] \notin Adding,
           at'[p] \in {"check", "begin"} => task'[p] \in Runs
    PROVE  Turns'
<1>1. Tasked(p)'
  BY DEF Tasked
<1>2. Taken(p)'
  <2>1. Taken(p)
    BY DEF Turns, Turn
  <2> QED
    BY <2>1 DEF Taken, Adding, PastScenario, PastRevision, PastSnapshot, PastManifest, PastRun
<1>3. Listed(p)'
  BY DEF Listed, Adding
<1> QED
  BY <1>1, <1>2, <1>3, OnlyKeeps DEF Turn

\* What a statement does to its own transaction.
LEMMA WriteEffect ==
    ASSUME Connections, NEW p \in Processes, NEW new, NEW learnt, NEW next,
           Write(p, new, learnt, next)
    PROVE  /\ Only(p) /\ at'[p] = next /\ task' = task
           /\ \A t \in Tables :
                  tx'[p][t] = IF t \in DOMAIN new THEN tx[p][t] \cup new[t] ELSE tx[p][t]
           /\ known'[p] = Joined(learnt, known[p])
<1>1. /\ tx' = [tx EXCEPT ![p] = Added(tx[p], new)]
      /\ known' = [known EXCEPT ![p] = Joined(learnt, known[p])]
      /\ at' = [at EXCEPT ![p] = next]
      /\ task' = task
  BY DEF Write, Goto
<1>2. Only(p)
  BY <1>1 DEF Only, Others, Connections
<1>3. tx'[p] = Added(tx[p], new) /\ known'[p] = Joined(learnt, known[p]) /\ at'[p] = next
  BY <1>1 DEF Connections
<1>4. \A t \in Tables : tx'[p][t] = IF t \in DOMAIN new THEN tx[p][t] \cup new[t] ELSE tx[p][t]
  BY <1>3, Zenon DEF Added
<1> QED
  BY <1>1, <1>2, <1>3, <1>4

\* A statement that comes past every table it adds rows to.
Forward(p, new, next) ==
    /\ next \in Adding
    /\ "scenario" \in DOMAIN new \/ at[p] \in PastScenario          => next \in PastScenario
    /\ "scenario_revision" \in DOMAIN new \/ at[p] \in PastRevision => next \in PastRevision
    /\ "input_snapshot" \in DOMAIN new \/ at[p] \in PastSnapshot    => next \in PastSnapshot
    /\ "engine_manifest" \in DOMAIN new \/ at[p] \in PastManifest   => next \in PastManifest
    /\ "scenario_run" \in DOMAIN new \/ at[p] \in PastRun           => next \in PastRun

\* It has rows only in the tables it has come past.
LEMMA ForwardTaken ==
    ASSUME Connections, NEW p \in Processes, NEW new, NEW learnt, NEW next,
           Write(p, new, learnt, next), Forward(p, new, next), Taken(p)
    PROVE  Taken(p)'
<1>1. at'[p] = next
      /\ \A t \in Tables : tx'[p][t] = IF t \in DOMAIN new THEN tx[p][t] \cup new[t] ELSE tx[p][t]
  BY WriteEffect
<1>2. /\ "profile" \in Tables /\ "scenario" \in Tables /\ "scenario_revision" \in Tables
      /\ "input_snapshot" \in Tables /\ "engine_manifest" \in Tables /\ "scenario_run" \in Tables
  BY DEF Tables
<1>3. \A t \in Tables : tx'[p][t] # {} => t \in DOMAIN new \/ tx[p][t] # {}
  BY <1>1
<1> QED
  BY <1>1, <1>2, <1>3, Zenon DEF Forward, Taken

\* A statement after the profiles.
LEMMA LaterKeeps ==
    ASSUME Turns, NEW p \in Processes, NEW new, NEW learnt, NEW next,
           Write(p, new, learnt, next), Forward(p, new, next), at[p] \in Adding \cup {"begin"},
           next \notin {"profiles", "insert_profile"}
    PROVE  Turns'
<1>0. Connections
  BY DEF Turns
<1>1. Only(p) /\ at'[p] = next /\ task' = task
  BY <1>0, WriteEffect
<1>2. Tasked(p) /\ Taken(p)
  BY DEF Turns, Turn
<1>3. Taken(p)'
  BY <1>2, ForwardTaken DEF Turns
<1>4. Tasked(p)'
  BY <1>1, <1>2 DEF Tasked
<1>5. Listed(p)'
  BY <1>1 DEF Listed
<1> QED
  BY <1>1, <1>3, <1>4, <1>5, OnlyKeeps DEF Turn

\* A call that fails.
LEMMA FailKeeps ==
    ASSUME Turns, NEW p \in Processes, NEW how, Fail(p, how) PROVE Turns'
<1>1. Only(p) /\ tx'[p] = NoRows /\ at'[p] = "ready"
  BY DEF Fail, Goto, Only, Others, Turns, Connections
<1> QED
  BY <1>1, EndKeeps DEF Adding, PastScenario, PastRevision, PastSnapshot, PastManifest, PastRun

\* The list of profiles of the input, none of them done.
LEMMA BeginProfilesKeeps ==
    ASSUME Turns, NEW p \in Processes, BeginProfiles(p) PROVE Turns'
<1> DEFINE all == Profiles(Snapshot(p))
<1>1. at[p] = "begin" /\ Write(p, <<>>, [todo |-> all, profiles |-> <<>>], "profiles")
  BY DEF BeginProfiles, Learn
<1>2. Only(p) /\ at'[p] = "profiles" /\ task' = task
      /\ known'[p] = Joined([todo |-> all, profiles |-> <<>>], known[p])
      /\ tx'[p]["profile"] = tx[p]["profile"]
  <2>1. Connections /\ "profile" \in Tables
    BY DEF Turns, Tables
  <2>2. \A t \in Tables : tx'[p][t] = IF t \in DOMAIN <<>> THEN tx[p][t] \cup <<>>[t] ELSE tx[p][t]
    BY <1>1, <2>1, WriteEffect, Zenon
  <2> QED
    BY <1>1, <2>1, <2>2, WriteEffect
<1>3. Tasked(p) /\ Taken(p)
  BY DEF Turns, Turn
<1>4. Taken(p)'
  <2>1. Forward(p, <<>>, "profiles")
    BY <1>1 DEF Forward, Adding, PastScenario, PastRevision, PastSnapshot, PastManifest, PastRun
  <2> QED
    BY <1>1, <1>3, <2>1, ForwardTaken DEF Turns
<1>5. Tasked(p)'
  BY <1>1, <1>2, <1>3 DEF Tasked
<1>6. tx[p]["profile"] = {}
  BY <1>1, <1>3 DEF Taken, Adding, PastScenario, PastRevision, PastSnapshot, PastManifest, PastRun
<1>7. all \in Seq(ProfilesOf(Snapshot(p)))
  BY <1>1, <1>3, ProfilesAscend, RunsAssumption DEF Tasked, Snapshot
<1>8. Snapshot(p)' = Snapshot(p)
  BY <1>2 DEF Snapshot
<1> HIDE DEF all
<1>9. "todo" \in DOMAIN known'[p] /\ known'[p].todo = all
  BY <1>2 DEF Joined
<1>10. DoneInOrder(p, 0)'
  BY <1>2, <1>6, <1>7, <1>8, <1>9 DEF DoneInOrder, all
<1>11. Listed(p)'
  BY <1>2, <1>7, <1>8, <1>9, <1>10 DEF Listed
<1> QED
  BY <1>2, <1>4, <1>5, <1>11, OnlyKeeps DEF Turn

\* The rest of a list that another list ends with.
LEMMA OneMoreDone ==
    ASSUME NEW S, NEW s \in Seq(S), s # <<>>, NEW all, NEW n \in Nat,
           n + Len(s) = Len(all), \A i \in 1 .. Len(s) : s[i] = all[n + i]
    PROVE  /\ Tail(s) \in Seq(S)
           /\ (n + 1) + Len(Tail(s)) = Len(all) /\ Head(s) = all[n + 1]
           /\ \A i \in 1 .. Len(Tail(s)) : Tail(s)[i] = all[(n + 1) + i]
<1>1. /\ Tail(s) \in Seq(S) /\ Len(Tail(s)) = Len(s) - 1 /\ Len(s) \in Nat /\ Len(s) >= 1
      /\ Head(s) = s[1]
  OBVIOUS
<1>2. \A i \in 1 .. Len(Tail(s)) : Tail(s)[i] = s[i + 1]
  OBVIOUS
<1>3. (n + 1) + Len(Tail(s)) = Len(all) /\ Head(s) = all[n + 1]
  BY <1>1
<1>4. \A i \in 1 .. Len(Tail(s)) : Tail(s)[i] = all[(n + 1) + i]
  <2> TAKE i \in 1 .. Len(Tail(s))
  <2>1. i + 1 \in 1 .. Len(s) /\ (n + 1) + i = n + (i + 1)
    BY <1>1
  <2> QED
    BY <1>2, <2>1
<1> QED
  BY <1>1, <1>3, <1>4

\* The first profile of the list is found, or inserted.
LEMMA ProfileDone ==
    ASSUME Turns, NEW p \in Processes, at[p] \in {"profiles", "insert_profile"},
           known[p].todo # <<>>, NEW new, NEW learnt, Write(p, new, learnt, "profiles"),
           "todo" \in DOMAIN learnt, learnt.todo = Tail(known[p].todo),
           DOMAIN new \subseteq {"profile", "profile_revision"},
           "profile" \in DOMAIN new => \A x \in new["profile"] : x.key = Head(known[p].todo).key
    PROVE  Turns'
<1>1. /\ Only(p) /\ at'[p] = "profiles" /\ task' = task
      /\ known'[p] = Joined(learnt, known[p])
      /\ \A t \in Tables : tx'[p][t] = IF t \in DOMAIN new THEN tx[p][t] \cup new[t] ELSE tx[p][t]
  <2>1. Connections
    BY DEF Turns
  <2>2. Write(p, new, learnt, "profiles")
    OBVIOUS
  <2> QED
    BY ONLY <2>1, <2>2, p \in Processes, WriteEffect
<1>2. Tasked(p) /\ Taken(p) /\ Listed(p)
  BY DEF Turns, Turn
<1>3. Taken(p)'
  <2>1. Forward(p, new, "profiles")
    BY DEF Forward, Adding, PastScenario, PastRevision, PastSnapshot, PastManifest, PastRun
  <2> QED
    BY <1>2, <2>1, ForwardTaken DEF Turns
<1>4. Tasked(p)'
  BY <1>1, <1>2 DEF Tasked, Adding
<1> DEFINE all == Profiles(Snapshot(p))
           todo == known[p].todo
<1>5. /\ todo \in Seq(ProfilesOf(Snapshot(p))) /\ todo # <<>>
  BY <1>2 DEF Listed
<1>6. PICK n \in Nat : DoneInOrder(p, n)
  BY <1>2 DEF Listed
<1>7. /\ n + Len(todo) = Len(all)
      /\ \A i \in 1 .. Len(todo) : todo[i] = all[n + i]
      /\ \A x \in tx[p]["profile"] : \E i \in 1 .. n : x.key = all[i].key
  BY <1>6, Zenon DEF DoneInOrder
<1>8. Snapshot(p)' = Snapshot(p) /\ all' = all
  BY <1>1 DEF Snapshot
<1>9. "todo" \in DOMAIN known'[p] /\ known'[p].todo = Tail(todo)
  BY <1>1 DEF Joined
<1> HIDE DEF all, todo
<1>10. /\ Tail(todo) \in Seq(ProfilesOf(Snapshot(p)))
       /\ (n + 1) + Len(Tail(todo)) = Len(all) /\ Head(todo) = all[n + 1]
       /\ \A i \in 1 .. Len(Tail(todo)) : Tail(todo)[i] = all[(n + 1) + i]
  BY <1>5, <1>7, OneMoreDone
<1>11. \A x \in tx'[p]["profile"] : \E i \in 1 .. n + 1 : x.key = all[i].key
  <2> TAKE x \in tx'[p]["profile"]
  <2>1. "profile" \in Tables
    BY DEF Tables
  <2>2. CASE x \in tx[p]["profile"]
    <3>1. PICK i \in 1 .. n : x.key = all[i].key
      BY <1>7, <2>2
    <3>2. i \in 1 .. n + 1
      OBVIOUS
    <3> QED
      BY <3>1, <3>2
  <2>3. CASE x \notin tx[p]["profile"]
    <3>1. "profile" \in DOMAIN new /\ x \in new["profile"]
      BY <1>1, <2>1, <2>3
    <3>2. x.key = all[n + 1].key
      BY <1>10, <3>1 DEF todo
    <3>3. n + 1 \in 1 .. n + 1
      OBVIOUS
    <3> QED
      BY <3>2, <3>3
  <2> QED
    BY <2>2, <2>3
<1>14. DoneInOrder(p, n + 1)'
  BY <1>8, <1>9, <1>10, <1>11 DEF DoneInOrder, all
<1>15. Listed(p)'
  BY <1>1, <1>8, <1>9, <1>10, <1>14 DEF Listed
<1> QED
  BY <1>1, <1>3, <1>4, <1>15, OnlyKeeps DEF Turn

\* A profile that is found is done, one that is not is inserted next.
LEMMA FindProfileKeeps ==
    ASSUME Turns, NEW p \in Processes, FindProfile(p) PROVE Turns'
<1>1. at[p] = "profiles" /\ known[p].todo # <<>>
  BY DEF FindProfile
<1>2. \/ Write(p, <<>>, <<>>, "insert_profile")
      \/ \E v : Write(p, <<>>, [todo |-> Tail(known[p].todo), profiles |-> v], "profiles")
  BY Zenon DEF FindProfile, Learn
<1>3. ASSUME Write(p, <<>>, <<>>, "insert_profile") PROVE Turns'
  <2>1. Connections /\ Tasked(p) /\ Taken(p) /\ Listed(p)
    BY DEF Turns, Turn
  <2>2. "profile" \in Tables
    BY DEF Tables
  <2>3. /\ Only(p) /\ at'[p] = "insert_profile" /\ task' = task
        /\ known'[p] = Joined(<<>>, known[p])
        /\ tx'[p]["profile"] = tx[p]["profile"]
    <3>1. \A t \in Tables :
              tx'[p][t] = IF t \in DOMAIN <<>> THEN tx[p][t] \cup <<>>[t] ELSE tx[p][t]
      BY <1>3, <2>1, WriteEffect, Zenon
    <3> QED
      BY <1>3, <2>1, <2>2, <3>1, WriteEffect
  <2>4. Taken(p)'
    <3>1. Forward(p, <<>>, "insert_profile")
      BY <1>1 DEF Forward, Adding, PastScenario, PastRevision, PastSnapshot, PastManifest, PastRun
    <3> QED
      BY <1>3, <2>1, <3>1, ForwardTaken
  <2>5. Tasked(p)'
    BY <1>1, <2>1, <2>3 DEF Tasked, Adding
  <2>6. /\ "todo" \in DOMAIN known[p]
        /\ known[p].todo \in Seq(ProfilesOf(Snapshot(p)))
        /\ \E n \in Nat : DoneInOrder(p, n)
    BY <1>1, <2>1 DEF Listed
  <2>7. "todo" \in DOMAIN known'[p] /\ known'[p].todo = known[p].todo
    BY <2>3, <2>6 DEF Joined
  <2>8. \A n : DoneInOrder(p, n)' <=> DoneInOrder(p, n)
    BY <2>3, <2>7 DEF DoneInOrder, Snapshot
  <2>9. Listed(p)'
    BY <1>1, <2>3, <2>6, <2>7, <2>8 DEF Listed, Snapshot
  <2> QED
    BY <2>3, <2>4, <2>5, <2>9, OnlyKeeps DEF Turn
<1>4. ASSUME NEW v, Write(p, <<>>, [todo |-> Tail(known[p].todo), profiles |-> v], "profiles")
      PROVE  Turns'
  <2> DEFINE learnt == [todo |-> Tail(known[p].todo), profiles |-> v]
  <2>1. "todo" \in DOMAIN learnt /\ learnt.todo = Tail(known[p].todo) /\ DOMAIN <<>> = {}
    OBVIOUS
  <2>2. Write(p, <<>>, learnt, "profiles")
    BY <1>4
  <2> HIDE DEF learnt
  <2> QED
    BY <1>1, <2>1, <2>2, ProfileDone
<1> QED
  BY <1>2, <1>3, <1>4

\* The profile that was not found.
LEMMA InsertProfileKeeps ==
    ASSUME Turns, NEW p \in Processes, InsertProfile(p) PROVE Turns'
<1>1. at[p] = "insert_profile"
  BY DEF InsertProfile
<1>2. known[p].todo # <<>>
  BY <1>1 DEF Turns, Turn, Listed
<1>3. PICK kind, current, revision, v :
          Write(p, [profile |-> {[key |-> NextProfile(p).key, kind |-> kind, current |-> current]},
                    profile_revision |-> revision],
                [todo |-> Tail(known[p].todo), profiles |-> v], "profiles")
  BY Zenon DEF InsertProfile
<1> DEFINE new == [profile |-> {[key |-> NextProfile(p).key, kind |-> kind, current |-> current]},
                   profile_revision |-> revision]
           learnt == [todo |-> Tail(known[p].todo), profiles |-> v]
<1>4. /\ "todo" \in DOMAIN learnt /\ learnt.todo = Tail(known[p].todo)
      /\ DOMAIN new \subseteq {"profile", "profile_revision"}
      /\ \A x \in new["profile"] : x.key = Head(known[p].todo).key
  BY DEF NextProfile
<1>5. Write(p, new, learnt, "profiles")
  BY <1>3
<1> HIDE DEF new, learnt
<1> QED
  BY <1>1, <1>2, <1>4, <1>5, ProfileDone

\* The run itself comes last.
LEMMA InsertRunKeeps ==
    ASSUME Turns, NEW p \in Processes, InsertRun(p) PROVE Turns'
<1>1. \/ \E how : Fail(p, how)
      \/ \E new, learnt : Write(p, new, learnt, "commit")
  BY Zenon DEF InsertRun
<1>2. at[p] = "run"
  BY Zenon DEF InsertRun
<1>3. at[p] \in Adding
  BY <1>2 DEF Adding, PastScenario, PastRevision, PastSnapshot, PastManifest, PastRun
<1>4. \A new : Forward(p, new, "commit")
  BY <1>2 DEF Forward, Adding, PastScenario, PastRevision, PastSnapshot, PastManifest, PastRun
<1>5. ASSUME NEW new, NEW learnt, Write(p, new, learnt, "commit") PROVE Turns'
  BY <1>3, <1>4, <1>5, LaterKeeps
<1> QED
  BY <1>1, <1>5, FailKeeps

\* The statements that follow the profiles, each past its own table.
LEMMA StatementsKeep ==
    ASSUME Turns, NEW p \in Processes,
           \/ FindScenario(p) \/ InsertScenario(p) \/ FindRevision(p) \/ CountRevisions(p)
           \/ InsertRevision(p) \/ FindSnapshot(p) \/ InsertSnapshot(p) \/ FindManifest(p)
           \/ InsertManifest(p) \/ InsertRun(p)
    PROVE  Turns'
<1> USE DEF Forward, Adding, PastScenario, PastRevision, PastSnapshot, PastManifest, PastRun
<1>1. CASE FindScenario(p)
  <2>1. at[p] = "profiles"
    BY <1>1 DEF FindScenario
  <2>2. \/ \E learnt : Write(p, <<>>, learnt, "insert_scenario")
        \/ \E learnt : Write(p, <<>>, learnt, "revision")
    BY <1>1, Zenon DEF FindScenario, Learn
  <2>3. CASE \E learnt : Write(p, <<>>, learnt, "insert_scenario")
    BY <2>1, <2>3, LaterKeeps
  <2>4. CASE \E learnt : Write(p, <<>>, learnt, "revision")
    BY <2>1, <2>4, LaterKeeps
  <2> QED
    BY <2>2, <2>3, <2>4
<1>2. CASE InsertScenario(p)
  <2>1. /\ at[p] = "insert_scenario"
        /\ \E rows_, learnt : Write(p, [scenario |-> rows_], learnt, "revision")
    BY <1>2, Zenon DEF InsertScenario
  <2> QED
    BY <2>1, LaterKeeps
<1>3. CASE FindRevision(p)
  <2>1. at[p] = "revision"
    BY <1>3 DEF FindRevision
  <2>2. \/ \E learnt : Write(p, <<>>, learnt, "count")
        \/ \E learnt : Write(p, <<>>, learnt, "snapshot")
    BY <1>3, Zenon DEF FindRevision, Learn
  <2>3. CASE \E learnt : Write(p, <<>>, learnt, "count")
    BY <2>1, <2>3, LaterKeeps
  <2>4. CASE \E learnt : Write(p, <<>>, learnt, "snapshot")
    BY <2>1, <2>4, LaterKeeps
  <2> QED
    BY <2>2, <2>3, <2>4
<1>4. CASE CountRevisions(p)
  <2>1. at[p] = "count" /\ \E learnt : Write(p, <<>>, learnt, "insert_revision")
    BY <1>4, Zenon DEF CountRevisions, Learn
  <2> QED
    BY <2>1, LaterKeeps
<1>5. CASE InsertRevision(p)
  <2>1. at[p] = "insert_revision"
        /\ \/ \E how : Fail(p, how)
           \/ \E a, b, c, d, learnt :
                 Write(p, [scenario_revision |-> a, scenario_station |-> b, scenario_payload |-> c,
                           payload_dependency |-> d], learnt, "snapshot")
    BY <1>5, Zenon DEF InsertRevision
  <2>2. ASSUME NEW a, NEW b, NEW c, NEW d, NEW learnt,
               Write(p, [scenario_revision |-> a, scenario_station |-> b, scenario_payload |-> c,
                         payload_dependency |-> d], learnt, "snapshot")
        PROVE  Turns'
    <3> DEFINE new == [scenario_revision |-> a, scenario_station |-> b, scenario_payload |-> c,
                       payload_dependency |-> d]
    <3>1. Forward(p, new, "snapshot")
      BY <2>1
    <3>2. Write(p, new, learnt, "snapshot")
      BY <2>2
    <3> HIDE DEF new
    <3> QED
      BY <2>1, <3>1, <3>2, LaterKeeps
  <2> QED
    BY <2>1, <2>2, FailKeeps
<1>6. CASE FindSnapshot(p)
  <2>1. at[p] = "snapshot"
    BY <1>6 DEF FindSnapshot
  <2>2. \/ \E learnt : Write(p, <<>>, learnt, "insert_snapshot")
        \/ \E learnt : Write(p, <<>>, learnt, "manifest")
    BY <1>6, Zenon DEF FindSnapshot, Learn
  <2>3. CASE \E learnt : Write(p, <<>>, learnt, "insert_snapshot")
    BY <2>1, <2>3, LaterKeeps
  <2>4. CASE \E learnt : Write(p, <<>>, learnt, "manifest")
    BY <2>1, <2>4, LaterKeeps
  <2> QED
    BY <2>2, <2>3, <2>4
<1>7. CASE InsertSnapshot(p)
  <2>1. at[p] = "insert_snapshot"
        /\ \E rows_, learnt : Write(p, [input_snapshot |-> rows_], learnt, "manifest")
    BY <1>7, Zenon DEF InsertSnapshot
  <2> QED
    BY <2>1, LaterKeeps
<1>8. CASE FindManifest(p)
  <2>1. at[p] = "manifest"
    BY <1>8 DEF FindManifest
  <2>2. \/ \E learnt : Write(p, <<>>, learnt, "insert_manifest")
        \/ \E learnt : Write(p, <<>>, learnt, "run")
    BY <1>8, Zenon DEF FindManifest, Learn
  <2>3. CASE \E learnt : Write(p, <<>>, learnt, "insert_manifest")
    BY <2>1, <2>3, LaterKeeps
  <2>4. CASE \E learnt : Write(p, <<>>, learnt, "run")
    BY <2>1, <2>4, LaterKeeps
  <2> QED
    BY <2>2, <2>3, <2>4
<1>9. CASE InsertManifest(p)
  <2>1. at[p] = "insert_manifest"
        /\ \E rows_, learnt : Write(p, [engine_manifest |-> rows_], learnt, "run")
    BY <1>9, Zenon DEF InsertManifest
  <2> QED
    BY <2>1, LaterKeeps
<1>10. CASE InsertRun(p)
  BY <1>10, InsertRunKeeps
<1> QED
  BY <1>1, <1>2, <1>3, <1>4, <1>5, <1>6, <1>7, <1>8, <1>9, <1>10
-----------------------------------------------------------------------------
(***************************************************************************)
(* The steps that add no rows, and every step.                             *)
(***************************************************************************)

\* A call that begins has a run to add, or only an identifier to ask for.
LEMMA CallsKeep ==
    ASSUME Turns, NEW p \in Processes, NEW run \in Offers[p],
           RequestAdd(p, run) \/ GetHead(p, run.id)
    PROVE  Turns'
<1>1. at[p] \notin Adding
  BY DEF RequestAdd, GetHead, Idle, Adding, PastScenario, PastRevision, PastSnapshot,
         PastManifest, PastRun
<1>2. Connections
  BY DEF Turns
<1>3. CASE RequestAdd(p, run)
  <2>1. /\ at' = [at EXCEPT ![p] = "check"] /\ task' = [task EXCEPT ![p] = run]
        /\ known' = [known EXCEPT ![p] = <<>>] /\ tx' = tx
    BY <1>3 DEF RequestAdd, Goto, rows
  <2>2. Only(p) /\ at'[p] = "check" /\ task'[p] \in Runs
    BY <1>2, <2>1, OffersAssumption DEF Only, Others, Connections
  <2> QED
    BY <1>1, <2>1, <2>2, OutsideKeeps DEF Adding, PastScenario, PastRevision, PastSnapshot,
       PastManifest, PastRun
<1>4. CASE GetHead(p, run.id)
  <2>1. at[p] = "ready" /\ tx' = tx /\ task' = [task EXCEPT ![p] = [id |-> run.id]]
    BY <1>4 DEF GetHead, Idle, rows
  <2>2. \/ known' = known /\ at' = at
        \/ \E k : known' = [known EXCEPT ![p] = k] /\ at' = [at EXCEPT ![p] = "stages"]
    BY <1>4 DEF GetHead, Goto
  <2>3. Only(p) /\ at'[p] \in {"ready", "stages"}
    BY <1>2, <2>1, <2>2 DEF Only, Others, Connections
  <2> QED
    BY <1>1, <2>1, <2>3, OutsideKeeps DEF Adding, PastScenario, PastRevision, PastSnapshot,
       PastManifest, PastRun
<1> QED
  BY <1>3, <1>4

\* Looking for the identifier, and the statements of get.
LEMMA ReadsKeep ==
    ASSUME tier = "postgresql", Turns, NEW p \in Processes, CheckRun(p, "begin") \/ Get(p)
    PROVE  Turns'
<1>1. Connections /\ Tasked(p)
  BY DEF Turns, Turn
<1>2. CASE CheckRun(p, "begin")
  <2>1. CASE Fail(p, "duplicate")
    BY <2>1, FailKeeps
  <2>2. CASE at[p] = "check" /\ Goto(p, "begin") /\ UNCHANGED <<rows, task, known>>
    <3>1. tx' = tx /\ task' = task /\ known' = known /\ at' = [at EXCEPT ![p] = "begin"]
      BY <2>2 DEF rows, Goto
    <3>2. Only(p) /\ at'[p] = "begin" /\ task'[p] \in Runs
      BY <1>1, <2>2, <3>1 DEF Only, Others, Connections, Tasked
    <3> QED
      BY <2>2, <3>1, <3>2, OutsideKeeps DEF Adding, PastScenario, PastRevision, PastSnapshot,
         PastManifest, PastRun
  <2> QED
    BY <1>2, <2>1, <2>2 DEF CheckRun
<1>3. CASE Get(p)
  <2>1. /\ at[p] \in {"stages", "document", "rows"} /\ tx' = tx /\ task' = task
        /\ \E k, step : /\ step \in {"document", "rows", "ready"}
                         /\ known' = [known EXCEPT ![p] = k]
                         /\ at' = [at EXCEPT ![p] = step]
    BY <1>3, Zenon DEF Get, GetStages, GetDocument, GetRows, Goto, rows
  <2>2. Only(p) /\ at'[p] \in {"document", "rows", "ready"}
    BY <1>1, <2>1 DEF Only, Others, Connections
  <2> QED
    BY <2>1, <2>2, OutsideKeeps DEF Adding, PastScenario, PastRevision, PastSnapshot,
       PastManifest, PastRun
<1> QED
  BY <1>2, <1>3

\* A transaction that is committed or lost, a process that dies and starts again.
LEMMA EndsKeep ==
    ASSUME tier = "postgresql", Turns, NEW p \in Processes,
           Commit(p) \/ StatementFails(p) \/ LostAnswer(p) \/ Crash(p)
    PROVE  Turns'
<1>1. Connections
  BY DEF Turns
<1>2. /\ tx' = [tx EXCEPT ![p] = NoRows] /\ known' = [known EXCEPT ![p] = <<>>] /\ task' = task
      /\ at' = [at EXCEPT ![p] = "ready"] \/ at' = [at EXCEPT ![p] = "down"]
  BY DEF Commit, StatementFails, LostAnswer, Crash, Goto
<1>3. Only(p) /\ tx'[p] = NoRows /\ at'[p] \in {"ready", "down"}
  BY <1>1, <1>2 DEF Only, Others, Connections
<1> QED
  BY <1>3, EndKeeps DEF Adding, PastScenario, PastRevision, PastSnapshot, PastManifest, PastRun

\* Only SQLite waits for a lock.
LEMMA WaitingKeeps ==
    ASSUME tier = "postgresql", Turns, NEW p \in Processes, Busy(p) \/ Restart(p) PROVE Turns'
<1>1. Connections
  BY DEF Turns
<1>2. /\ tx' = tx /\ known' = known /\ task' = task
      /\ at[p] \in {"begin", "migrate", "down"}
      /\ \E step : step \in {"ready", "down"} /\ at' = [at EXCEPT ![p] = step]
  BY DEF Busy, Restart, Started, Goto, rows
<1>3. Only(p) /\ at'[p] \in {"ready", "down"}
  BY <1>1, <1>2 DEF Only, Others, Connections
<1> QED
  BY <1>2, <1>3, OutsideKeeps DEF Adding, PastScenario, PastRevision, PastSnapshot,
     PastManifest, PastRun

\* The tier is configured once.
LEMMA TierStays == [Next]_vars => tier' = tier
<1> SUFFICES ASSUME [Next]_vars PROVE tier' = tier
  OBVIOUS
<1>1. ASSUME NEW p \in Processes, Step(p) PROVE tier' = tier
  <2>1. CASE SqliteStep(p)
    <3>1. CASE EnsureScenario(p) \/ EnsureSnapshot(p) \/ EnsureManifest(p) \/ WriteRun(p)
      <4>1. \/ \E how : Fail(p, how)
            \/ \E new, learnt, next : Write(p, new, learnt, next)
        BY <3>1, Zenon DEF EnsureScenario, EnsureSnapshot, EnsureManifest, WriteRun
      <4> QED
        BY <4>1 DEF Write, Fail
    <3>2. CASE \/ ReadVersion(p) \/ RefuseNewer(p) \/ Apply(p) \/ TableExists(p) \/ Record(p)
               \/ Opened(p) \/ BeginImmediate(p)
      BY <3>2 DEF ReadVersion, RefuseNewer, OpenFails, Apply, TableExists, Record, Opened,
         BeginImmediate
    <3> QED
      BY <2>1, <3>1, <3>2 DEF SqliteStep
  <2>2. CASE PostgresStep(p)
    BY <2>2 DEF PostgresStep, BeginProfiles, Conflict, FindProfile, InsertProfile, FindScenario,
       InsertScenario, FindRevision, CountRevisions, InsertRevision, FindSnapshot, InsertSnapshot,
       FindManifest, InsertManifest, InsertRun, Learn, Write, Fail
  <2>3. CASE CheckRun(p, "begin") \/ Commit(p) \/ Get(p)
    BY <2>3 DEF CheckRun, Commit, Get, GetStages, GetDocument, GetRows, Fail
  <2> QED
    BY <1>1, <2>1, <2>2, <2>3 DEF Step
<1>2. ASSUME NEW p \in Processes, NEW run \in Offers[p],
             RequestAdd(p, run) \/ GetHead(p, run.id)
      PROVE  tier' = tier
  BY <1>2 DEF RequestAdd, GetHead
<1>3. ASSUME NEW p \in Processes,
             Busy(p) \/ StatementFails(p) \/ LostAnswer(p) \/ Crash(p) \/ Restart(p)
      PROVE  tier' = tier
  BY <1>3 DEF Busy, StatementFails, LostAnswer, Crash, Restart
<1> QED
  BY <1>1, <1>2, <1>3 DEF Next, vars

\* Every add takes its tables, and its profiles, in one order.
InTurn == tier = "postgresql" => Turns

\* A store starts without transactions.
LEMMA InitInTurn == Init => InTurn
<1> SUFFICES ASSUME Init PROVE Turns
  BY DEF InTurn
<1>1. /\ at = [p \in Processes |-> Started] /\ known = [p \in Processes |-> <<>>]
      /\ task = [p \in Processes |-> None] /\ tx = [p \in Processes |-> NoRows]
  BY DEF Init
<1>2. Connections
  BY <1>1 DEF Connections
<1>3. ASSUME NEW p \in Processes PROVE Turn(p)
  <2>1. at[p] \in {"closed", "ready"} /\ tx[p] = NoRows
    BY <1>1 DEF Started
  <2>2. Tasked(p) /\ Listed(p)
    BY <2>1 DEF Tasked, Listed, Adding, PastScenario, PastRevision, PastSnapshot, PastManifest,
       PastRun
  <2>3. Taken(p)
    BY <2>1 DEF Taken, NoRows, Tables
  <2> QED
    BY <2>2, <2>3 DEF Turn
<1> QED
  BY <1>2, <1>3 DEF Turns

\* Whatever a process does next, the adds go on in turn.
LEMMA NextInTurn == InTurn /\ [Next]_vars => InTurn'
<1> SUFFICES ASSUME tier = "postgresql", Turns, [Next]_vars PROVE Turns'
  BY TierStays DEF InTurn
<1>1. CASE UNCHANGED vars
  BY <1>1 DEF vars, Turns, Connections, Turn, Tasked, Taken, Listed, DoneInOrder, Snapshot
<1>2. ASSUME NEW p \in Processes, Step(p) PROVE Turns'
  <2>1. CASE PostgresStep(p)
    <3>1. ASSUME Conflict(p) PROVE Turns'
      BY <3>1, FailKeeps DEF Conflict
    <3> QED
      BY <2>1, <3>1, BeginProfilesKeeps, FindProfileKeeps, InsertProfileKeeps, StatementsKeep
         DEF PostgresStep
  <2>2. CASE CheckRun(p, "begin") \/ Get(p)
    BY <2>2, ReadsKeep
  <2>3. CASE Commit(p)
    BY <2>3, EndsKeep
  <2> QED
    BY <1>2, <2>1, <2>2, <2>3 DEF Step
<1>3. ASSUME NEW p \in Processes, NEW run \in Offers[p],
             RequestAdd(p, run) \/ GetHead(p, run.id)
      PROVE  Turns'
  BY <1>3, CallsKeep
<1>4. ASSUME NEW p \in Processes,
             Busy(p) \/ StatementFails(p) \/ LostAnswer(p) \/ Crash(p) \/ Restart(p)
      PROVE  Turns'
  BY <1>4, EndsKeep, WaitingKeeps
<1> QED
  BY <1>1, <1>2, <1>3, <1>4 DEF Next

-----------------------------------------------------------------------------
\* A profile that q has inserted comes before the one that q inserts next.
LEMMA NextIsLater ==
    ASSUME Turns, NEW q \in Processes, at[q] = "insert_profile", NEW x \in tx[q]["profile"]
    PROVE  /\ NextProfile(q) \in ProfilesOf(Snapshot(q))
           /\ \E y \in ProfilesOf(Snapshot(q)) : x.key = y.key /\ Precedes(y, NextProfile(q))
<1> DEFINE all == Profiles(Snapshot(q))
           todo == known[q].todo
<1>1. Tasked(q) /\ Listed(q)
  BY DEF Turns, Turn
<1>2. Numbered(Snapshot(q))
  BY <1>1, RunsAssumption DEF Tasked, Snapshot, Adding
<1>3. /\ todo \in Seq(ProfilesOf(Snapshot(q))) /\ todo # <<>>
  BY <1>1 DEF Listed
<1>4. PICK n \in Nat : DoneInOrder(q, n)
  BY <1>1 DEF Listed
<1>5. /\ n + Len(todo) = Len(all)
      /\ \A i \in 1 .. Len(todo) : todo[i] = all[n + i]
      /\ \A z \in tx[q]["profile"] : \E i \in 1 .. n : z.key = all[i].key
  BY <1>4, Zenon DEF DoneInOrder
<1>6. /\ all \in Seq(ProfilesOf(Snapshot(q)))
      /\ \A i, j \in 1 .. Len(all) : i < j => Precedes(all[i], all[j])
  BY <1>2, ProfilesAscend
<1>7. NextProfile(q) = Head(todo)
  BY DEF NextProfile
<1> HIDE DEF all, todo
<1>8. Len(todo) \in Nat /\ Len(todo) >= 1 /\ Head(todo) = todo[1]
  BY <1>3
<1>9. PICK i \in 1 .. n : x.key = all[i].key
  BY <1>5
<1>10. Head(todo) = all[n + 1]
  BY <1>5, <1>8
<1>11. i \in 1 .. Len(all) /\ n + 1 \in 1 .. Len(all) /\ i < n + 1
  BY <1>5, <1>8
<1>12. all[i] \in ProfilesOf(Snapshot(q)) /\ all[n + 1] \in ProfilesOf(Snapshot(q))
  BY <1>6, <1>11
<1>13. Precedes(all[i], all[n + 1])
  BY <1>6, <1>11
<1> QED
  BY <1>7, <1>9, <1>10, <1>12, <1>13

\* A profile of one input cannot come both before and after a profile of another.
LEMMA NeverCrossed ==
    ASSUME NEW s, Numbered(s), NEW t, Numbered(t),
           NEW a \in ProfilesOf(s), NEW b \in ProfilesOf(t),
           NEW y \in ProfilesOf(t), a.key = y.key, Precedes(y, b),
           NEW z \in ProfilesOf(s), b.key = z.key, Precedes(z, a)
    PROVE  FALSE
<1>1. a.kind = y.kind /\ b.kind = z.kind
  BY KindOfKey
<1>2. /\ KindRank[a.kind] \in Int /\ KindRank[b.kind] \in Int
      /\ KeyRank(a.key) \in Int /\ KeyRank(b.key) \in Int
  BY RanksWhole
<1> QED
  BY <1>1, <1>2 DEF Precedes

\* Table and key that the inserts name.
LEMMA TablesNamed ==
    ASSUME NEW p \in Processes
    PROVE  /\ at[p] = "insert_profile" => Wanted(p) = <<"profile", NextProfile(p).key>>
           /\ at[p] = "insert_scenario" => Wanted(p)[1] = "scenario"
           /\ at[p] = "insert_revision" => Wanted(p)[1] = "scenario_revision"
           /\ at[p] = "insert_snapshot" => Wanted(p)[1] = "input_snapshot"
           /\ at[p] = "insert_manifest" => Wanted(p)[1] = "engine_manifest"
           /\ at[p] = "run" => Wanted(p)[1] = "scenario_run"
BY DEF Wanted

\* Who waits and is waited for inserts a profile.
LEMMA OnlyProfilesWait ==
    ASSUME Turns, NEW p \in Processes, NEW q \in Processes,
           at[p] \in Inserting, at[q] \in Inserting,
           tx[q][Wanted(p)[1]] # {}, tx[p][Wanted(q)[1]] # {}
    PROVE  at[p] = "insert_profile" /\ at[q] = "insert_profile"
<1>1. Taken(p) /\ Taken(q)
  BY DEF Turns, Turn
<1> USE DEF Taken, Adding, PastScenario, PastRevision, PastSnapshot, PastManifest, PastRun
<1>2. CASE at[p] = "insert_profile"
  BY <1>1, <1>2, TablesNamed DEF Inserting
<1>3. CASE at[p] = "insert_scenario"
  BY <1>1, <1>3, TablesNamed DEF Inserting
<1>4. CASE at[p] = "insert_revision"
  BY <1>1, <1>4, TablesNamed DEF Inserting
<1>5. CASE at[p] = "insert_snapshot"
  BY <1>1, <1>5, TablesNamed DEF Inserting
<1>6. CASE at[p] = "insert_manifest"
  BY <1>1, <1>6, TablesNamed DEF Inserting
<1>7. CASE at[p] = "run"
  BY <1>1, <1>7, TablesNamed DEF Inserting
<1> QED
  BY <1>2, <1>3, <1>4, <1>5, <1>6, <1>7 DEF Inserting

\* Of two adds that wait for each other both insert a profile, and each would
\* come before the other.
LEMMA InTurnNoCycle == InTurn => NoWaitCycle
<1> SUFFICES ASSUME InTurn, NEW p \in Processes, NEW q \in Processes,
                    q \in WaitsFor(p), p \in WaitsFor(q)
             PROVE  FALSE
  BY DEF NoWaitCycle
<1>1. /\ tier = "postgresql" /\ at[p] \in Inserting /\ at[q] \in Inserting
      /\ \E x \in tx[q][Wanted(p)[1]] : x.key = Wanted(p)[2]
      /\ \E x \in tx[p][Wanted(q)[1]] : x.key = Wanted(q)[2]
  BY DEF WaitsFor
<1>2. Turns
  BY <1>1 DEF InTurn
<1>3. at[p] = "insert_profile" /\ at[q] = "insert_profile"
  BY <1>1, <1>2, OnlyProfilesWait
<1>4. /\ \E x \in tx[q]["profile"] : x.key = NextProfile(p).key
      /\ \E x \in tx[p]["profile"] : x.key = NextProfile(q).key
  BY <1>1, <1>3, TablesNamed
<1>5. /\ NextProfile(p) \in ProfilesOf(Snapshot(p))
      /\ \E z \in ProfilesOf(Snapshot(p)) :
             NextProfile(q).key = z.key /\ Precedes(z, NextProfile(p))
  BY <1>2, <1>3, <1>4, NextIsLater
<1>6. /\ NextProfile(q) \in ProfilesOf(Snapshot(q))
      /\ \E y \in ProfilesOf(Snapshot(q)) :
             NextProfile(p).key = y.key /\ Precedes(y, NextProfile(q))
  BY <1>2, <1>3, <1>4, NextIsLater
<1>7. Numbered(Snapshot(p)) /\ Numbered(Snapshot(q))
  BY <1>2, <1>3, RunsAssumption DEF Turns, Turn, Tasked, Snapshot, Adding
<1> QED
  BY <1>5, <1>6, <1>7, NeverCrossed

\* For any number of processes and any runs, in whatever order their inputs
\* list stations and payloads, and whatever fails: two adds never wait for each
\* other's rows, for every add inserts into its tables, and the profiles of its
\* input, in one order (CatalogGraph.profiles).
THEOREM AddsNeverCross == Spec => []NoWaitCycle
<1>1. Spec => []InTurn
  BY InitInTurn, NextInTurn, PTL DEF Spec
<1> QED
  BY <1>1, InTurnNoCycle, PTL
=============================================================================
