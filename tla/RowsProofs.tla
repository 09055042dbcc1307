------------------------------ MODULE RowsProofs ------------------------------
(***************************************************************************)
(* Committed tables are consistent, an add fails for a cause, and the      *)
(* store is the register of runs that its port promises, on both tiers,    *)
(* however the statements of the processes interleave and wherever they    *)
(* fail.                                                                   *)
(***************************************************************************)
EXTENDS RunStoreProofs

-----------------------------------------------------------------------------
(***************************************************************************)
(* The invariant: the committed tables.                                    *)
(***************************************************************************)

\* Tables whose rows have an identifier that others refer to.
Identified == {"scenario", "scenario_revision", "input_snapshot"}

\* Tables of rows that belong to a revision.
OfRevision == {"scenario_station", "communication_revision", "scenario_payload"}

\* What is committed, or written by any open transaction.
Held(t) == db[t] \cup UNION {tx[p][t] : p \in Processes}

\* No UNIQUE column holds a value twice, not even before the commit.
KeysUnique == \A t \in Keyed : \A x, y \in Held(t) : x.key = y.key => x = y

Names(t, table, id) == {z.name : z \in {z \in t[table] : z.key[1] = id}}

\* The identifier of such a row tells its name.
Labelled(set, kind) == \A x \in set : x.id # None /\ x.id[3] = <<kind, x.name>>

\* Rows are written together with the row they belong to.
Whole(t) ==
    /\ \A x \in t["profile_revision"] : \E y \in t["profile"] : y.key = x.key[1]
    /\ \A u \in OfRevision : \A x \in t[u] : \E y \in t["scenario_revision"] : y.id = x.key[1]
    /\ \A x \in t["scenario_station"] \cup t["scenario_payload"] : x.key = <<x.key[1], x.name>>
    /\ Labelled(t["scenario_station"], "station") /\ Labelled(t["scenario_payload"], "payload")
    /\ \A x \in t["run_stage"] : Exists(t, x.key[1])
    /\ \A x \in t["run_result"] : Exists(t, x.key[1]) /\ x.run = x.key[1]
    /\ \A x \in t["typed"] : Exists(t, x.key[2]) /\ \E y \in t["run_result"] : y.id = x.key
    /\ \A x \in t["run_result_document"] : Exists(t, x.key)

\* A revision has the stations and the payloads that its hash is taken of.
Named(t) ==
    \A x \in t["scenario_revision"] :
        /\ Names(t, "scenario_station", x.id) = x.hash[4]
        /\ Names(t, "scenario_payload", x.id) = x.hash[5]

\* An identifier is of one row, made for a run that is stored.
IdsUnique ==
    \A t \in Identified : \A x \in db[t] :
        /\ Exists(db, x.id[2])
        /\ \A y \in db[t] : x.id = y.id => x = y

\* The numbers of the revisions of a scenario.
Numbers(t, id) == {x.key[2] : x \in {x \in t["scenario_revision"] : x.key[1] = id}}

Gapless == \A x \in db["scenario_revision"] : \E n \in Nat : Numbers(db, x.key[1]) = 1 .. n

\* The row of a revision is under the scenario its hash names.
Filed(x, t) ==
    /\ x.key = <<x.key[1], x.key[2]>>
    /\ \E s \in t["scenario"] : s.id = x.key[1] /\ s.key = x.hash[1]

\* A snapshot is under a revision of its own hash.
Hashed(s, t) == \E x \in t["scenario_revision"] : x.id = s.revision /\ x.hash = RevisionHash(s.key)

\* The station and the payload of a row are of this revision.
Located(x, t, revision) ==
    /\ x.station # None => \E z \in t["scenario_station"] : z.id = x.station /\ z.key[1] = revision
    /\ x.payload # None => \E z \in t["scenario_payload"] : z.id = x.payload /\ z.key[1] = revision

References ==
    /\ \A s \in db["scenario"] : Numbers(db, s.id) # {}
    /\ \A x \in db["scenario_revision"] : Filed(x, db)
    /\ \A s \in db["input_snapshot"] :
          Hashed(s, db) /\ \E r \in db["scenario_run"] : r.snapshot = s.id
    /\ \A r \in db["scenario_run"] :
          /\ \E s \in db["input_snapshot"] : s.id = r.snapshot
          /\ \E m \in db["engine_manifest"] : m.id = r.manifest

\* What the write lock adds.
OneByOne ==
    OneWriter =>
        /\ \A x, y \in db["scenario_revision"] : x.hash = y.hash => x = y
        /\ \A x \in db["scenario_revision"] : \E s \in db["input_snapshot"] : s.revision = x.id
        /\ \A x \in db["typed"] : \E y \in db["run_result"] :
              /\ y.id = x.key
              /\ \A s \in db["input_snapshot"], r \in db["scenario_run"] :
                    r.key = y.run /\ s.id = r.snapshot => Located(x, db, s.revision)

Stored == Whole(db) /\ Named(db) /\ IdsUnique /\ Gapless /\ References /\ OneByOne

-----------------------------------------------------------------------------
(***************************************************************************)
(* The invariant: the transaction of a process.                            *)
(***************************************************************************)

Entered == Adding \cup {"begin", "scenario"}

\* A call of add, from its request on.
Calling == Entered \cup {"check"}

\* Rows are in a transaction only while it is under way.
Empty(p) == at[p] \notin Adding => tx[p] = NoRows

\* It inserts one row at most into these tables, with identifiers of its own.
Own(p) ==
    \A t \in Identified : \A x \in tx[p][t] :
        /\ x.id[1] = p /\ x.id[2] = task[p].id
        /\ \A y \in tx[p][t] : x = y

\* None of its identifiers has been committed.
Fresh(p) ==
    at[p] \in Entered =>
        \A t \in Identified : \A x \in db[t] : ~(x.id[1] = p /\ x.id[2] = task[p].id)

\* Its revision comes next in number, and is not one that is committed.
InNumber(p) ==
    \A x \in tx[p]["scenario_revision"] :
        /\ x.key[2] \in Nat \ {0}
        /\ Numbers(db, x.key[1]) = 1 .. (x.key[2] - 1)
        /\ Filed(x, View(p))
        /\ OneWriter => \A y \in db["scenario_revision"] : x.hash # y.hash

\* The profile to insert is not there.
Missing(p) ==
    /\ at[p] \in {"profiles", "insert_profile"} => "todo" \in DOMAIN known[p]
    /\ at[p] = "insert_profile" => \A x \in tx[p]["profile"] : x.key # NextProfile(p).key

KnowsScenario(p) ==
    at[p] \in {"revision", "count", "insert_revision"} =>
        /\ "scenario" \in DOMAIN known[p]
        /\ \E s \in View(p)["scenario"] : s.id = known[p].scenario /\ s.key = Snapshot(p).fixture
        /\ \A s \in tx[p]["scenario"] : s.id = known[p].scenario

KnowsNumber(p) ==
    at[p] = "insert_revision" =>
        /\ "number" \in DOMAIN known[p] /\ known[p].number \in Nat \ {0}
        /\ 1 .. (known[p].number - 1) \subseteq Numbers(db, known[p].scenario)

\* Identifiers by key, of this revision's rows.
Mapped(set, map, revision) ==
    \A k \in DOMAIN map : \E z \in set : z.id = map[k] /\ z.key = <<revision, k>>

KnowsRevision(p) ==
    at[p] \in PastRevision =>
        /\ {"revision", "stations", "payloads"} \subseteq DOMAIN known[p]
        /\ \E x \in View(p)["scenario_revision"] :
              x.id = known[p].revision /\ x.hash = RevisionHash(Snapshot(p))
        /\ \A x \in tx[p]["scenario_revision"] : x.id = known[p].revision
        /\ \A s \in tx[p]["scenario"] : \E x \in tx[p]["scenario_revision"] : x.key[1] = s.id
        /\ DOMAIN known[p].stations = DOMAIN Snapshot(p).stations
        /\ DOMAIN known[p].payloads = DOMAIN Snapshot(p).payloads
        /\ Mapped(View(p)["scenario_station"], known[p].stations, known[p].revision)
        /\ Mapped(View(p)["scenario_payload"], known[p].payloads, known[p].revision)

KnowsSnapshot(p) ==
    at[p] \in PastSnapshot =>
        /\ "snapshot" \in DOMAIN known[p]
        /\ \E s \in View(p)["input_snapshot"] :
              /\ s.id = known[p].snapshot /\ s.key = Snapshot(p)
              /\ OneWriter => s.revision = known[p].revision
        /\ \A s \in tx[p]["input_snapshot"] :
              s.id = known[p].snapshot /\ s.key = Snapshot(p) /\ s.revision = known[p].revision

KnowsManifest(p) ==
    at[p] \in PastManifest =>
        "manifest" \in DOMAIN known[p]
        /\ \E m \in View(p)["engine_manifest"] : m.id = known[p].manifest

KnowsRun(p) ==
    at[p] \in PastRun =>
        /\ tx[p]["scenario_run"] = {RunRow(p)}
        /\ \A x \in tx[p]["typed"] : Located(x, View(p), known[p].revision)

Given(p) == at[p] \in Entered \cup {"check"} => task[p] \in Runs

\* SQLite writes with the lock.
Locked(p) == OneWriter /\ at[p] \in Adding \cup {"scenario"} => lock = p

Written(p) == Empty(p) /\ Own(p) /\ Taken(p) /\ Whole(tx[p]) /\ Named(tx[p])
Knows(p) ==
    /\ Missing(p) /\ KnowsScenario(p) /\ KnowsNumber(p) /\ KnowsRevision(p)
    /\ KnowsSnapshot(p) /\ KnowsManifest(p) /\ KnowsRun(p)
Writer(p) == Given(p) /\ Locked(p) /\ Written(p) /\ Fresh(p) /\ InNumber(p) /\ Knows(p)

TableShape == DOMAIN db = Tables /\ \A p \in Processes : DOMAIN tx[p] = Tables

RowsHold == Connections /\ TableShape /\ KeysUnique /\ Stored /\ \A p \in Processes : Writer(p)

-----------------------------------------------------------------------------
(***************************************************************************)
(* What a process sees, and the kinds of steps.                            *)
(***************************************************************************)

Stages == {"profiles", "insert_profile", "insert_scenario", "revision", "count", "insert_revision",
           "snapshot", "insert_snapshot", "manifest", "insert_manifest", "run", "commit"}

\* The statements of an add, in one set.
LEMMA AddingStages == Adding = Stages
BY DEF Adding, PastScenario, PastRevision, PastSnapshot, PastManifest, PastRun, Stages

\* Committed rows and the process's own.
LEMMA ViewIs ==
    ASSUME TableShape, NEW p \in Processes
    PROVE  DOMAIN View(p) = Tables /\ \A t \in Tables : View(p)[t] = db[t] \cup tx[p][t]
BY DEF TableShape, View, Added

KeepsLock(p) == \A q \in Processes \ {p} : lock = q => lock' = q

\* A transaction that is given up.
Ends(p) ==
    /\ Only(p) /\ db' = db /\ tier' = tier /\ KeepsLock(p)
    /\ tx'[p] = NoRows /\ at'[p] \in {"ready", "down"}

\* A transaction that becomes visible.
Commits(p) ==
    /\ Only(p) /\ db' = View(p) /\ tier' = tier /\ KeepsLock(p)
    /\ at[p] = "commit" /\ tx'[p] = NoRows /\ at'[p] \in {"ready", "down"}

\* A step outside of transactions.
Outside(p) ==
    /\ Only(p) /\ db' = db /\ tx' = tx /\ tier' = tier /\ KeepsLock(p)
    /\ at[p] \notin Adding /\ at'[p] \notin Adding
    /\ at'[p] \in Calling => task'[p] \in Runs
    /\ at'[p] \in Entered =>
          \/ at[p] \in Entered /\ task' = task
          \/ ~Exists(db, task'[p].id)
    /\ OneWriter /\ at'[p] = "scenario" => lock' = p

\* A statement that adds rows, or only remembers some.
SqliteWrites(p) == EnsureScenario(p) \/ EnsureSnapshot(p) \/ EnsureManifest(p) \/ WriteRun(p)
PostgresWrites(p) ==
    \/ BeginProfiles(p) \/ FindProfile(p) \/ InsertProfile(p) \/ FindScenario(p)
    \/ InsertScenario(p) \/ FindRevision(p) \/ CountRevisions(p) \/ InsertRevision(p)
    \/ FindSnapshot(p) \/ InsertSnapshot(p) \/ FindManifest(p) \/ InsertManifest(p)
    \/ InsertRun(p)
Writes(p) ==
    \/ tier = "sqlite" /\ SqliteWrites(p)
    \/ tier = "postgresql" /\ PostgresWrites(p)

Shaped == Connections /\ TableShape /\ \A p \in Processes : Given(p) /\ Empty(p)

\* A call that fails gives its transaction up.
LEMMA FailEnds ==
    ASSUME Connections, NEW p \in Processes, NEW how, Fail(p, how) PROVE Ends(p)
<1>1. /\ tx' = [tx EXCEPT ![p] = NoRows] /\ known' = [known EXCEPT ![p] = <<>>]
      /\ at' = [at EXCEPT ![p] = "ready"]
      /\ lock' = (IF lock = p THEN None ELSE lock)
      /\ UNCHANGED <<tier, db, task>>
  BY DEF Fail, Goto, Release
<1>2. Only(p) /\ tx'[p] = NoRows /\ at'[p] = "ready"
  BY <1>1 DEF Connections, Only, Others
<1> QED
  BY <1>1, <1>2 DEF Ends, KeepsLock

\* Requests, checks and reads are outside of transactions.
LEMMA CallsOutside ==
    ASSUME Connections, NEW p \in Processes, NEW run \in Offers[p],
           RequestAdd(p, run) \/ GetHead(p, run.id)
    PROVE  Outside(p)
<1>1. CASE RequestAdd(p, run)
  <2>1. /\ at[p] = "ready" /\ at' = [at EXCEPT ![p] = "check"]
        /\ task' = [task EXCEPT ![p] = run] /\ known' = [known EXCEPT ![p] = <<>>]
        /\ UNCHANGED <<tier, db, tx, lock>>
    BY <1>1 DEF RequestAdd, Idle, Goto, rows
  <2>2. run \in Runs
    BY OffersAssumption
  <2>3. Only(p) /\ at'[p] = "check" /\ task'[p] = run
    BY <2>1 DEF Only, Others, Connections
  <2> QED
    BY <2>1, <2>2, <2>3, AddingStages DEF Outside, KeepsLock, Entered, Stages
<1>2. CASE GetHead(p, run.id)
  <2>1. /\ at[p] = "ready" /\ task' = [task EXCEPT ![p] = [id |-> run.id]]
        /\ UNCHANGED <<tier, db, tx, lock>>
    BY <1>2 DEF GetHead, Idle, rows
  <2>2. \/ known' = known /\ at' = at
        \/ \E k : known' = [known EXCEPT ![p] = k] /\ at' = [at EXCEPT ![p] = "stages"]
    BY <1>2 DEF GetHead, Goto
  <2>3. Only(p) /\ at'[p] \in {"ready", "stages"}
    BY <2>1, <2>2 DEF Only, Others, Connections
  <2> QED
    BY <2>1, <2>3, AddingStages DEF Outside, KeepsLock, Entered, Calling, Stages
<1> QED
  BY <1>1, <1>2

\* Looking for the identifier, and the statements of get.
LEMMA ReadsOutside ==
    ASSUME Shaped, NEW p \in Processes, CheckRun(p, "begin") \/ Get(p)
    PROVE  Outside(p) \/ Ends(p)
<1>1. Connections /\ Given(p)
  BY DEF Shaped
<1>2. CASE CheckRun(p, "begin")
  <2>1. CASE Fail(p, "duplicate")
    BY <1>1, <2>1, FailEnds
  <2>2. CASE /\ ~Exists(db, task[p].id) /\ Goto(p, "begin")
             /\ UNCHANGED <<tier, rows, lock, task, known>>
    <3>1. at[p] = "check"
      BY <1>2, Zenon DEF CheckRun
    <3>2. /\ tx' = tx /\ db' = db /\ task' = task /\ known' = known /\ lock' = lock /\ tier' = tier
          /\ at' = [at EXCEPT ![p] = "begin"]
      BY <2>2 DEF rows, Goto
    <3>3. Only(p) /\ at'[p] = "begin"
      BY <1>1, <3>2 DEF Only, Others, Connections
    <3> QED
      BY <1>1, <2>2, <3>1, <3>2, <3>3, AddingStages
         DEF Outside, KeepsLock, Entered, Calling, Stages, Given
  <2> QED
    BY <1>2, <2>1, <2>2 DEF CheckRun
<1>3. CASE Get(p)
  <2>1. /\ at[p] \in {"stages", "document", "rows"}
        /\ UNCHANGED <<tier, rows, lock, task>>
        /\ \E k, step : /\ step \in {"document", "rows", "ready"}
                         /\ known' = [known EXCEPT ![p] = k]
                         /\ at' = [at EXCEPT ![p] = step]
    BY <1>3, Zenon DEF Get, GetStages, GetDocument, GetRows, Goto
  <2>2. Only(p) /\ at'[p] \in {"document", "rows", "ready"}
    BY <1>1, <2>1 DEF Only, Others, Connections, rows
  <2> QED
    BY <2>1, <2>2, AddingStages DEF Outside, KeepsLock, Entered, Calling, Stages, rows
<1> QED
  BY <1>2, <1>3

\* A transaction is committed, whether or not the answer arrives.
LEMMA CommitCommits ==
    ASSUME Connections, NEW p \in Processes, Commit(p) \/ LostAnswer(p) PROVE Commits(p)
<1>1. /\ tx' = [tx EXCEPT ![p] = NoRows] /\ known' = [known EXCEPT ![p] = <<>>]
      /\ at' = [at EXCEPT ![p] = "ready"] /\ db' = View(p) /\ at[p] = "commit"
      /\ lock' = (IF lock = p THEN None ELSE lock) \/ lock' = lock
      /\ UNCHANGED <<tier, task>>
  BY DEF Commit, LostAnswer, Goto, Release
<1>2. Only(p) /\ tx'[p] = NoRows /\ at'[p] = "ready"
  BY <1>1 DEF Connections, Only, Others
<1> QED
  BY <1>1, <1>2 DEF Commits, KeepsLock

\* A statement fails, or the process dies.
LEMMA FaultsEnd ==
    ASSUME Connections, NEW p \in Processes, StatementFails(p) \/ Crash(p) PROVE Ends(p)
<1>1. /\ tx' = [tx EXCEPT ![p] = NoRows] /\ known' = [known EXCEPT ![p] = <<>>]
      /\ at' = [at EXCEPT ![p] = "ready"] \/ at' = [at EXCEPT ![p] = "down"]
      /\ lock' = (IF lock = p THEN None ELSE lock)
      /\ UNCHANGED <<tier, task, db>>
  BY DEF StatementFails, Crash, Goto, Release
<1>2. Only(p) /\ tx'[p] = NoRows /\ at'[p] \in {"ready", "down"}
  BY <1>1 DEF Connections, Only, Others
<1> QED
  BY <1>1, <1>2 DEF Ends, KeepsLock

\* Waiting for the lock, starting again, opening the file, and BEGIN.
LEMMA OpeningOutside ==
    ASSUME Shaped, NEW p \in Processes,
           \/ Busy(p) \/ Restart(p) \/ ReadVersion(p) \/ RefuseNewer(p) \/ Apply(p)
           \/ TableExists(p) \/ Record(p) \/ Opened(p) \/ BeginImmediate(p)
    PROVE  Outside(p)
<1>1. Connections /\ Given(p)
  BY DEF Shaped
<1>2. CASE BeginImmediate(p)
  <2>1. /\ at[p] = "begin" /\ at' = [at EXCEPT ![p] = "scenario"] /\ lock = None /\ lock' = p
        /\ UNCHANGED <<tier, db, tx, task, known>>
    BY <1>2 DEF BeginImmediate, Goto, rows
  <2>2. Only(p) /\ at'[p] = "scenario"
    BY <1>1, <2>1 DEF Connections, Only, Others
  <2> QED
    BY <1>1, <2>1, <2>2, AddingStages, ProcessesAssumption
       DEF Outside, KeepsLock, Entered, Calling, Stages, Given
<1>3. CASE Apply(p)
  <2>1. /\ at[p] = "migrate" /\ at' = [at EXCEPT ![p] = "recorded"] /\ lock = None /\ lock' = p
        /\ UNCHANGED <<tier, db, tx, task, known>>
    BY <1>3 DEF Apply, Goto, rows
  <2>2. Only(p) /\ at'[p] = "recorded"
    BY <1>1, <2>1 DEF Connections, Only, Others
  <2> QED
    BY <1>1, <2>1, <2>2, AddingStages, ProcessesAssumption
       DEF Outside, KeepsLock, Entered, Calling, Stages, Given
<1>4. ASSUME \/ Busy(p) \/ Restart(p) \/ ReadVersion(p) \/ RefuseNewer(p)
             \/ TableExists(p) \/ Record(p) \/ Opened(p)
      PROVE  Outside(p)
  <2>1. /\ at[p] \in {"begin", "down", "closed", "migrate", "recorded"}
        /\ \E step : /\ step \in {"ready", "down", "closed", "migrate"}
                      /\ at' = [at EXCEPT ![p] = step]
        /\ known' = known \/ \E k : known' = [known EXCEPT ![p] = k]
        /\ task' = task \/ \E k : task' = [task EXCEPT ![p] = k]
        /\ UNCHANGED <<tier, rows>>
        /\ lock' = lock \/ lock' = (IF lock = p THEN None ELSE lock)
    BY <1>4 DEF Busy, Restart, ReadVersion, RefuseNewer, TableExists, Record, Opened, OpenFails,
       Goto, Release, Started
  <2>2. Only(p) /\ at'[p] \in {"ready", "down", "closed", "migrate"}
    BY <1>1, <2>1 DEF Connections, Only, Others, rows
  <2> QED
    BY <2>1, <2>2, AddingStages DEF Outside, KeepsLock, Entered, Calling, Stages, rows
<1> QED
  BY <1>2, <1>3, <1>4

\* Every step is of one of the four kinds.
LEMMA StepKinds ==
    ASSUME Shaped, Next
    PROVE  \E p \in Processes : Ends(p) \/ Commits(p) \/ Outside(p) \/ Writes(p)
<1>0. Connections
  BY DEF Shaped
<1>1. ASSUME NEW p \in Processes, Step(p) PROVE Ends(p) \/ Commits(p) \/ Outside(p) \/ Writes(p)
  <2>1. CASE tier = "sqlite" /\ SqliteStep(p)
    BY <2>1, OpeningOutside DEF SqliteStep, Writes, SqliteWrites
  <2>2. CASE tier = "postgresql" /\ PostgresStep(p)
    <3>1. ASSUME Conflict(p) PROVE Ends(p)
      BY <1>0, <3>1, FailEnds DEF Conflict
    <3> QED
      BY <2>2, <3>1 DEF PostgresStep, Writes, PostgresWrites
  <2>3. CASE CheckRun(p, "begin") \/ Get(p)
    BY <2>3, ReadsOutside
  <2>4. CASE Commit(p)
    BY <1>0, <2>4, CommitCommits
  <2> QED
    BY <1>1, <2>1, <2>2, <2>3, <2>4 DEF Step
<1>2. ASSUME NEW p \in Processes, NEW run \in Offers[p],
             RequestAdd(p, run) \/ GetHead(p, run.id)
      PROVE  Outside(p)
  BY <1>0, <1>2, CallsOutside
<1>3. ASSUME NEW p \in Processes,
             Busy(p) \/ StatementFails(p) \/ LostAnswer(p) \/ Crash(p) \/ Restart(p)
      PROVE  Ends(p) \/ Commits(p) \/ Outside(p)
  BY <1>0, <1>3, OpeningOutside, FaultsEnd, CommitCommits
<1> QED
  BY <1>1, <1>2, <1>3 DEF Next

-----------------------------------------------------------------------------
(***************************************************************************)
(* What the other processes have when p makes a step.                      *)
(***************************************************************************)

\* A step of p is no step of q.
LEMMA OthersStay ==
    ASSUME NEW p \in Processes, Only(p), NEW q \in Processes \ {p}
    PROVE  at'[q] = at[q] /\ known'[q] = known[q] /\ task'[q] = task[q] /\ tx'[q] = tx[q]
BY DEF Only, Others

\* Rows do not go.
LEMMA MappedGrows ==
    ASSUME NEW set, NEW larger, set \subseteq larger, NEW map, NEW revision,
           Mapped(set, map, revision)
    PROVE  Mapped(larger, map, revision)
BY DEF Mapped

\* The row of a key.
LEMMA MappedRow ==
    ASSUME NEW set, NEW map, NEW revision, Mapped(set, map, revision), NEW k \in DOMAIN map
    PROVE  \E z \in set : z.id = map[k] /\ z.key = <<revision, k>> /\ z.key[1] = revision
<1>1. PICK z \in set : z.id = map[k] /\ z.key = <<revision, k>>
  BY DEF Mapped
<1>2. z.key[1] = revision
  BY <1>1
<1> QED
  BY <1>1, <1>2

\* What q has done depends on what is committed, and on q.
LEMMA WriterStays ==
    ASSUME NEW p \in Processes, NEW q \in Processes \ {p}, Only(p), db' = db, tier' = tier,
           KeepsLock(p), Writer(q)
    PROVE  Writer(q)'
<1>1. at'[q] = at[q] /\ known'[q] = known[q] /\ task'[q] = task[q] /\ tx'[q] = tx[q]
  BY OthersStay
<1>2. View(q)' = View(q) /\ Snapshot(q)' = Snapshot(q) /\ (OneWriter' <=> OneWriter)
  BY <1>1 DEF View, Snapshot, OneWriter
<1>3. Given(q)' /\ Locked(q)'
  BY <1>1, <1>2 DEF Writer, Given, Locked, KeepsLock
<1>4. Written(q)'
  BY <1>1 DEF Writer, Written, Empty, Own, Taken, Whole, Named, Names, Exists
<1>5. Fresh(q)'
  BY <1>1 DEF Writer, Fresh
<1>6. InNumber(q)'
  BY <1>1, <1>2 DEF Writer, InNumber, Numbers, Filed
<1>7. Missing(q)' /\ KnowsScenario(q)'
  BY <1>1, <1>2 DEF Writer, Knows, Missing, NextProfile, KnowsScenario
<1>8. KnowsNumber(q)'
  BY <1>1 DEF Writer, Knows, KnowsNumber, Numbers
<1>9. KnowsRevision(q)'
  BY <1>1, <1>2 DEF Writer, Knows, KnowsRevision
<1>10. KnowsSnapshot(q)' /\ KnowsManifest(q)'
  BY <1>1, <1>2 DEF Writer, Knows, KnowsSnapshot, KnowsManifest
<1>11. KnowsRun(q)'
  BY <1>1, <1>2 DEF Writer, Knows, KnowsRun, RunRow, Located
<1> QED
  BY <1>3, <1>4, <1>5, <1>6, <1>7, <1>8, <1>9, <1>10, <1>11 DEF Writer, Knows

\* Of two transactions under the write lock one is over.
LEMMA LockExcludes ==
    ASSUME RowsHold, OneWriter, NEW p \in Processes, NEW q \in Processes \ {p},
           at[p] \in Adding \cup {"scenario"}
    PROVE  tx[q] = NoRows
BY DEF RowsHold, Writer, Locked, Written, Empty

\* No row of p is under the number that q has taken.
LEMMA NumberKept ==
    ASSUME RowsHold, NEW p \in Processes, NEW q \in Processes \ {p},
           NEW x \in tx[q]["scenario_revision"], NEW y \in tx[p]["scenario_revision"]
    PROVE  x.key[1] # y.key[1]
<1> SUFFICES ASSUME x.key[1] = y.key[1] PROVE FALSE
  OBVIOUS
<1>1. "scenario_revision" \in Keyed /\ "scenario_revision" \in Identified
  BY DEF Keyed, Tables, Identified
<1>2. InNumber(p) /\ InNumber(q) /\ Own(p) /\ Own(q)
  BY DEF RowsHold, Writer, Written
<1>3. /\ x.key[2] \in Nat \ {0} /\ x.key = <<x.key[1], x.key[2]>>
      /\ Numbers(db, x.key[1]) = 1 .. (x.key[2] - 1)
  BY <1>2 DEF InNumber, Filed
<1>4. /\ y.key[2] \in Nat \ {0} /\ y.key = <<y.key[1], y.key[2]>>
      /\ Numbers(db, y.key[1]) = 1 .. (y.key[2] - 1)
  BY <1>2 DEF InNumber, Filed
<1>5. x.key[2] = y.key[2]
  <2> DEFINE m == x.key[2]
             n == y.key[2]
  <2>1. m \in Nat \ {0} /\ n \in Nat \ {0} /\ 1 .. (m - 1) = 1 .. (n - 1)
    BY <1>3, <1>4
  <2> HIDE DEF m, n
  <2>2. m = n
    <3>1. CASE m < n
      <4>1. m \in 1 .. (n - 1) /\ m \notin 1 .. (m - 1)
        BY <2>1, <3>1
      <4> QED
        BY <2>1, <4>1
    <3>2. CASE n < m
      <4>1. n \in 1 .. (m - 1) /\ n \notin 1 .. (n - 1)
        BY <2>1, <3>2
      <4> QED
        BY <2>1, <4>1
    <3> QED
      BY <2>1, <3>1, <3>2
  <2> QED
    BY <2>2 DEF m, n
<1>6. x \in Held("scenario_revision") /\ y \in Held("scenario_revision")
  BY DEF Held
<1>7. x = y
  BY <1>1, <1>3, <1>4, <1>5, <1>6 DEF RowsHold, KeysUnique
<1> QED
  BY <1>1, <1>2, <1>7 DEF Own

\* A commit of p takes nothing from q.
LEMMA WriterGrows ==
    ASSUME RowsHold, NEW p \in Processes, NEW q \in Processes \ {p}, Commits(p)
    PROVE  Writer(q)'
<1>1. at'[q] = at[q] /\ known'[q] = known[q] /\ task'[q] = task[q] /\ tx'[q] = tx[q]
  BY OthersStay DEF Commits
<1>2. Writer(q) /\ TableShape /\ Own(p)
  BY DEF RowsHold, Writer, Written
<1>3. \A t \in Tables : db'[t] = db[t] \cup tx[p][t]
  BY <1>2, ViewIs DEF Commits
<1>4. /\ \A t \in Tables : View(q)[t] = db[t] \cup tx[q][t]
      /\ \A t \in Tables : View(q)'[t] = db'[t] \cup tx[q][t]
  <2>1. \A t \in Tables : View(q)[t] = db[t] \cup tx[q][t]
    BY <1>2, ViewIs
  <2>2. DOMAIN tx[q] = Tables
    BY <1>2 DEF TableShape
  <2>3. \A t \in Tables : View(q)'[t] = db'[t] \cup tx[q][t]
    BY <1>1, <2>2 DEF View, Added
  <2> QED
    BY <2>1, <2>3
<1>5. \A t \in Tables : View(q)[t] \subseteq View(q)'[t]
  BY <1>3, <1>4
<1>6. Snapshot(q)' = Snapshot(q) /\ (OneWriter' <=> OneWriter)
  BY <1>1 DEF Snapshot, OneWriter, Commits
<1> USE DEF Tables
<1>7. Given(q)' /\ Locked(q)'
  BY <1>1, <1>2, <1>6 DEF Writer, Given, Locked, KeepsLock, Commits
<1>8. Written(q)'
  BY <1>1, <1>2 DEF Writer, Written, Empty, Own, Taken, Whole, Named, Names, Exists
<1>9. Fresh(q)'
  <2>1. Identified \subseteq Tables
    BY DEF Identified
  <2>2. \A t \in Identified : \A x \in tx[p][t] : x.id[1] # q
    BY <1>2 DEF Own
  <2> QED
    BY <1>1, <1>2, <1>3, <2>1, <2>2 DEF Writer, Fresh
<1>10. InNumber(q)'
  <2> SUFFICES ASSUME NEW x \in tx[q]["scenario_revision"]
               PROVE  /\ x.key[2] \in Nat \ {0}
                      /\ Numbers(db', x.key[1]) = 1 .. (x.key[2] - 1)
                      /\ Filed(x, View(q)')
                      /\ OneWriter => \A y \in db'["scenario_revision"] : x.hash # y.hash
    BY <1>1, <1>6 DEF InNumber
  <2>1. /\ x.key[2] \in Nat \ {0}
        /\ Numbers(db, x.key[1]) = 1 .. (x.key[2] - 1)
        /\ Filed(x, View(q))
    BY <1>2 DEF Writer, InNumber
  <2>2. Filed(x, View(q)')
    BY <1>5, <2>1 DEF Filed
  <2>3. {y \in db'["scenario_revision"] : y.key[1] = x.key[1]}
            = {y \in db["scenario_revision"] : y.key[1] = x.key[1]}
    BY <1>3, NumberKept
  <2>4. Numbers(db', x.key[1]) = Numbers(db, x.key[1])
    BY <2>3 DEF Numbers
  <2>5. ~OneWriter
    <3>1. at[p] \in Adding
      BY AddingStages DEF Commits, Stages
    <3> QED
      BY <3>1, LockExcludes DEF NoRows
  <2> QED
    BY <2>1, <2>2, <2>4, <2>5
<1>11. Missing(q)'
  BY <1>1, <1>2 DEF Writer, Knows, Missing, NextProfile
<1>12. KnowsScenario(q)'
  BY <1>1, <1>2, <1>5, <1>6 DEF Writer, Knows, KnowsScenario
<1>13. KnowsNumber(q)'
  <2>1. \A id : Numbers(db, id) \subseteq Numbers(db', id)
    BY <1>3 DEF Numbers
  <2> QED
    BY <1>1, <1>2, <2>1 DEF Writer, Knows, KnowsNumber
<1>14. KnowsRevision(q)'
  <2>1. KnowsRevision(q)
    BY <1>2 DEF Writer, Knows
  <2>2. at[q] \in PastRevision =>
            /\ Mapped(View(q)'["scenario_station"], known[q].stations, known[q].revision)
            /\ Mapped(View(q)'["scenario_payload"], known[q].payloads, known[q].revision)
    BY <1>5, <2>1, MappedGrows DEF KnowsRevision
  <2> QED
    BY <1>1, <1>5, <1>6, <2>1, <2>2 DEF KnowsRevision
<1>15. KnowsSnapshot(q)' /\ KnowsManifest(q)'
  BY <1>1, <1>2, <1>5, <1>6 DEF Writer, Knows, KnowsSnapshot, KnowsManifest
<1>16. KnowsRun(q)'
  BY <1>1, <1>2, <1>5, <1>6 DEF Writer, Knows, KnowsRun, RunRow, Located
<1> QED
  BY <1>7, <1>8, <1>9, <1>10, <1>11, <1>12, <1>13, <1>14, <1>15, <1>16 DEF Writer, Knows

\* A process without a transaction.
LEMMA WriterIdle ==
    ASSUME NEW p \in Processes, Given(p)', Locked(p)', Fresh(p)',
           at'[p] \notin Adding, tx'[p] = NoRows
    PROVE  Writer(p)'
<1>1. \A t \in Tables : tx'[p][t] = {}
  BY DEF NoRows
<1> USE DEF Tables
<1>2. Empty(p)' /\ Own(p)' /\ Taken(p)'
  BY <1>1 DEF Empty, Own, Taken, Identified
<1>3. Whole(tx'[p]) /\ Named(tx'[p])
  BY <1>1 DEF Whole, Labelled, Named, OfRevision
<1>4. InNumber(p)'
  BY <1>1 DEF InNumber
<1>5. Knows(p)'
  BY AddingStages DEF Knows, Missing, KnowsScenario, KnowsNumber, KnowsRevision, KnowsSnapshot,
     KnowsManifest, KnowsRun, PastRevision, PastSnapshot, PastManifest, PastRun, Stages
<1> QED
  BY <1>2, <1>3, <1>4, <1>5 DEF Writer, Written

-----------------------------------------------------------------------------
(***************************************************************************)
(* A transaction that is committed leaves the tables consistent.           *)
(***************************************************************************)

\* Rows stay with the rows they belong to.
LEMMA WholeUnion ==
    ASSUME NEW s, NEW t, NEW u, Whole(s), Whole(t), \A k \in Tables : u[k] = s[k] \cup t[k]
    PROVE  Whole(u)
<1> USE DEF Tables
<1>1. /\ \A x \in u["profile_revision"] : \E y \in u["profile"] : y.key = x.key[1]
      /\ \A k \in OfRevision : \A x \in u[k] : \E y \in u["scenario_revision"] : y.id = x.key[1]
  BY DEF Whole, OfRevision
<1>2. \A x \in u["scenario_station"] \cup u["scenario_payload"] : x.key = <<x.key[1], x.name>>
  BY DEF Whole
<1>3. \A id : Exists(s, id) \/ Exists(t, id) => Exists(u, id)
  BY DEF Exists
<1>4. /\ \A x \in u["run_stage"] : Exists(u, x.key[1])
      /\ \A x \in u["run_result"] : Exists(u, x.key[1]) /\ x.run = x.key[1]
      /\ \A x \in u["run_result_document"] : Exists(u, x.key)
  BY <1>3 DEF Whole
<1>5. \A x \in u["typed"] : Exists(u, x.key[2]) /\ \E y \in u["run_result"] : y.id = x.key
  BY <1>3 DEF Whole
<1>6. Labelled(u["scenario_station"], "station") /\ Labelled(u["scenario_payload"], "payload")
  BY DEF Whole, Labelled
<1> QED
  BY <1>1, <1>2, <1>4, <1>5, <1>6 DEF Whole

\* A revision keeps its stations and payloads.
LEMMA NamedUnion ==
    ASSUME NEW s, NEW t, NEW u, Whole(s), Whole(t), Named(s), Named(t),
           \A k \in Tables : u[k] = s[k] \cup t[k],
           \A x \in s["scenario_revision"], y \in t["scenario_revision"] : x.id # y.id
    PROVE  Named(u)
<1> USE DEF Tables
<1>1. /\ \A x \in s["scenario_revision"], z \in t["scenario_station"] \cup t["scenario_payload"] :
             z.key[1] # x.id
      /\ \A x \in t["scenario_revision"], z \in s["scenario_station"] \cup s["scenario_payload"] :
             z.key[1] # x.id
  BY DEF Whole, OfRevision
<1>2. ASSUME NEW x \in s["scenario_revision"], NEW k \in {"scenario_station", "scenario_payload"}
      PROVE  Names(u, k, x.id) = Names(s, k, x.id)
  <2>1. u[k] = s[k] \cup t[k] /\ \A z \in t[k] : z.key[1] # x.id
    BY <1>1
  <2> QED
    BY <2>1 DEF Names
<1>3. ASSUME NEW x \in t["scenario_revision"], NEW k \in {"scenario_station", "scenario_payload"}
      PROVE  Names(u, k, x.id) = Names(t, k, x.id)
  <2>1. u[k] = s[k] \cup t[k] /\ \A z \in s[k] : z.key[1] # x.id
    BY <1>1
  <2> QED
    BY <2>1 DEF Names
<1> QED
  BY <1>2, <1>3 DEF Named

\* What a transaction holds when it is committed.
LEMMA AtCommit ==
    ASSUME RowsHold, NEW p \in Processes, Commits(p)
    PROVE  /\ \A t \in Tables : db'[t] = db[t] \cup tx[p][t]
           /\ Writer(p) /\ Stored
           /\ at[p] \in Adding /\ at[p] \in PastRevision /\ at[p] \in PastSnapshot
           /\ at[p] \in PastManifest /\ at[p] \in PastRun
<1>1. TableShape /\ Writer(p) /\ Stored
  BY DEF RowsHold
<1>2. \A t \in Tables : db'[t] = db[t] \cup tx[p][t]
  BY <1>1, ViewIs DEF Commits
<1>3. at[p] = "commit"
  BY DEF Commits
<1> QED
  BY <1>1, <1>2, <1>3 DEF Adding, PastScenario, PastRevision, PastSnapshot, PastManifest, PastRun

\* Its identifiers are new.
LEMMA CommitIds ==
    ASSUME RowsHold, NEW p \in Processes, Commits(p)
    PROVE  /\ IdsUnique'
           /\ \A t \in Identified : \A x \in db[t], y \in tx[p][t] : x.id # y.id
<1>1. /\ \A t \in Tables : db'[t] = db[t] \cup tx[p][t]
      /\ Own(p) /\ Fresh(p) /\ IdsUnique /\ KnowsRun(p)
  BY AtCommit DEF Writer, Written, Stored, Knows
<1>2. at[p] \in Entered /\ at[p] \in PastRun
  BY AtCommit DEF Entered
<1>3. \A t \in Identified : \A x \in db[t], y \in tx[p][t] : x.id # y.id
  BY <1>1, <1>2 DEF Own, Fresh
<1>4. /\ \A id : Exists(db, id) => Exists(db', id)
      /\ Exists(db', task[p].id)
  <2>1. tx[p]["scenario_run"] = {RunRow(p)} /\ RunRow(p).key = task[p].id
    BY <1>1, <1>2 DEF KnowsRun, RunRow
  <2> QED
    BY <1>1, <2>1 DEF Exists, Tables
<1>5. IdsUnique'
  <2> SUFFICES ASSUME NEW t \in Identified, NEW x \in db'[t]
               PROVE  /\ Exists(db', x.id[2])
                      /\ \A y \in db'[t] : x.id = y.id => x = y
    BY DEF IdsUnique
  <2>1. t \in Tables
    BY DEF Identified, Tables
  <2>2. db'[t] = db[t] \cup tx[p][t]
    BY <1>1, <2>1
  <2>3. Exists(db', x.id[2])
    BY <1>1, <1>4, <2>2 DEF IdsUnique, Own
  <2>4. \A y \in db'[t] : x.id = y.id => x = y
    BY <1>1, <1>3, <2>2 DEF IdsUnique, Own
  <2> QED
    BY <2>3, <2>4
<1> QED
  BY <1>3, <1>5

\* Its revision is the next one of its scenario.
LEMMA CommitGapless ==
    ASSUME RowsHold, NEW p \in Processes, Commits(p) PROVE Gapless'
<1>1. /\ \A t \in Tables : db'[t] = db[t] \cup tx[p][t]
      /\ InNumber(p) /\ Gapless /\ Own(p)
  BY AtCommit DEF Writer, Written, Stored
<1>2. "scenario_revision" \in Tables /\ "scenario_revision" \in Identified
  BY DEF Tables, Identified
<1>3. db'["scenario_revision"] = db["scenario_revision"] \cup tx[p]["scenario_revision"]
  BY <1>1, <1>2
<1>4. \A id : Numbers(db', id) = Numbers(db, id)
                   \cup {y.key[2] : y \in {y \in tx[p]["scenario_revision"] : y.key[1] = id}}
  BY <1>3 DEF Numbers
<1> SUFFICES ASSUME NEW x \in db'["scenario_revision"]
             PROVE  \E n \in Nat : Numbers(db', x.key[1]) = 1 .. n
  BY DEF Gapless
<1>5. CASE \A y \in tx[p]["scenario_revision"] : y.key[1] # x.key[1]
  <2>1. {y \in tx[p]["scenario_revision"] : y.key[1] = x.key[1]} = {}
    BY <1>5
  <2>2. Numbers(db', x.key[1]) = Numbers(db, x.key[1])
    BY <1>4, <2>1
  <2>3. x \in db["scenario_revision"]
    BY <1>3, <1>5
  <2> QED
    BY <1>1, <2>2, <2>3 DEF Gapless
<1>6. CASE \E y \in tx[p]["scenario_revision"] : y.key[1] = x.key[1]
  <2>1. PICK y \in tx[p]["scenario_revision"] : y.key[1] = x.key[1]
    BY <1>6
  <2>2. /\ y.key[2] \in Nat \ {0} /\ Numbers(db, y.key[1]) = 1 .. (y.key[2] - 1)
    BY <1>1 DEF InNumber
  <2>3. {z \in tx[p]["scenario_revision"] : z.key[1] = x.key[1]} = {y}
    BY <1>1, <1>2, <2>1 DEF Own
  <2>4. Numbers(db', x.key[1]) = 1 .. (y.key[2] - 1) \cup {y.key[2]}
    BY <1>4, <2>1, <2>2, <2>3
  <2> DEFINE n == y.key[2]
  <2>5. n \in Nat \ {0} /\ Numbers(db', x.key[1]) = 1 .. (n - 1) \cup {n}
    BY <2>2, <2>4
  <2> HIDE DEF n
  <2>6. 1 .. (n - 1) \cup {n} = 1 .. n
    BY <2>5
  <2> QED
    BY <2>5, <2>6
<1> QED
  BY <1>5, <1>6

\* Its references lead to rows, and its snapshot and scenario are used.
LEMMA CommitReferences ==
    ASSUME RowsHold, NEW p \in Processes, Commits(p) PROVE References'
<1>1. /\ \A t \in Tables : db'[t] = db[t] \cup tx[p][t]
      /\ InNumber(p) /\ References /\ KnowsRevision(p) /\ KnowsSnapshot(p) /\ KnowsManifest(p)
      /\ KnowsRun(p)
      /\ at[p] \in PastRevision /\ at[p] \in PastSnapshot
      /\ at[p] \in PastManifest /\ at[p] \in PastRun
      /\ View(p) = db'
  BY AtCommit DEF Writer, Written, Stored, Knows, Commits
<1> USE DEF Tables
<1>2. \A t \in Tables : db[t] \subseteq db'[t] /\ tx[p][t] \subseteq db'[t]
  BY <1>1
<1>3. \A s \in db'["scenario"] : Numbers(db', s.id) # {}
  <2> SUFFICES ASSUME NEW s \in db'["scenario"]
               PROVE  \E x \in db'["scenario_revision"] : x.key[1] = s.id
    BY DEF Numbers
  <2>1. CASE s \in db["scenario"]
    <3>1. \E x \in db["scenario_revision"] : x.key[1] = s.id
      BY <1>1, <2>1 DEF References, Numbers
    <3> QED
      BY <1>2, <3>1
  <2>2. CASE s \in tx[p]["scenario"]
    BY <1>1, <1>2, <2>2 DEF KnowsRevision
  <2> QED
    BY <1>1, <2>1, <2>2
<1>4. \A x \in db'["scenario_revision"] : Filed(x, db')
  BY <1>1, <1>2 DEF References, InNumber, Filed
<1>5. RunRow(p) \in db'["scenario_run"] /\ RunRow(p).snapshot = known[p].snapshot
      /\ RunRow(p).manifest = known[p].manifest
  BY <1>1, <1>2 DEF KnowsRun, RunRow
<1>6. ASSUME NEW s \in db'["input_snapshot"]
      PROVE  Hashed(s, db') /\ \E r \in db'["scenario_run"] : r.snapshot = s.id
  <2>1. CASE s \in db["input_snapshot"]
    BY <1>1, <1>2, <2>1 DEF References, Hashed
  <2>2. CASE s \in tx[p]["input_snapshot"]
    <3>1. s.id = known[p].snapshot /\ s.key = Snapshot(p) /\ s.revision = known[p].revision
      BY <1>1, <2>2 DEF KnowsSnapshot
    <3>2. Hashed(s, db')
      BY <1>1, <3>1 DEF KnowsRevision, Hashed
    <3> QED
      BY <1>5, <3>1, <3>2
  <2> QED
    BY <1>1, <2>1, <2>2
<1>7. ASSUME NEW r \in db'["scenario_run"]
      PROVE  /\ \E s \in db'["input_snapshot"] : s.id = r.snapshot
             /\ \E m \in db'["engine_manifest"] : m.id = r.manifest
  <2>1. CASE r \in db["scenario_run"]
    BY <1>1, <1>2, <2>1 DEF References
  <2>2. CASE r = RunRow(p)
    BY <1>1, <1>5, <2>2 DEF KnowsSnapshot, KnowsManifest
  <2> QED
    BY <1>1, <2>1, <2>2 DEF KnowsRun
<1> QED
  BY <1>3, <1>4, <1>6, <1>7 DEF References

\* Keys are unique in the tables as well.
LEMMA CommittedUnique ==
    ASSUME RowsHold, NEW p \in Processes, Commits(p)
    PROVE  \A t \in Keyed : \A x, y \in db'[t] : x.key = y.key => x = y
<1>1. \A t \in Tables : db'[t] = db[t] \cup tx[p][t]
  BY AtCommit
<1>2. \A t \in Keyed : db'[t] \subseteq Held(t)
  BY <1>1 DEF Held, Keyed
<1> QED
  BY <1>2 DEF RowsHold, KeysUnique

\* Under the write lock there is one revision for a hash, and the rows of a run
\* are located in the revision of its snapshot.
LEMMA CommitOneByOne ==
    ASSUME RowsHold, NEW p \in Processes, Commits(p) PROVE OneByOne'
<1>1. /\ \A t \in Tables : db'[t] = db[t] \cup tx[p][t]
      /\ InNumber(p) /\ KnowsRevision(p) /\ KnowsSnapshot(p) /\ KnowsRun(p)
      /\ Own(p) /\ Whole(db) /\ Whole(tx[p])
      /\ at[p] \in PastRevision /\ at[p] \in PastSnapshot /\ at[p] \in PastRun
      /\ References
  BY AtCommit DEF Writer, Written, Stored, Knows
<1>2. OneWriter' <=> OneWriter
  BY DEF OneWriter, Commits
<1> SUFFICES ASSUME OneWriter
             PROVE  /\ \A x, y \in db'["scenario_revision"] : x.hash = y.hash => x = y
                    /\ \A x \in db'["scenario_revision"] :
                          \E s \in db'["input_snapshot"] : s.revision = x.id
                    /\ \A x \in db'["typed"] : \E y \in db'["run_result"] :
                          /\ y.id = x.key
                          /\ \A s \in db'["input_snapshot"], r \in db'["scenario_run"] :
                                r.key = y.run /\ s.id = r.snapshot => Located(x, db', s.revision)
  BY <1>2 DEF OneByOne
<1> USE DEF Tables
<1>3. /\ \A x, y \in db["scenario_revision"] : x.hash = y.hash => x = y
      /\ \A x \in db["scenario_revision"] : \E s \in db["input_snapshot"] : s.revision = x.id
      /\ \A x \in db["typed"] : \E y \in db["run_result"] :
            /\ y.id = x.key
            /\ \A s \in db["input_snapshot"], r \in db["scenario_run"] :
                  r.key = y.run /\ s.id = r.snapshot => Located(x, db, s.revision)
  BY AtCommit DEF Stored, OneByOne
<1>4. \A t \in Tables : db[t] \subseteq db'[t] /\ tx[p][t] \subseteq db'[t]
  BY <1>1
<1>5. View(p) = db'
  BY DEF Commits
<1>6. PICK own \in db'["input_snapshot"] :
           own.id = known[p].snapshot /\ own.revision = known[p].revision
  BY <1>1, <1>5 DEF KnowsSnapshot
<1>7. \A x, y \in db'["scenario_revision"] : x.hash = y.hash => x = y
  BY <1>1, <1>3 DEF InNumber, Own, Identified
<1>8. \A x \in db'["scenario_revision"] : \E s \in db'["input_snapshot"] : s.revision = x.id
  BY <1>1, <1>3, <1>4, <1>6 DEF KnowsRevision
<1>9. /\ \A s, z \in db'["input_snapshot"] : s.id = z.id => s = z
      /\ \A r, z \in db'["scenario_run"] : r.key = z.key => r = z
  <2>1. "input_snapshot" \in Identified /\ "scenario_run" \in Keyed
    BY DEF Identified, Keyed
  <2> QED
    BY <2>1, CommitIds, CommittedUnique DEF IdsUnique
<1>10. \A x, rev : Located(x, db, rev) => Located(x, db', rev)
  BY <1>4 DEF Located
<1>11. ASSUME NEW x \in db'["typed"]
       PROVE  \E y \in db'["run_result"] :
                  /\ y.id = x.key
                  /\ \A s \in db'["input_snapshot"], r \in db'["scenario_run"] :
                        r.key = y.run /\ s.id = r.snapshot => Located(x, db', s.revision)
  <2>1. CASE x \in db["typed"]
    <3>1. PICK y \in db["run_result"] :
              /\ y.id = x.key
              /\ \A s \in db["input_snapshot"], r \in db["scenario_run"] :
                    r.key = y.run /\ s.id = r.snapshot => Located(x, db, s.revision)
      BY <1>3, <2>1
    <3>2. Exists(db, y.run)
      BY <1>1 DEF Whole
    <3>3. ASSUME NEW s \in db'["input_snapshot"], NEW r \in db'["scenario_run"],
                 r.key = y.run, s.id = r.snapshot
          PROVE  Located(x, db', s.revision)
      <4>1. r \in db["scenario_run"]
        BY <1>4, <1>9, <3>2, <3>3 DEF Exists
      <4>2. s \in db["input_snapshot"]
        <5>1. \E z \in db["input_snapshot"] : z.id = r.snapshot
          BY <1>1, <4>1 DEF References
        <5> QED
          BY <1>4, <1>9, <3>3, <5>1
      <4> QED
        BY <1>10, <3>1, <3>3, <4>1, <4>2
    <3> QED
      BY <1>4, <3>1, <3>3
  <2>2. CASE x \in tx[p]["typed"]
    <3>1. PICK y \in tx[p]["run_result"] : y.id = x.key
      BY <1>1, <2>2 DEF Whole
    <3>2. Exists(tx[p], y.run)
      BY <1>1 DEF Whole
    <3>3. y.run = RunRow(p).key /\ RunRow(p) \in db'["scenario_run"]
      BY <1>1, <1>4, <3>2 DEF Exists, KnowsRun
    <3>4. Located(x, db', known[p].revision)
      BY <1>1, <1>5, <2>2 DEF KnowsRun
    <3>5. ASSUME NEW s \in db'["input_snapshot"], NEW r \in db'["scenario_run"],
                 r.key = y.run, s.id = r.snapshot
          PROVE  Located(x, db', s.revision)
      <4>1. r = RunRow(p)
        BY <1>9, <3>3, <3>5
      <4>2. s = own
        BY <1>6, <1>9, <3>5, <4>1 DEF RunRow
      <4> QED
        BY <1>6, <3>4, <4>2
    <3> QED
      BY <1>4, <3>1, <3>5
  <2> QED
    BY <1>1, <2>1, <2>2
<1> QED
  BY <1>7, <1>8, <1>11

\* The committed tables, all together.
LEMMA CommitStored ==
    ASSUME RowsHold, NEW p \in Processes, Commits(p) PROVE Stored'
<1>1. /\ \A t \in Tables : db'[t] = db[t] \cup tx[p][t]
      /\ Whole(db) /\ Whole(tx[p]) /\ Named(db) /\ Named(tx[p])
  BY AtCommit DEF Writer, Written, Stored
<1>2. \A x \in db["scenario_revision"], y \in tx[p]["scenario_revision"] : x.id # y.id
  BY CommitIds DEF Identified
<1>3. Whole(db') /\ Named(db')
  BY <1>1, <1>2, WholeUnion, NamedUnion
<1> QED
  BY <1>3, CommitIds, CommitGapless, CommitReferences, CommitOneByOne DEF Stored

-----------------------------------------------------------------------------
(***************************************************************************)
(* A statement of p.                                                       *)
(***************************************************************************)

\* What a statement changes.
LEMMA WriteFacts ==
    ASSUME RowsHold, NEW p \in Processes, NEW new, NEW learnt, NEW next,
           Write(p, new, learnt, next)
    PROVE  /\ Only(p) /\ db' = db /\ tier' = tier /\ lock' = lock /\ task' = task /\ at'[p] = next
           /\ known'[p] = Joined(learnt, known[p])
           /\ \A t \in Tables :
                  tx'[p][t] = IF t \in DOMAIN new THEN tx[p][t] \cup new[t] ELSE tx[p][t]
           /\ Connections' /\ TableShape'
           /\ \A t \in Tables : View(p)'[t] = db[t] \cup tx'[p][t]
           /\ \A t \in Tables : View(p)[t] = db[t] \cup tx[p][t]
           /\ \A t \in Tables : View(p)[t] \subseteq View(p)'[t]
<1>1. Connections /\ TableShape
  BY DEF RowsHold
<1>2. Only(p) /\ at'[p] = next /\ task' = task /\ known'[p] = Joined(learnt, known[p])
  BY <1>1, WriteEffect
<1>3. \A t \in Tables : tx'[p][t] = IF t \in DOMAIN new THEN tx[p][t] \cup new[t] ELSE tx[p][t]
  BY <1>1, WriteEffect, Zenon
<1>4. db' = db /\ tier' = tier /\ lock' = lock
  BY DEF Write
<1>5. Connections'
  BY <1>1, <1>2 DEF Connections, Only, Others
<1>6. DOMAIN tx'[p] = Tables
  BY <1>1 DEF Write, Connections, Added
<1>7. TableShape'
  BY <1>1, <1>2, <1>4, <1>6, OthersStay DEF TableShape
<1>8. \A t \in Tables : View(p)'[t] = db[t] \cup tx'[p][t]
  BY <1>4, <1>6 DEF View, Added
<1>9. \A t \in Tables : View(p)[t] = db[t] \cup tx[p][t]
  BY <1>1, ViewIs
<1>10. \A t \in Tables : tx[p][t] \subseteq tx'[p][t]
  BY <1>3
<1>11. \A t \in Tables : View(p)[t] \subseteq View(p)'[t]
  BY <1>8, <1>9, <1>10
<1> QED
  BY <1>2, <1>3, <1>4, <1>5, <1>7, <1>8, <1>9, <1>11

\* The rows it adds.
LEMMA WriteAdds ==
    ASSUME RowsHold, NEW p \in Processes, NEW new, NEW learnt, NEW next,
           Write(p, new, learnt, next)
    PROVE  \A t \in Tables :
               tx'[p][t] = IF t \in DOMAIN new THEN tx[p][t] \cup new[t] ELSE tx[p][t]
BY WriteFacts, Zenon

\* A statement that only remembers leaves the rows.
LEMMA LearnFacts ==
    ASSUME RowsHold, NEW p \in Processes, NEW learnt, NEW next, Learn(p, learnt, next)
    PROVE  /\ Write(p, <<>>, learnt, next)
           /\ Only(p) /\ db' = db /\ tier' = tier /\ task' = task /\ at'[p] = next
           /\ known'[p] = Joined(learnt, known[p])
           /\ \A t \in Tables : tx'[p][t] = tx[p][t]
           /\ \A t \in Tables : View(p)[t] = db[t] \cup tx[p][t]
           /\ \A t \in Tables : View(p)'[t] = View(p)[t]
<1>1. Write(p, <<>>, learnt, next)
  BY DEF Learn
<1>2. /\ Only(p) /\ db' = db /\ tier' = tier /\ task' = task /\ at'[p] = next
      /\ known'[p] = Joined(learnt, known[p])
      /\ \A t \in Tables : View(p)'[t] = db[t] \cup tx'[p][t]
      /\ \A t \in Tables : View(p)[t] = db[t] \cup tx[p][t]
  BY <1>1, WriteFacts
<1>3. \A t \in Tables : tx'[p][t] = IF t \in DOMAIN <<>> THEN tx[p][t] \cup <<>>[t] ELSE tx[p][t]
  BY <1>1, WriteAdds, Zenon
<1>4. \A t \in Tables : tx'[p][t] = tx[p][t]
  BY <1>3
<1> QED
  BY <1>1, <1>2, <1>4

\* What is learnt replaces what was known.
LEMMA JoinedField ==
    ASSUME NEW f, NEW g, NEW x
    PROVE  /\ x \in DOMAIN f => x \in DOMAIN Joined(f, g) /\ Joined(f, g)[x] = f[x]
           /\ x \notin DOMAIN f /\ x \in DOMAIN g =>
                 x \in DOMAIN Joined(f, g) /\ Joined(f, g)[x] = g[x]
BY DEF Joined

\* Keys that no other row has.
NewKeys(new) ==
    \A t \in Keyed \cap DOMAIN new :
        /\ \A x \in new[t], y \in Held(t) : x.key # y.key
        /\ \A x, y \in new[t] : x.key = y.key => x = y

\* Keys stay unique.
LEMMA NewKeysUnique ==
    ASSUME RowsHold, NEW p \in Processes, NEW new, NEW learnt, NEW next,
           Write(p, new, learnt, next), NewKeys(new)
    PROVE  KeysUnique'
<1>1. /\ Only(p) /\ db' = db
      /\ \A t \in Tables : tx'[p][t] = IF t \in DOMAIN new THEN tx[p][t] \cup new[t] ELSE tx[p][t]
  BY WriteFacts
<1> SUFFICES ASSUME NEW t \in Keyed, NEW x \in Held(t)', NEW y \in Held(t)', x.key = y.key
             PROVE  x = y
  BY DEF KeysUnique
<1>2. t \in Tables
  BY DEF Keyed
<1>3. \A z \in Held(t)' : z \in Held(t) \/ (t \in DOMAIN new /\ z \in new[t])
  <2> TAKE z \in Held(t)'
  <2>1. CASE z \in db[t]
    BY <2>1 DEF Held
  <2>2. ASSUME NEW q \in Processes, z \in tx'[q][t]
        PROVE  z \in Held(t) \/ (t \in DOMAIN new /\ z \in new[t])
    <3>1. CASE q = p
      BY <1>1, <1>2, <2>2, <3>1 DEF Held
    <3>2. CASE q # p
      BY <1>1, <2>2, <3>2, OthersStay DEF Held
    <3> QED
      BY <3>1, <3>2
  <2> QED
    BY <1>1, <2>1, <2>2 DEF Held
<1> QED
  BY <1>3 DEF RowsHold, KeysUnique, NewKeys

\* A statement keeps the invariant when p's own transaction does.
LEMMA WriteKeeps ==
    ASSUME RowsHold, NEW p \in Processes, NEW new, NEW learnt, NEW next,
           Write(p, new, learnt, next), at[p] \in Entered, at[p] = "begin" => ~OneWriter,
           next \in Adding, NewKeys(new),
           Own(p)', Taken(p)', Whole(tx'[p]), Named(tx'[p]), InNumber(p)', Knows(p)'
    PROVE  RowsHold'
<1>1. /\ Only(p) /\ db' = db /\ tier' = tier /\ lock' = lock /\ task' = task /\ at'[p] = next
      /\ Connections' /\ TableShape'
  BY WriteFacts
<1>2. KeysUnique'
  BY NewKeysUnique
<1>3. Stored'
  <2>1. Stored /\ db' = db /\ (OneWriter' <=> OneWriter)
    BY <1>1 DEF RowsHold, OneWriter
  <2>2. Whole(db)' /\ Named(db)' /\ IdsUnique' /\ Gapless'
    BY <2>1 DEF Stored, IdsUnique, Gapless, Numbers
  <2>3. References' /\ OneByOne'
    BY <2>1 DEF Stored, References, OneByOne, Numbers
  <2> QED
    BY <2>2, <2>3 DEF Stored
<1>4. \A q \in Processes \ {p} : Writer(q)'
  BY <1>1, WriterStays DEF RowsHold, KeepsLock
<1>5. Writer(p)
  BY DEF RowsHold
<1>6. Given(p)' /\ Locked(p)' /\ Fresh(p)' /\ Empty(p)'
  BY <1>1, <1>5 DEF Writer, Given, Locked, Fresh, Empty, OneWriter, Entered
<1>7. Writer(p)'
  BY <1>6 DEF Writer, Written
<1> QED
  BY <1>1, <1>2, <1>3, <1>4, <1>7 DEF RowsHold

\* Rows that are the same.
LEMMA SameRows ==
    ASSUME NEW t, NEW u, Whole(t), Named(t), \A k \in Tables : u[k] = t[k]
    PROVE  Whole(u) /\ Named(u)
<1> USE DEF Tables
<1>1. \A id : Exists(u, id) <=> Exists(t, id)
  BY DEF Exists
<1>2. Whole(u)
  BY <1>1 DEF Whole, OfRevision
<1>3. \A id : /\ Names(u, "scenario_station", id) = Names(t, "scenario_station", id)
             /\ Names(u, "scenario_payload", id) = Names(t, "scenario_payload", id)
  BY DEF Names
<1> QED
  BY <1>2, <1>3 DEF Named

\* A statement that writes nothing.
LEMMA LearnKeeps ==
    ASSUME RowsHold, NEW p \in Processes, NEW learnt, NEW next, Learn(p, learnt, next),
           at[p] \in Entered, at[p] = "begin" => ~OneWriter,
           Forward(p, <<>>, next), Knows(p)'
    PROVE  RowsHold'
<1>1. Write(p, <<>>, learnt, next)
  BY LearnFacts
<1>2. /\ db' = db /\ task' = task /\ tier' = tier
      /\ \A t \in Tables : tx'[p][t] = tx[p][t]
      /\ \A t \in Tables : View(p)'[t] = View(p)[t]
  BY LearnFacts
<1>3. TableShape /\ Writer(p) /\ Connections
  BY DEF RowsHold
<1> USE DEF Tables
<1>4. NewKeys(<<>>)
  BY DEF NewKeys
<1>5. Own(p)'
  BY <1>2, <1>3 DEF Writer, Written, Own, Identified
<1>6. Whole(tx'[p]) /\ Named(tx'[p])
  BY <1>2, <1>3, SameRows DEF Writer, Written
<1>7. InNumber(p)'
  <2>1. \A x : Filed(x, View(p)) => Filed(x, View(p)')
    BY <1>2 DEF Filed
  <2>2. InNumber(p) /\ (OneWriter' <=> OneWriter)
        /\ tx'[p]["scenario_revision"] = tx[p]["scenario_revision"]
    BY <1>2, <1>3 DEF Writer, OneWriter
  <2> QED
    BY <1>2, <2>1, <2>2 DEF InNumber
<1>8. Taken(p)'
  BY <1>1, <1>3, ForwardTaken DEF Writer, Written
<1>9. next \in Adding
  BY DEF Forward
<1> QED
  BY <1>1, <1>4, <1>5, <1>6, <1>7, <1>8, <1>9, WriteKeeps

-----------------------------------------------------------------------------
(***************************************************************************)
(* A statement of p that writes rows.                                      *)
(***************************************************************************)

\* The rows of one statement, as tables.
Alone(new) == Added(NoRows, new)

\* Identifiers of its own, in tables it has not written yet.
OwnRows(p, new) ==
    \A t \in Identified \cap DOMAIN new :
        /\ tx[p][t] = {}
        /\ \A x \in new[t] :
              /\ x.id[1] = p /\ x.id[2] = task[p].id
              /\ \A y \in new[t] : x = y

\* What a row is inserted with.
LEMMA AloneRows ==
    ASSUME NEW new
    PROVE  \A t \in Tables : Alone(new)[t] = IF t \in DOMAIN new THEN new[t] ELSE {}
BY DEF Alone, Added, NoRows

\* A statement that writes new rows keeps the invariant.
LEMMA InsertKeeps ==
    ASSUME RowsHold, NEW p \in Processes, NEW new, NEW learnt, NEW next,
           Write(p, new, learnt, next), at[p] \in Entered, at[p] = "begin" => ~OneWriter,
           Forward(p, new, next), NewKeys(new), OwnRows(p, new),
           Whole(Alone(new)), Named(Alone(new)), InNumber(p)', Knows(p)'
    PROVE  RowsHold'
<1>1. /\ task' = task
      /\ \A t \in Tables : tx'[p][t] = IF t \in DOMAIN new THEN tx[p][t] \cup new[t] ELSE tx[p][t]
  BY WriteFacts, Zenon
<1>2. Connections /\ Own(p) /\ Taken(p) /\ Whole(tx[p]) /\ Named(tx[p])
  BY DEF RowsHold, Writer, Written
<1>3. \A t \in Tables : tx'[p][t] = tx[p][t] \cup Alone(new)[t]
  BY <1>1, AloneRows
<1>4. Own(p)'
  <2> SUFFICES ASSUME NEW t \in Identified, NEW x \in tx'[p][t]
               PROVE  /\ x.id[1] = p /\ x.id[2] = task[p].id
                      /\ \A y \in tx'[p][t] : x = y
    BY <1>1 DEF Own
  <2>1. t \in Tables
    BY DEF Identified, Tables
  <2>2. CASE t \in DOMAIN new
    BY <1>1, <2>1, <2>2 DEF OwnRows
  <2>3. CASE t \notin DOMAIN new
    BY <1>1, <1>2, <2>1, <2>3 DEF Own
  <2> QED
    BY <2>2, <2>3
<1>5. Taken(p)'
  BY <1>2, ForwardTaken
<1>6. Whole(tx'[p])
  BY <1>2, <1>3, WholeUnion
<1>7. Named(tx'[p])
  <2>1. \A x \in tx[p]["scenario_revision"], y \in Alone(new)["scenario_revision"] : x.id # y.id
    BY AloneRows DEF OwnRows, Identified, Tables
  <2> QED
    BY <1>2, <1>3, <2>1, NamedUnion
<1>8. next \in Adding
  BY DEF Forward
<1> QED
  BY <1>4, <1>5, <1>6, <1>7, <1>8, WriteKeeps

\* The number of its revision stays.
LEMMA CarryNumber ==
    ASSUME RowsHold, NEW p \in Processes, NEW new, NEW learnt, NEW next,
           Write(p, new, learnt, next), "scenario_revision" \notin DOMAIN new
    PROVE  InNumber(p)'
<1>1. /\ db' = db /\ tier' = tier
      /\ \A t \in Tables : tx'[p][t] = IF t \in DOMAIN new THEN tx[p][t] \cup new[t] ELSE tx[p][t]
      /\ \A t \in Tables : View(p)[t] \subseteq View(p)'[t]
  BY WriteFacts, Zenon
<1>2. "scenario_revision" \in Tables /\ "scenario" \in Tables
  BY DEF Tables
<1>3. tx'[p]["scenario_revision"] = tx[p]["scenario_revision"]
  BY <1>1, <1>2
<1>4. \A x : Filed(x, View(p)) => Filed(x, View(p)')
  BY <1>1, <1>2 DEF Filed
<1>5. InNumber(p) /\ (OneWriter' <=> OneWriter)
  BY <1>1 DEF RowsHold, Writer, OneWriter
<1> QED
  BY <1>1, <1>3, <1>4, <1>5 DEF InNumber

\* Nor does it forget its revision.
LEMMA CarryRevision ==
    ASSUME RowsHold, NEW p \in Processes, NEW new, NEW learnt, NEW next,
           Write(p, new, learnt, next), at[p] \in PastRevision,
           "scenario_revision" \notin DOMAIN new, "scenario" \notin DOMAIN new,
           {"revision", "stations", "payloads"} \cap DOMAIN learnt = {}
    PROVE  KnowsRevision(p)'
<1>1. /\ task' = task /\ known'[p] = Joined(learnt, known[p])
      /\ \A t \in Tables : tx'[p][t] = IF t \in DOMAIN new THEN tx[p][t] \cup new[t] ELSE tx[p][t]
      /\ \A t \in Tables : View(p)[t] \subseteq View(p)'[t]
  BY WriteFacts, Zenon
<1> USE DEF Tables
<1>2. /\ tx'[p]["scenario_revision"] = tx[p]["scenario_revision"]
      /\ tx'[p]["scenario"] = tx[p]["scenario"]
  BY <1>1
<1>3. KnowsRevision(p)
  BY DEF RowsHold, Writer, Knows
<1>4. /\ {"revision", "stations", "payloads"} \subseteq DOMAIN known'[p]
      /\ known'[p].revision = known[p].revision
      /\ known'[p].stations = known[p].stations
      /\ known'[p].payloads = known[p].payloads
  BY <1>1, <1>3, JoinedField DEF KnowsRevision
<1>5. Snapshot(p)' = Snapshot(p)
  BY <1>1 DEF Snapshot
<1>6. /\ Mapped(View(p)'["scenario_station"], known[p].stations, known[p].revision)
      /\ Mapped(View(p)'["scenario_payload"], known[p].payloads, known[p].revision)
  BY <1>1, <1>3, MappedGrows DEF KnowsRevision
<1> QED
  BY <1>1, <1>2, <1>3, <1>4, <1>5, <1>6 DEF KnowsRevision

\* Nor its snapshot.
LEMMA CarrySnapshot ==
    ASSUME RowsHold, NEW p \in Processes, NEW new, NEW learnt, NEW next,
           Write(p, new, learnt, next), at[p] \in PastSnapshot,
           "input_snapshot" \notin DOMAIN new, {"revision", "snapshot"} \cap DOMAIN learnt = {}
    PROVE  KnowsSnapshot(p)'
<1>1. /\ task' = task /\ tier' = tier /\ known'[p] = Joined(learnt, known[p])
      /\ \A t \in Tables : tx'[p][t] = IF t \in DOMAIN new THEN tx[p][t] \cup new[t] ELSE tx[p][t]
      /\ \A t \in Tables : View(p)[t] \subseteq View(p)'[t]
  BY WriteFacts, Zenon
<1>2. "input_snapshot" \in Tables
  BY DEF Tables
<1>3. KnowsSnapshot(p) /\ KnowsRevision(p) /\ at[p] \in PastRevision
  BY DEF RowsHold, Writer, Knows, PastRevision
<1>4. /\ "snapshot" \in DOMAIN known'[p]
      /\ known'[p].revision = known[p].revision /\ known'[p].snapshot = known[p].snapshot
  BY <1>1, <1>3, JoinedField DEF KnowsRevision, KnowsSnapshot
<1>5. Snapshot(p)' = Snapshot(p) /\ (OneWriter' <=> OneWriter)
      /\ tx'[p]["input_snapshot"] = tx[p]["input_snapshot"]
  BY <1>1, <1>2 DEF Snapshot, OneWriter
<1> QED
  BY <1>1, <1>2, <1>3, <1>4, <1>5 DEF KnowsSnapshot

\* Nor its manifest.
LEMMA CarryManifest ==
    ASSUME RowsHold, NEW p \in Processes, NEW new, NEW learnt, NEW next,
           Write(p, new, learnt, next), at[p] \in PastManifest, "manifest" \notin DOMAIN learnt
    PROVE  KnowsManifest(p)'
<1>1. /\ known'[p] = Joined(learnt, known[p])
      /\ \A t \in Tables : View(p)[t] \subseteq View(p)'[t]
  BY WriteFacts, Zenon
<1>2. "engine_manifest" \in Tables
  BY DEF Tables
<1>3. KnowsManifest(p)
  BY DEF RowsHold, Writer, Knows
<1>4. "manifest" \in DOMAIN known'[p] /\ known'[p].manifest = known[p].manifest
  BY <1>1, <1>3, JoinedField DEF KnowsManifest
<1> QED
  BY <1>1, <1>2, <1>3, <1>4 DEF KnowsManifest

-----------------------------------------------------------------------------
(***************************************************************************)
(* Keys that no row has.                                                   *)
(***************************************************************************)

\* An insert that PostgreSQL lets through is of a new key.
LEMMA InsertFree ==
    ASSUME tier = "postgresql", NEW p \in Processes, CanInsert(p), NEW t, NEW k,
           Wanted(p) = <<t, k>>, \A x \in tx[p][t] : x.key # k
    PROVE  \A y \in Held(t) : y.key # k
<1>1. \A x \in db[t] : x.key # k
  BY DEF CanInsert, Committed
<1>2. \A q \in Processes \ {p} : \A x \in tx[q][t] : x.key # k
  BY DEF CanInsert, WaitsFor
<1> QED
  BY <1>1, <1>2 DEF Held

\* Under the write lock what is held is what is committed and p's own.
LEMMA SoleWriter ==
    ASSUME RowsHold, OneWriter, NEW p \in Processes, at[p] \in Adding \cup {"scenario"},
           NEW t \in Tables
    PROVE  Held(t) = db[t] \cup tx[p][t]
<1>1. \A q \in Processes \ {p} : tx[q][t] = {}
  BY LockExcludes DEF NoRows
<1> QED
  BY <1>1 DEF Held

\* No row belongs to a revision that is not written yet.
LEMMA RevisionFree ==
    ASSUME RowsHold, NEW p \in Processes, at[p] \in Entered, tx[p]["scenario_revision"] = {},
           NEW u \in OfRevision, NEW y \in Held(u)
    PROVE  y.key[1] # New(p, "revision")
<1>1. "scenario_revision" \in Identified
  BY DEF Identified
<1>2. /\ Fresh(p) /\ Whole(db)
      /\ \A q \in Processes : Own(q) /\ Whole(tx[q])
  BY DEF RowsHold, Writer, Written, Stored
<1>3. New(p, "revision")[1] = p /\ New(p, "revision")[2] = task[p].id
  BY DEF New
<1>4. CASE y \in db[u]
  <2>1. PICK x \in db["scenario_revision"] : x.id = y.key[1]
    BY <1>2, <1>4 DEF Whole
  <2> QED
    BY <1>1, <1>2, <1>3, <2>1 DEF Fresh
<1>5. ASSUME NEW q \in Processes, y \in tx[q][u] PROVE y.key[1] # New(p, "revision")
  <2>1. PICK x \in tx[q]["scenario_revision"] : x.id = y.key[1]
    BY <1>2, <1>5 DEF Whole
  <2>2. q # p
    BY <2>1
  <2> QED
    BY <1>1, <1>2, <1>3, <2>1, <2>2 DEF Own
<1> QED
  BY <1>4, <1>5 DEF Held

\* Nor to a run that is not.
LEMMA RunFree ==
    ASSUME RowsHold, NEW id, \A y \in Held("scenario_run") : y.key # id
    PROVE  /\ \A y \in Held("run_stage") : y.key[1] # id
           /\ \A y \in Held("run_result") : y.key[1] # id
           /\ \A y \in Held("typed") : y.key[2] # id
           /\ \A y \in Held("run_result_document") : y.key # id
<1>1. Whole(db) /\ \A q \in Processes : Whole(tx[q])
  BY DEF RowsHold, Writer, Written, Stored
<1>2. ~Exists(db, id) /\ \A q \in Processes : ~Exists(tx[q], id)
  BY DEF Held, Exists
<1>3. \A y \in Held("run_stage") : y.key[1] # id
  BY <1>1, <1>2 DEF Held, Whole
<1>4. \A y \in Held("run_result") : y.key[1] # id
  BY <1>1, <1>2 DEF Held, Whole
<1>5. \A y \in Held("typed") : y.key[2] # id
  BY <1>1, <1>2 DEF Held, Whole
<1>6. \A y \in Held("run_result_document") : y.key # id
  BY <1>1, <1>2 DEF Held, Whole
<1> QED
  BY <1>3, <1>4, <1>5, <1>6

\* One more than there are is the next number of a scenario.
LEMMA RevisionCount ==
    ASSUME RowsHold, NEW id, NEW S, S = {x \in db["scenario_revision"] : x.key[1] = id}
    PROVE  Cardinality(S) \in Nat /\ Numbers(db, id) = 1 .. Cardinality(S)
<1>1. Numbers(db, id) = {x.key[2] : x \in S}
  BY DEF Numbers
<1>2. \A x, y \in S : x.key[2] = y.key[2] => x = y
  <2> SUFFICES ASSUME NEW x \in S, NEW y \in S, x.key[2] = y.key[2] PROVE x = y
    OBVIOUS
  <2>1. x.key = <<x.key[1], x.key[2]>> /\ y.key = <<y.key[1], y.key[2]>>
    BY DEF RowsHold, Stored, References, Filed
  <2>2. x.key = y.key
    BY <2>1
  <2>3. x \in Held("scenario_revision") /\ y \in Held("scenario_revision")
    BY DEF Held
  <2>4. "scenario_revision" \in Keyed
    BY DEF Keyed, Tables
  <2> QED
    BY <2>2, <2>3, <2>4 DEF RowsHold, KeysUnique
<1>3. CASE S = {}
  <2>1. Numbers(db, id) = {} /\ Cardinality(S) = 0
    BY <1>1, <1>3, FS_EmptySet
  <2>2. 1 .. 0 = {} /\ 0 \in Nat
    OBVIOUS
  <2> QED
    BY <2>1, <2>2, Zenon
<1>4. CASE S # {}
  <2>1. PICK n \in Nat : Numbers(db, id) = 1 .. n
    BY <1>4 DEF RowsHold, Stored, Gapless
  <2>2. PICK row : row = [k \in 1 .. n |-> CHOOSE x \in S : x.key[2] = k]
    OBVIOUS
  <2>3. \A k \in 1 .. n : row[k] \in S /\ row[k].key[2] = k
    <3> TAKE k \in 1 .. n
    <3>1. \E x \in S : x.key[2] = k
      BY <1>1, <2>1
    <3>2. row[k] = CHOOSE x \in S : x.key[2] = k
      BY <2>2
    <3> QED
      BY <3>1, <3>2
  <2>4. row \in Bijection(1 .. n, S)
    <3>1. row \in [1 .. n -> S]
      BY <2>2, <2>3
    <3>2. \A j, k \in 1 .. n : row[j] = row[k] => j = k
      BY <2>3
    <3>3. \A x \in S : \E k \in 1 .. n : row[k] = x
      BY <1>1, <1>2, <2>1, <2>3
    <3> QED
      BY <3>1, <3>2, <3>3 DEF Bijection, Injection, Surjection, IsInjective
  <2>5. IsFiniteSet(1 .. n) /\ Cardinality(1 .. n) = n
    BY FS_Interval
  <2>6. Cardinality(S) = n
    <3>1. ExistsBijection(1 .. n, S)
      BY <2>4 DEF ExistsBijection
    <3> QED
      BY <2>5, <3>1, FS_Bijection
  <2> QED
    BY <2>1, <2>6
<1> QED
  BY <1>3, <1>4

-----------------------------------------------------------------------------
(***************************************************************************)
(* A revision.                                                             *)
(***************************************************************************)

\* The next revision of a scenario, with a hash that is new under the lock.
NextRevision(p, row) ==
    /\ row.id = New(p, "revision") /\ row.hash = RevisionHash(Snapshot(p))
    /\ row.key = <<row.key[1], row.key[2]>> /\ row.key[2] \in Nat \ {0}
    /\ Numbers(db, row.key[1]) = 1 .. (row.key[2] - 1)
    /\ \A y \in Held("scenario_revision") : y.key # row.key
    /\ OneWriter => \A y \in db["scenario_revision"] : y.hash # row.hash

\* The head it is filed under is there, or new as well.
HeadWritten(p, new, row) ==
    /\ \E s \in View(p)["scenario"] \cup Alone(new)["scenario"] :
          s.id = row.key[1] /\ s.key = Snapshot(p).fixture
    /\ \A s \in tx[p]["scenario"] \cup Alone(new)["scenario"] : s.id = row.key[1]
    /\ "scenario" \in DOMAIN new =>
          /\ tx[p]["scenario"] = {}
          /\ \A s \in new["scenario"] :
                /\ s.id = New(p, "scenario")
                /\ \A y \in Held("scenario") : y.key # s.key
                /\ \A z \in new["scenario"] : s = z

\* Rows of the revision, one for each of these keys.
RowsOf(set, row, keys) ==
    /\ \A x \in set : x.key = <<row.id, x.name>> /\ \A y \in set : x.key = y.key => x = y
    /\ {x.name : x \in set} = keys

\* What is learnt of them.
RevisionLearnt(p, new, learnt, row) ==
    /\ DOMAIN learnt = {"revision", "stations", "payloads"}
    /\ learnt.revision = row.id
    /\ DOMAIN learnt.stations = DOMAIN Snapshot(p).stations
    /\ DOMAIN learnt.payloads = DOMAIN Snapshot(p).payloads
    /\ \A k \in DOMAIN learnt.stations :
          \E x \in new["scenario_station"] : x.id = learnt.stations[k] /\ x.name = k
    /\ \A k \in DOMAIN learnt.payloads :
          \E x \in new["scenario_payload"] : x.id = learnt.payloads[k] /\ x.name = k

\* The tables that are written with it.
RevisionRows(p, new, row) ==
    /\ {"scenario_revision", "scenario_station", "scenario_payload"} \subseteq DOMAIN new
    /\ DOMAIN new \subseteq {"scenario", "scenario_revision", "scenario_station",
                             "communication_revision", "scenario_payload", "payload_dependency"}
    /\ new["scenario_revision"] = {row}
    /\ RowsOf(new["scenario_station"], row, DOMAIN Snapshot(p).stations)
    /\ RowsOf(new["scenario_payload"], row, DOMAIN Snapshot(p).payloads)
    /\ Labelled(new["scenario_station"], "station") /\ Labelled(new["scenario_payload"], "payload")
    /\ "communication_revision" \in DOMAIN new =>
          \A x, y \in new["communication_revision"] :
              x.key[1] = row.id /\ (x.key = y.key => x = y)

\* What the hash of a revision says of its stations and payloads.
LEMMA HashNames ==
    \A s : /\ RevisionHash(s)[1] = s.fixture
           /\ RevisionHash(s)[4] = DOMAIN s.stations /\ RevisionHash(s)[5] = DOMAIN s.payloads
BY DEF RevisionHash

\* The tables of a revision's rows belong together.
LEMMA RevisionWhole ==
    ASSUME NEW p, NEW new, NEW row, RevisionRows(p, new, row), row.hash = RevisionHash(Snapshot(p))
    PROVE  Whole(Alone(new)) /\ Named(Alone(new))
<1> USE DEF Tables
<1>1. \A t \in Tables : Alone(new)[t] = IF t \in DOMAIN new THEN new[t] ELSE {}
  BY AloneRows
<1>2. /\ Alone(new)["scenario_revision"] = {row}
      /\ Alone(new)["scenario_station"] = new["scenario_station"]
      /\ Alone(new)["scenario_payload"] = new["scenario_payload"]
  BY <1>1 DEF RevisionRows
<1>3. /\ Alone(new)["profile_revision"] = {} /\ Alone(new)["run_stage"] = {}
      /\ Alone(new)["run_result"] = {} /\ Alone(new)["typed"] = {}
      /\ Alone(new)["run_result_document"] = {}
  BY <1>1 DEF RevisionRows
<1>4. \A x \in Alone(new)["communication_revision"] : x.key[1] = row.id
  BY <1>1 DEF RevisionRows
<1>5. \A x \in new["scenario_station"] \cup new["scenario_payload"] :
          x.key = <<row.id, x.name>> /\ x.key[1] = row.id
  BY DEF RevisionRows, RowsOf
<1>6. Whole(Alone(new))
  BY <1>2, <1>3, <1>4, <1>5 DEF Whole, OfRevision, RevisionRows
<1>7. /\ Names(Alone(new), "scenario_station", row.id) = DOMAIN Snapshot(p).stations
      /\ Names(Alone(new), "scenario_payload", row.id) = DOMAIN Snapshot(p).payloads
  <2>1. /\ {z \in new["scenario_station"] : z.key[1] = row.id} = new["scenario_station"]
        /\ {z \in new["scenario_payload"] : z.key[1] = row.id} = new["scenario_payload"]
    BY <1>5
  <2> QED
    BY <1>2, <2>1 DEF Names, RevisionRows, RowsOf
<1>8. Named(Alone(new))
  BY <1>2, <1>7, HashNames DEF Named
<1> QED
  BY <1>6, <1>8

\* Their keys are new.
LEMMA RevisionKeysNew ==
    ASSUME RowsHold, NEW p \in Processes, at[p] \in Entered, tx[p]["scenario_revision"] = {},
           NEW new, NEW row, RevisionRows(p, new, row), NextRevision(p, row),
           HeadWritten(p, new, row)
    PROVE  NewKeys(new)
<1> SUFFICES ASSUME NEW t \in Keyed \cap DOMAIN new
             PROVE  /\ \A x \in new[t], y \in Held(t) : x.key # y.key
                    /\ \A x, y \in new[t] : x.key = y.key => x = y
  BY DEF NewKeys
<1>1. CASE t = "scenario"
  BY <1>1 DEF HeadWritten
<1>2. CASE t = "scenario_revision"
  BY <1>2 DEF RevisionRows, NextRevision
<1>3. CASE t \in OfRevision
  <2>1. \A x \in new[t] : x.key[1] = row.id
    BY <1>3 DEF RevisionRows, RowsOf, OfRevision
  <2>2. \A x, y \in new[t] : x.key = y.key => x = y
    BY <1>3 DEF RevisionRows, RowsOf, OfRevision
  <2>3. \A y \in Held(t) : y.key[1] # row.id
    BY <1>3, RevisionFree DEF NextRevision
  <2> QED
    BY <2>1, <2>2, <2>3
<1> QED
  BY <1>1, <1>2, <1>3 DEF RevisionRows, OfRevision, Keyed

\* A revision is written with everything that belongs to it.
LEMMA RevisionKeeps ==
    ASSUME RowsHold, NEW p \in Processes, NEW new, NEW learnt, NEW row,
           Write(p, new, learnt, "snapshot"), at[p] \in {"insert_revision", "scenario"},
           RevisionRows(p, new, row), NextRevision(p, row), HeadWritten(p, new, row),
           RevisionLearnt(p, new, learnt, row)
    PROVE  RowsHold'
<1>1. /\ db' = db /\ tier' = tier /\ task' = task /\ at'[p] = "snapshot"
      /\ known'[p] = Joined(learnt, known[p])
      /\ \A t \in Tables : tx'[p][t] = IF t \in DOMAIN new THEN tx[p][t] \cup new[t] ELSE tx[p][t]
      /\ \A t \in Tables : View(p)'[t] = db[t] \cup tx'[p][t]
      /\ \A t \in Tables : View(p)[t] = db[t] \cup tx[p][t]
  <2>1. db' = db /\ tier' = tier /\ task' = task /\ at'[p] = "snapshot"
    BY WriteFacts
  <2>2. known'[p] = Joined(learnt, known[p])
    BY WriteFacts
  <2>3. \A t \in Tables : tx'[p][t] = IF t \in DOMAIN new THEN tx[p][t] \cup new[t] ELSE tx[p][t]
    BY WriteAdds, Zenon
  <2>4. \A t \in Tables : View(p)'[t] = db[t] \cup tx'[p][t]
    BY WriteFacts
  <2>5. \A t \in Tables : View(p)[t] = db[t] \cup tx[p][t]
    BY WriteFacts
  <2> QED
    BY <2>1, <2>2, <2>3, <2>4, <2>5, Zenon
<1>2. \A t \in Tables : Alone(new)[t] = IF t \in DOMAIN new THEN new[t] ELSE {}
  BY AloneRows
<1> USE DEF Tables
<1>3. Taken(p) /\ at[p] \in Entered /\ at[p] \notin PastRevision /\ at[p] # "begin"
      /\ at[p] \notin PastSnapshot /\ at[p] \notin PastManifest /\ at[p] \notin PastRun
  BY AddingStages DEF RowsHold, Writer, Written, Entered, PastRevision, PastSnapshot, PastManifest,
     PastRun, Stages
<1>4. tx[p]["scenario_revision"] = {} /\ tx[p]["input_snapshot"] = {}
  BY <1>3 DEF Taken
<1>5. Forward(p, new, "snapshot")
  BY <1>3, AddingStages DEF Forward, RevisionRows, PastScenario, PastRevision, Stages
<1>6. NewKeys(new)
  BY <1>3, <1>4, RevisionKeysNew
<1>7. Whole(Alone(new)) /\ Named(Alone(new))
  BY RevisionWhole DEF NextRevision
<1>8. OwnRows(p, new)
  <2>1. \A k : New(p, k)[1] = p /\ New(p, k)[2] = task[p].id
    BY DEF New
  <2>2. Identified \cap DOMAIN new \subseteq {"scenario", "scenario_revision"}
    BY DEF Identified, RevisionRows
  <2>3. /\ new["scenario_revision"] = {row} /\ row.id = New(p, "revision")
        /\ "scenario" \in DOMAIN new => tx[p]["scenario"] = {}
            /\ \A s \in new["scenario"] :
                  s.id = New(p, "scenario") /\ \A z \in new["scenario"] : s = z
    BY DEF RevisionRows, NextRevision, HeadWritten
  <2> QED
    BY <1>4, <2>1, <2>2, <2>3 DEF OwnRows
<1>9. /\ tx'[p]["scenario_revision"] = {row}
      /\ tx'[p]["scenario"] = tx[p]["scenario"] \cup Alone(new)["scenario"]
      /\ View(p)'["scenario"] = View(p)["scenario"] \cup Alone(new)["scenario"]
      /\ row \in View(p)'["scenario_revision"]
      /\ new["scenario_station"] \subseteq View(p)'["scenario_station"]
      /\ new["scenario_payload"] \subseteq View(p)'["scenario_payload"]
  BY <1>1, <1>2, <1>4 DEF RevisionRows
<1>10. Snapshot(p)' = Snapshot(p) /\ (OneWriter' <=> OneWriter)
  BY <1>1 DEF Snapshot, OneWriter
<1>11. InNumber(p)'
  <2>1. Filed(row, View(p)')
    BY <1>9, HashNames DEF Filed, NextRevision, HeadWritten
  <2> QED
    BY <1>1, <1>9, <1>10, <2>1 DEF InNumber, NextRevision, Numbers
<1>12. /\ {"revision", "stations", "payloads"} \subseteq DOMAIN known'[p]
       /\ known'[p].revision = row.id
       /\ known'[p].stations = learnt.stations /\ known'[p].payloads = learnt.payloads
  BY <1>1, JoinedField DEF RevisionLearnt
<1>13. /\ Mapped(View(p)'["scenario_station"], learnt.stations, row.id)
       /\ Mapped(View(p)'["scenario_payload"], learnt.payloads, row.id)
  <2>1. \A x \in new["scenario_station"] \cup new["scenario_payload"] : x.key = <<row.id, x.name>>
    BY DEF RevisionRows, RowsOf
  <2> QED
    BY <1>9, <2>1 DEF Mapped, RevisionLearnt
<1>14. KnowsRevision(p)'
  <2>1. \A s \in tx'[p]["scenario"] : row.key[1] = s.id
    BY <1>9 DEF HeadWritten
  <2> QED
    BY <1>9, <1>10, <1>12, <1>13, <2>1 DEF KnowsRevision, NextRevision, RevisionLearnt
<1>15. Knows(p)'
  BY <1>1, <1>14 DEF Knows, Missing, KnowsScenario, KnowsNumber, KnowsSnapshot, KnowsManifest,
     KnowsRun, PastSnapshot, PastManifest, PastRun
<1> QED
  BY <1>3, <1>5, <1>6, <1>7, <1>8, <1>11, <1>15, InsertKeeps

\* A committed revision of the hash is taken, with its stations and payloads.
LEMMA FoundKeeps ==
    ASSUME RowsHold, NEW p \in Processes, at[p] \in {"revision", "scenario"},
           tx[p]["scenario"] = {}, NEW x \in db["scenario_revision"],
           x.hash = RevisionHash(Snapshot(p)), NEW stations, NEW payloads,
           Learn(p, [revision |-> x.id, stations |-> stations, payloads |-> payloads], "snapshot"),
           DOMAIN stations = Names(db, "scenario_station", x.id),
           DOMAIN payloads = Names(db, "scenario_payload", x.id),
           Mapped(db["scenario_station"], stations, x.id),
           Mapped(db["scenario_payload"], payloads, x.id)
    PROVE  RowsHold'
<1> DEFINE learnt == [revision |-> x.id, stations |-> stations, payloads |-> payloads]
<1>1. Learn(p, learnt, "snapshot")
  OBVIOUS
<1>2. /\ DOMAIN learnt = {"revision", "stations", "payloads"}
      /\ learnt.revision = x.id /\ learnt.stations = stations /\ learnt.payloads = payloads
  OBVIOUS
<1> HIDE DEF learnt
<1>3. db' = db /\ task' = task /\ at'[p] = "snapshot" /\ known'[p] = Joined(learnt, known[p])
  BY <1>1, LearnFacts
<1>4. \A t \in Tables : tx'[p][t] = tx[p][t]
  BY <1>1, LearnFacts
<1>5. \A t \in Tables : View(p)'[t] = db[t] \cup tx'[p][t]
  BY <1>1, <1>4, LearnFacts
<1> USE DEF Tables
<1>6. Taken(p) /\ Named(db) /\ at[p] \in Entered /\ at[p] \notin PastRevision /\ at[p] # "begin"
      /\ at[p] \notin PastSnapshot /\ at[p] \notin PastManifest /\ at[p] \notin PastRun
  BY AddingStages DEF RowsHold, Writer, Written, Stored, Entered, PastRevision, PastSnapshot,
     PastManifest, PastRun, Stages
<1>7. Forward(p, <<>>, "snapshot")
  BY <1>6, AddingStages DEF Forward, PastScenario, PastRevision, Stages
<1>8. tx'[p]["scenario_revision"] = {} /\ tx'[p]["scenario"] = {}
  BY <1>4, <1>6 DEF Taken
<1>9. /\ {"revision", "stations", "payloads"} \subseteq DOMAIN known'[p]
      /\ known'[p].revision = x.id
      /\ known'[p].stations = stations /\ known'[p].payloads = payloads
  BY <1>2, <1>3, JoinedField
<1>10. Snapshot(p)' = Snapshot(p)
  BY <1>3 DEF Snapshot
<1>11. /\ DOMAIN stations = DOMAIN Snapshot(p).stations
       /\ DOMAIN payloads = DOMAIN Snapshot(p).payloads
  <2>1. /\ Names(db, "scenario_station", x.id) = x.hash[4]
        /\ Names(db, "scenario_payload", x.id) = x.hash[5]
    BY <1>6 DEF Named
  <2> QED
    BY <2>1, HashNames
<1>12. /\ Mapped(View(p)'["scenario_station"], stations, x.id)
       /\ Mapped(View(p)'["scenario_payload"], payloads, x.id)
  BY <1>5, MappedGrows
<1>13. x \in View(p)'["scenario_revision"]
  BY <1>5
<1>14. KnowsRevision(p)'
  BY <1>8, <1>9, <1>10, <1>11, <1>12, <1>13 DEF KnowsRevision
<1>15. Knows(p)'
  BY <1>3, <1>14 DEF Knows, Missing, KnowsScenario, KnowsNumber, KnowsSnapshot, KnowsManifest,
     KnowsRun, PastSnapshot, PastManifest, PastRun
<1> QED
  BY <1>1, <1>6, <1>7, <1>15, LearnKeeps

-----------------------------------------------------------------------------
(***************************************************************************)
(* A snapshot and a manifest.                                              *)
(***************************************************************************)

\* A committed snapshot of this input is taken: under the lock it is of the
\* revision the process has found or written.
LEMMA SnapshotFound ==
    ASSUME RowsHold, NEW p \in Processes, at[p] = "snapshot", NEW s \in db["input_snapshot"],
           s.key = Snapshot(p), Learn(p, [snapshot |-> s.id], "manifest")
    PROVE  RowsHold'
<1> DEFINE learnt == [snapshot |-> s.id]
<1>1. Learn(p, learnt, "manifest")
  OBVIOUS
<1>2. DOMAIN learnt = {"snapshot"} /\ learnt.snapshot = s.id /\ DOMAIN <<>> = {}
  OBVIOUS
<1> HIDE DEF learnt
<1>3. tier' = tier /\ db' = db /\ task' = task /\ at'[p] = "manifest"
      /\ known'[p] = Joined(learnt, known[p])
  BY <1>1, LearnFacts
<1>4. \A t \in Tables : tx'[p][t] = tx[p][t]
  BY <1>1, LearnFacts
<1>5. /\ \A t \in Tables : View(p)'[t] = db[t] \cup tx'[p][t]
      /\ \A t \in Tables : View(p)[t] = db[t] \cup tx[p][t]
      /\ Write(p, <<>>, learnt, "manifest")
  BY <1>1, <1>4, LearnFacts
<1> USE DEF Tables
<1>6. /\ Taken(p) /\ InNumber(p) /\ KnowsRevision(p) /\ References /\ OneByOne
      /\ at[p] \in Entered /\ at[p] \in PastRevision /\ at[p] # "begin"
      /\ at[p] \notin PastSnapshot /\ at[p] \notin PastManifest /\ at[p] \notin PastRun
  BY AddingStages DEF RowsHold, Writer, Written, Stored, Knows, Entered, PastRevision, PastSnapshot,
     PastManifest, PastRun, Stages
<1>7. Forward(p, <<>>, "manifest")
  BY <1>6, AddingStages DEF Forward, PastScenario, PastRevision, PastSnapshot, Stages
<1>8. KnowsRevision(p)'
  BY <1>2, <1>5, <1>6, CarryRevision
<1>9. "snapshot" \in DOMAIN known'[p] /\ known'[p].snapshot = s.id
      /\ known'[p].revision = known[p].revision
  BY <1>2, <1>3, <1>6, JoinedField DEF KnowsRevision
<1>10. OneWriter => s.revision = known[p].revision
  <2> SUFFICES ASSUME OneWriter PROVE s.revision = known[p].revision
    OBVIOUS
  <2>1. PICK x \in db["scenario_revision"] :
            x.id = s.revision /\ x.hash = RevisionHash(Snapshot(p))
    BY <1>6 DEF References, Hashed
  <2>2. PICK y \in View(p)["scenario_revision"] :
            y.id = known[p].revision /\ y.hash = RevisionHash(Snapshot(p))
    BY <1>6 DEF KnowsRevision
  <2>3. y \in db["scenario_revision"]
    BY <1>5, <1>6, <2>1, <2>2 DEF InNumber
  <2> QED
    BY <1>6, <2>1, <2>2, <2>3 DEF OneByOne
<1>11. tx'[p]["input_snapshot"] = {} /\ s \in View(p)'["input_snapshot"]
  BY <1>4, <1>5, <1>6 DEF Taken
<1>12. (OneWriter' <=> OneWriter) /\ Snapshot(p)' = Snapshot(p)
  BY <1>3 DEF OneWriter, Snapshot
<1>13. KnowsSnapshot(p)'
  BY <1>9, <1>10, <1>11, <1>12 DEF KnowsSnapshot
<1>14. Knows(p)'
  BY <1>3, <1>8, <1>13 DEF Knows, Missing, KnowsScenario, KnowsNumber, KnowsManifest,
     KnowsRun, PastManifest, PastRun
<1> QED
  BY <1>1, <1>6, <1>7, <1>14, LearnKeeps

\* Rows of a table that nothing in a transaction refers to.
LEMMA LooseWhole ==
    ASSUME NEW new,
           DOMAIN new \subseteq {"profile", "scenario", "input_snapshot", "engine_manifest"}
    PROVE  Whole(Alone(new)) /\ Named(Alone(new))
<1> USE DEF Tables
<1>1. \A t \in Tables : Alone(new)[t] = IF t \in DOMAIN new THEN new[t] ELSE {}
  BY AloneRows
<1>2. \A t \in OfRevision \cup {"profile_revision", "scenario_revision", "run_stage",
                                "run_result", "typed", "run_result_document"} :
         Alone(new)[t] = {}
  BY <1>1 DEF OfRevision
<1> QED
  BY <1>2 DEF Whole, Labelled, Named, OfRevision

\* A new snapshot, under the revision of the process.
LEMMA SnapshotInserted ==
    ASSUME RowsHold, NEW p \in Processes, at[p] \in {"snapshot", "insert_snapshot"}, NEW row,
           row.id = New(p, "snapshot"), row.key = Snapshot(p), row.revision = known[p].revision,
           \A y \in Held("input_snapshot") : y.key # row.key,
           Write(p, [input_snapshot |-> {row}], [snapshot |-> row.id], "manifest")
    PROVE  RowsHold'
<1> DEFINE new == [input_snapshot |-> {row}]
           learnt == [snapshot |-> row.id]
<1>1. Write(p, new, learnt, "manifest")
  OBVIOUS
<1>2. /\ DOMAIN learnt = {"snapshot"} /\ learnt.snapshot = row.id
      /\ DOMAIN new = {"input_snapshot"} /\ new["input_snapshot"] = {row}
  OBVIOUS
<1> HIDE DEF new, learnt
<1>3. /\ tier' = tier /\ task' = task /\ at'[p] = "manifest"
      /\ known'[p] = Joined(learnt, known[p])
      /\ \A t \in Tables : View(p)'[t] = db[t] \cup tx'[p][t]
  BY <1>1, WriteFacts
<1>4. \A t \in Tables : tx'[p][t] = IF t \in DOMAIN new THEN tx[p][t] \cup new[t] ELSE tx[p][t]
  BY <1>1, WriteAdds, Zenon
<1> USE DEF Tables
<1>5. /\ Taken(p) /\ KnowsRevision(p)
      /\ at[p] \in Entered /\ at[p] \in PastRevision /\ at[p] # "begin"
      /\ at[p] \notin PastSnapshot /\ at[p] \notin PastManifest /\ at[p] \notin PastRun
  BY AddingStages DEF RowsHold, Writer, Written, Knows, Entered, PastRevision, PastSnapshot,
     PastManifest, PastRun, Stages
<1>6. Forward(p, new, "manifest")
  BY <1>2, <1>5, AddingStages DEF Forward, PastScenario, PastRevision, PastSnapshot, Stages
<1>7. NewKeys(new)
  BY <1>2 DEF NewKeys
<1>8. tx[p]["input_snapshot"] = {} /\ tx'[p]["input_snapshot"] = {row}
  BY <1>2, <1>4, <1>5 DEF Taken
<1>9. OwnRows(p, new)
  BY <1>2, <1>8 DEF OwnRows, New
<1>10. Whole(Alone(new)) /\ Named(Alone(new))
  BY <1>2, LooseWhole
<1>11. InNumber(p)' /\ KnowsRevision(p)'
  BY <1>1, <1>2, <1>5, CarryNumber, CarryRevision
<1>12. /\ "snapshot" \in DOMAIN known'[p] /\ known'[p].snapshot = row.id
       /\ known'[p].revision = known[p].revision /\ Snapshot(p)' = Snapshot(p)
       /\ row \in View(p)'["input_snapshot"]
  BY <1>2, <1>3, <1>5, <1>8, JoinedField DEF KnowsRevision, Snapshot
<1>13. KnowsSnapshot(p)'
  BY <1>8, <1>12 DEF KnowsSnapshot
<1>14. Knows(p)'
  BY <1>3, <1>11, <1>13 DEF Knows, Missing, KnowsScenario, KnowsNumber, KnowsManifest,
     KnowsRun, PastManifest, PastRun
<1> QED
  BY <1>1, <1>5, <1>6, <1>7, <1>9, <1>10, <1>11, <1>14, InsertKeeps

\* A manifest that is there.
LEMMA ManifestFound ==
    ASSUME RowsHold, NEW p \in Processes, at[p] = "manifest", NEW m \in View(p)["engine_manifest"],
           Learn(p, [manifest |-> m.id], "run")
    PROVE  RowsHold'
<1> DEFINE learnt == [manifest |-> m.id]
<1>1. Learn(p, learnt, "run")
  OBVIOUS
<1>2. DOMAIN learnt = {"manifest"} /\ learnt.manifest = m.id /\ DOMAIN <<>> = {}
  OBVIOUS
<1> HIDE DEF learnt
<1>3. /\ at'[p] = "run" /\ known'[p] = Joined(learnt, known[p]) /\ Write(p, <<>>, learnt, "run")
      /\ \A t \in Tables : View(p)'[t] = View(p)[t]
  BY <1>1, LearnFacts
<1>4. /\ at[p] \in Entered /\ at[p] \in PastRevision /\ at[p] \in PastSnapshot /\ at[p] # "begin"
      /\ at[p] \notin PastManifest /\ at[p] \notin PastRun
  BY AddingStages DEF Entered, PastRevision, PastSnapshot, PastManifest, PastRun, Stages
<1>5. Forward(p, <<>>, "run")
  BY <1>2, <1>4, AddingStages DEF Forward, PastScenario, PastRevision, PastSnapshot, PastManifest,
     Stages
<1>6. KnowsRevision(p)' /\ KnowsSnapshot(p)'
  BY <1>2, <1>3, <1>4, CarryRevision, CarrySnapshot
<1>7. KnowsManifest(p)'
  <2>1. "engine_manifest" \in Tables
    BY DEF Tables
  <2> QED
    BY <1>2, <1>3, <2>1, JoinedField DEF KnowsManifest
<1>8. Knows(p)'
  BY <1>3, <1>6, <1>7 DEF Knows, Missing, KnowsScenario, KnowsNumber, KnowsRun, PastRun
<1> QED
  BY <1>1, <1>4, <1>5, <1>8, LearnKeeps

\* A new manifest.
LEMMA ManifestInserted ==
    ASSUME RowsHold, NEW p \in Processes, at[p] \in {"manifest", "insert_manifest"}, NEW row,
           \A y \in Held("engine_manifest") : y.key # row.key,
           Write(p, [engine_manifest |-> {row}], [manifest |-> row.id], "run")
    PROVE  RowsHold'
<1> DEFINE new == [engine_manifest |-> {row}]
           learnt == [manifest |-> row.id]
<1>1. Write(p, new, learnt, "run")
  OBVIOUS
<1>2. /\ DOMAIN learnt = {"manifest"} /\ learnt.manifest = row.id
      /\ DOMAIN new = {"engine_manifest"} /\ new["engine_manifest"] = {row}
  OBVIOUS
<1> HIDE DEF new, learnt
<1>3. /\ at'[p] = "run" /\ known'[p] = Joined(learnt, known[p])
      /\ \A t \in Tables : View(p)'[t] = db[t] \cup tx'[p][t]
  BY <1>1, WriteFacts
<1>4. \A t \in Tables : tx'[p][t] = IF t \in DOMAIN new THEN tx[p][t] \cup new[t] ELSE tx[p][t]
  BY <1>1, WriteAdds, Zenon
<1>5. /\ at[p] \in Entered /\ at[p] \in PastRevision /\ at[p] \in PastSnapshot /\ at[p] # "begin"
      /\ at[p] \notin PastManifest /\ at[p] \notin PastRun
  BY AddingStages DEF Entered, PastRevision, PastSnapshot, PastManifest, PastRun, Stages
<1>6. Forward(p, new, "run")
  BY <1>2, <1>5, AddingStages DEF Forward, PastScenario, PastRevision, PastSnapshot, PastManifest,
     Stages
<1>7. NewKeys(new)
  BY <1>2 DEF NewKeys
<1>8. OwnRows(p, new)
  BY <1>2 DEF OwnRows, Identified
<1>9. Whole(Alone(new)) /\ Named(Alone(new))
  BY <1>2, LooseWhole
<1>10. InNumber(p)' /\ KnowsRevision(p)' /\ KnowsSnapshot(p)'
  BY <1>1, <1>2, <1>5, CarryNumber, CarryRevision, CarrySnapshot
<1>11. KnowsManifest(p)'
  <2>1. row \in View(p)'["engine_manifest"]
    BY <1>2, <1>3, <1>4 DEF Tables
  <2> QED
    BY <1>2, <1>3, <2>1, JoinedField DEF KnowsManifest
<1>12. Knows(p)'
  BY <1>3, <1>10, <1>11 DEF Knows, Missing, KnowsScenario, KnowsNumber, KnowsRun, PastRun
<1> QED
  BY <1>1, <1>5, <1>6, <1>7, <1>8, <1>9, <1>10, <1>12, InsertKeeps

-----------------------------------------------------------------------------
(***************************************************************************)
(* The run.                                                                *)
(***************************************************************************)

\* The rows of the run, its stages and its result.
RowsOfRun(p, new) ==
    /\ {"run_result", "typed", "scenario_run", "run_stage"} \subseteq DOMAIN new
    /\ DOMAIN new \subseteq {"run_result", "typed", "scenario_run", "run_stage",
                             "run_result_document"}
    /\ new["run_result"] = StoredIdentities(p, task[p].result)
    /\ new["typed"] = StoredTyped(p, task[p].result)
    /\ new["scenario_run"] = {RunRow(p)}
    /\ new["run_stage"] = StageRows(p)
    /\ "run_result_document" \in DOMAIN new =>
          \A x, y \in new["run_result_document"] : x.key = task[p].id /\ x = y

\* Statements that are not refused are of a run with keys of its own, whose
\* result the revision can resolve.
LEMMA Unrefused ==
    ASSUME NEW p, Refusals(p) = {}
    PROVE  /\ KeysDiffer(task[p])
           /\ Resolvable(task[p].result, known[p].stations, known[p].payloads)
<1>1. \A x : {x} # {}
  OBVIOUS
<1> QED
  BY <1>1, Zenon DEF Refusals

\* The identifiers of result rows.
LEMMA TypedRow ==
    ASSUME NEW p, NEW r, Resolvable(r, known[p].stations, known[p].payloads),
           NEW y \in StoredTyped(p, r)
    PROVE  \E x \in TypedRows(r) :
               /\ y.key = New(p, x.key) /\ x.key \in {z.key : z \in IdentityRows(r)}
               /\ y.station = Lookup(known[p].stations, x.station)
               /\ y.payload = Lookup(known[p].payloads, x.payload)
               /\ y = [key |-> IdsOf(p, r)[x.key], table |-> x.table,
                       parent |-> Lookup(IdsOf(p, r), x.parent),
                       station |-> Lookup(known[p].stations, x.station),
                       payload |-> Lookup(known[p].payloads, x.payload), body |-> x.body]
<1>1. PICK x \in TypedRows(r) :
          y = [key |-> IdsOf(p, r)[x.key], table |-> x.table,
               parent |-> Lookup(IdsOf(p, r), x.parent),
               station |-> Lookup(known[p].stations, x.station),
               payload |-> Lookup(known[p].payloads, x.payload), body |-> x.body]
  BY DEF StoredTyped
<1>2. x.key \in {z.key : z \in IdentityRows(r)}
  BY DEF Resolvable
<1>3. IdsOf(p, r)[x.key] = New(p, x.key)
  BY <1>2 DEF IdsOf
<1>4. /\ y.key = IdsOf(p, r)[x.key]
      /\ y.station = Lookup(known[p].stations, x.station)
      /\ y.payload = Lookup(known[p].payloads, x.payload)
  BY <1>1
<1> QED
  BY <1>1, <1>2, <1>3, <1>4

\* Their keys are new.
LEMMA RunKeysNew ==
    ASSUME RowsHold, NEW p \in Processes, NEW new, RowsOfRun(p, new), Refusals(p) = {},
           \A y \in Held("scenario_run") : y.key # task[p].id
    PROVE  NewKeys(new)
<1> DEFINE id == task[p].id
           r == task[p].result
<1>1. KeysDiffer(task[p]) /\ Resolvable(r, known[p].stations, known[p].payloads)
  BY Unrefused
<1>2. /\ \A y \in Held("run_stage") : y.key[1] # id
      /\ \A y \in Held("run_result") : y.key[1] # id
      /\ \A y \in Held("typed") : y.key[2] # id
      /\ \A y \in Held("run_result_document") : y.key # id
  BY RunFree
<1> HIDE DEF id, r
<1>3. /\ \A x \in new["run_stage"], y \in Held("run_stage") : x.key # y.key
      /\ \A x, y \in new["run_stage"] : x.key = y.key => x = y
  <2>1. ASSUME NEW x \in new["run_stage"]
        PROVE  \E z \in Elements(task[p].stages) :
                   /\ x.key = <<id, z.code>>
                   /\ x = [key |-> <<id, z.code>>, ordinal |-> z.ordinal, status |-> z.status,
                           count |-> z.count]
    BY DEF RowsOfRun, StageRows, id
  <2>2. \A x, y \in Elements(task[p].stages) : x.code = y.code => x = y
    BY <1>1 DEF KeysDiffer, Elements
  <2>3. \A x \in new["run_stage"] : x.key[1] = id
    BY <2>1
  <2>4. ASSUME NEW x \in new["run_stage"], NEW y \in new["run_stage"], x.key = y.key PROVE x = y
    BY <2>1, <2>2, <2>4
  <2> QED
    BY <1>2, <2>3, <2>4
<1>4. /\ \A x \in new["run_result"], y \in Held("run_result") : x.key # y.key
      /\ \A x, y \in new["run_result"] : x.key = y.key => x = y
  <2>1. ASSUME NEW x \in new["run_result"]
        PROVE  \E z \in IdentityRows(r) :
                   /\ x.key = <<id, z.key>>
                   /\ x = [id |-> New(p, z.key), run |-> id, key |-> <<id, z.key>>,
                           kind |-> z.kind, status |-> z.status, grade |-> z.grade]
    BY DEF RowsOfRun, StoredIdentities, id, r
  <2>2. \A x, y \in IdentityRows(r) : x.key = y.key => x = y
    BY <1>1 DEF KeysDiffer, r
  <2>3. \A x \in new["run_result"] : x.key[1] = id
    BY <2>1
  <2>4. ASSUME NEW x \in new["run_result"], NEW y \in new["run_result"], x.key = y.key PROVE x = y
    BY <2>1, <2>2, <2>4
  <2> QED
    BY <1>2, <2>3, <2>4
<1>5. /\ \A x \in new["typed"], y \in Held("typed") : x.key # y.key
      /\ \A x, y \in new["typed"] : x.key = y.key => x = y
  <2>1. new["typed"] = StoredTyped(p, r)
    BY DEF RowsOfRun, r
  <2>2. \A x, y \in TypedRows(r) : x.key = y.key => x = y
    BY <1>1 DEF KeysDiffer, r
  <2>3. \A k : New(p, k) = <<p, id, k>>
    BY DEF New, id
  <2>4. \A x \in new["typed"] : x.key[2] = id
    BY <1>1, <2>1, <2>3, TypedRow
  <2>5. ASSUME NEW x \in new["typed"], NEW y \in new["typed"], x.key = y.key PROVE x = y
    <3>1. PICK v \in TypedRows(r) :
              /\ x.key = New(p, v.key)
              /\ x = [key |-> IdsOf(p, r)[v.key], table |-> v.table,
                      parent |-> Lookup(IdsOf(p, r), v.parent),
                      station |-> Lookup(known[p].stations, v.station),
                      payload |-> Lookup(known[p].payloads, v.payload), body |-> v.body]
      BY <1>1, <2>1, TypedRow
    <3>2. PICK w \in TypedRows(r) :
              /\ y.key = New(p, w.key)
              /\ y = [key |-> IdsOf(p, r)[w.key], table |-> w.table,
                      parent |-> Lookup(IdsOf(p, r), w.parent),
                      station |-> Lookup(known[p].stations, w.station),
                      payload |-> Lookup(known[p].payloads, w.payload), body |-> w.body]
      BY <1>1, <2>1, TypedRow
    <3>3. v.key = w.key
      <4>1. x.key = New(p, v.key) /\ y.key = New(p, w.key)
        BY <3>1, <3>2
      <4>2. <<p, id, v.key>> = <<p, id, w.key>>
        BY <2>3, <2>5, <4>1, Zenon
      <4> QED
        BY <4>2
    <3>4. v = w
      BY <2>2, <3>3
    <3> QED
      BY <3>1, <3>2, <3>4
  <2> QED
    BY <1>2, <2>4, <2>5
<1>6. /\ \A x \in new["scenario_run"], y \in Held("scenario_run") : x.key # y.key
      /\ \A x, y \in new["scenario_run"] : x.key = y.key => x = y
  BY DEF RowsOfRun, RunRow
<1>7. "run_result_document" \in DOMAIN new =>
          /\ \A x \in new["run_result_document"], y \in Held("run_result_document") : x.key # y.key
          /\ \A x, y \in new["run_result_document"] : x.key = y.key => x = y
  BY <1>2 DEF RowsOfRun, id
<1> QED
  BY <1>3, <1>4, <1>5, <1>6, <1>7 DEF NewKeys, RowsOfRun

\* They belong together.
LEMMA RunWhole ==
    ASSUME NEW p, NEW new, RowsOfRun(p, new), Refusals(p) = {}
    PROVE  Whole(Alone(new)) /\ Named(Alone(new))
<1> USE DEF Tables
<1> DEFINE id == task[p].id
           r == task[p].result
<1>1. Resolvable(r, known[p].stations, known[p].payloads)
  BY Unrefused
<1>2. \A t \in Tables : Alone(new)[t] = IF t \in DOMAIN new THEN new[t] ELSE {}
  BY AloneRows
<1>3. /\ Alone(new)["run_result"] = StoredIdentities(p, r)
      /\ Alone(new)["typed"] = StoredTyped(p, r)
      /\ Alone(new)["scenario_run"] = {RunRow(p)}
      /\ Alone(new)["run_stage"] = StageRows(p)
      /\ \A x \in Alone(new)["run_result_document"] : x.key = id
      /\ \A t \in OfRevision \cup {"profile_revision", "scenario_revision"} : Alone(new)[t] = {}
  BY <1>2 DEF RowsOfRun, OfRevision
<1>4. Exists(Alone(new), id)
  BY <1>3 DEF Exists, RunRow
<1>5. \A k : New(p, k) = <<p, id, k>>
  BY DEF New
<1> HIDE DEF id, r
<1>6. \A x \in StageRows(p) : x.key[1] = id
  BY DEF StageRows, id
<1>7. \A x \in StoredIdentities(p, r) : x.key[1] = id /\ x.run = id
  BY DEF StoredIdentities, id
<1>8. ASSUME NEW x \in StoredTyped(p, r)
      PROVE  x.key[2] = id /\ \E y \in StoredIdentities(p, r) : y.id = x.key
  <2>1. PICK k \in {z.key : z \in IdentityRows(r)} : x.key = New(p, k)
    <3>1. PICK v \in TypedRows(r) :
              x.key = New(p, v.key) /\ v.key \in {z.key : z \in IdentityRows(r)}
      BY <1>1, TypedRow
    <3> QED
      BY <3>1
  <2>2. PICK z \in IdentityRows(r) : z.key = k
    OBVIOUS
  <2>3. \E y \in StoredIdentities(p, r) : y.id = New(p, z.key)
    <3> DEFINE y == [id |-> New(p, z.key), run |-> task[p].id, key |-> <<task[p].id, z.key>>,
                     kind |-> z.kind, status |-> z.status, grade |-> z.grade]
    <3>1. y \in StoredIdentities(p, r)
      BY Zenon DEF StoredIdentities
    <3>2. y.id = New(p, z.key)
      OBVIOUS
    <3> QED
      BY <3>1, <3>2
  <2> QED
    BY <1>5, <2>1, <2>2, <2>3
<1> QED
  BY <1>3, <1>4, <1>6, <1>7, <1>8 DEF Whole, Labelled, Named, OfRevision

\* Stations and payloads of its rows are those of the revision.
LEMMA RunLocated ==
    ASSUME RowsHold, NEW p \in Processes, at[p] \in PastRevision,
           Resolvable(task[p].result, known[p].stations, known[p].payloads),
           NEW x \in StoredTyped(p, task[p].result)
    PROVE  Located(x, View(p), known[p].revision)
<1>1. PICK v \in TypedRows(task[p].result) :
          /\ x.station = Lookup(known[p].stations, v.station)
          /\ x.payload = Lookup(known[p].payloads, v.payload)
  BY TypedRow
<1>2. /\ Mapped(View(p)["scenario_station"], known[p].stations, known[p].revision)
      /\ Mapped(View(p)["scenario_payload"], known[p].payloads, known[p].revision)
  BY DEF RowsHold, Writer, Knows, KnowsRevision
<1>3. x.station # None => v.station \in DOMAIN known[p].stations
                          /\ x.station = known[p].stations[v.station]
  BY <1>1 DEF Lookup
<1>4. x.payload # None => v.payload \in DOMAIN known[p].payloads
                          /\ x.payload = known[p].payloads[v.payload]
  BY <1>1 DEF Lookup
<1>5. x.station # None => \E z \in View(p)["scenario_station"] :
          z.id = x.station /\ z.key[1] = known[p].revision
  BY <1>2, <1>3, MappedRow
<1>6. x.payload # None => \E z \in View(p)["scenario_payload"] :
          z.id = x.payload /\ z.key[1] = known[p].revision
  BY <1>2, <1>4, MappedRow
<1> QED
  BY <1>5, <1>6 DEF Located

\* The run is written with everything that belongs to it.
LEMMA RunInserted ==
    ASSUME RowsHold, NEW p \in Processes, at[p] = "run", NEW new, RowsOfRun(p, new),
           Refusals(p) = {}, \A y \in Held("scenario_run") : y.key # task[p].id,
           Write(p, new, <<>>, "commit")
    PROVE  RowsHold'
<1>1. /\ task' = task /\ at'[p] = "commit" /\ known'[p] = Joined(<<>>, known[p])
      /\ \A t \in Tables : View(p)[t] \subseteq View(p)'[t]
  BY WriteFacts
<1>2. \A t \in Tables : tx'[p][t] = IF t \in DOMAIN new THEN tx[p][t] \cup new[t] ELSE tx[p][t]
  BY WriteAdds, Zenon
<1>3. DOMAIN <<>> = {}
  OBVIOUS
<1>4. /\ Taken(p) /\ KnowsRevision(p) /\ KnowsSnapshot(p) /\ KnowsManifest(p) /\ Whole(tx[p])
      /\ at[p] \in Entered /\ at[p] \in PastRevision /\ at[p] \in PastSnapshot
      /\ at[p] \in PastManifest /\ at[p] # "begin" /\ at[p] \notin PastRun
  BY AddingStages DEF RowsHold, Writer, Written, Knows, Entered, PastRevision, PastSnapshot,
     PastManifest, PastRun, Stages
<1>5. DOMAIN new \cap (Identified \cup {"engine_manifest"}) = {}
  BY DEF RowsOfRun, Identified
<1>6. Forward(p, new, "commit")
  BY <1>5, AddingStages DEF Forward, PastScenario, PastRevision, PastSnapshot, PastManifest,
     PastRun, Stages
<1>7. NewKeys(new) /\ Whole(Alone(new)) /\ Named(Alone(new))
  BY RunKeysNew, RunWhole
<1>8. OwnRows(p, new)
  BY <1>5 DEF OwnRows
<1>9. InNumber(p)' /\ KnowsRevision(p)' /\ KnowsSnapshot(p)' /\ KnowsManifest(p)'
  <2>1. "scenario_revision" \notin DOMAIN new /\ "scenario" \notin DOMAIN new
        /\ "input_snapshot" \notin DOMAIN new
    BY <1>5 DEF Identified
  <2> QED
    BY <1>3, <1>4, <2>1, CarryNumber, CarryRevision, CarrySnapshot, CarryManifest
<1>10. /\ known'[p].snapshot = known[p].snapshot /\ known'[p].manifest = known[p].manifest
       /\ known'[p].revision = known[p].revision
  BY <1>1, <1>3, <1>4, JoinedField DEF KnowsRevision, KnowsSnapshot, KnowsManifest
<1>11. /\ tx[p]["scenario_run"] = {} /\ tx[p]["typed"] = {}
  BY <1>4 DEF Taken, Whole, Exists
<1>12. /\ tx'[p]["scenario_run"] = {RunRow(p)}
       /\ tx'[p]["typed"] = StoredTyped(p, task[p].result)
  <2>1. /\ "scenario_run" \in DOMAIN new /\ new["scenario_run"] = {RunRow(p)}
        /\ "typed" \in DOMAIN new /\ new["typed"] = StoredTyped(p, task[p].result)
        /\ "scenario_run" \in Tables /\ "typed" \in Tables
    BY DEF RowsOfRun, Tables
  <2>2. /\ tx'[p]["scenario_run"] = tx[p]["scenario_run"] \cup new["scenario_run"]
        /\ tx'[p]["typed"] = tx[p]["typed"] \cup new["typed"]
    BY <1>2, <2>1
  <2> QED
    BY <1>11, <2>1, <2>2
<1>13. RunRow(p)' = RunRow(p)
  BY <1>1, <1>10 DEF RunRow
<1>14. \A x \in tx'[p]["typed"] : Located(x, View(p)', known'[p].revision)
  <2> TAKE x \in tx'[p]["typed"]
  <2>1. Located(x, View(p), known[p].revision)
    BY <1>4, <1>12, RunLocated, Unrefused
  <2>2. /\ View(p)["scenario_station"] \subseteq View(p)'["scenario_station"]
        /\ View(p)["scenario_payload"] \subseteq View(p)'["scenario_payload"]
    BY <1>1 DEF Tables
  <2> QED
    BY <1>10, <2>1, <2>2 DEF Located
<1>15. KnowsRun(p)'
  BY <1>12, <1>13, <1>14 DEF KnowsRun
<1>16. Knows(p)'
  BY <1>1, <1>9, <1>15 DEF Knows, Missing, KnowsScenario, KnowsNumber
<1> QED
  BY <1>4, <1>6, <1>7, <1>8, <1>9, <1>16, InsertKeeps

-----------------------------------------------------------------------------
(***************************************************************************)
(* The statements of the SQLite tier.                                      *)
(***************************************************************************)

\* The one row that is chosen is a row.
LEMMA TheRow == ASSUME NEW set, set # {} PROVE The(set) \in set
BY DEF The

\* Keys of the committed rows are unique.
LEMMA KeysCommitted ==
    ASSUME RowsHold, NEW t \in Keyed, NEW x \in db[t], NEW y \in db[t], x.key = y.key
    PROVE  x = y
BY DEF RowsHold, KeysUnique, Held

\* The stations and payloads of a committed revision, by key.
LEMMA RevisionKeysFound ==
    ASSUME RowsHold, NEW u \in {"scenario_station", "scenario_payload"}, NEW id
    PROVE  /\ DOMAIN RevisionKeys(db, u, id) = Names(db, u, id)
           /\ Mapped(db[u], RevisionKeys(db, u, id), id)
<1>1. DOMAIN RevisionKeys(db, u, id) = Names(db, u, id)
  BY DEF RevisionKeys, Names
<1>2. ASSUME NEW k \in Names(db, u, id)
      PROVE  \E z \in db[u] : z.id = RevisionKeys(db, u, id)[k] /\ z.key = <<id, k>>
  <2>1. PICK x \in db[u] : x.key[1] = id /\ x.name = k
    BY <1>2, Zenon DEF Names
  <2>2. x.key = <<id, k>>
    <3>1. Whole(db)
      BY DEF RowsHold, Stored
    <3> QED
      BY <2>1, <3>1 DEF Whole
  <2> DEFINE found == {y \in db[u] : y.key = <<id, k>>}
  <2>3. The(found) \in found
    <3>1. x \in found
      BY <2>2
    <3> HIDE DEF found
    <3> QED
      BY <3>1, TheRow
  <2>4. RevisionKeys(db, u, id)[k] = The(found).id
    BY <1>2 DEF RevisionKeys, Names
  <2>5. The(found) \in db[u] /\ The(found).key = <<id, k>>
    BY <2>3
  <2> HIDE DEF found
  <2> QED
    BY <2>4, <2>5, Zenon
<1> QED
  BY <1>1, <1>2 DEF Mapped

\* One row for each key.
LEMMA RowsForKeys ==
    ASSUME NEW row, NEW keys, NEW built, NEW f,
           \A x \in built : \E k \in keys : x = f[k],
           \A k \in keys : f[k] \in built /\ f[k].name = k /\ f[k].key = <<row.id, k>>
    PROVE  RowsOf(built, row, keys)
<1>1. \A k \in keys : f[k].key[2] = k
  OBVIOUS
<1>2. ASSUME NEW x \in built
      PROVE  x.key = <<row.id, x.name>> /\ \A y \in built : x.key = y.key => x = y
  <2>1. PICK k \in keys : x = f[k]
    OBVIOUS
  <2>2. ASSUME NEW y \in built, x.key = y.key PROVE x = y
    <3>1. PICK j \in keys : y = f[j]
      OBVIOUS
    <3>2. x.key[2] = k /\ y.key[2] = j
      BY <1>1, <2>1, <3>1
    <3>3. j = k
      BY <2>2, <3>2
    <3> QED
      BY <2>1, <3>1, <3>3
  <2> QED
    BY <2>1, <2>2
<1>3. \A x \in built : x.name \in keys
  OBVIOUS
<1>4. \A k \in keys : \E x \in built : k = x.name
  OBVIOUS
<1>5. {x.name : x \in built} = keys
  BY <1>3, <1>4
<1> QED
  BY <1>2, <1>5, Zenon DEF RowsOf

\* Rows with identifiers made of their names.
LEMMA LabelsOf ==
    ASSUME NEW p, NEW kind, NEW keys, NEW built,
           \A x \in built : \E k \in keys : x.id = New(p, <<kind, k>>) /\ x.name = k,
           \A k \in keys : New(p, <<kind, k>>) # None
    PROVE  Labelled(built, kind)
<1>1. \A k : New(p, <<kind, k>>)[3] = <<kind, k>>
  BY DEF New
<1> QED
  BY <1>1 DEF Labelled

\* The identifiers that a run makes for its stations and payloads are not None.
LEMMA NamesMade ==
    ASSUME NEW p \in Processes, task[p] \in Runs
    PROVE  /\ \A k \in DOMAIN Snapshot(p).stations : New(p, <<"station", k>>) # None
           /\ \A k \in DOMAIN Snapshot(p).payloads : New(p, <<"payload", k>>) # None
BY IdsAssumption DEF New, Snapshot

\* The rows of the stations and payloads of an input.
LEMMA StationRowsBuilt ==
    ASSUME NEW p, NEW s, NEW row
    PROVE  /\ RowsOf(StationRows(p, row.id, s), row, DOMAIN s.stations)
           /\ \A k \in DOMAIN s.stations : \E x \in StationRows(p, row.id, s) :
                  x.id = New(p, <<"station", k>>) /\ x.name = k
           /\ (\A k \in DOMAIN s.stations : New(p, <<"station", k>>) # None)
                  => Labelled(StationRows(p, row.id, s), "station")
<1> DEFINE station(k) ==
               [key |-> k, ground |-> GroundStationKey(k), comm |-> CommunicationKey(k),
                rank |-> s.stations[k].rank,
                mask |-> IF s.stations[k].site = None THEN None ELSE s.stations[k].site.mask]
           Built(x) ==
               [id |-> New(p, <<"station", x.key>>), key |-> <<row.id, x.key>>, name |-> x.key,
                comm |-> x.comm, ground |-> x.ground, rank |-> x.rank, mask |-> x.mask]
           built == StationRows(p, row.id, s)
<1>1. Stations(s) = {station(k) : k \in DOMAIN s.stations}
  BY Zenon DEF Stations
<1>2. built = {Built(x) : x \in Stations(s)}
  BY Zenon DEF StationRows
<1>3. \A k : station(k).key = k
  OBVIOUS
<1>4. \A x : Built(x).id = New(p, <<"station", x.key>>) /\ Built(x).name = x.key
  OBVIOUS
<1>5. \A x : Built(x).key = <<row.id, x.key>>
  OBVIOUS
<1> HIDE DEF station, Built, built
<1>6. \A x \in built : \E k \in DOMAIN s.stations : x = Built(station(k))
  BY <1>1, <1>2, Zenon
<1>7. \A k \in DOMAIN s.stations : Built(station(k)) \in built
  BY <1>1, <1>2, Zenon
<1>8. \A k : /\ Built(station(k)).id = New(p, <<"station", k>>) /\ Built(station(k)).name = k
             /\ Built(station(k)).key = <<row.id, k>>
  BY <1>3, <1>4, <1>5
<1>9. RowsOf(built, row, DOMAIN s.stations)
  <2> DEFINE f == [k \in DOMAIN s.stations |-> Built(station(k))]
  <2>1. \A k \in DOMAIN s.stations : f[k] = Built(station(k))
    OBVIOUS
  <2> HIDE DEF f
  <2>2. \A x \in built : \E k \in DOMAIN s.stations : x = f[k]
    BY <1>6, <2>1, Zenon
  <2>3. \A k \in DOMAIN s.stations : f[k] \in built /\ f[k].name = k /\ f[k].key = <<row.id, k>>
    BY <1>7, <1>8, <2>1
  <2> QED
    BY <2>2, <2>3, RowsForKeys
<1>10. ASSUME \A k \in DOMAIN s.stations : New(p, <<"station", k>>) # None
       PROVE  Labelled(built, "station")
  <2>1. \A x \in built : \E k \in DOMAIN s.stations :
            x.id = New(p, <<"station", k>>) /\ x.name = k
    BY <1>6, <1>8
  <2> QED
    BY <1>10, <2>1, LabelsOf
<1> QED
  BY <1>7, <1>8, <1>9, <1>10, Zenon DEF built

\* The same of the payloads.
LEMMA PayloadRowsBuilt ==
    ASSUME NEW p, NEW s, NEW row
    PROVE  /\ RowsOf(PayloadRows(p, row.id, s), row, DOMAIN s.payloads)
           /\ \A k \in DOMAIN s.payloads : \E x \in PayloadRows(p, row.id, s) :
                  x.id = New(p, <<"payload", k>>) /\ x.name = k
           /\ (\A k \in DOMAIN s.payloads : New(p, <<"payload", k>>) # None)
                  => Labelled(PayloadRows(p, row.id, s), "payload")
<1> DEFINE payload(k) ==
               [key |-> k, type |-> PayloadTypeKey(s.payloads[k]),
                sequence |-> s.payloads[k].sequence, detail |-> s.payloads[k].detail]
           Built(x) ==
               [id |-> New(p, <<"payload", x.key>>), key |-> <<row.id, x.key>>, name |-> x.key,
                type |-> x.type, sequence |-> x.sequence, detail |-> x.detail]
           built == PayloadRows(p, row.id, s)
<1>1. Payloads(s) = {payload(k) : k \in DOMAIN s.payloads}
  BY Zenon DEF Payloads
<1>2. built = {Built(x) : x \in Payloads(s)}
  BY Zenon DEF PayloadRows
<1>3. \A k : payload(k).key = k
  OBVIOUS
<1>4. \A x : Built(x).id = New(p, <<"payload", x.key>>) /\ Built(x).name = x.key
  OBVIOUS
<1>5. \A x : Built(x).key = <<row.id, x.key>>
  OBVIOUS
<1> HIDE DEF payload, Built, built
<1>6. \A x \in built : \E k \in DOMAIN s.payloads : x = Built(payload(k))
  BY <1>1, <1>2, Zenon
<1>7. \A k \in DOMAIN s.payloads : Built(payload(k)) \in built
  BY <1>1, <1>2, Zenon
<1>8. \A k : /\ Built(payload(k)).id = New(p, <<"payload", k>>) /\ Built(payload(k)).name = k
             /\ Built(payload(k)).key = <<row.id, k>>
  BY <1>3, <1>4, <1>5
<1>9. RowsOf(built, row, DOMAIN s.payloads)
  <2> DEFINE f == [k \in DOMAIN s.payloads |-> Built(payload(k))]
  <2>1. \A k \in DOMAIN s.payloads : f[k] = Built(payload(k))
    OBVIOUS
  <2> HIDE DEF f
  <2>2. \A x \in built : \E k \in DOMAIN s.payloads : x = f[k]
    BY <1>6, <2>1, Zenon
  <2>3. \A k \in DOMAIN s.payloads : f[k] \in built /\ f[k].name = k /\ f[k].key = <<row.id, k>>
    BY <1>7, <1>8, <2>1
  <2> QED
    BY <2>2, <2>3, RowsForKeys
<1>10. ASSUME \A k \in DOMAIN s.payloads : New(p, <<"payload", k>>) # None
       PROVE  Labelled(built, "payload")
  <2>1. \A x \in built : \E k \in DOMAIN s.payloads :
            x.id = New(p, <<"payload", k>>) /\ x.name = k
    BY <1>6, <1>8
  <2> QED
    BY <1>10, <2>1, LabelsOf
<1> QED
  BY <1>7, <1>8, <1>9, <1>10, Zenon DEF built

\* The communication rows are one for each station.
LEMMA CommunicationBuilt ==
    ASSUME NEW p, NEW s, NEW id
    PROVE  \A x, y \in CommunicationRows(p, id, s) :
               x.key[1] = id /\ (x.key = y.key => x = y)
<1> DEFINE Built(k) ==
               [key |-> <<id, k>>, payload |-> CommunicationPayload(s.stations[k].capacity)]
           built == CommunicationRows(p, id, s)
<1>1. built = {Built(k) : k \in DOMAIN s.stations}
  BY Zenon DEF CommunicationRows
<1>2. \A k : Built(k).key = <<id, k>>
  OBVIOUS
<1> HIDE DEF Built, built
<1>3. \A x \in built : \E k \in DOMAIN s.stations : x = Built(k)
  BY <1>1, Zenon
<1>4. \A k : Built(k).key[1] = id /\ Built(k).key[2] = k
  BY <1>2
<1>5. ASSUME NEW x \in built, NEW y \in built
      PROVE  x.key[1] = id /\ (x.key = y.key => x = y)
  <2>1. PICK k \in DOMAIN s.stations : x = Built(k)
    BY <1>3
  <2>2. PICK j \in DOMAIN s.stations : y = Built(j)
    BY <1>3
  <2>3. x.key[1] = id /\ x.key[2] = k /\ y.key[2] = j
    BY <1>4, <2>1, <2>2
  <2>4. x.key = y.key => k = j
    BY <2>3
  <2> QED
    BY <2>1, <2>2, <2>3, <2>4
<1> QED
  BY <1>5 DEF built

\* The head of a scenario is the committed one, or a new row.
LEMMA HeadOfScenario ==
    ASSUME NEW p, NEW s, NEW heads, heads = {x \in db["scenario"] : x.key = s.fixture},
           NEW head, head = IF heads = {} THEN ScenarioRow(p, s) ELSE The(heads)
    PROVE  /\ head.key = s.fixture
           /\ heads # {} => head \in heads /\ head \in db["scenario"]
           /\ heads = {} => head.id = New(p, "scenario")
<1>1. CASE heads = {}
  BY <1>1 DEF ScenarioRow
<1>2. CASE heads # {}
  <2>1. head \in heads
    BY <1>2, TheRow
  <2> QED
    BY <1>2, <2>1
<1> QED
  BY <1>1, <1>2

\* The scenario and the revision are found, or inserted, or the input is refused.
LEMMA EnsureScenarioHolds ==
    ASSUME RowsHold, OneWriter, NEW p \in Processes, EnsureScenario(p)
    PROVE  RowsHold' \/ Ends(p)
<1> DEFINE s        == task[p].snapshot
           heads    == {x \in db["scenario"] : x.key = s.fixture}
           head     == IF heads = {} THEN ScenarioRow(p, s) ELSE The(heads)
           ofHead   == {x \in db["scenario_revision"] : x.key[1] = head.id}
           same     == {x \in ofHead : x.hash = RevisionHash(s)}
           revision == RevisionRow(p, head.id, Cardinality(ofHead) + 1, s)
           stations == StationRows(p, revision.id, s)
           payloads == PayloadRows(p, revision.id, s)
           new      == [scenario               |-> {head} \ heads,
                        scenario_revision      |-> {revision},
                        scenario_station       |-> stations,
                        communication_revision |-> CommunicationRows(p, revision.id, s),
                        scenario_payload       |-> payloads,
                        payload_dependency     |-> {<<revision.id, d>> : d \in s.after}]
           learnt   == [revision |-> revision.id,
                        stations |-> [x \in DOMAIN s.stations |-> New(p, <<"station", x>>)],
                        payloads |-> [x \in DOMAIN s.payloads |-> New(p, <<"payload", x>>)]]
           Known(id) == [revision |-> id,
                         stations |-> RevisionKeys(db, "scenario_station", id),
                         payloads |-> RevisionKeys(db, "scenario_payload", id)]
<1>1. at[p] = "scenario"
  BY DEF EnsureScenario
<1>2. \/ same # {} /\ Write(p, <<>>, Known(The(same).id), "snapshot")
      \/ Fail(p, "constraint")
      \/ same = {} /\ Write(p, new, learnt, "snapshot")
  BY Zenon DEF EnsureScenario
<1>3. tx[p] = NoRows /\ Connections
  <2>1. Empty(p) /\ Connections
    BY DEF RowsHold, Writer, Written
  <2>2. at[p] \notin Adding
    BY <1>1, AddingStages DEF Stages
  <2> QED
    BY <2>1, <2>2 DEF Empty
<1>4. \A t \in Tables : tx[p][t] = {}
  BY <1>3 DEF NoRows
<1>5. /\ head.key = s.fixture
      /\ heads # {} => head \in heads /\ head \in db["scenario"]
      /\ heads = {} => head.id = New(p, "scenario")
  <2> HIDE DEF s
  <2> QED
    BY HeadOfScenario
<1>6. s = Snapshot(p)
  BY DEF Snapshot
<1>7. ASSUME same # {}, Write(p, <<>>, Known(The(same).id), "snapshot") PROVE RowsHold'
  <2> DEFINE x == The(same)
  <2>1. x \in same
    BY <1>7, TheRow
  <2>2. x \in db["scenario_revision"] /\ x.hash = RevisionHash(Snapshot(p))
    BY <2>1, <1>6
  <2> HIDE DEF x, same
  <2>3. Learn(p, Known(x.id), "snapshot")
    BY <1>7 DEF Learn, x
  <2>4. /\ DOMAIN RevisionKeys(db, "scenario_station", x.id) = Names(db, "scenario_station", x.id)
        /\ DOMAIN RevisionKeys(db, "scenario_payload", x.id) = Names(db, "scenario_payload", x.id)
        /\ Mapped(db["scenario_station"], RevisionKeys(db, "scenario_station", x.id), x.id)
        /\ Mapped(db["scenario_payload"], RevisionKeys(db, "scenario_payload", x.id), x.id)
    BY RevisionKeysFound
  <2>5. tx[p]["scenario"] = {}
    BY <1>4 DEF Tables
  <2> QED
    BY <1>1, <2>2, <2>3, <2>4, <2>5, FoundKeeps
<1>8. ASSUME Fail(p, "constraint") PROVE Ends(p)
  BY <1>3, <1>8, FailEnds
<1>9. ASSUME same = {}, Write(p, new, learnt, "snapshot") PROVE RowsHold'
  <2> DEFINE n == Cardinality(ofHead)
  <2>1. n \in Nat /\ Numbers(db, head.id) = 1 .. n
    <3> HIDE DEF head
    <3> QED
      BY RevisionCount
  <2>2. /\ revision.id = New(p, "revision") /\ revision.hash = RevisionHash(s)
        /\ revision.key = <<head.id, n + 1>>
    BY DEF RevisionRow
  <2>3. revision.key[1] = head.id /\ revision.key[2] = n + 1
    <3> HIDE DEF revision, head, n
    <3> QED
      BY <2>2
  <2>4. Held("scenario_revision") = db["scenario_revision"] /\ Held("scenario") = db["scenario"]
    <3>1. \A t \in Tables : Held(t) = db[t] \cup tx[p][t]
      BY <1>1, SoleWriter
    <3>2. \A t \in Tables : Held(t) = db[t]
      BY <1>4, <3>1
    <3> QED
      BY <3>2 DEF Tables
  <2>5. \A y \in db["scenario_revision"] : y.key # revision.key
    <3> SUFFICES ASSUME NEW y \in db["scenario_revision"], y.key = revision.key PROVE FALSE
      OBVIOUS
    <3>1. n + 1 \in Numbers(db, head.id)
      <4> HIDE DEF head, n, revision
      <4> QED
        BY <2>3 DEF Numbers
    <3> HIDE DEF head, n, revision
    <3> QED
      BY <2>1, <3>1
  <2>6. \A y \in db["scenario_revision"] : y.hash # revision.hash
    <3> SUFFICES ASSUME NEW y \in db["scenario_revision"], y.hash = RevisionHash(s) PROVE FALSE
      BY <2>2
    <3>1. PICK z \in db["scenario"] : z.id = y.key[1] /\ z.key = y.hash[1]
      BY DEF RowsHold, Stored, References, Filed
    <3>2. z.key = s.fixture
      BY <3>1, HashNames
    <3>3. z \in heads
      BY <3>2
    <3>4. "scenario" \in Keyed
      BY DEF Keyed, Tables
    <3> HIDE DEF head
    <3>5. z = head
      BY <1>5, <3>2, <3>3, <3>4, KeysCommitted
    <3> QED
      BY <1>9, <3>1, <3>5
  <2>7. NextRevision(p, revision)
    <3> HIDE DEF head, n, revision, s
    <3>1. revision.key[2] \in Nat \ {0} /\ revision.key[2] - 1 = n
      BY <2>1, <2>3
    <3> QED
      BY <1>6, <2>1, <2>2, <2>3, <2>4, <2>5, <2>6, <3>1 DEF NextRevision
  <2>8. /\ DOMAIN new = {"scenario", "scenario_revision", "scenario_station",
                         "communication_revision", "scenario_payload", "payload_dependency"}
        /\ new["scenario"] = {head} \ heads /\ new["scenario_revision"] = {revision}
        /\ new["scenario_station"] = stations /\ new["scenario_payload"] = payloads
        /\ new["communication_revision"] = CommunicationRows(p, revision.id, s)
    BY Zenon
  <2>9. /\ DOMAIN learnt = {"revision", "stations", "payloads"} /\ learnt.revision = revision.id
        /\ learnt.stations = [x \in DOMAIN s.stations |-> New(p, <<"station", x>>)]
        /\ learnt.payloads = [x \in DOMAIN s.payloads |-> New(p, <<"payload", x>>)]
    BY Zenon
  <2>10. task[p] \in Runs
    BY <1>1 DEF RowsHold, Writer, Given, Entered
  <2>11. /\ RowsOf(stations, revision, DOMAIN s.stations)
         /\ RowsOf(payloads, revision, DOMAIN s.payloads)
         /\ \A k \in DOMAIN s.stations : \E x \in stations :
                x.id = New(p, <<"station", k>>) /\ x.name = k
         /\ \A k \in DOMAIN s.payloads : \E x \in payloads :
                x.id = New(p, <<"payload", k>>) /\ x.name = k
         /\ Labelled(stations, "station") /\ Labelled(payloads, "payload")
         /\ \A x, y \in CommunicationRows(p, revision.id, s) :
                x.key[1] = revision.id /\ (x.key = y.key => x = y)
    <3> HIDE DEF revision, s
    <3>1. /\ RowsOf(stations, revision, DOMAIN s.stations)
          /\ \A k \in DOMAIN s.stations : \E x \in stations :
                 x.id = New(p, <<"station", k>>) /\ x.name = k
          /\ (\A k \in DOMAIN s.stations : New(p, <<"station", k>>) # None) => Labelled(stations, "station")
      BY StationRowsBuilt, Zenon
    <3>2. /\ RowsOf(payloads, revision, DOMAIN s.payloads)
          /\ \A k \in DOMAIN s.payloads : \E x \in payloads :
                 x.id = New(p, <<"payload", k>>) /\ x.name = k
          /\ (\A k \in DOMAIN s.payloads : New(p, <<"payload", k>>) # None) => Labelled(payloads, "payload")
      BY PayloadRowsBuilt, Zenon
    <3>3. \A x, y \in CommunicationRows(p, revision.id, s) :
              x.key[1] = revision.id /\ (x.key = y.key => x = y)
      BY CommunicationBuilt
    <3>4. /\ \A k \in DOMAIN s.stations : New(p, <<"station", k>>) # None
          /\ \A k \in DOMAIN s.payloads : New(p, <<"payload", k>>) # None
      BY <1>6, <2>10, NamesMade
    <3> HIDE DEF stations, payloads
    <3> QED
      BY <3>1, <3>2, <3>3, <3>4
  <2>12. /\ DOMAIN learnt.stations = DOMAIN s.stations
         /\ DOMAIN learnt.payloads = DOMAIN s.payloads
         /\ \A k \in DOMAIN s.stations : learnt.stations[k] = New(p, <<"station", k>>)
         /\ \A k \in DOMAIN s.payloads : learnt.payloads[k] = New(p, <<"payload", k>>)
    <3> DEFINE StationId(k) == New(p, <<"station", k>>)
               PayloadId(k) == New(p, <<"payload", k>>)
    <3>1. /\ learnt.stations = [x \in DOMAIN s.stations |-> StationId(x)]
          /\ learnt.payloads = [x \in DOMAIN s.payloads |-> PayloadId(x)]
      BY <2>9
    <3> HIDE DEF StationId, PayloadId, learnt, s
    <3>2. /\ DOMAIN learnt.stations = DOMAIN s.stations
          /\ \A k \in DOMAIN s.stations : learnt.stations[k] = StationId(k)
      BY <3>1
    <3>3. /\ DOMAIN learnt.payloads = DOMAIN s.payloads
          /\ \A k \in DOMAIN s.payloads : learnt.payloads[k] = PayloadId(k)
      BY <3>1
    <3> QED
      BY <3>2, <3>3 DEF StationId, PayloadId
  <2> HIDE DEF new, learnt, stations, payloads, revision, s
  <2>13. RevisionRows(p, new, revision)
    BY <1>6, <2>8, <2>11 DEF RevisionRows
  <2>14. RevisionLearnt(p, new, learnt, revision)
    <3>1. \A k \in DOMAIN s.stations : \E x \in new["scenario_station"] :
              x.id = learnt.stations[k] /\ x.name = k
      <4> SUFFICES ASSUME NEW k \in DOMAIN s.stations
                   PROVE  \E x \in stations : x.id = learnt.stations[k] /\ x.name = k
        BY <2>8
      <4>1. PICK x \in stations : x.id = New(p, <<"station", k>>) /\ x.name = k
        BY <2>11
      <4>2. learnt.stations[k] = New(p, <<"station", k>>)
        BY <2>12
      <4> QED
        BY <4>1, <4>2
    <3>2. \A k \in DOMAIN s.payloads : \E x \in new["scenario_payload"] :
              x.id = learnt.payloads[k] /\ x.name = k
      <4> SUFFICES ASSUME NEW k \in DOMAIN s.payloads
                   PROVE  \E x \in payloads : x.id = learnt.payloads[k] /\ x.name = k
        BY <2>8
      <4>1. PICK x \in payloads : x.id = New(p, <<"payload", k>>) /\ x.name = k
        BY <2>11
      <4>2. learnt.payloads[k] = New(p, <<"payload", k>>)
        BY <2>12
      <4> QED
        BY <4>1, <4>2
    <3> QED
      BY <1>6, <2>9, <2>12, <3>1, <3>2 DEF RevisionLearnt
  <2>15. HeadWritten(p, new, revision)
    <3>1. Alone(new)["scenario"] = {head} \ heads /\ tx[p]["scenario"] = {}
          /\ View(p)["scenario"] = db["scenario"]
      <4>1. "scenario" \in Tables /\ TableShape
        BY DEF Tables, RowsHold
      <4> HIDE DEF head, heads
      <4>2. Alone(new)["scenario"] = {head} \ heads
        BY <2>8, <4>1, AloneRows
      <4>3. tx[p]["scenario"] = {}
        BY <1>4, <4>1
      <4>4. View(p)["scenario"] = db["scenario"] \cup tx[p]["scenario"]
        BY <4>1, ViewIs
      <4> QED
        BY <4>2, <4>3, <4>4
    <3>2. \A x \in {head} \ heads : x = head /\ heads = {} /\ head.id = New(p, "scenario")
      <4> HIDE DEF head, heads
      <4> QED
        BY <1>5
    <3>3. heads = {} => \A y \in Held("scenario") : y.key # head.key
      <4> HIDE DEF head
      <4> QED
        BY <1>5, <2>4
    <3>4. head \in db["scenario"] \cup ({head} \ heads)
      <4> HIDE DEF head, heads
      <4> QED
        BY <1>5
    <3> HIDE DEF head, heads
    <3> QED
      BY <1>5, <1>6, <2>3, <2>8, <3>1, <3>2, <3>3, <3>4 DEF HeadWritten
  <2> QED
    BY <1>1, <1>9, <2>7, <2>13, <2>14, <2>15, RevisionKeeps
<1> QED
  BY <1>2, <1>7, <1>8, <1>9

\* Under the lock p alone has rows of its own in a table.
LEMMA OwnOnly ==
    ASSUME RowsHold, OneWriter, NEW p \in Processes, at[p] \in Adding, NEW t \in Tables,
           tx[p][t] = {}
    PROVE  Held(t) = db[t]
<1>1. Held(t) = db[t] \cup tx[p][t]
  BY SoleWriter
<1> QED
  BY <1>1

\* The snapshot is found, or inserted.
LEMMA EnsureSnapshotHolds ==
    ASSUME RowsHold, OneWriter, NEW p \in Processes, EnsureSnapshot(p) PROVE RowsHold'
<1> DEFINE found == {x \in db["input_snapshot"] : x.key = task[p].snapshot}
           row   == [id |-> New(p, "snapshot"), key |-> task[p].snapshot,
                     revision |-> known[p].revision]
<1>1. at[p] = "snapshot"
  BY DEF EnsureSnapshot
<1>2. \/ found # {} /\ Write(p, <<>>, [snapshot |-> The(found).id], "manifest")
      \/ found = {} /\ Write(p, [input_snapshot |-> {row}], [snapshot |-> row.id], "manifest")
  BY Zenon DEF EnsureSnapshot
<1>3. ASSUME found # {}, Write(p, <<>>, [snapshot |-> The(found).id], "manifest") PROVE RowsHold'
  <2> DEFINE s == The(found)
  <2>1. s \in found
    BY <1>3, TheRow
  <2>2. s \in db["input_snapshot"] /\ s.key = Snapshot(p)
    BY <2>1 DEF Snapshot
  <2>3. Learn(p, [snapshot |-> s.id], "manifest")
    BY <1>3 DEF Learn
  <2> HIDE DEF s
  <2> QED
    BY <1>1, <2>2, <2>3, SnapshotFound
<1>4. ASSUME found = {}, Write(p, [input_snapshot |-> {row}], [snapshot |-> row.id], "manifest")
      PROVE  RowsHold'
  <2>1. at[p] \in Adding /\ at[p] \notin PastSnapshot
    BY <1>1, AddingStages DEF Stages, PastSnapshot, PastManifest, PastRun
  <2>2. tx[p]["input_snapshot"] = {}
    BY <2>1 DEF RowsHold, Writer, Written, Taken
  <2>3. Held("input_snapshot") = db["input_snapshot"]
    BY <2>1, <2>2, OwnOnly DEF Tables
  <2>4. row.id = New(p, "snapshot") /\ row.key = Snapshot(p) /\ row.revision = known[p].revision
    BY DEF Snapshot
  <2>5. \A y \in Held("input_snapshot") : y.key # row.key
    BY <1>4, <2>3
  <2> HIDE DEF row
  <2> QED
    BY <1>1, <1>4, <2>4, <2>5, SnapshotInserted
<1> QED
  BY <1>2, <1>3, <1>4

\* The manifest is found, or inserted.
LEMMA EnsureManifestHolds ==
    ASSUME RowsHold, OneWriter, NEW p \in Processes, EnsureManifest(p) PROVE RowsHold'
<1> DEFINE found == {x \in db["engine_manifest"] : x.key = ManifestKey(task[p].manifest)}
           row   == [id |-> New(p, "manifest"), key |-> ManifestKey(task[p].manifest),
                     manifest |-> task[p].manifest]
<1>1. at[p] = "manifest"
  BY DEF EnsureManifest
<1>2. \/ found # {} /\ Write(p, <<>>, [manifest |-> The(found).id], "run")
      \/ found = {} /\ Write(p, [engine_manifest |-> {row}], [manifest |-> row.id], "run")
  BY Zenon DEF EnsureManifest
<1>3. ASSUME found # {}, Write(p, <<>>, [manifest |-> The(found).id], "run") PROVE RowsHold'
  <2> DEFINE m == The(found)
  <2>1. m \in found
    BY <1>3, TheRow
  <2>2. m \in db["engine_manifest"]
    BY <2>1
  <2>3. Learn(p, [manifest |-> m.id], "run")
    BY <1>3 DEF Learn
  <2> HIDE DEF m
  <2>4. View(p)["engine_manifest"] = db["engine_manifest"] \cup tx[p]["engine_manifest"]
    <3>1. "engine_manifest" \in Tables /\ TableShape
      BY DEF Tables, RowsHold
    <3> QED
      BY <3>1, ViewIs
  <2> QED
    BY <1>1, <2>2, <2>3, <2>4, ManifestFound
<1>4. ASSUME found = {}, Write(p, [engine_manifest |-> {row}], [manifest |-> row.id], "run")
      PROVE  RowsHold'
  <2>1. at[p] \in Adding /\ at[p] \notin PastManifest
    BY <1>1, AddingStages DEF Stages, PastManifest, PastRun
  <2>2. tx[p]["engine_manifest"] = {}
    BY <2>1 DEF RowsHold, Writer, Written, Taken
  <2>3. Held("engine_manifest") = db["engine_manifest"]
    BY <2>1, <2>2, OwnOnly DEF Tables
  <2>4. \A y \in Held("engine_manifest") : y.key # row.key
    BY <1>4, <2>3
  <2> HIDE DEF row
  <2> QED
    BY <1>1, <1>4, <2>4, ManifestInserted
<1> QED
  BY <1>2, <1>3, <1>4

\* The run is inserted, or refused.
LEMMA WriteRunHolds ==
    ASSUME RowsHold, OneWriter, NEW p \in Processes, WriteRun(p) PROVE RowsHold' \/ Ends(p)
<1> DEFINE document == {[key |-> task[p].id, hash |-> task[p].hash, document |-> task[p].result]}
           new == [run_result |-> StoredIdentities(p, task[p].result),
                   typed |-> StoredTyped(p, task[p].result),
                   scenario_run |-> {RunRow(p)}, run_stage |-> StageRows(p),
                   run_result_document |-> document]
<1>1. at[p] = "run"
  BY DEF WriteRun
<1>2. \/ \E how : Fail(p, how)
      \/ ~Exists(db, task[p].id) /\ Refusals(p) = {} /\ Write(p, new, <<>>, "commit")
  BY Zenon DEF WriteRun
<1>3. ASSUME NEW how, Fail(p, how) PROVE Ends(p)
  BY <1>3, FailEnds DEF RowsHold
<1>4. ASSUME ~Exists(db, task[p].id), Refusals(p) = {}, Write(p, new, <<>>, "commit")
      PROVE  RowsHold'
  <2>1. at[p] \in Adding /\ at[p] \notin PastRun
    BY <1>1, AddingStages DEF Stages, PastRun
  <2>2. tx[p]["scenario_run"] = {}
    BY <2>1 DEF RowsHold, Writer, Written, Taken
  <2>3. Held("scenario_run") = db["scenario_run"]
    BY <2>1, <2>2, OwnOnly DEF Tables
  <2>4. \A y \in Held("scenario_run") : y.key # task[p].id
    BY <1>4, <2>3 DEF Exists
  <2>5. \A x, y \in document : x.key = task[p].id /\ x = y
    OBVIOUS
  <2> HIDE DEF document
  <2>6. /\ DOMAIN new = {"run_result", "typed", "scenario_run", "run_stage", "run_result_document"}
        /\ new["run_result"] = StoredIdentities(p, task[p].result)
        /\ new["typed"] = StoredTyped(p, task[p].result)
        /\ new["scenario_run"] = {RunRow(p)} /\ new["run_stage"] = StageRows(p)
        /\ new["run_result_document"] = document
    BY Zenon
  <2> HIDE DEF new
  <2>7. RowsOfRun(p, new)
    BY <2>5, <2>6 DEF RowsOfRun
  <2> QED
    BY <1>1, <1>4, <2>4, <2>7, RunInserted
<1> QED
  BY <1>2, <1>3, <1>4

\* Every statement of the tier keeps the invariant, or gives the transaction up.
LEMMA SqliteKeeps ==
    ASSUME RowsHold, OneWriter, NEW p \in Processes, SqliteWrites(p) PROVE RowsHold' \/ Ends(p)
BY EnsureScenarioHolds, EnsureSnapshotHolds, EnsureManifestHolds, WriteRunHolds DEF SqliteWrites

-----------------------------------------------------------------------------
(***************************************************************************)
(* The statements of the PostgreSQL tier.                                  *)
(***************************************************************************)

\* A statement that has found nothing keeps what is known.
LEMMA LearnNothing ==
    ASSUME RowsHold, NEW p \in Processes, NEW next, Learn(p, <<>>, next)
    PROVE  /\ at'[p] = next /\ task' = task /\ db' = db /\ tier' = tier
           /\ Write(p, <<>>, <<>>, next)
           /\ \A x \in DOMAIN known[p] : x \in DOMAIN known'[p] /\ known'[p][x] = known[p][x]
           /\ \A t \in Tables : tx'[p][t] = tx[p][t]
           /\ \A t \in Tables : View(p)'[t] = View(p)[t]
<1>1. /\ at'[p] = next /\ task' = task /\ db' = db /\ tier' = tier /\ Write(p, <<>>, <<>>, next)
      /\ \A t \in Tables : tx'[p][t] = tx[p][t]
      /\ \A t \in Tables : View(p)'[t] = View(p)[t]
      /\ known'[p] = Joined(<<>>, known[p])
  BY LearnFacts
<1>2. \A x \in DOMAIN known[p] : x \in DOMAIN known'[p] /\ known'[p][x] = known[p][x]
  <2>1. DOMAIN <<>> = {}
    OBVIOUS
  <2> QED
    BY <1>1, <2>1, JoinedField
<1> QED
  BY <1>1, <1>2

\* The profiles of the input are listed.
LEMMA BeginProfilesHolds ==
    ASSUME RowsHold, ~OneWriter, NEW p \in Processes, BeginProfiles(p) PROVE RowsHold'
<1> DEFINE learnt == [todo |-> Profiles(Snapshot(p)), profiles |-> <<>>]
<1>1. at[p] = "begin" /\ Learn(p, learnt, "profiles")
  BY DEF BeginProfiles
<1>2. DOMAIN learnt = {"todo", "profiles"}
  OBVIOUS
<1> HIDE DEF learnt
<1>3. at'[p] = "profiles" /\ known'[p] = Joined(learnt, known[p])
  BY <1>1, LearnFacts
<1>4. Forward(p, <<>>, "profiles")
  <2>1. DOMAIN <<>> = {}
    OBVIOUS
  <2> QED
    BY <1>1, <2>1 DEF Forward, Adding, PastScenario, PastRevision, PastSnapshot, PastManifest,
       PastRun
<1>5. "todo" \in DOMAIN known'[p]
  BY <1>2, <1>3, JoinedField
<1>6. Knows(p)'
  BY <1>3, <1>5 DEF Knows, Missing, KnowsScenario, KnowsNumber, KnowsRevision, KnowsSnapshot,
     KnowsManifest, KnowsRun, PastRevision, PastSnapshot, PastManifest, PastRun
<1>7. at[p] \in Entered
  BY <1>1 DEF Entered
<1> QED
  BY <1>1, <1>4, <1>6, <1>7, LearnKeeps

\* A profile is found, or is not.
LEMMA FindProfileHolds ==
    ASSUME RowsHold, ~OneWriter, NEW p \in Processes, FindProfile(p) PROVE RowsHold'
<1> DEFINE spec   == NextProfile(p)
           found  == {x \in View(p)["profile"] : x.key = spec.key}
           learnt == [todo |-> Tail(known[p].todo),
                      profiles |-> Joined([k \in {spec.key} |-> The(found).current],
                                          known[p].profiles)]
<1>1. at[p] = "profiles"
  BY DEF FindProfile
<1>2. \/ found = {} /\ Learn(p, <<>>, "insert_profile")
      \/ Learn(p, learnt, "profiles")
  BY Zenon DEF FindProfile
<1>3. DOMAIN learnt = {"todo", "profiles"} /\ DOMAIN <<>> = {}
  OBVIOUS
<1> HIDE DEF learnt
<1>4. at[p] \in Entered /\ Forward(p, <<>>, "insert_profile") /\ Forward(p, <<>>, "profiles")
  BY <1>1, <1>3 DEF Entered, Forward, Adding, PastScenario, PastRevision, PastSnapshot,
     PastManifest, PastRun
<1>5. "todo" \in DOMAIN known[p]
  BY <1>1 DEF RowsHold, Writer, Knows, Missing
<1>6. ASSUME found = {}, Learn(p, <<>>, "insert_profile") PROVE RowsHold'
  <2>1. /\ at'[p] = "insert_profile" /\ tx'[p]["profile"] = tx[p]["profile"]
        /\ "todo" \in DOMAIN known'[p] /\ known'[p].todo = known[p].todo
    BY <1>5, <1>6, LearnNothing DEF Tables
  <2>2. \A x \in tx[p]["profile"] : x.key # NextProfile(p).key
    <3>1. "profile" \in Tables /\ TableShape
      BY DEF Tables, RowsHold
    <3>2. tx[p]["profile"] \subseteq View(p)["profile"]
      BY <3>1, ViewIs
    <3> QED
      BY <1>6, <3>2
  <2>3. NextProfile(p)' = NextProfile(p)
    BY <2>1 DEF NextProfile
  <2>4. Missing(p)'
    BY <1>5, <2>1, <2>2, <2>3 DEF Missing
  <2>5. Knows(p)'
    BY <2>1, <2>4 DEF Knows, KnowsScenario, KnowsNumber, KnowsRevision, KnowsSnapshot,
       KnowsManifest, KnowsRun, PastRevision, PastSnapshot, PastManifest, PastRun
  <2> QED
    BY <1>1, <1>4, <1>6, <2>5, LearnKeeps
<1>7. ASSUME Learn(p, learnt, "profiles") PROVE RowsHold'
  <2>1. at'[p] = "profiles" /\ known'[p] = Joined(learnt, known[p])
    BY <1>7, LearnFacts
  <2>2. "todo" \in DOMAIN known'[p]
    BY <1>3, <2>1, JoinedField
  <2>3. Knows(p)'
    BY <2>1, <2>2 DEF Knows, Missing, KnowsScenario, KnowsNumber, KnowsRevision, KnowsSnapshot,
       KnowsManifest, KnowsRun, PastRevision, PastSnapshot, PastManifest, PastRun
  <2> QED
    BY <1>1, <1>4, <1>7, <2>3, LearnKeeps
<1> QED
  BY <1>2, <1>6, <1>7

\* A profile is inserted with its only revision.
LEMMA InsertProfileHolds ==
    ASSUME RowsHold, tier = "postgresql", NEW p \in Processes, InsertProfile(p) PROVE RowsHold'
<1> DEFINE spec     == NextProfile(p)
           revision == New(p, <<"revision", spec.key>>)
           head     == [key |-> spec.key, kind |-> spec.kind, current |-> revision]
           row      == [id |-> revision, key |-> <<spec.key, 1>>, payload |-> TypedProfile(spec)]
           new      == [profile |-> {head}, profile_revision |-> {row}]
           learnt   == [todo |-> Tail(known[p].todo),
                        profiles |-> Joined([k \in {spec.key} |-> revision], known[p].profiles)]
<1>1. at[p] = "insert_profile" /\ CanInsert(p) /\ Write(p, new, learnt, "profiles")
  BY Zenon DEF InsertProfile
<1>2. /\ DOMAIN new = {"profile", "profile_revision"}
      /\ new["profile"] = {head} /\ new["profile_revision"] = {row}
      /\ DOMAIN learnt = {"todo", "profiles"}
  BY Zenon
<1>3. head.key = spec.key /\ row.key = <<spec.key, 1>> /\ row.key[1] = spec.key
  OBVIOUS
<1> HIDE DEF new, learnt, head, row
<1>4. at'[p] = "profiles" /\ known'[p] = Joined(learnt, known[p])
  BY <1>1, WriteFacts
<1>5. at[p] \in Entered /\ Forward(p, new, "profiles")
  BY <1>1, <1>2 DEF Entered, Forward, Adding, PastScenario, PastRevision, PastSnapshot,
     PastManifest, PastRun
<1>6. \A y \in Held("profile") : y.key # spec.key
  <2>1. \A x \in tx[p]["profile"] : x.key # NextProfile(p).key
    BY <1>1 DEF RowsHold, Writer, Knows, Missing
  <2>2. Wanted(p) = <<"profile", NextProfile(p).key>>
    BY <1>1 DEF Wanted
  <2> QED
    BY <1>1, <2>1, <2>2, InsertFree
<1>7. \A y \in Held("profile_revision") : y.key[1] # spec.key
  <2>1. Whole(db) /\ \A q \in Processes : Whole(tx[q])
    BY DEF RowsHold, Writer, Written, Stored
  <2>2. \A y \in Held("profile_revision") : \E z \in Held("profile") : z.key = y.key[1]
    BY <2>1 DEF Held, Whole
  <2> QED
    BY <1>6, <2>2
<1>8. NewKeys(new)
  <2>1. \A y \in Held("profile_revision") : y.key # row.key
    BY <1>3, <1>7
  <2> HIDE DEF spec
  <2> QED
    BY <1>2, <1>3, <1>6, <2>1 DEF NewKeys
<1>9. OwnRows(p, new)
  BY <1>2 DEF OwnRows, Identified
<1>10. Whole(Alone(new)) /\ Named(Alone(new))
  <2>1. \A t \in Tables : Alone(new)[t] = IF t \in DOMAIN new THEN new[t] ELSE {}
    BY AloneRows
  <2> USE DEF Tables
  <2>2. /\ Alone(new)["profile"] = {head} /\ Alone(new)["profile_revision"] = {row}
        /\ \A t \in OfRevision \cup {"scenario_revision", "run_stage", "run_result", "typed",
                                     "run_result_document"} : Alone(new)[t] = {}
    BY <1>2, <2>1 DEF OfRevision
  <2> HIDE DEF spec
  <2> QED
    BY <1>3, <2>2 DEF Whole, Labelled, Named, OfRevision
<1>11. InNumber(p)'
  BY <1>1, <1>2, CarryNumber
<1>12. "todo" \in DOMAIN known'[p]
  BY <1>2, <1>4, JoinedField
<1>13. Knows(p)'
  BY <1>4, <1>12 DEF Knows, Missing, KnowsScenario, KnowsNumber, KnowsRevision, KnowsSnapshot,
     KnowsManifest, KnowsRun, PastRevision, PastSnapshot, PastManifest, PastRun
<1> QED
  BY <1>1, <1>5, <1>8, <1>9, <1>10, <1>11, <1>13, InsertKeeps

\* The scenario is found, or is not.
LEMMA FindScenarioHolds ==
    ASSUME RowsHold, ~OneWriter, NEW p \in Processes, FindScenario(p) PROVE RowsHold'
<1> DEFINE found  == {x \in View(p)["scenario"] : x.key = Snapshot(p).fixture}
           learnt == [scenario |-> The(found).id]
<1>1. at[p] = "profiles"
  BY DEF FindScenario
<1>2. \/ Learn(p, <<>>, "insert_scenario")
      \/ found # {} /\ Learn(p, learnt, "revision")
  BY Zenon DEF FindScenario
<1>3. DOMAIN learnt = {"scenario"} /\ learnt.scenario = The(found).id /\ DOMAIN <<>> = {}
  OBVIOUS
<1> HIDE DEF learnt
<1>4. at[p] \in Entered /\ Forward(p, <<>>, "insert_scenario") /\ Forward(p, <<>>, "revision")
  BY <1>1, <1>3 DEF Entered, Forward, Adding, PastScenario, PastRevision, PastSnapshot,
     PastManifest, PastRun
<1>5. ASSUME Learn(p, <<>>, "insert_scenario") PROVE RowsHold'
  <2>1. at'[p] = "insert_scenario"
    BY <1>5, LearnNothing
  <2>2. Knows(p)'
    BY <2>1 DEF Knows, Missing, KnowsScenario, KnowsNumber, KnowsRevision, KnowsSnapshot,
       KnowsManifest, KnowsRun, PastRevision, PastSnapshot, PastManifest, PastRun
  <2> QED
    BY <1>1, <1>4, <1>5, <2>2, LearnKeeps
<1>6. ASSUME found # {}, Learn(p, learnt, "revision") PROVE RowsHold'
  <2>1. The(found) \in found
    BY <1>6, TheRow
  <2>2. The(found) \in View(p)["scenario"] /\ The(found).key = Snapshot(p).fixture
    BY <2>1
  <2> HIDE DEF found
  <2>3. /\ at'[p] = "revision" /\ known'[p] = Joined(learnt, known[p]) /\ task' = task
        /\ View(p)'["scenario"] = View(p)["scenario"] /\ tx'[p]["scenario"] = tx[p]["scenario"]
    BY <1>6, LearnFacts DEF Tables
  <2>4. "scenario" \in DOMAIN known'[p] /\ known'[p].scenario = The(found).id
    BY <1>3, <2>3, JoinedField
  <2>5. tx[p]["scenario"] = {}
    <3>1. at[p] \notin PastScenario
      BY <1>1 DEF PastScenario, PastRevision, PastSnapshot, PastManifest, PastRun
    <3> QED
      BY <3>1 DEF RowsHold, Writer, Written, Taken
  <2>6. Snapshot(p)' = Snapshot(p)
    BY <2>3 DEF Snapshot
  <2>7. KnowsScenario(p)'
    BY <2>2, <2>3, <2>4, <2>5, <2>6 DEF KnowsScenario
  <2>8. Knows(p)'
    BY <2>3, <2>7 DEF Knows, Missing, KnowsNumber, KnowsRevision, KnowsSnapshot,
       KnowsManifest, KnowsRun, PastRevision, PastSnapshot, PastManifest, PastRun
  <2> QED
    BY <1>1, <1>4, <1>6, <2>8, LearnKeeps
<1> QED
  BY <1>2, <1>5, <1>6

\* The scenario is inserted.
LEMMA InsertScenarioHolds ==
    ASSUME RowsHold, tier = "postgresql", NEW p \in Processes, InsertScenario(p) PROVE RowsHold'
<1> DEFINE row    == [id |-> New(p, "scenario"), key |-> Snapshot(p).fixture,
                      question |-> Snapshot(p).question]
           new    == [scenario |-> {row}]
           learnt == [scenario |-> row.id]
<1>1. at[p] = "insert_scenario" /\ CanInsert(p) /\ Write(p, new, learnt, "revision")
  BY Zenon DEF InsertScenario
<1>2. row.id = New(p, "scenario") /\ row.key = Snapshot(p).fixture
  OBVIOUS
<1> HIDE DEF row
<1>3. /\ DOMAIN new = {"scenario"} /\ new["scenario"] = {row}
      /\ DOMAIN learnt = {"scenario"} /\ learnt.scenario = row.id
  OBVIOUS
<1> HIDE DEF new, learnt
<1>4. /\ at'[p] = "revision" /\ known'[p] = Joined(learnt, known[p]) /\ task' = task
      /\ \A t \in Tables : View(p)'[t] = db[t] \cup tx'[p][t]
  BY <1>1, WriteFacts
<1>5. \A t \in Tables : tx'[p][t] = IF t \in DOMAIN new THEN tx[p][t] \cup new[t] ELSE tx[p][t]
  BY <1>1, WriteAdds, Zenon
<1>6. /\ at[p] \in Entered /\ Forward(p, new, "revision") /\ at[p] \notin PastScenario
  BY <1>1, <1>3 DEF Entered, Forward, Adding, PastScenario, PastRevision, PastSnapshot,
     PastManifest, PastRun
<1>7. tx[p]["scenario"] = {}
  BY <1>6 DEF RowsHold, Writer, Written, Taken
<1>8. \A y \in Held("scenario") : y.key # row.key
  <2>1. Wanted(p) = <<"scenario", Snapshot(p).fixture>>
    BY <1>1 DEF Wanted
  <2> QED
    BY <1>1, <1>2, <1>7, <2>1, InsertFree
<1>9. NewKeys(new)
  BY <1>3, <1>8 DEF NewKeys
<1>10. OwnRows(p, new)
  BY <1>2, <1>3, <1>7 DEF OwnRows, New
<1>11. Whole(Alone(new)) /\ Named(Alone(new))
  BY <1>3, LooseWhole
<1>12. InNumber(p)'
  BY <1>1, <1>3, CarryNumber
<1>13. tx'[p]["scenario"] = {row} /\ row \in View(p)'["scenario"]
  BY <1>3, <1>4, <1>5, <1>7 DEF Tables
<1>14. "scenario" \in DOMAIN known'[p] /\ known'[p].scenario = row.id
  BY <1>3, <1>4, JoinedField
<1>15. Snapshot(p)' = Snapshot(p)
  BY <1>4 DEF Snapshot
<1>16. KnowsScenario(p)'
  BY <1>2, <1>13, <1>14, <1>15 DEF KnowsScenario
<1>17. Knows(p)'
  BY <1>4, <1>16 DEF Knows, Missing, KnowsNumber, KnowsRevision, KnowsSnapshot,
     KnowsManifest, KnowsRun, PastRevision, PastSnapshot, PastManifest, PastRun
<1> QED
  BY <1>1, <1>6, <1>9, <1>10, <1>11, <1>12, <1>17, InsertKeeps

\* While a process looks for its revision it has written none.
LEMMA NoRevisionYet ==
    ASSUME RowsHold, NEW p \in Processes, at[p] \in {"revision", "count", "insert_revision"}
    PROVE  /\ tx[p]["scenario_revision"] = {} /\ tx[p]["scenario_station"] = {}
           /\ tx[p]["scenario_payload"] = {}
           /\ OfScenario(p) = {x \in db["scenario_revision"] : x.key[1] = known[p].scenario}
<1>1. tx[p]["scenario_revision"] = {}
  <2>1. at[p] \notin PastRevision
    BY DEF PastRevision, PastSnapshot, PastManifest, PastRun
  <2> QED
    BY <2>1 DEF RowsHold, Writer, Written, Taken
<1>2. tx[p]["scenario_station"] = {} /\ tx[p]["scenario_payload"] = {}
  BY <1>1 DEF RowsHold, Writer, Written, Whole, OfRevision
<1>3. View(p)["scenario_revision"] = db["scenario_revision"] \cup tx[p]["scenario_revision"]
  <2>1. "scenario_revision" \in Tables /\ TableShape
    BY DEF Tables, RowsHold
  <2> QED
    BY <2>1, ViewIs
<1>4. View(p)["scenario_revision"] = db["scenario_revision"]
  BY <1>1, <1>3
<1> QED
  BY <1>1, <1>2, <1>4 DEF OfScenario

\* The stations and payloads of a revision that is committed.
LEMMA NamesFound ==
    ASSUME RowsHold, NEW p \in Processes, NEW u \in {"scenario_station", "scenario_payload"},
           tx[p][u] = {}, NEW id
    PROVE  /\ DOMAIN NamesOf(p, u, id) = Names(db, u, id)
           /\ Mapped(db[u], NamesOf(p, u, id), id)
<1> DEFINE found == {x \in db[u] : x.key[1] = id}
<1>1. View(p)[u] = db[u]
  <2>1. u \in Tables /\ TableShape
    BY DEF Tables, RowsHold
  <2>2. View(p)[u] = db[u] \cup tx[p][u]
    BY <2>1, ViewIs
  <2> QED
    BY <2>2
<1>2. NamesOf(p, u, id) = [k \in {x.name : x \in found} |-> The({x \in found : x.name = k}).id]
  BY <1>1, Zenon DEF NamesOf
<1>3. Names(db, u, id) = {x.name : x \in found}
  BY Zenon DEF Names
<1>4. \A x \in found : x \in db[u] /\ x.key[1] = id
  OBVIOUS
<1> HIDE DEF found
<1>5. DOMAIN NamesOf(p, u, id) = Names(db, u, id)
  BY <1>2, <1>3
<1>6. ASSUME NEW k \in Names(db, u, id)
      PROVE  \E z \in db[u] : z.id = NamesOf(p, u, id)[k] /\ z.key = <<id, k>>
  <2> DEFINE named == {x \in found : x.name = k}
  <2>1. named # {}
    BY <1>3, <1>6
  <2>2. The(named) \in named
    <3> HIDE DEF named
    <3> QED
      BY <2>1, TheRow
  <2>3. The(named) \in db[u] /\ The(named).key[1] = id /\ The(named).name = k
    BY <1>4, <2>2
  <2>4. NamesOf(p, u, id)[k] = The(named).id
    BY <1>2, <1>3, <1>6
  <2> HIDE DEF named
  <2>5. The(named).key = <<id, k>>
    <3>1. Whole(db)
      BY DEF RowsHold, Stored
    <3> QED
      BY <2>3, <3>1 DEF Whole
  <2> QED
    BY <2>3, <2>4, <2>5, Zenon
<1> QED
  BY <1>5, <1>6 DEF Mapped

\* A revision of this hash is found, or is not.
LEMMA FindRevisionHolds ==
    ASSUME RowsHold, ~OneWriter, NEW p \in Processes, FindRevision(p) PROVE RowsHold'
<1> DEFINE same == {x \in OfScenario(p) : x.hash = RevisionHash(Snapshot(p))}
<1>1. at[p] = "revision"
  BY DEF FindRevision
<1>2. \/ Learn(p, <<>>, "count")
      \/ \E x \in same :
            Learn(p, [revision |-> x.id, stations |-> NamesOf(p, "scenario_station", x.id),
                      payloads |-> NamesOf(p, "scenario_payload", x.id)], "snapshot")
  BY Zenon DEF FindRevision
<1>3. KnowsScenario(p)
  BY DEF RowsHold, Writer, Knows
<1>4. ASSUME Learn(p, <<>>, "count") PROVE RowsHold'
  <2>1. /\ at'[p] = "count" /\ task' = task
        /\ \A x \in DOMAIN known[p] : x \in DOMAIN known'[p] /\ known'[p][x] = known[p][x]
        /\ View(p)'["scenario"] = View(p)["scenario"] /\ tx'[p]["scenario"] = tx[p]["scenario"]
    BY <1>4, LearnNothing DEF Tables
  <2>2. Snapshot(p)' = Snapshot(p)
    BY <2>1 DEF Snapshot
  <2>3. KnowsScenario(p)'
    BY <1>1, <1>3, <2>1, <2>2 DEF KnowsScenario
  <2>4. Knows(p)'
    BY <2>1, <2>3 DEF Knows, Missing, KnowsNumber, KnowsRevision, KnowsSnapshot,
       KnowsManifest, KnowsRun, PastRevision, PastSnapshot, PastManifest, PastRun
  <2>5. at[p] \in Entered /\ Forward(p, <<>>, "count")
    <3>1. DOMAIN <<>> = {}
      OBVIOUS
    <3> QED
      BY <1>1, <3>1 DEF Entered, Forward, Adding, PastScenario, PastRevision, PastSnapshot,
         PastManifest, PastRun
  <2> QED
    BY <1>1, <1>4, <2>4, <2>5, LearnKeeps
<1>5. ASSUME NEW x \in same,
             Learn(p, [revision |-> x.id, stations |-> NamesOf(p, "scenario_station", x.id),
                       payloads |-> NamesOf(p, "scenario_payload", x.id)], "snapshot")
      PROVE  RowsHold'
  <2>1. /\ x \in db["scenario_revision"] /\ x.hash = RevisionHash(Snapshot(p))
        /\ x.key[1] = known[p].scenario
    BY <1>1, NoRevisionYet
  <2>2. tx[p]["scenario_station"] = {} /\ tx[p]["scenario_payload"] = {}
    BY <1>1, NoRevisionYet
  <2>3. tx[p]["scenario"] = {}
    <3> SUFFICES ASSUME NEW s \in tx[p]["scenario"] PROVE FALSE
      OBVIOUS
    <3>1. s.id = x.key[1]
      BY <1>1, <1>3, <2>1 DEF KnowsScenario
    <3>2. PICK z \in db["scenario"] : z.id = x.key[1]
      BY <2>1 DEF RowsHold, Stored, References, Filed
    <3>3. at[p] \in Entered /\ "scenario" \in Identified
      BY <1>1, AddingStages DEF Entered, Stages, Identified
    <3>4. s.id[1] = p /\ s.id[2] = task[p].id
      BY <3>3 DEF RowsHold, Writer, Written, Own
    <3>5. ~(z.id[1] = p /\ z.id[2] = task[p].id)
      BY <3>3 DEF RowsHold, Writer, Fresh
    <3> QED
      BY <3>1, <3>2, <3>4, <3>5
  <2>4. /\ DOMAIN NamesOf(p, "scenario_station", x.id) = Names(db, "scenario_station", x.id)
        /\ Mapped(db["scenario_station"], NamesOf(p, "scenario_station", x.id), x.id)
    BY <2>2, NamesFound
  <2>5. /\ DOMAIN NamesOf(p, "scenario_payload", x.id) = Names(db, "scenario_payload", x.id)
        /\ Mapped(db["scenario_payload"], NamesOf(p, "scenario_payload", x.id), x.id)
    BY <2>2, NamesFound
  <2> HIDE DEF same
  <2> QED
    BY <1>1, <1>5, <2>1, <2>3, <2>4, <2>5, FoundKeeps
<1> QED
  BY <1>2, <1>4, <1>5

\* The revisions of the scenario are counted.
LEMMA CountRevisionsHolds ==
    ASSUME RowsHold, ~OneWriter, NEW p \in Processes, CountRevisions(p) PROVE RowsHold'
<1> DEFINE n      == Cardinality(OfScenario(p))
           learnt == [number |-> n + 1]
<1>1. at[p] = "count" /\ Learn(p, learnt, "insert_revision")
  BY DEF CountRevisions
<1>2. DOMAIN learnt = {"number"} /\ learnt.number = n + 1
  OBVIOUS
<1>3. n \in Nat /\ Numbers(db, known[p].scenario) = 1 .. n
  BY <1>1, NoRevisionYet, RevisionCount
<1> HIDE DEF learnt, n
<1>4. /\ at'[p] = "insert_revision" /\ task' = task /\ db' = db
      /\ known'[p] = Joined(learnt, known[p])
      /\ View(p)'["scenario"] = View(p)["scenario"] /\ tx'[p]["scenario"] = tx[p]["scenario"]
  BY <1>1, LearnFacts DEF Tables
<1>5. KnowsScenario(p)
  BY DEF RowsHold, Writer, Knows
<1>6. /\ "scenario" \in DOMAIN known'[p] /\ known'[p].scenario = known[p].scenario
      /\ "number" \in DOMAIN known'[p] /\ known'[p].number = n + 1
  BY <1>1, <1>2, <1>4, <1>5, JoinedField DEF KnowsScenario
<1>7. Snapshot(p)' = Snapshot(p)
  BY <1>4 DEF Snapshot
<1>8. KnowsScenario(p)'
  BY <1>1, <1>4, <1>5, <1>6, <1>7 DEF KnowsScenario
<1>9. KnowsNumber(p)'
  <2>1. n + 1 \in Nat \ {0} /\ 1 .. (n + 1 - 1) = 1 .. n
    BY <1>3
  <2>2. Numbers(db', known'[p].scenario) = 1 .. n
    BY <1>3, <1>4, <1>6
  <2>3. known'[p].number \in Nat \ {0}
    BY <1>6, <2>1
  <2>4. 1 .. (known'[p].number - 1) = 1 .. n
    <3>1. known'[p].number - 1 = n
      BY <1>3, <1>6
    <3> QED
      BY <3>1, Zenon
  <2>5. 1 .. (known'[p].number - 1) \subseteq Numbers(db', known'[p].scenario)
    BY <2>2, <2>4
  <2> QED
    BY <1>6, <2>3, <2>5, Zenon DEF KnowsNumber, Numbers
<1>10. Knows(p)'
  BY <1>4, <1>8, <1>9 DEF Knows, Missing, KnowsRevision, KnowsSnapshot,
     KnowsManifest, KnowsRun, PastRevision, PastSnapshot, PastManifest, PastRun
<1>11. at[p] \in Entered /\ Forward(p, <<>>, "insert_revision")
  <2>1. DOMAIN <<>> = {}
    OBVIOUS
  <2> QED
    BY <1>1, <2>1 DEF Entered, Forward, Adding, PastScenario, PastRevision, PastSnapshot,
       PastManifest, PastRun
<1> QED
  BY <1>1, <1>10, <1>11, LearnKeeps

\* A number that has been counted and is still free comes next.
LEMMA NumberNext ==
    ASSUME RowsHold, NEW p \in Processes, at[p] = "insert_revision",
           \A y \in db["scenario_revision"] : y.key # <<known[p].scenario, known[p].number>>
    PROVE  /\ known[p].number \in Nat \ {0}
           /\ Numbers(db, known[p].scenario) = 1 .. (known[p].number - 1)
<1> DEFINE id == known[p].scenario
           m  == known[p].number
           S  == {x \in db["scenario_revision"] : x.key[1] = id}
           n  == Cardinality(S)
<1>1. n \in Nat /\ Numbers(db, id) = 1 .. n
  <2> HIDE DEF id
  <2> QED
    BY RevisionCount
<1>2. m \in Nat \ {0} /\ 1 .. (m - 1) \subseteq Numbers(db, id)
  BY DEF RowsHold, Writer, Knows, KnowsNumber
<1>3. m \notin Numbers(db, id)
  <2> SUFFICES ASSUME m \in Numbers(db, id) PROVE FALSE
    OBVIOUS
  <2> HIDE DEF id, m
  <2>1. PICK x \in db["scenario_revision"] : x.key[1] = id /\ x.key[2] = m
    BY DEF Numbers
  <2>2. x.key = <<x.key[1], x.key[2]>>
    BY DEF RowsHold, Stored, References, Filed
  <2>3. x.key = <<id, m>>
    BY <2>1, <2>2
  <2> QED
    BY <2>3 DEF id, m
<1> HIDE DEF id, m, n
<1>4. m > n /\ m - 1 <= n
  <2>1. m > n
    BY <1>1, <1>2, <1>3
  <2>2. m - 1 \in Nat /\ (m - 1 > 0 => m - 1 \in 1 .. (m - 1))
    BY <1>2
  <2>3. m - 1 > 0 => m - 1 \in 1 .. n
    BY <1>1, <1>2, <2>2
  <2> QED
    BY <1>1, <1>2, <2>1, <2>2, <2>3
<1>5. n = m - 1
  BY <1>1, <1>2, <1>4
<1> QED
  BY <1>1, <1>2, <1>5 DEF id, m

\* The station and payload rows of a revision, under the profiles p has found.
StationsIn(p, s) ==
    {[id |-> New(p, <<"station", x.key>>), key |-> <<New(p, "revision"), x.key>>, name |-> x.key,
      comm |-> known[p].profiles[x.comm], ground |-> known[p].profiles[x.ground], rank |-> x.rank,
      mask |-> x.mask] : x \in Stations(s)}
PayloadsIn(p, s) ==
    {[id |-> New(p, <<"payload", x.key>>), key |-> <<New(p, "revision"), x.key>>, name |-> x.key,
      type |-> known[p].profiles[x.type], sequence |-> x.sequence, detail |-> x.detail]
     : x \in Payloads(s)}

\* They are one for each station.
LEMMA StationsInserted ==
    ASSUME NEW p, NEW s, NEW row, row.id = New(p, "revision")
    PROVE  /\ RowsOf(StationsIn(p, s), row, DOMAIN s.stations)
           /\ \A k \in DOMAIN s.stations : \E x \in StationsIn(p, s) :
                  x.id = New(p, <<"station", k>>) /\ x.name = k
           /\ (\A k \in DOMAIN s.stations : New(p, <<"station", k>>) # None)
                  => Labelled(StationsIn(p, s), "station")
<1> DEFINE station(k) ==
               [key |-> k, ground |-> GroundStationKey(k), comm |-> CommunicationKey(k),
                rank |-> s.stations[k].rank,
                mask |-> IF s.stations[k].site = None THEN None ELSE s.stations[k].site.mask]
           Built(x) ==
               [id |-> New(p, <<"station", x.key>>), key |-> <<New(p, "revision"), x.key>>,
                name |-> x.key, comm |-> known[p].profiles[x.comm],
                ground |-> known[p].profiles[x.ground], rank |-> x.rank, mask |-> x.mask]
           built == StationsIn(p, s)
<1>1. Stations(s) = {station(k) : k \in DOMAIN s.stations}
  BY Zenon DEF Stations
<1>2. built = {Built(x) : x \in Stations(s)}
  BY Zenon DEF StationsIn
<1>3. \A k : station(k).key = k
  OBVIOUS
<1>4. \A x : Built(x).id = New(p, <<"station", x.key>>) /\ Built(x).name = x.key
  OBVIOUS
<1>5. \A x : Built(x).key = <<row.id, x.key>>
  OBVIOUS
<1> HIDE DEF station, Built, built
<1>6. \A x \in built : \E k \in DOMAIN s.stations : x = Built(station(k))
  BY <1>1, <1>2, Zenon
<1>7. \A k \in DOMAIN s.stations : Built(station(k)) \in built
  BY <1>1, <1>2, Zenon
<1>8. \A k : /\ Built(station(k)).id = New(p, <<"station", k>>) /\ Built(station(k)).name = k
             /\ Built(station(k)).key = <<row.id, k>>
  BY <1>3, <1>4, <1>5
<1>9. RowsOf(built, row, DOMAIN s.stations)
  <2> DEFINE f == [k \in DOMAIN s.stations |-> Built(station(k))]
  <2>1. \A k \in DOMAIN s.stations : f[k] = Built(station(k))
    OBVIOUS
  <2> HIDE DEF f
  <2>2. \A x \in built : \E k \in DOMAIN s.stations : x = f[k]
    BY <1>6, <2>1, Zenon
  <2>3. \A k \in DOMAIN s.stations : f[k] \in built /\ f[k].name = k /\ f[k].key = <<row.id, k>>
    BY <1>7, <1>8, <2>1
  <2> QED
    BY <2>2, <2>3, RowsForKeys
<1>10. ASSUME \A k \in DOMAIN s.stations : New(p, <<"station", k>>) # None
       PROVE  Labelled(built, "station")
  <2>1. \A x \in built : \E k \in DOMAIN s.stations :
            x.id = New(p, <<"station", k>>) /\ x.name = k
    BY <1>6, <1>8
  <2> QED
    BY <1>10, <2>1, LabelsOf
<1> QED
  BY <1>7, <1>8, <1>9, <1>10, Zenon DEF built

\* And one for each payload.
LEMMA PayloadsInserted ==
    ASSUME NEW p, NEW s, NEW row, row.id = New(p, "revision")
    PROVE  /\ RowsOf(PayloadsIn(p, s), row, DOMAIN s.payloads)
           /\ \A k \in DOMAIN s.payloads : \E x \in PayloadsIn(p, s) :
                  x.id = New(p, <<"payload", k>>) /\ x.name = k
           /\ (\A k \in DOMAIN s.payloads : New(p, <<"payload", k>>) # None)
                  => Labelled(PayloadsIn(p, s), "payload")
<1> DEFINE payload(k) ==
               [key |-> k, type |-> PayloadTypeKey(s.payloads[k]),
                sequence |-> s.payloads[k].sequence, detail |-> s.payloads[k].detail]
           Built(x) ==
               [id |-> New(p, <<"payload", x.key>>), key |-> <<New(p, "revision"), x.key>>,
                name |-> x.key, type |-> known[p].profiles[x.type], sequence |-> x.sequence,
                detail |-> x.detail]
           built == PayloadsIn(p, s)
<1>1. Payloads(s) = {payload(k) : k \in DOMAIN s.payloads}
  BY Zenon DEF Payloads
<1>2. built = {Built(x) : x \in Payloads(s)}
  BY Zenon DEF PayloadsIn
<1>3. \A k : payload(k).key = k
  OBVIOUS
<1>4. \A x : Built(x).id = New(p, <<"payload", x.key>>) /\ Built(x).name = x.key
  OBVIOUS
<1>5. \A x : Built(x).key = <<row.id, x.key>>
  OBVIOUS
<1> HIDE DEF payload, Built, built
<1>6. \A x \in built : \E k \in DOMAIN s.payloads : x = Built(payload(k))
  BY <1>1, <1>2, Zenon
<1>7. \A k \in DOMAIN s.payloads : Built(payload(k)) \in built
  BY <1>1, <1>2, Zenon
<1>8. \A k : /\ Built(payload(k)).id = New(p, <<"payload", k>>) /\ Built(payload(k)).name = k
             /\ Built(payload(k)).key = <<row.id, k>>
  BY <1>3, <1>4, <1>5
<1>9. RowsOf(built, row, DOMAIN s.payloads)
  <2> DEFINE f == [k \in DOMAIN s.payloads |-> Built(payload(k))]
  <2>1. \A k \in DOMAIN s.payloads : f[k] = Built(payload(k))
    OBVIOUS
  <2> HIDE DEF f
  <2>2. \A x \in built : \E k \in DOMAIN s.payloads : x = f[k]
    BY <1>6, <2>1, Zenon
  <2>3. \A k \in DOMAIN s.payloads : f[k] \in built /\ f[k].name = k /\ f[k].key = <<row.id, k>>
    BY <1>7, <1>8, <2>1
  <2> QED
    BY <2>2, <2>3, RowsForKeys
<1>10. ASSUME \A k \in DOMAIN s.payloads : New(p, <<"payload", k>>) # None
       PROVE  Labelled(built, "payload")
  <2>1. \A x \in built : \E k \in DOMAIN s.payloads :
            x.id = New(p, <<"payload", k>>) /\ x.name = k
    BY <1>6, <1>8
  <2> QED
    BY <1>10, <2>1, LabelsOf
<1> QED
  BY <1>7, <1>8, <1>9, <1>10, Zenon DEF built

\* The revision is inserted with its rows, or refused.
LEMMA InsertRevisionHolds ==
    ASSUME RowsHold, tier = "postgresql", NEW p \in Processes, InsertRevision(p)
    PROVE  RowsHold' \/ Ends(p)
<1> DEFINE s       == Snapshot(p)
           id      == New(p, "revision")
           profile == known[p].profiles
           row     == [id |-> id, key |-> <<known[p].scenario, known[p].number>>,
                       hash |-> RevisionHash(s), source |-> s.source, storage |-> s.enabled,
                       craft |-> profile[SpacecraftKey(s)],
                       orbit |-> {profile[x.key] : x \in OrbitProfiles(s)},
                       policy |-> {profile[x.key] : x \in PolicyProfiles(s)}]
           new     == [scenario_revision |-> {row}, scenario_station |-> StationsIn(p, s),
                       scenario_payload |-> PayloadsIn(p, s),
                       payload_dependency |-> {<<id, d>> : d \in s.after}]
           learnt  == [revision |-> id,
                       stations |-> [x \in DOMAIN s.stations |-> New(p, <<"station", x>>)],
                       payloads |-> [x \in DOMAIN s.payloads |-> New(p, <<"payload", x>>)]]
<1>1. at[p] = "insert_revision" /\ CanInsert(p)
  BY DEF InsertRevision
<1>2. Fail(p, "constraint") \/ Write(p, new, learnt, "snapshot")
  BY Zenon DEF InsertRevision, StationsIn, PayloadsIn
<1>3. ASSUME Fail(p, "constraint") PROVE Ends(p)
  BY <1>3, FailEnds DEF RowsHold
<1>4. ASSUME Write(p, new, learnt, "snapshot") PROVE RowsHold'
  <2>1. /\ row.id = id /\ row.hash = RevisionHash(s)
        /\ row.key = <<known[p].scenario, known[p].number>>
    OBVIOUS
  <2>2. /\ DOMAIN new = {"scenario_revision", "scenario_station", "scenario_payload",
                         "payload_dependency"}
        /\ new["scenario_revision"] = {row} /\ new["scenario_station"] = StationsIn(p, s)
        /\ new["scenario_payload"] = PayloadsIn(p, s)
    BY Zenon
  <2>3. /\ DOMAIN learnt = {"revision", "stations", "payloads"} /\ learnt.revision = id
        /\ learnt.stations = [x \in DOMAIN s.stations |-> New(p, <<"station", x>>)]
        /\ learnt.payloads = [x \in DOMAIN s.payloads |-> New(p, <<"payload", x>>)]
    BY Zenon
  <2> HIDE DEF row, new
  <2>4. row.key[1] = known[p].scenario /\ row.key[2] = known[p].number
    BY <2>1
  <2>5. /\ RowsOf(StationsIn(p, s), row, DOMAIN s.stations)
        /\ \A k \in DOMAIN s.stations : \E x \in StationsIn(p, s) :
               x.id = New(p, <<"station", k>>) /\ x.name = k
        /\ (\A k \in DOMAIN s.stations : New(p, <<"station", k>>) # None)
               => Labelled(StationsIn(p, s), "station")
    BY <2>1, StationsInserted, Zenon
  <2>6. /\ RowsOf(PayloadsIn(p, s), row, DOMAIN s.payloads)
        /\ \A k \in DOMAIN s.payloads : \E x \in PayloadsIn(p, s) :
               x.id = New(p, <<"payload", k>>) /\ x.name = k
        /\ (\A k \in DOMAIN s.payloads : New(p, <<"payload", k>>) # None)
               => Labelled(PayloadsIn(p, s), "payload")
    BY <2>1, PayloadsInserted, Zenon
  <2>7. /\ DOMAIN learnt.stations = DOMAIN s.stations
        /\ DOMAIN learnt.payloads = DOMAIN s.payloads
        /\ \A k \in DOMAIN s.stations : learnt.stations[k] = New(p, <<"station", k>>)
        /\ \A k \in DOMAIN s.payloads : learnt.payloads[k] = New(p, <<"payload", k>>)
    <3> DEFINE StationId(k) == New(p, <<"station", k>>)
               PayloadId(k) == New(p, <<"payload", k>>)
    <3>1. /\ learnt.stations = [x \in DOMAIN s.stations |-> StationId(x)]
          /\ learnt.payloads = [x \in DOMAIN s.payloads |-> PayloadId(x)]
      BY <2>3
    <3> HIDE DEF StationId, PayloadId, learnt, s
    <3>2. /\ DOMAIN learnt.stations = DOMAIN s.stations
          /\ \A k \in DOMAIN s.stations : learnt.stations[k] = StationId(k)
      BY <3>1
    <3>3. /\ DOMAIN learnt.payloads = DOMAIN s.payloads
          /\ \A k \in DOMAIN s.payloads : learnt.payloads[k] = PayloadId(k)
      BY <3>1
    <3> QED
      BY <3>2, <3>3 DEF StationId, PayloadId
  <2> HIDE DEF learnt
  <2>8. tx[p]["scenario_revision"] = {}
    BY <1>1, NoRevisionYet
  <2>9. \A y \in Held("scenario_revision") : y.key # row.key
    <3>1. Wanted(p) = <<"scenario_revision", <<known[p].scenario, known[p].number>>>>
      BY <1>1 DEF Wanted
    <3>2. \A y \in Held("scenario_revision") : y.key # <<known[p].scenario, known[p].number>>
      BY <1>1, <2>8, <3>1, InsertFree
    <3> QED
      BY <2>1, <3>2
  <2>10. NextRevision(p, row)
    <3>1. \A y \in db["scenario_revision"] : y.key # <<known[p].scenario, known[p].number>>
      BY <2>1, <2>9 DEF Held
    <3>2. /\ known[p].number \in Nat \ {0}
          /\ Numbers(db, known[p].scenario) = 1 .. (known[p].number - 1)
      BY <1>1, <3>1, NumberNext
    <3>3. ~OneWriter
      BY DEF OneWriter
    <3> QED
      BY <2>1, <2>4, <2>9, <3>2, <3>3 DEF NextRevision
  <2>11. RevisionRows(p, new, row)
    <3>1. task[p] \in Runs
      BY <1>1, AddingStages DEF RowsHold, Writer, Given, Entered, Stages
    <3>2. Labelled(StationsIn(p, s), "station") /\ Labelled(PayloadsIn(p, s), "payload")
      BY <2>5, <2>6, <3>1, NamesMade
    <3> QED
      BY <2>2, <2>5, <2>6, <3>2 DEF RevisionRows
  <2>12. RevisionLearnt(p, new, learnt, row)
    <3>1. \A k \in DOMAIN s.stations : \E x \in new["scenario_station"] :
              x.id = learnt.stations[k] /\ x.name = k
      BY <2>2, <2>5, <2>7, Zenon
    <3>2. \A k \in DOMAIN s.payloads : \E x \in new["scenario_payload"] :
              x.id = learnt.payloads[k] /\ x.name = k
      BY <2>2, <2>6, <2>7, Zenon
    <3> QED
      BY <2>1, <2>3, <2>7, <3>1, <3>2 DEF RevisionLearnt
  <2>13. HeadWritten(p, new, row)
    <3>1. Alone(new)["scenario"] = {}
      BY <2>2, AloneRows DEF Tables
    <3>2. KnowsScenario(p)
      BY DEF RowsHold, Writer, Knows
    <3> QED
      BY <1>1, <2>2, <2>4, <3>1, <3>2 DEF HeadWritten, KnowsScenario
  <2> QED
    BY <1>1, <1>4, <2>10, <2>11, <2>12, <2>13, RevisionKeeps
<1> QED
  BY <1>2, <1>3, <1>4

\* The snapshot is found, or is not.
LEMMA FindSnapshotHolds ==
    ASSUME RowsHold, ~OneWriter, NEW p \in Processes, FindSnapshot(p) PROVE RowsHold'
<1> DEFINE found == {x \in View(p)["input_snapshot"] : x.key = Snapshot(p)}
<1>1. at[p] = "snapshot"
  BY DEF FindSnapshot
<1>2. \/ Learn(p, <<>>, "insert_snapshot")
      \/ found # {} /\ Learn(p, [snapshot |-> The(found).id], "manifest")
  BY Zenon DEF FindSnapshot
<1>3. at[p] \in Entered /\ at[p] \in PastRevision /\ at[p] \notin PastSnapshot
      /\ Forward(p, <<>>, "insert_snapshot")
  <2>1. DOMAIN <<>> = {}
    OBVIOUS
  <2> QED
    BY <1>1, <2>1 DEF Entered, Forward, Adding, PastScenario, PastRevision, PastSnapshot,
       PastManifest, PastRun
<1>4. ASSUME Learn(p, <<>>, "insert_snapshot") PROVE RowsHold'
  <2>1. at'[p] = "insert_snapshot" /\ Write(p, <<>>, <<>>, "insert_snapshot") /\ DOMAIN <<>> = {}
    BY <1>4, LearnNothing
  <2>2. KnowsRevision(p)'
    BY <1>3, <2>1, CarryRevision
  <2>3. Knows(p)'
    BY <2>1, <2>2 DEF Knows, Missing, KnowsScenario, KnowsNumber, KnowsSnapshot,
       KnowsManifest, KnowsRun, PastSnapshot, PastManifest, PastRun
  <2> QED
    BY <1>1, <1>3, <1>4, <2>3, LearnKeeps
<1>5. ASSUME found # {}, Learn(p, [snapshot |-> The(found).id], "manifest") PROVE RowsHold'
  <2>1. tx[p]["input_snapshot"] = {}
    BY <1>3 DEF RowsHold, Writer, Written, Taken
  <2>2. View(p)["input_snapshot"] = db["input_snapshot"] \cup tx[p]["input_snapshot"]
    <3>1. "input_snapshot" \in Tables /\ TableShape
      BY DEF Tables, RowsHold
    <3> QED
      BY <3>1, ViewIs
  <2> DEFINE s == The(found)
  <2>3. s \in found
    BY <1>5, TheRow
  <2>4. s \in db["input_snapshot"] /\ s.key = Snapshot(p)
    BY <2>1, <2>2, <2>3
  <2>5. Learn(p, [snapshot |-> s.id], "manifest")
    BY <1>5
  <2> HIDE DEF s
  <2> QED
    BY <1>1, <2>4, <2>5, SnapshotFound
<1> QED
  BY <1>2, <1>4, <1>5

\* The snapshot is inserted.
LEMMA InsertSnapshotHolds ==
    ASSUME RowsHold, tier = "postgresql", NEW p \in Processes, InsertSnapshot(p) PROVE RowsHold'
<1> DEFINE row == [id |-> New(p, "snapshot"), key |-> Snapshot(p), revision |-> known[p].revision]
<1>1. /\ at[p] = "insert_snapshot" /\ CanInsert(p)
      /\ Write(p, [input_snapshot |-> {row}], [snapshot |-> row.id], "manifest")
  BY Zenon DEF InsertSnapshot
<1>2. row.id = New(p, "snapshot") /\ row.key = Snapshot(p) /\ row.revision = known[p].revision
  OBVIOUS
<1> HIDE DEF row
<1>3. tx[p]["input_snapshot"] = {}
  <2>1. at[p] \notin PastSnapshot
    BY <1>1 DEF PastSnapshot, PastManifest, PastRun
  <2> QED
    BY <2>1 DEF RowsHold, Writer, Written, Taken
<1>4. Wanted(p) = <<"input_snapshot", Snapshot(p)>>
  BY <1>1 DEF Wanted
<1>5. \A y \in Held("input_snapshot") : y.key # Snapshot(p)
  BY <1>1, <1>3, <1>4, InsertFree
<1> QED
  BY <1>1, <1>2, <1>5, SnapshotInserted

\* The manifest is found, or is not.
LEMMA FindManifestHolds ==
    ASSUME RowsHold, ~OneWriter, NEW p \in Processes, FindManifest(p) PROVE RowsHold'
<1> DEFINE found == {x \in View(p)["engine_manifest"] : x.key = ManifestKey(task[p].manifest)}
<1>1. at[p] = "manifest"
  BY DEF FindManifest
<1>2. \/ Learn(p, <<>>, "insert_manifest")
      \/ found # {} /\ Learn(p, [manifest |-> The(found).id], "run")
  BY Zenon DEF FindManifest
<1>3. at[p] \in Entered /\ at[p] \in PastRevision /\ at[p] \in PastSnapshot
      /\ Forward(p, <<>>, "insert_manifest")
  <2>1. DOMAIN <<>> = {}
    OBVIOUS
  <2> QED
    BY <1>1, <2>1 DEF Entered, Forward, Adding, PastScenario, PastRevision, PastSnapshot,
       PastManifest, PastRun
<1>4. ASSUME Learn(p, <<>>, "insert_manifest") PROVE RowsHold'
  <2>1. at'[p] = "insert_manifest" /\ Write(p, <<>>, <<>>, "insert_manifest") /\ DOMAIN <<>> = {}
    BY <1>4, LearnNothing
  <2>2. KnowsRevision(p)' /\ KnowsSnapshot(p)'
    BY <1>3, <2>1, CarryRevision, CarrySnapshot
  <2>3. Knows(p)'
    BY <2>1, <2>2 DEF Knows, Missing, KnowsScenario, KnowsNumber, KnowsManifest, KnowsRun,
       PastManifest, PastRun
  <2> QED
    BY <1>1, <1>3, <1>4, <2>3, LearnKeeps
<1>5. ASSUME found # {}, Learn(p, [manifest |-> The(found).id], "run") PROVE RowsHold'
  <2> DEFINE m == The(found)
  <2>1. m \in found
    BY <1>5, TheRow
  <2>2. m \in View(p)["engine_manifest"]
    BY <2>1
  <2>3. Learn(p, [manifest |-> m.id], "run")
    BY <1>5
  <2> HIDE DEF m
  <2> QED
    BY <1>1, <2>2, <2>3, ManifestFound
<1> QED
  BY <1>2, <1>4, <1>5

\* The manifest is inserted.
LEMMA InsertManifestHolds ==
    ASSUME RowsHold, tier = "postgresql", NEW p \in Processes, InsertManifest(p) PROVE RowsHold'
<1> DEFINE row == [id |-> New(p, "manifest"), key |-> ManifestKey(task[p].manifest),
                   manifest |-> task[p].manifest]
<1>1. /\ at[p] = "insert_manifest" /\ CanInsert(p)
      /\ Write(p, [engine_manifest |-> {row}], [manifest |-> row.id], "run")
  BY Zenon DEF InsertManifest
<1>2. row.key = ManifestKey(task[p].manifest)
  OBVIOUS
<1> HIDE DEF row
<1>3. tx[p]["engine_manifest"] = {}
  <2>1. at[p] \notin PastManifest
    BY <1>1 DEF PastManifest, PastRun
  <2> QED
    BY <2>1 DEF RowsHold, Writer, Written, Taken
<1>4. Wanted(p) = <<"engine_manifest", ManifestKey(task[p].manifest)>>
  BY <1>1 DEF Wanted
<1>5. \A y \in Held("engine_manifest") : y.key # ManifestKey(task[p].manifest)
  BY <1>1, <1>3, <1>4, InsertFree
<1> QED
  BY <1>1, <1>2, <1>5, ManifestInserted

\* The run is inserted, or refused.
LEMMA InsertRunHolds ==
    ASSUME RowsHold, tier = "postgresql", NEW p \in Processes, InsertRun(p)
    PROVE  RowsHold' \/ Ends(p)
<1> DEFINE new == [run_result |-> StoredIdentities(p, task[p].result),
                   typed |-> StoredTyped(p, task[p].result),
                   scenario_run |-> {RunRow(p)}, run_stage |-> StageRows(p)]
<1>1. at[p] = "run" /\ CanInsert(p)
  BY DEF InsertRun
<1>2. \/ \E how : Fail(p, how)
      \/ Refusals(p) = {} /\ Write(p, new, <<>>, "commit")
  BY Zenon DEF InsertRun
<1>3. ASSUME NEW how, Fail(p, how) PROVE Ends(p)
  BY <1>3, FailEnds DEF RowsHold
<1>4. ASSUME Refusals(p) = {}, Write(p, new, <<>>, "commit") PROVE RowsHold'
  <2>1. tx[p]["scenario_run"] = {}
    <3>1. at[p] \notin PastRun
      BY <1>1 DEF PastRun
    <3> QED
      BY <3>1 DEF RowsHold, Writer, Written, Taken
  <2>2. Wanted(p) = <<"scenario_run", task[p].id>>
    BY <1>1 DEF Wanted
  <2>3. \A y \in Held("scenario_run") : y.key # task[p].id
    BY <1>1, <2>1, <2>2, InsertFree
  <2>4. /\ DOMAIN new = {"run_result", "typed", "scenario_run", "run_stage"}
        /\ new["run_result"] = StoredIdentities(p, task[p].result)
        /\ new["typed"] = StoredTyped(p, task[p].result)
        /\ new["scenario_run"] = {RunRow(p)} /\ new["run_stage"] = StageRows(p)
    BY Zenon
  <2> HIDE DEF new
  <2>5. RowsOfRun(p, new)
    BY <2>4 DEF RowsOfRun
  <2> QED
    BY <1>1, <1>4, <2>3, <2>5, RunInserted
<1> QED
  BY <1>2, <1>3, <1>4

\* Every statement of the tier keeps the invariant, or gives the transaction up.
LEMMA PostgresKeeps ==
    ASSUME RowsHold, tier = "postgresql", NEW p \in Processes, PostgresWrites(p)
    PROVE  RowsHold' \/ Ends(p)
<1>1. ~OneWriter
  BY DEF OneWriter
<1> QED
  BY <1>1, BeginProfilesHolds, FindProfileHolds, InsertProfileHolds, FindScenarioHolds,
     InsertScenarioHolds, FindRevisionHolds, CountRevisionsHolds, InsertRevisionHolds,
     FindSnapshotHolds, InsertSnapshotHolds, FindManifestHolds, InsertManifestHolds,
     InsertRunHolds DEF PostgresWrites

\* A statement of either tier.
LEMMA WritesKeep ==
    ASSUME RowsHold, NEW p \in Processes, Writes(p) PROVE RowsHold' \/ Ends(p)
BY SqliteKeeps, PostgresKeeps DEF Writes, OneWriter

-----------------------------------------------------------------------------
(***************************************************************************)
(* The other kinds of steps, and the invariant.                            *)
(***************************************************************************)

\* A transaction that is given up leaves what is committed.
LEMMA EndsHold ==
    ASSUME RowsHold, NEW p \in Processes, Ends(p) PROVE RowsHold'
<1>1. /\ Only(p) /\ db' = db /\ tier' = tier /\ KeepsLock(p)
      /\ tx'[p] = NoRows /\ at'[p] \in {"ready", "down"}
      /\ Connections /\ TableShape
  BY DEF Ends, RowsHold
<1>2. Connections'
  BY <1>1 DEF Connections, Only, Others
<1>3. TableShape'
  BY <1>1, OthersStay DEF TableShape, NoRows
<1>4. KeysUnique'
  <2>1. \A t \in Tables : Held(t)' \subseteq Held(t)
    <3> SUFFICES ASSUME NEW t \in Tables, NEW x \in Held(t)' PROVE x \in Held(t)
      OBVIOUS
    <3>1. ASSUME NEW q \in Processes, x \in tx'[q][t] PROVE x \in Held(t)
      <4>1. q # p
        BY <1>1, <3>1 DEF NoRows
      <4> QED
        BY <1>1, <3>1, <4>1, OthersStay DEF Held
    <3> QED
      BY <1>1, <3>1 DEF Held
  <2> QED
    BY <2>1 DEF RowsHold, KeysUnique, Keyed
<1>5. Stored'
  BY <1>1 DEF RowsHold, Stored, IdsUnique, Gapless, References, OneByOne, OneWriter, Numbers
<1>6. \A q \in Processes \ {p} : Writer(q)'
  BY <1>1, WriterStays DEF RowsHold
<1>7. Writer(p)'
  <2>1. at'[p] \notin Adding /\ at'[p] \notin Entered \cup {"check"}
    BY <1>1, AddingStages DEF Stages, Entered
  <2>2. Given(p)' /\ Locked(p)' /\ Fresh(p)'
    BY <2>1 DEF Given, Locked, Fresh, Entered
  <2> QED
    BY <1>1, <2>1, <2>2, WriterIdle
<1> QED
  BY <1>2, <1>3, <1>4, <1>5, <1>6, <1>7 DEF RowsHold

\* A step outside of transactions leaves the rows.
LEMMA OutsideHolds ==
    ASSUME RowsHold, NEW p \in Processes, Outside(p) PROVE RowsHold'
<1>1. /\ Only(p) /\ db' = db /\ tx' = tx /\ tier' = tier /\ KeepsLock(p)
      /\ at[p] \notin Adding /\ at'[p] \notin Adding
      /\ Connections /\ TableShape /\ Writer(p)
  BY DEF Outside, RowsHold
<1>2. Connections' /\ TableShape'
  BY <1>1 DEF Connections, TableShape, Only, Others
<1>3. KeysUnique'
  BY <1>1 DEF RowsHold, KeysUnique, Held
<1>4. Stored'
  BY <1>1 DEF RowsHold, Stored, IdsUnique, Gapless, References, OneByOne, OneWriter, Numbers
<1>5. \A q \in Processes \ {p} : Writer(q)'
  BY <1>1, WriterStays DEF RowsHold
<1>6. tx'[p] = NoRows
  BY <1>1 DEF Writer, Written, Empty
<1>7. Given(p)'
  BY DEF Outside, Given, Calling
<1>8. Locked(p)'
  BY <1>1 DEF Outside, Locked, OneWriter
<1>9. Fresh(p)'
  <2> SUFFICES ASSUME at'[p] \in Entered, NEW t \in Identified, NEW x \in db[t]
               PROVE  ~(x.id[1] = p /\ x.id[2] = task'[p].id)
    BY <1>1 DEF Fresh
  <2>1. CASE at[p] \in Entered /\ task' = task
    BY <1>1, <2>1 DEF Writer, Fresh
  <2>2. CASE ~Exists(db, task'[p].id)
    <3>1. Exists(db, x.id[2])
      BY DEF RowsHold, Stored, IdsUnique
    <3> QED
      BY <2>2, <3>1
  <2> QED
    BY <2>1, <2>2 DEF Outside
<1>10. Writer(p)'
  BY <1>1, <1>6, <1>7, <1>8, <1>9, WriterIdle
<1> QED
  BY <1>2, <1>3, <1>4, <1>5, <1>10 DEF RowsHold

\* A transaction that is committed.
LEMMA CommitsHold ==
    ASSUME RowsHold, NEW p \in Processes, Commits(p) PROVE RowsHold'
<1>1. /\ Only(p) /\ tx'[p] = NoRows /\ at'[p] \in {"ready", "down"}
      /\ Connections /\ TableShape
  BY DEF Commits, RowsHold
<1>2. Connections'
  BY <1>1 DEF Connections, Only, Others
<1>3. db' = View(p) /\ \A t \in Tables : db'[t] = db[t] \cup tx[p][t]
  BY AtCommit DEF Commits
<1>4. TableShape'
  BY <1>1, <1>3, ViewIs, OthersStay DEF TableShape, NoRows
<1>5. KeysUnique'
  <2>1. \A t \in Tables : Held(t)' \subseteq Held(t)
    <3> SUFFICES ASSUME NEW t \in Tables, NEW x \in Held(t)' PROVE x \in Held(t)
      OBVIOUS
    <3>1. ASSUME NEW q \in Processes, x \in tx'[q][t] PROVE x \in Held(t)
      <4>1. q # p
        BY <1>1, <3>1 DEF NoRows
      <4> QED
        BY <1>1, <3>1, <4>1, OthersStay DEF Held
    <3>2. CASE x \in db'[t]
      BY <1>3, <3>2 DEF Held
    <3> QED
      BY <3>1, <3>2 DEF Held
  <2> QED
    BY <2>1 DEF RowsHold, KeysUnique, Keyed
<1>6. Stored'
  BY CommitStored
<1>7. \A q \in Processes \ {p} : Writer(q)'
  BY WriterGrows
<1>8. Writer(p)'
  <2>1. at'[p] \notin Adding /\ at'[p] \notin Entered \cup {"check"}
    BY <1>1, AddingStages DEF Stages, Entered
  <2>2. Given(p)' /\ Locked(p)' /\ Fresh(p)'
    BY <2>1 DEF Given, Locked, Fresh, Entered
  <2> QED
    BY <1>1, <2>1, <2>2, WriterIdle
<1> QED
  BY <1>2, <1>4, <1>5, <1>6, <1>7, <1>8 DEF RowsHold

\* Nothing is stored at first.
LEMMA InitRows == Init => RowsHold
<1> SUFFICES ASSUME Init PROVE RowsHold
  OBVIOUS
<1>1. /\ db = NoRows /\ \A p \in Processes : tx[p] = NoRows /\ at[p] = Started
      /\ Connections
  BY DEF Init, Connections
<1>2. TableShape
  BY <1>1 DEF TableShape, NoRows
<1>3. \A t \in Tables : db[t] = {} /\ Held(t) = {} /\ \A p \in Processes : tx[p][t] = {}
  BY <1>1 DEF NoRows, Held
<1>4. KeysUnique
  BY <1>3 DEF KeysUnique, Keyed
<1> USE DEF Tables
<1>5. Stored
  BY <1>3 DEF Stored, Whole, Labelled, Named, IdsUnique, Gapless, References, OneByOne, OfRevision,
     Identified
<1>6. ASSUME NEW p \in Processes PROVE Writer(p)
  <2>1. at[p] \in {"closed", "ready"}
    BY <1>1 DEF Started
  <2>2. at[p] \notin Adding /\ at[p] \notin Entered \cup {"check"}
    BY <2>1, AddingStages DEF Stages, Entered
  <2>3. Given(p) /\ Locked(p) /\ Fresh(p) /\ InNumber(p)
    BY <1>3, <2>2 DEF Given, Locked, Fresh, InNumber, Entered
  <2>4. Empty(p) /\ Own(p) /\ Taken(p) /\ Whole(tx[p]) /\ Named(tx[p])
    BY <1>1, <1>3 DEF Empty, Own, Taken, Whole, Labelled, Named, Identified, OfRevision
  <2>5. Knows(p)
    BY <2>1 DEF Knows, Missing, KnowsScenario, KnowsNumber, KnowsRevision, KnowsSnapshot,
       KnowsManifest, KnowsRun, PastRevision, PastSnapshot, PastManifest, PastRun
  <2> QED
    BY <2>3, <2>4, <2>5 DEF Writer, Written
<1> QED
  BY <1>1, <1>2, <1>4, <1>5, <1>6 DEF RowsHold

\* Every step keeps the invariant.
LEMMA NextRows == RowsHold /\ [Next]_vars => RowsHold'
<1>1. ASSUME RowsHold, Next PROVE RowsHold'
  <2>1. Shaped
    BY <1>1 DEF RowsHold, Shaped, Writer, Written
  <2>2. PICK p \in Processes : Ends(p) \/ Commits(p) \/ Outside(p) \/ Writes(p)
    BY <1>1, <2>1, StepKinds
  <2> QED
    BY <1>1, <2>2, EndsHold, CommitsHold, OutsideHolds, WritesKeep
<1>2. ASSUME RowsHold, UNCHANGED vars PROVE RowsHold'
  <2>1. /\ tier' = tier /\ db' = db /\ tx' = tx /\ lock' = lock /\ at' = at /\ task' = task
        /\ known' = known
    BY <1>2 DEF vars
  <2>2. Connections' /\ TableShape' /\ KeysUnique'
    BY <1>2, <2>1 DEF RowsHold, Connections, TableShape, KeysUnique, Held
  <2>3. Stored'
    BY <1>2, <2>1 DEF RowsHold, Stored, IdsUnique, Gapless, References, OneByOne, OneWriter
  <2>4. \A p \in Processes : Writer(p)'
    <3> TAKE p \in Processes
    <3>1. Writer(p) /\ View(p)' = View(p) /\ (OneWriter' <=> OneWriter)
      BY <1>2, <2>1 DEF RowsHold, View, OneWriter
    <3>2. Given(p)' /\ Locked(p)' /\ Written(p)' /\ Fresh(p)' /\ InNumber(p)'
      BY <2>1, <3>1 DEF Writer, Given, Locked, Written, Empty, Own, Taken, Fresh, InNumber
    <3>3. Knows(p)'
      BY <2>1, <3>1 DEF Writer, Knows, Missing, NextProfile, KnowsScenario, KnowsNumber,
         KnowsRevision, Mapped, KnowsSnapshot, KnowsManifest, KnowsRun, RunRow, Snapshot
    <3> QED
      BY <3>2, <3>3 DEF Writer
  <2> QED
    BY <2>2, <2>3, <2>4 DEF RowsHold
<1> QED
  BY <1>1, <1>2

\* What is committed is at rest.
LEMMA RowsRest == RowsHold => RowsAtRest
<1> SUFFICES ASSUME RowsHold PROVE RowsAtRest
  OBVIOUS
<1>1. Stored
  BY DEF RowsHold
<1>2. \A t \in Keyed : \A x, y \in db[t] : x.key = y.key => x = y
  BY KeysCommitted
<1>3. ASSUME NEW s \in db["scenario"]
      PROVE  Numbers(db, s.id) = 1 .. Cardinality(Numbers(db, s.id)) /\ Numbers(db, s.id) # {}
  <2>1. PICK x \in db["scenario_revision"] : x.key[1] = s.id
    BY <1>1 DEF Stored, References, Numbers
  <2>2. PICK n \in Nat : Numbers(db, s.id) = 1 .. n
    BY <1>1, <2>1 DEF Stored, Gapless
  <2>3. Cardinality(1 .. n) = n
    BY FS_Interval
  <2> QED
    BY <1>1, <2>2, <2>3, Zenon DEF Stored, References
<1>4. \A r \in db["scenario_run"] :
          /\ \E s \in db["input_snapshot"] : s.id = r.snapshot
          /\ \E m \in db["engine_manifest"] : m.id = r.manifest
  BY <1>1 DEF Stored, References
<1>5. \A x \in db["typed"] : \E y \in db["run_result"] :
          /\ y.id = x.key
          /\ OneWriter => \A s \in db["input_snapshot"], r \in db["scenario_run"] :
                r.key = y.run /\ s.id = r.snapshot => Located(x, db, s.revision)
  BY <1>1 DEF Stored, Whole, OneByOne
<1>6. \A s \in db["input_snapshot"] :
          /\ \E r \in db["scenario_run"] : r.snapshot = s.id
          /\ \E x \in db["scenario_revision"] : x.id = s.revision
  BY <1>1 DEF Stored, References, Hashed
<1>7. OneWriter => \A x, y \in db["scenario_revision"] :
          /\ \E s \in db["input_snapshot"] : s.revision = x.id
          /\ x.key[1] = y.key[1] /\ x.hash = y.hash => x = y
  BY <1>1 DEF Stored, OneByOne
<1> QED
  BY <1>2, <1>3, <1>4, <1>5, <1>6, <1>7 DEF RowsAtRest, Numbers, Located

\* For any number of processes and any runs whose results are of their inputs,
\* on either tier, however the statements of their calls interleave and
\* wherever they fail or the processes die: the committed tables are consistent
\* (add, _ensure_scenario, _ensure_snapshot, _ensure_manifest, _write_results).
THEOREM TablesAtRest == Spec => []RowsAtRest
<1>1. Spec => []RowsHold
  BY InitRows, NextRows, PTL DEF Spec
<1> QED
  BY <1>1, RowsRest, PTL

-----------------------------------------------------------------------------
(***************************************************************************)
(* Why a call fails.                                                       *)
(***************************************************************************)

\* There is a cause for a call of p, with this identifier, to fail like this.
Blame(p, id, how) ==
    /\ how # "missing"
    /\ how = "duplicate" => Exists(db, id)
    /\ how = "conflict" => tier = "postgresql" /\ adds > 1
    /\ how = "busy" => tier = "sqlite" /\ faults > 0
    /\ how = "constraint" =>
          \/ ~QueuePlacesDiffer(task[p].snapshot)
          \/ ~KeysDiffer(task[p])
          \/ ~IntervalsOpen(task[p].result)
          \/ tier = "sqlite" /\ Exists(db, id)
Blamed(p) == reply[p] # None => Blame(p, reply[p].id, reply[p].how)

\* Whoever is in a call of add, or has stored a run, has called it.
Counted ==
    /\ adds \in Nat /\ faults \in Nat
    /\ db # NoRows => adds > 0
    /\ \A p \in Processes : at[p] \in Calling =>
          /\ adds > 0
          /\ db # NoRows => adds > 1
          /\ \A q \in Processes \ {p} : at[q] \in Calling => adds > 1

\* PostgreSQL has no lock on the whole store.
LockOfFile == lock # None => tier = "sqlite"

Causes ==
    /\ DOMAIN reply = Processes
    /\ Counted /\ LockOfFile /\ \A p \in Processes : Blamed(p)

\* Calls begin, and are in a transaction, only as they are counted.
Counts(p) ==
    \/ adds' = adds /\ db' = db /\ (at'[p] \in Calling => at[p] \in Calling)
    \/ adds' = adds /\ db' = View(p) /\ at[p] \in Calling /\ at'[p] \notin Calling
    \/ adds' = adds + 1 /\ db' = db

\* p answers nothing new, or has a cause.
Tells(p) ==
    \/ reply'[p] = reply[p] /\ task'[p] = task[p]
    \/ Blamed(p)'

CallStep(p) ==
    /\ Only(p) /\ Others(reply, reply', p) /\ tier' = tier
    /\ lock' \in {lock, None} \/ tier = "sqlite"
    /\ faults' = faults \/ faults' = faults + 1
    /\ Counts(p) /\ Tells(p)

\* A cause stays one while the call's run is the same.
LEMMA BlameStays ==
    ASSUME TableShape, Counted, NEW p \in Processes, NEW q \in Processes,
           tier' = tier, faults' = faults \/ faults' = faults + 1, Counts(p),
           task'[q] = task[q], NEW id, NEW how, Blame(q, id, how)
    PROVE  Blame(q, id, how)'
<1>1. adds \in Nat /\ faults \in Nat
  BY DEF Counted
<1>2. (adds > 1 => adds' > 1) /\ (faults > 0 => faults' > 0)
  BY <1>1 DEF Counts
<1>3. db["scenario_run"] \subseteq db'["scenario_run"]
  <2>1. CASE db' = db
    BY <2>1
  <2>2. CASE db' = View(p)
    <3>1. "scenario_run" \in Tables
      BY DEF Tables
    <3> QED
      BY <2>2, <3>1, ViewIs
  <2> QED
    BY <2>1, <2>2 DEF Counts
<1>4. Exists(db, id) => Exists(db', id)
  BY <1>3 DEF Exists
<1> QED
  BY <1>2, <1>4 DEF Blame

\* Such a step keeps the causes.
LEMMA CallStepKeeps ==
    ASSUME TableShape, Connections, Causes, NEW p \in Processes, CallStep(p) PROVE Causes'
<1>1. /\ DOMAIN reply = Processes /\ Counted /\ LockOfFile
      /\ Only(p) /\ Others(reply, reply', p) /\ tier' = tier /\ Counts(p) /\ Tells(p)
  BY DEF Causes, CallStep
<1>2. \A q \in Processes \ {p} : at'[q] = at[q] /\ task'[q] = task[q] /\ reply'[q] = reply[q]
  BY <1>1 DEF Only, Others
<1>3. DOMAIN reply' = Processes
  BY <1>1 DEF Others
<1>4. LockOfFile'
  BY <1>1 DEF CallStep, LockOfFile
<1>5. Counted'
  <2>1. adds \in Nat /\ faults \in Nat /\ adds' \in Nat /\ faults' \in Nat
    BY <1>1 DEF Counted, Counts, CallStep
  <2>2. CASE adds' = adds /\ db' = db /\ (at'[p] \in Calling => at[p] \in Calling)
    BY <1>1, <1>2, <2>1, <2>2 DEF Counted, NoRows
  <2>3. CASE adds' = adds /\ db' = View(p) /\ at[p] \in Calling /\ at'[p] \notin Calling
    <3>1. adds > 0 /\ \A q \in Processes \ {p} : at[q] \in Calling => adds > 1
      BY <1>1, <2>3 DEF Counted
    <3> QED
      BY <1>2, <2>1, <2>3, <3>1 DEF Counted
  <2>4. CASE adds' = adds + 1 /\ db' = db
    <3>1. adds' > 0 /\ (db' # NoRows => adds' > 1)
      BY <1>1, <2>1, <2>4 DEF Counted, NoRows
    <3>2. \A q \in Processes \ {p} : at[q] \in Calling => adds' > 1
      BY <1>1, <2>1, <2>4 DEF Counted
    <3> QED
      BY <1>2, <2>1, <3>1, <3>2 DEF Counted
  <2> QED
    BY <1>1, <2>2, <2>3, <2>4 DEF Counts
<1>6. ASSUME NEW q \in Processes PROVE Blamed(q)'
  <2>1. Blamed(q)
    BY DEF Causes
  <2>2. CASE reply'[q] = reply[q] /\ task'[q] = task[q]
    <3> SUFFICES ASSUME reply[q] # None PROVE Blamed(q)'
      BY <2>2 DEF Blamed
    <3>1. PICK id, how : id = reply[q].id /\ how = reply[q].how
      OBVIOUS
    <3>2. Blame(q, id, how) /\ (faults' = faults \/ faults' = faults + 1)
      BY <2>1, <3>1 DEF Blamed, CallStep
    <3>3. Blame(q, id, how)'
      BY <1>1, <2>2, <3>2, BlameStays
    <3> QED
      BY <2>2, <3>1, <3>3 DEF Blamed, Blame
  <2>3. CASE q = p /\ Blamed(p)'
    BY <2>3
  <2> QED
    BY <1>1, <1>2, <2>2, <2>3 DEF Tells
<1> QED
  BY <1>3, <1>4, <1>5, <1>6 DEF Causes

\* A call that ends otherwise, or begins.
LEMMA EndsOtherwise ==
    ASSUME DOMAIN reply = Processes, NEW p \in Processes, NEW id, NEW how, NEW run,
           how \notin {"missing", "duplicate", "conflict", "busy", "constraint"},
           Replied(p, id, how, run)
    PROVE  Others(reply, reply', p) /\ Blamed(p)'
<1>1. Others(reply, reply', p) /\ reply'[p] = [id |-> id, how |-> how, run |-> run]
  BY DEF Replied, Others
<1>2. reply'[p].how = how
  BY <1>1
<1> QED
  BY <1>1, <1>2 DEF Blamed, Blame

\* A call that begins has not failed.
LEMMA Begins ==
    ASSUME DOMAIN reply = Processes, NEW p \in Processes, reply' = [reply EXCEPT ![p] = None]
    PROVE  Others(reply, reply', p) /\ Blamed(p)'
BY DEF Others, Blamed

\* A call that fails for a cause.
LEMMA FailTells ==
    ASSUME Connections, Causes, NEW p \in Processes, NEW how, Fail(p, how),
           Blame(p, task[p].id, how)
    PROVE  CallStep(p)
<1>1. Only(p) /\ db' = db /\ tier' = tier /\ at'[p] \in {"ready", "down"}
  BY FailEnds DEF Ends
<1>2. /\ reply' = [reply EXCEPT ![p] = [id |-> task[p].id, how |-> how, run |-> None]]
      /\ task' = task /\ adds' = adds /\ faults' = faults /\ lock' \in {lock, None}
  BY DEF Fail, Ended, Replied, Release, counters
<1>3. Others(reply, reply', p) /\ reply'[p] = [id |-> task[p].id, how |-> how, run |-> None]
  BY <1>2 DEF Causes, Others
<1>4. at'[p] \notin Calling
  BY <1>1, AddingStages DEF Calling, Entered, Stages
<1>5. Blamed(p)'
  <2>1. PICK id : id = task[p].id
    OBVIOUS
  <2>2. Blame(p, id, how)'
    BY <1>1, <1>2, <2>1 DEF Blame
  <2>3. reply'[p].id = id /\ reply'[p].how = how
    BY <1>3, <2>1
  <2> QED
    BY <2>2, <2>3 DEF Blamed, Blame
<1> QED
  BY <1>1, <1>2, <1>3, <1>4, <1>5 DEF CallStep, Counts, Tells

\* A statement that goes on with the call.
LEMMA WriteTells ==
    ASSUME RowsHold, Causes, NEW p \in Processes, at[p] \in Calling,
           NEW new, NEW learnt, NEW next, Write(p, new, learnt, next)
    PROVE  CallStep(p)
<1>1. Only(p) /\ db' = db /\ tier' = tier /\ lock' = lock /\ task' = task
  BY WriteFacts
<1>2. reply' = reply /\ adds' = adds /\ faults' = faults
  BY DEF Write, counters
<1>3. Others(reply, reply', p)
  BY <1>2 DEF Others
<1> QED
  BY <1>1, <1>2, <1>3 DEF CallStep, Counts, Tells

\* A statement of add either goes on, or the call fails for a cause.
LEMMA StatementTells ==
    ASSUME RowsHold, Causes, NEW p \in Processes, at[p] \in Calling,
           \/ \E next, new, learnt : Write(p, new, learnt, next)
           \/ \E how : Blame(p, task[p].id, how) /\ Fail(p, how)
    PROVE  CallStep(p)
<1>1. CASE \E next, new, learnt : Write(p, new, learnt, next)
  BY <1>1, WriteTells
<1>2. CASE \E how : Blame(p, task[p].id, how) /\ Fail(p, how)
  <2>1. Connections
    BY DEF RowsHold
  <2> QED
    BY <1>2, <2>1, FailTells
<1> QED
  BY <1>1, <1>2

\* The stations and payloads that a result names are found: the revision has
\* those of the input.
LEMMA RefusalsBlamed ==
    ASSUME RowsHold, NEW p \in Processes, at[p] = "run", NEW how \in Refusals(p)
    PROVE  Blame(p, task[p].id, how)
<1>1. Given(p) /\ KnowsRevision(p)
  BY DEF RowsHold, Writer, Knows
<1>2. at[p] \in Entered /\ at[p] \in PastRevision
  BY DEF Entered, Adding, PastScenario, PastRevision, PastSnapshot, PastManifest, PastRun
<1>3. /\ DOMAIN known[p].stations = DOMAIN task[p].snapshot.stations
      /\ DOMAIN known[p].payloads = DOMAIN task[p].snapshot.payloads
  BY <1>1, <1>2 DEF KnowsRevision, Snapshot
<1>4. Resolvable(task[p].result, task[p].snapshot.stations, task[p].snapshot.payloads)
  BY <1>1, <1>2, RunsAssumption DEF Given
<1>5. Resolvable(task[p].result, known[p].stations, known[p].payloads)
  BY <1>3, <1>4 DEF Resolvable
<1>6. how = "constraint" /\ (~KeysDiffer(task[p]) \/ ~IntervalsOpen(task[p].result))
  BY <1>5 DEF Refusals
<1> QED
  BY <1>6 DEF Blame

\* The find-or-inserts of SQLite.
LEMMA SqliteTells ==
    ASSUME RowsHold, Causes, NEW p \in Processes, tier = "sqlite", SqliteWrites(p)
    PROVE  CallStep(p)
<1>1. at[p] \in {"scenario", "snapshot", "manifest", "run"}
  BY Zenon DEF SqliteWrites, EnsureScenario, EnsureSnapshot, EnsureManifest, WriteRun
<1>2. at[p] \in Calling
  BY <1>1, AddingStages DEF Calling, Entered, Stages
<1>3. CASE EnsureScenario(p)
  <2>1. \/ \E new, learnt : Write(p, new, learnt, "snapshot")
        \/ ~QueuePlacesDiffer(task[p].snapshot) /\ Fail(p, "constraint")
    BY <1>3, Zenon DEF EnsureScenario
  <2>2. ~QueuePlacesDiffer(task[p].snapshot) => Blame(p, task[p].id, "constraint")
    BY DEF Blame
  <2> QED
    BY <1>2, <2>1, <2>2, StatementTells
<1>4. CASE EnsureSnapshot(p)
  <2>1. \E new, learnt : Write(p, new, learnt, "manifest")
    BY <1>4, Zenon DEF EnsureSnapshot
  <2> QED
    BY <1>2, <2>1, StatementTells
<1>5. CASE EnsureManifest(p)
  <2>1. \E new, learnt : Write(p, new, learnt, "run")
    BY <1>5, Zenon DEF EnsureManifest
  <2> QED
    BY <1>2, <2>1, StatementTells
<1>6. CASE WriteRun(p)
  <2>1. /\ at[p] = "run"
        /\ \/ \E new, learnt : Write(p, new, learnt, "commit")
           \/ Exists(db, task[p].id) /\ Fail(p, "constraint")
           \/ \E how \in Refusals(p) : Fail(p, how)
    BY <1>6, Zenon DEF WriteRun
  <2>2. Exists(db, task[p].id) => Blame(p, task[p].id, "constraint")
    BY DEF Blame
  <2>3. \A how \in Refusals(p) : Blame(p, task[p].id, how)
    BY <2>1, RefusalsBlamed
  <2> QED
    BY <1>2, <2>1, <2>2, <2>3, StatementTells
<1> QED
  BY <1>3, <1>4, <1>5, <1>6 DEF SqliteWrites

\* A key is found committed where another call has stored it.
LEMMA ConflictTells ==
    ASSUME RowsHold, Causes, NEW p \in Processes, tier = "postgresql", Conflict(p)
    PROVE  CallStep(p)
<1>1. at[p] \in Inserting /\ Committed(p) /\ Fail(p, "conflict")
  BY DEF Conflict
<1>2. at[p] \in Calling
  BY <1>1, AddingStages DEF Inserting, Calling, Entered, Stages
<1>3. Wanted(p)[1] \in Tables
  BY <1>1, TablesNamed DEF Inserting, Tables
<1>4. db[Wanted(p)[1]] # {}
  BY <1>1 DEF Committed
<1>5. db # NoRows
  BY <1>3, <1>4 DEF NoRows
<1>6. adds > 1
  BY <1>2, <1>5 DEF Causes, Counted
<1>7. Blame(p, task[p].id, "conflict")
  BY <1>6 DEF Blame
<1> QED
  BY <1>1, <1>2, <1>7, StatementTells

\* The statements of PostgreSQL.
LEMMA PostgresTells ==
    ASSUME RowsHold, Causes, NEW p \in Processes, tier = "postgresql", PostgresWrites(p)
    PROVE  CallStep(p)
<1>1. at[p] \in Stages \cup {"begin"}
  BY Zenon DEF PostgresWrites, BeginProfiles, FindProfile, InsertProfile, FindScenario,
     InsertScenario, FindRevision, CountRevisions, InsertRevision, FindSnapshot, InsertSnapshot,
     FindManifest, InsertManifest, InsertRun, Stages
<1>2. at[p] \in Calling
  BY <1>1, AddingStages DEF Calling, Entered
<1>3. CASE BeginProfiles(p)
  <2>1. \E new, learnt, next : Write(p, new, learnt, next)
    BY <1>3, Zenon DEF BeginProfiles, Learn
  <2> QED
    BY <1>2, <2>1, StatementTells
<1>4. CASE FindProfile(p)
  <2>1. \E new, learnt, next : Write(p, new, learnt, next)
    BY <1>4, Zenon DEF FindProfile, Learn
  <2> QED
    BY <1>2, <2>1, StatementTells
<1>5. CASE InsertProfile(p)
  <2>1. \E new, learnt, next : Write(p, new, learnt, next)
    BY <1>5, Zenon DEF InsertProfile
  <2> QED
    BY <1>2, <2>1, StatementTells
<1>6. CASE FindScenario(p)
  <2>1. \E new, learnt, next : Write(p, new, learnt, next)
    BY <1>6, Zenon DEF FindScenario, Learn
  <2> QED
    BY <1>2, <2>1, StatementTells
<1>7. CASE InsertScenario(p)
  <2>1. \E new, learnt, next : Write(p, new, learnt, next)
    BY <1>7, Zenon DEF InsertScenario
  <2> QED
    BY <1>2, <2>1, StatementTells
<1>8. CASE FindRevision(p)
  <2>1. \E new, learnt, next : Write(p, new, learnt, next)
    BY <1>8, Zenon DEF FindRevision, Learn
  <2> QED
    BY <1>2, <2>1, StatementTells
<1>9. CASE CountRevisions(p)
  <2>1. \E new, learnt, next : Write(p, new, learnt, next)
    BY <1>9, Zenon DEF CountRevisions, Learn
  <2> QED
    BY <1>2, <2>1, StatementTells
<1>10. CASE InsertRevision(p)
  <2>1. \/ \E new, learnt, next : Write(p, new, learnt, next)
        \/ ~QueuePlacesDiffer(Snapshot(p)) /\ Fail(p, "constraint")
    BY <1>10, Zenon DEF InsertRevision
  <2>2. ~QueuePlacesDiffer(Snapshot(p)) => Blame(p, task[p].id, "constraint")
    BY DEF Blame, Snapshot
  <2> QED
    BY <1>2, <2>1, <2>2, StatementTells
<1>11. CASE FindSnapshot(p)
  <2>1. \E new, learnt, next : Write(p, new, learnt, next)
    BY <1>11, Zenon DEF FindSnapshot, Learn
  <2> QED
    BY <1>2, <2>1, StatementTells
<1>12. CASE InsertSnapshot(p)
  <2>1. \E new, learnt, next : Write(p, new, learnt, next)
    BY <1>12, Zenon DEF InsertSnapshot
  <2> QED
    BY <1>2, <2>1, StatementTells
<1>13. CASE FindManifest(p)
  <2>1. \E new, learnt, next : Write(p, new, learnt, next)
    BY <1>13, Zenon DEF FindManifest, Learn
  <2> QED
    BY <1>2, <2>1, StatementTells
<1>14. CASE InsertManifest(p)
  <2>1. \E new, learnt, next : Write(p, new, learnt, next)
    BY <1>14, Zenon DEF InsertManifest
  <2> QED
    BY <1>2, <2>1, StatementTells
<1>15. CASE InsertRun(p)
  <2>1. /\ at[p] = "run"
        /\ \/ \E new, learnt, next : Write(p, new, learnt, next)
           \/ \E how \in Refusals(p) : Fail(p, how)
    BY <1>15, Zenon DEF InsertRun
  <2>2. \A how \in Refusals(p) : Blame(p, task[p].id, how)
    BY <2>1, RefusalsBlamed
  <2> QED
    BY <1>2, <2>1, <2>2, StatementTells
<1> QED
  BY <1>3, <1>4, <1>5, <1>6, <1>7, <1>8, <1>9, <1>10, <1>11, <1>12, <1>13, <1>14, <1>15
     DEF PostgresWrites

\* Requests, and the head of a run that is read.
LEMMA CallsTell ==
    ASSUME Connections, Causes, NEW p \in Processes, NEW run \in Offers[p],
           RequestAdd(p, run) \/ GetHead(p, run.id)
    PROVE  CallStep(p)
<1>1. Only(p) /\ db' = db /\ tier' = tier
  BY CallsOutside DEF Outside
<1>2. DOMAIN reply = Processes
  BY DEF Causes
<1>3. CASE RequestAdd(p, run)
  <2>1. /\ reply' = [reply EXCEPT ![p] = None]
        /\ adds' = adds + 1 /\ faults' = faults /\ lock' = lock
    BY <1>3 DEF RequestAdd
  <2>2. Others(reply, reply', p) /\ Blamed(p)'
    BY <1>2, <2>1, Begins
  <2> QED
    BY <1>1, <2>1, <2>2 DEF CallStep, Counts, Tells
<1>4. CASE GetHead(p, run.id)
  <2>1. /\ \/ Replied(p, run.id, "absent", None) /\ at' = at
           \/ reply' = [reply EXCEPT ![p] = None] /\ Goto(p, "stages")
        /\ adds' = adds /\ faults' = faults /\ lock' = lock
    BY <1>4 DEF GetHead
  <2>2. Others(reply, reply', p) /\ Blamed(p)'
    BY <1>2, <2>1, Begins, EndsOtherwise
  <2>3. at'[p] \in Calling => at[p] \in Calling
    BY <2>1, AddingStages DEF Goto, Connections, Calling, Entered, Stages
  <2> QED
    BY <1>1, <2>1, <2>2, <2>3 DEF CallStep, Counts, Tells
<1> QED
  BY <1>3, <1>4

\* Looking for the identifier, and the rest of a read.
LEMMA ReadsTell ==
    ASSUME RowsHold, Causes, NEW p \in Processes, CheckRun(p, "begin") \/ Get(p)
    PROVE  CallStep(p)
<1>0. Connections /\ Shaped
  BY DEF RowsHold, Shaped, Writer, Written
<1>1. Only(p) /\ db' = db /\ tier' = tier
  BY <1>0, ReadsOutside DEF Outside, Ends
<1>2. DOMAIN reply = Processes
  BY DEF Causes
<1>3. CASE CheckRun(p, "begin")
  <2>1. CASE Exists(db, task[p].id) /\ Fail(p, "duplicate")
    <3>1. Blame(p, task[p].id, "duplicate")
      BY <2>1 DEF Blame
    <3> QED
      BY <1>0, <2>1, <3>1, FailTells
  <2>2. CASE UNCHANGED <<lock, task, reply, counters>>
    <3>1. at[p] \in Calling
      BY <1>3, Zenon DEF CheckRun, Calling
    <3>2. /\ task' = task /\ reply' = reply /\ lock' = lock
          /\ adds' = adds /\ faults' = faults /\ Others(reply, reply', p)
      BY <2>2 DEF counters, Others
    <3> QED
      BY <1>1, <3>1, <3>2 DEF CallStep, Counts, Tells
  <2> QED
    BY <1>3, <2>1, <2>2, Zenon DEF CheckRun
<1>4. CASE Get(p)
  <2>1. /\ UNCHANGED <<lock, task, counters>>
        /\ Goto(p, "document") \/ Goto(p, "rows") \/ Goto(p, "ready")
        /\ \/ reply' = reply
           \/ \E run : Replied(p, task[p].id, "read", run)
    BY <1>4, Zenon DEF Get, GetStages, GetDocument, GetRows
  <2>2. at'[p] \notin Calling
    BY <1>0, <2>1, AddingStages DEF Goto, Connections, Calling, Entered, Stages
  <2>3. task' = task /\ lock' = lock /\ adds' = adds /\ faults' = faults
    BY <2>1 DEF counters
  <2>4. CASE reply' = reply
    BY <1>1, <2>2, <2>3, <2>4 DEF CallStep, Counts, Tells, Others
  <2>5. CASE \E run : Replied(p, task[p].id, "read", run)
    <3>1. Others(reply, reply', p) /\ Blamed(p)'
      BY <1>2, <2>5, EndsOtherwise
    <3> QED
      BY <1>1, <2>2, <2>3, <3>1 DEF CallStep, Counts, Tells
  <2> QED
    BY <2>1, <2>4, <2>5
<1> QED
  BY <1>3, <1>4

\* Opening the file, BEGIN IMMEDIATE, and waiting for the lock in vain.
LEMMA OpeningTells ==
    ASSUME RowsHold, Causes, NEW p \in Processes,
           \/ tier = "sqlite" /\ \/ ReadVersion(p) \/ RefuseNewer(p) \/ Apply(p) \/ TableExists(p)
                                 \/ Record(p) \/ Opened(p) \/ BeginImmediate(p)
           \/ Busy(p) \/ Restart(p)
    PROVE  CallStep(p)
<1>0. Connections /\ Shaped
  BY DEF RowsHold, Shaped, Writer, Written
<1>1. Only(p) /\ db' = db /\ tier' = tier
  BY <1>0, OpeningOutside DEF Outside
<1>2. DOMAIN reply = Processes
  BY DEF Causes
<1>3. CASE tier = "sqlite" /\ ReadVersion(p)
  <2>1. reply' = [reply EXCEPT ![p] = None] /\ Goto(p, "migrate") /\ UNCHANGED counters
    BY <1>3 DEF ReadVersion
  <2>2. Others(reply, reply', p) /\ Blamed(p)'
    BY <1>2, <2>1, Begins
  <2>3. at'[p] \notin Calling /\ adds' = adds /\ faults' = faults
    BY <1>0, <2>1, AddingStages DEF Goto, Connections, Calling, Entered, Stages, counters
  <2> QED
    BY <1>1, <1>3, <2>2, <2>3 DEF CallStep, Counts, Tells
<1>4. CASE tier = "sqlite" /\ (RefuseNewer(p) \/ TableExists(p))
  <2>1. OpenFails(p, "newer") \/ OpenFails(p, "exists")
    BY <1>4 DEF RefuseNewer, TableExists
  <2>2. /\ Replied(p, None, "newer", None) \/ Replied(p, None, "exists", None)
        /\ Goto(p, "down") /\ UNCHANGED counters
    BY <2>1 DEF OpenFails
  <2>3. Others(reply, reply', p) /\ Blamed(p)'
    BY <1>2, <2>2, EndsOtherwise
  <2>4. at'[p] \notin Calling /\ adds' = adds /\ faults' = faults
    BY <1>0, <2>2, AddingStages DEF Goto, Connections, Calling, Entered, Stages, counters
  <2> QED
    BY <1>1, <1>4, <2>3, <2>4 DEF CallStep, Counts, Tells
<1>5. CASE tier = "sqlite" /\ (Apply(p) \/ Record(p) \/ Opened(p) \/ BeginImmediate(p))
  <2>1. /\ UNCHANGED <<task, reply, counters>>
        /\ \/ Goto(p, "recorded") \/ Goto(p, "migrate") \/ Goto(p, "ready")
           \/ at[p] = "begin" /\ Goto(p, "scenario")
    BY <1>5 DEF Apply, Record, Opened, BeginImmediate
  <2>2. at'[p] \in Calling => at[p] \in Calling
    <3>1. \/ at'[p] \in {"recorded", "migrate", "ready"}
          \/ at[p] = "begin" /\ at'[p] = "scenario"
      BY <1>0, <2>1 DEF Goto, Connections
    <3>2. "begin" \in Calling /\ {"recorded", "migrate", "ready"} \cap Calling = {}
      BY AddingStages DEF Calling, Entered, Stages
    <3> QED
      BY <3>1, <3>2
  <2>3. task' = task /\ reply' = reply /\ adds' = adds /\ faults' = faults
    BY <2>1 DEF counters
  <2> QED
    BY <1>1, <1>5, <2>2, <2>3 DEF CallStep, Counts, Tells, Others
<1>6. CASE Busy(p)
  <2>1. /\ lock # None /\ lock' = lock /\ task' = task /\ adds' = adds /\ faults' = faults + 1
        /\ \E id : /\ reply' = [reply EXCEPT ![p] = [id |-> id, how |-> "busy", run |-> None]]
                   /\ Goto(p, "ready") \/ Goto(p, "down")
    BY <1>6 DEF Busy, Ended, Replied
  <2>2. PICK id : /\ reply' = [reply EXCEPT ![p] = [id |-> id, how |-> "busy", run |-> None]]
                  /\ Goto(p, "ready") \/ Goto(p, "down")
    BY <2>1
  <2>3. Others(reply, reply', p) /\ reply'[p] = [id |-> id, how |-> "busy", run |-> None]
    BY <1>2, <2>2 DEF Others
  <2>4. tier = "sqlite" /\ faults' > 0
    BY <2>1 DEF Causes, LockOfFile, Counted
  <2>5. Blamed(p)'
    <3>1. reply'[p].id = id /\ reply'[p].how = "busy"
      BY <2>3
    <3> QED
      BY <1>1, <2>4, <3>1 DEF Blamed, Blame
  <2>6. at'[p] \notin Calling
    BY <1>0, <2>2, AddingStages DEF Goto, Connections, Calling, Entered, Stages
  <2> QED
    BY <1>1, <2>1, <2>3, <2>5, <2>6 DEF CallStep, Counts, Tells
<1>7. CASE Restart(p)
  <2>1. UNCHANGED <<lock, task, reply, counters>> /\ Goto(p, Started)
    BY <1>7 DEF Restart
  <2>2. at'[p] \notin Calling
    BY <1>0, <2>1, AddingStages DEF Goto, Connections, Calling, Entered, Stages, Started
  <2>3. lock' = lock /\ task' = task /\ reply' = reply /\ adds' = adds /\ faults' = faults
    BY <2>1 DEF counters
  <2> QED
    BY <1>1, <2>2, <2>3 DEF CallStep, Counts, Tells, Others
<1> QED
  BY <1>3, <1>4, <1>5, <1>6, <1>7

\* COMMIT, a statement that fails, and a process that dies.
LEMMA FaultsTell ==
    ASSUME RowsHold, Causes, NEW p \in Processes,
           Commit(p) \/ StatementFails(p) \/ LostAnswer(p) \/ Crash(p)
    PROVE  CallStep(p)
<1>0. Connections /\ DOMAIN reply = Processes
  BY DEF RowsHold, Causes
<1>1. CASE Commit(p) \/ LostAnswer(p)
  <2>1. /\ Only(p) /\ db' = View(p) /\ tier' = tier
        /\ at[p] = "commit" /\ at'[p] \in {"ready", "down"}
    BY <1>0, <1>1, CommitCommits DEF Commits
  <2>2. /\ adds' = adds
        /\ faults' = faults \/ faults' = faults + 1
        /\ lock' \in {lock, None}
        /\ Replied(p, task[p].id, "stored", None) \/ Replied(p, task[p].id, "failed", None)
    BY <1>1 DEF Commit, LostAnswer, Ended, Release, counters, Faulty
  <2>3. Others(reply, reply', p) /\ Blamed(p)'
    BY <1>0, <2>2, EndsOtherwise
  <2>4. at[p] \in Calling /\ at'[p] \notin Calling
    BY <2>1, AddingStages DEF Calling, Entered, Stages
  <2> QED
    BY <2>1, <2>2, <2>3, <2>4 DEF CallStep, Counts, Tells
<1>2. CASE StatementFails(p) \/ Crash(p)
  <2>1. Only(p) /\ db' = db /\ tier' = tier /\ at'[p] \in {"ready", "down"}
    BY <1>0, <1>2, FaultsEnd DEF Ends
  <2>2. /\ adds' = adds /\ faults' = faults + 1 /\ lock' \in {lock, None} /\ task' = task
        /\ reply' = reply \/ Replied(p, task[p].id, "failed", None)
    BY <1>2 DEF StatementFails, Crash, Ended, Release, Faulty
  <2>3. at'[p] \notin Calling
    BY <2>1, AddingStages DEF Calling, Entered, Stages
  <2>4. CASE reply' = reply
    BY <2>1, <2>2, <2>3, <2>4 DEF CallStep, Counts, Tells, Others
  <2>5. CASE Replied(p, task[p].id, "failed", None)
    <3>1. Others(reply, reply', p) /\ Blamed(p)'
      BY <1>0, <2>5, EndsOtherwise
    <3> QED
      BY <2>1, <2>2, <2>3, <3>1 DEF CallStep, Counts, Tells
  <2> QED
    BY <2>2, <2>4, <2>5
<1> QED
  BY <1>1, <1>2

\* Nobody has called at first.
LEMMA InitCauses == Init => Causes
<1> SUFFICES ASSUME Init PROVE Causes
  OBVIOUS
<1>1. /\ db = NoRows /\ adds = 0 /\ faults = 0 /\ lock = None
      /\ reply = [p \in Processes |-> None]
  BY DEF Init
<1>2. \A p \in Processes : at[p] \notin Calling
  BY AddingStages DEF Init, Started, Calling, Entered, Stages
<1> QED
  BY <1>1, <1>2 DEF Causes, Counted, LockOfFile, Blamed

\* Every step keeps the causes.
LEMMA NextCauses == RowsHold /\ Causes /\ [Next]_vars => Causes'
<1>1. ASSUME RowsHold, Causes, Next PROVE Causes'
  <2>1. \E p \in Processes : CallStep(p)
    <3>1. ASSUME NEW p \in Processes, Step(p) PROVE CallStep(p)
      <4>1. CASE tier = "sqlite" /\ SqliteStep(p)
        BY <1>1, <4>1, OpeningTells, SqliteTells DEF SqliteStep, SqliteWrites
      <4>2. CASE tier = "postgresql" /\ PostgresStep(p)
        BY <1>1, <4>2, ConflictTells, PostgresTells DEF PostgresStep, PostgresWrites
      <4>3. CASE CheckRun(p, "begin") \/ Get(p)
        BY <1>1, <4>3, ReadsTell
      <4>4. CASE Commit(p)
        BY <1>1, <4>4, FaultsTell
      <4> QED
        BY <3>1, <4>1, <4>2, <4>3, <4>4 DEF Step
    <3>2. ASSUME NEW p \in Processes, NEW run \in Offers[p],
                 RequestAdd(p, run) \/ GetHead(p, run.id)
          PROVE  CallStep(p)
      BY <1>1, <3>2, CallsTell DEF RowsHold
    <3>3. ASSUME NEW p \in Processes,
                 Busy(p) \/ StatementFails(p) \/ LostAnswer(p) \/ Crash(p) \/ Restart(p)
          PROVE  CallStep(p)
      BY <1>1, <3>3, OpeningTells, FaultsTell
    <3> QED
      BY <1>1, <3>1, <3>2, <3>3 DEF Next
  <2>2. TableShape /\ Connections
    BY <1>1 DEF RowsHold
  <2> QED
    BY <1>1, <2>1, <2>2, CallStepKeeps
<1>2. ASSUME Causes, UNCHANGED vars PROVE Causes'
  BY <1>2 DEF vars, Causes, Counted, LockOfFile, Blamed, Blame
<1> QED
  BY <1>1, <1>2

\* For any number of processes and any runs whose results are of their inputs,
\* on either tier: an add fails for what is wrong with the run, because another
\* process has stored the same or holds the lock, or because the machine fails.
\* It never misses a station or a payload in the revision that it shares with
\* earlier runs (KeyError in _write_results).
THEOREM FailuresHaveCause == Spec => []FailsForCause
<1>1. Spec => [](RowsHold /\ Causes)
  BY InitRows, NextRows, InitCauses, NextCauses, PTL DEF Spec
<1>2. RowsHold /\ Causes => FailsForCause
  BY DEF Causes, Blamed, Blame, FailsForCause
<1> QED
  BY <1>1, <1>2, PTL

-----------------------------------------------------------------------------
(***************************************************************************)
(* What reading a run returns.                                             *)
(***************************************************************************)

\* The rows that a result is made of, by their columns.
LEMMA IdentityShape ==
    ASSUME NEW r, NEW x \in IdentityRows(r)
    PROVE  x = [key |-> x.key, kind |-> x.kind, status |-> x.status, grade |-> x.grade]
BY DEF IdentityRows, ResultRow

\* So are the rows of the eight typed tables.
LEMMA TypedShape ==
    ASSUME NEW r, NEW x \in TypedRows(r)
    PROVE  x = Row(x.key, x.table, x.parent, x.station, x.payload, x.body)
<1>1. CASE x \in GeometricRows(r)
  BY <1>1 DEF GeometricRows, Row
<1>2. CASE x \in ModeledRows(r)
  BY <1>2 DEF ModeledRows, Row
<1>3. CASE x \in CandidateRows(r)
  BY <1>3 DEF CandidateRows, Row
<1>4. CASE x \in ScheduledRows(r)
  BY <1>4 DEF ScheduledRows, Row
<1>5. CASE x \in AllocationRows(r)
  BY <1>5 DEF AllocationRows, Row
<1>6. CASE x \in EventRows(r)
  BY <1>6 DEF EventRows, Row
<1>7. CASE x \in MetricRows(r)
  BY <1>7 DEF MetricRows, Row
<1>8. CASE x \in AnnotationRows(r)
  <2>1. \E key, subject, body : x = Row(key, "ANNOTATION", subject, None, None, body)
    BY <1>8, Zenon DEF AnnotationRows
  <2> QED
    BY <2>1 DEF Row
<1> QED
  BY <1>1, <1>2, <1>3, <1>4, <1>5, <1>6, <1>7, <1>8 DEF TypedRows

\* An identifier of the result leads back to its key.
LEMMA KeyRead ==
    ASSUME NEW p, NEW r, NEW k \in {x.key : x \in IdentityRows(r)}, New(p, k) # None
    PROVE  KeyOf(StoredIdentities(p, r), New(p, k)) = k
<1> DEFINE found == {y \in StoredIdentities(p, r) : y.id = New(p, k)}
<1>1. \A y \in StoredIdentities(p, r) : \E z : y.id = New(p, z) /\ y.key[2] = z
  BY DEF StoredIdentities
<1>2. \A j : New(p, j)[3] = j
  BY DEF New
<1>3. PICK x \in IdentityRows(r) : x.key = k
  OBVIOUS
<1>4. found # {}
  <2> DEFINE y == [id |-> New(p, x.key), run |-> task[p].id, key |-> <<task[p].id, x.key>>,
                   kind |-> x.kind, status |-> x.status, grade |-> x.grade]
  <2>1. y \in StoredIdentities(p, r)
    BY Zenon DEF StoredIdentities
  <2>2. y.id = New(p, k)
    BY <1>3
  <2> QED
    BY <2>1, <2>2
<1>5. The(found) \in found
  <2> HIDE DEF found
  <2> QED
    BY <1>4, TheRow
<1>6. The(found).key[2] = k
  BY <1>1, <1>2, <1>5
<1>7. KeyOf(StoredIdentities(p, r), New(p, k)) = The(found).key[2]
  BY Zenon DEF KeyOf
<1> QED
  BY <1>6, <1>7

\* An identifier of a station or a payload leads back to its name.
LEMMA NameRead ==
    ASSUME NEW set, NEW kind, Labelled(set, kind), NEW z \in set
    PROVE  NameOf(set, z.id) = z.name
<1> DEFINE found == {y \in set : y.id = z.id}
<1>1. The(found) \in found
  <2>1. z \in found
    OBVIOUS
  <2> HIDE DEF found
  <2> QED
    BY <2>1, TheRow
<1>2. The(found).name = z.name
  <2>1. The(found) \in set /\ The(found).id = z.id
    BY <1>1
  <2> HIDE DEF found
  <2>2. <<kind, The(found).name>> = <<kind, z.name>>
    BY <2>1 DEF Labelled
  <2> QED
    BY <2>2
<1>3. z.id # None
  BY DEF Labelled
<1>4. NameOf(set, z.id) = The(found).name
  BY <1>3, Zenon DEF NameOf
<1> QED
  BY <1>2, <1>4

\* And still does when there are more of them.
LEMMA NameGrows ==
    ASSUME NEW set, NEW larger, set \subseteq larger, NEW kind, Labelled(larger, kind),
           NEW x, x # None => \E z \in set : z.id = x
    PROVE  NameOf(larger, x) = NameOf(set, x)
<1>1. CASE x = None
  BY <1>1 DEF NameOf
<1>2. ASSUME NEW z \in set, z.id = x PROVE NameOf(larger, x) = NameOf(set, x)
  <2>1. Labelled(set, kind)
    BY DEF Labelled
  <2> QED
    BY <1>2, <2>1, NameRead
<1> QED
  BY <1>1, <1>2

-----------------------------------------------------------------------------
(***************************************************************************)
(* A run that is kept.                                                     *)
(***************************************************************************)

\* Rows of the result are of this run, and lead to the rows they name.
Anchored(t, id) ==
    /\ \A y \in ReadResults(t, id) : y.id[2] = id
    /\ \A x \in t["typed"] : x.key[2] = id =>
          /\ x.station # None => \E z \in t["scenario_station"] : z.id = x.station
          /\ x.payload # None => \E z \in t["scenario_payload"] : z.id = x.payload

\* The run is there with everything that belongs to it, as it was given.
Kept(t, run) ==
    /\ \E r \in t["scenario_run"] :
          /\ r.key = run.id /\ r.status = run.status /\ r.hash = run.hash
          /\ \E s \in t["input_snapshot"] : s.id = r.snapshot /\ s.key = run.snapshot
    /\ ReadStages(t, run.id) = {StageOf(x) : x \in Elements(run.stages)}
    /\ OneWriter => ReadDocument(t, run.id, run.hash) = run.result
    /\ ReadRows(t, run.id) = ResultRows(run.result)
    /\ Anchored(t, run.id)

\* Rows of other runs do not disturb it.
LEMMA KeptGrows ==
    ASSUME NEW t, NEW u, NEW w, \A k \in Tables : w[k] = t[k] \cup u[k],
           Whole(u), Whole(w), NEW run, Kept(t, run), ~Exists(u, run.id)
    PROVE  Kept(w, run)
<1> USE DEF Tables
<1>1. /\ \A x \in u["run_stage"] : x.key[1] # run.id
      /\ \A x \in u["run_result"] : x.run # run.id
      /\ \A x \in u["typed"] : x.key[2] # run.id
      /\ \A x \in u["run_result_document"] : x.key # run.id
  BY DEF Whole
<1>2. \E r \in w["scenario_run"] :
          /\ r.key = run.id /\ r.status = run.status /\ r.hash = run.hash
          /\ \E s \in w["input_snapshot"] : s.id = r.snapshot /\ s.key = run.snapshot
  BY DEF Kept
<1>3. ReadStages(w, run.id) = ReadStages(t, run.id)
  <2>1. {x \in w["run_stage"] : x.key[1] = run.id} = {x \in t["run_stage"] : x.key[1] = run.id}
    BY <1>1
  <2> QED
    BY <2>1, Zenon DEF ReadStages
<1>4. ReadDocument(w, run.id, run.hash) = ReadDocument(t, run.id, run.hash)
  <2>1. {x \in w["run_result_document"] : x.key = run.id}
            = {x \in t["run_result_document"] : x.key = run.id}
    BY <1>1
  <2> QED
    BY <2>1, Zenon DEF ReadDocument
<1>5. ReadResults(w, run.id) = ReadResults(t, run.id)
  BY <1>1 DEF ReadResults
<1> DEFINE results == ReadResults(t, run.id)
           mine(v) == {x \in v["typed"] : \E y \in results : y.id = x.key}
<1>6. \A y \in results : y.id[2] = run.id
  BY DEF Kept, Anchored
<1>7. mine(w) = mine(t)
  <2> HIDE DEF results
  <2> QED
    BY <1>1, <1>6
<1>8. ASSUME NEW x \in mine(t)
      PROVE  /\ NameOf(w["scenario_station"], x.station) = NameOf(t["scenario_station"], x.station)
             /\ NameOf(w["scenario_payload"], x.payload) = NameOf(t["scenario_payload"], x.payload)
  <2>1. x \in t["typed"] /\ x.key[2] = run.id
    <3> HIDE DEF results
    <3> QED
      BY <1>6
  <2>2. /\ x.station # None => \E z \in t["scenario_station"] : z.id = x.station
        /\ x.payload # None => \E z \in t["scenario_payload"] : z.id = x.payload
    BY <2>1 DEF Kept, Anchored
  <2>3. /\ Labelled(w["scenario_station"], "station") /\ Labelled(w["scenario_payload"], "payload")
        /\ t["scenario_station"] \subseteq w["scenario_station"]
        /\ t["scenario_payload"] \subseteq w["scenario_payload"]
    BY DEF Whole
  <2> QED
    BY <2>2, <2>3, NameGrows
<1>9. ReadTyped(w, results) = ReadTyped(t, results)
  <2> DEFINE Read(v, x) == Row(KeyOf(results, x.key), x.table, KeyOf(results, x.parent),
                               NameOf(v["scenario_station"], x.station),
                               NameOf(v["scenario_payload"], x.payload), x.body)
  <2>1. \A x \in mine(t) : Read(w, x) = Read(t, x)
    BY <1>8
  <2>2. ReadTyped(w, results) = {Read(w, x) : x \in mine(w)}
    BY DEF ReadTyped
  <2>3. ReadTyped(t, results) = {Read(t, x) : x \in mine(t)}
    BY DEF ReadTyped
  <2> HIDE DEF mine, Read, results
  <2> QED
    BY <1>7, <2>1, <2>2, <2>3
<1>10. ReadRows(w, run.id) = ReadRows(t, run.id)
  BY <1>5, <1>9, Zenon DEF ReadRows
<1>11. Anchored(w, run.id)
  <2>1. \A y \in ReadResults(w, run.id) : y.id[2] = run.id
    BY <1>5, <1>6
  <2> QED
    BY <1>1, <2>1 DEF Kept, Anchored
<1> QED
  BY <1>2, <1>3, <1>4, <1>10, <1>11 DEF Kept

-----------------------------------------------------------------------------
(***************************************************************************)
(* A run that is laid out in a transaction.                                *)
(***************************************************************************)

\* Before COMMIT the transaction has the rows of the run.
Laid(p) ==
    at[p] = "commit" =>
        /\ tx[p]["run_result"] = StoredIdentities(p, task[p].result)
        /\ tx[p]["typed"] = StoredTyped(p, task[p].result)
        /\ tx[p]["run_stage"] = StageRows(p)
        /\ OneWriter => tx[p]["run_result_document"] =
                            {[key |-> task[p].id, hash |-> task[p].hash,
                              document |-> task[p].result]}

\* What is seen of the result is what was given.
LEMMA StagesRead ==
    ASSUME NEW t, NEW p, {x \in t["run_stage"] : x.key[1] = task[p].id} = StageRows(p)
    PROVE  ReadStages(t, task[p].id) = {StageOf(x) : x \in Elements(task[p].stages)}
<1> DEFINE id == task[p].id
           Stage(x) == [key |-> <<id, x.code>>, ordinal |-> x.ordinal, status |-> x.status,
                        count |-> x.count]
           Read(x) == [code |-> x.key[2], ordinal |-> x.ordinal, status |-> x.status,
                       count |-> x.count]
<1>1. StageRows(p) = {Stage(x) : x \in Elements(task[p].stages)}
  BY DEF StageRows
<1>2. ReadStages(t, id) = {Read(x) : x \in StageRows(p)}
  BY Zenon DEF ReadStages
<1>3. \A x : Read(Stage(x)) = StageOf(x)
  BY DEF StageOf
<1> HIDE DEF Stage, Read
<1> QED
  BY <1>1, <1>2, <1>3

\* The rows of run_result read back as the identity rows of the result.
LEMMA IdentitiesRead ==
    ASSUME NEW p, NEW r
    PROVE  {[key |-> x.key[2], kind |-> x.kind, status |-> x.status, grade |-> x.grade]
            : x \in StoredIdentities(p, r)} = IdentityRows(r)
<1> DEFINE Handed(x) == [id |-> New(p, x.key), run |-> task[p].id, key |-> <<task[p].id, x.key>>,
                        kind |-> x.kind, status |-> x.status, grade |-> x.grade]
           Read(x) == [key |-> x.key[2], kind |-> x.kind, status |-> x.status, grade |-> x.grade]
<1>1. StoredIdentities(p, r) = {Handed(x) : x \in IdentityRows(r)}
  BY DEF StoredIdentities
<1>2. \A x \in IdentityRows(r) : Read(Handed(x)) = x
  BY IdentityShape
<1> HIDE DEF Handed
<1>3. {Read(x) : x \in StoredIdentities(p, r)} = IdentityRows(r)
  <2> HIDE DEF Read
  <2> QED
    BY <1>1, <1>2
<1> QED
  BY <1>3

\* The name of whatever a reference of a result is resolved to.
LEMMA NameFound ==
    ASSUME NEW set, NEW kind, Labelled(set, kind), \A x \in set : x.key = <<x.key[1], x.name>>,
           NEW map, NEW revision, Mapped(set, map, revision), NEW k \in DOMAIN map \cup {None}
    PROVE  NameOf(set, Lookup(map, k)) = k
<1>1. CASE k \notin DOMAIN map
  BY <1>1 DEF Lookup, NameOf
<1>2. CASE k \in DOMAIN map
  <2>1. PICK z \in set : z.id = map[k] /\ z.key = <<revision, k>>
    BY <1>2 DEF Mapped
  <2>2. z.name = k
    <3>1. <<revision, k>> = <<z.key[1], z.name>>
      BY <2>1
    <3> QED
      BY <3>1
  <2>3. Lookup(map, k) = z.id
    BY <1>2, <2>1 DEF Lookup
  <2> QED
    BY <2>2, <2>3, NameRead
<1> QED
  BY <1>1, <1>2

\* What p sees is whole.
LEMMA ViewWhole ==
    ASSUME RowsHold, NEW p \in Processes
    PROVE  Whole(View(p)) /\ \A t \in Tables : View(p)[t] = db[t] \cup tx[p][t]
<1>1. \A t \in Tables : View(p)[t] = db[t] \cup tx[p][t]
  BY ViewIs DEF RowsHold
<1>2. Whole(db) /\ Whole(tx[p])
  BY DEF RowsHold, Stored, Writer, Written
<1> QED
  BY <1>1, <1>2, WholeUnion

\* The references of a result lead back to what it names.
LEMMA ReferencesRead ==
    ASSUME RowsHold, NEW p \in Processes, at[p] = "commit", NEW v \in TypedRows(task[p].result)
    PROVE  LET ids == IdsOf(p, task[p].result)
               results == StoredIdentities(p, task[p].result)
           IN  /\ KeyOf(results, ids[v.key]) = v.key
               /\ KeyOf(results, Lookup(ids, v.parent)) = v.parent
               /\ NameOf(View(p)["scenario_station"], Lookup(known[p].stations, v.station)) = v.station
               /\ NameOf(View(p)["scenario_payload"], Lookup(known[p].payloads, v.payload)) = v.payload
<1> DEFINE r == task[p].result
           s == task[p].snapshot
           ids == IdsOf(p, r)
           results == StoredIdentities(p, r)
           keys == {x.key : x \in IdentityRows(r)}
<1>1. at[p] \in Entered /\ at[p] \in PastRevision
  BY AddingStages DEF Entered, Stages, PastRevision, PastSnapshot, PastManifest, PastRun
<1>2. task[p] \in Runs /\ KnowsRevision(p)
  BY <1>1 DEF RowsHold, Writer, Given, Knows
<1>3. /\ v.key \in keys /\ v.parent \in keys \cup {None}
      /\ v.station \in DOMAIN s.stations \cup {None} /\ v.payload \in DOMAIN s.payloads \cup {None}
  BY <1>2, RunsAssumption, ResultsAssumption DEF Resolvable, Resolved
<1>4. \A k \in keys : ids[k] = New(p, k) /\ New(p, k) # None
  BY <1>2, IdsAssumption DEF IdsOf, New
<1>5. \A k \in keys : KeyOf(results, ids[k]) = k
  BY <1>4, KeyRead
<1>6. KeyOf(results, Lookup(ids, v.parent)) = v.parent
  <2>1. DOMAIN ids = keys
    BY DEF IdsOf
  <2>2. CASE v.parent \in keys
    BY <1>5, <2>1, <2>2 DEF Lookup
  <2>3. CASE v.parent \notin keys
    <3>1. v.parent = None /\ Lookup(ids, v.parent) = None
      BY <1>3, <2>1, <2>3 DEF Lookup
    <3> QED
      BY <3>1 DEF KeyOf
  <2> QED
    BY <2>2, <2>3
<1>7. /\ DOMAIN known[p].stations = DOMAIN s.stations /\ DOMAIN known[p].payloads = DOMAIN s.payloads
      /\ Mapped(View(p)["scenario_station"], known[p].stations, known[p].revision)
      /\ Mapped(View(p)["scenario_payload"], known[p].payloads, known[p].revision)
  BY <1>1, <1>2 DEF KnowsRevision, Snapshot
<1>8. Whole(View(p))
  BY ViewWhole
<1>9. NameOf(View(p)["scenario_station"], Lookup(known[p].stations, v.station)) = v.station
  <2>1. /\ Labelled(View(p)["scenario_station"], "station")
        /\ \A x \in View(p)["scenario_station"] : x.key = <<x.key[1], x.name>>
    BY <1>8 DEF Whole
  <2> QED
    BY <1>3, <1>7, <2>1, NameFound
<1>10. NameOf(View(p)["scenario_payload"], Lookup(known[p].payloads, v.payload)) = v.payload
  <2>1. /\ Labelled(View(p)["scenario_payload"], "payload")
        /\ \A x \in View(p)["scenario_payload"] : x.key = <<x.key[1], x.name>>
    BY <1>8 DEF Whole
  <2> QED
    BY <1>3, <1>7, <2>1, NameFound
<1> QED
  BY <1>3, <1>5, <1>6, <1>9, <1>10

\* The rows of the typed tables read back as those of the result.
LEMMA TypedRead ==
    ASSUME RowsHold, NEW p \in Processes, at[p] = "commit",
           {x \in View(p)["typed"] : \E y \in StoredIdentities(p, task[p].result) : y.id = x.key}
               = StoredTyped(p, task[p].result)
    PROVE  ReadTyped(View(p), StoredIdentities(p, task[p].result)) = TypedRows(task[p].result)
<1> DEFINE r == task[p].result
           results == StoredIdentities(p, r)
           ids == IdsOf(p, r)
           Store(x) == [key |-> ids[x.key], table |-> x.table, parent |-> Lookup(ids, x.parent),
                        station |-> Lookup(known[p].stations, x.station),
                        payload |-> Lookup(known[p].payloads, x.payload), body |-> x.body]
           Read(x) == Row(KeyOf(results, x.key), x.table, KeyOf(results, x.parent),
                          NameOf(View(p)["scenario_station"], x.station),
                          NameOf(View(p)["scenario_payload"], x.payload), x.body)
<1>1. StoredTyped(p, r) = {Store(x) : x \in TypedRows(r)}
  BY DEF StoredTyped
<1>2. ReadTyped(View(p), results) = {Read(x) : x \in StoredTyped(p, r)}
  BY Zenon DEF ReadTyped
<1>3. ASSUME NEW v \in TypedRows(r) PROVE Read(Store(v)) = v
  <2>1. /\ Store(v).key = ids[v.key] /\ Store(v).table = v.table
        /\ Store(v).parent = Lookup(ids, v.parent) /\ Store(v).body = v.body
        /\ Store(v).station = Lookup(known[p].stations, v.station)
        /\ Store(v).payload = Lookup(known[p].payloads, v.payload)
    OBVIOUS
  <2> HIDE DEF Store
  <2>2. /\ KeyOf(results, Store(v).key) = v.key /\ KeyOf(results, Store(v).parent) = v.parent
        /\ NameOf(View(p)["scenario_station"], Store(v).station) = v.station
        /\ NameOf(View(p)["scenario_payload"], Store(v).payload) = v.payload
    BY <2>1, ReferencesRead
  <2>3. Read(Store(v)) = Row(v.key, v.table, v.parent, v.station, v.payload, v.body)
    BY <2>1, <2>2, Zenon
  <2> QED
    BY <2>3, TypedShape
<1> HIDE DEF Store, Read
<1> QED
  BY <1>1, <1>2, <1>3

\* What p has laid out is kept, once it is the first of its identifier.
LEMMA LaidKept ==
    ASSUME RowsHold, NEW p \in Processes, at[p] = "commit", Laid(p), ~Exists(db, task[p].id)
    PROVE  Kept(View(p), task[p])
<1> DEFINE id == task[p].id
           r == task[p].result
           results == StoredIdentities(p, r)
<1> USE DEF Tables
<1>1. \A t \in Tables : View(p)[t] = db[t] \cup tx[p][t]
  BY ViewWhole
<1>2. /\ tx[p]["run_result"] = results /\ tx[p]["typed"] = StoredTyped(p, r)
      /\ tx[p]["run_stage"] = StageRows(p)
      /\ OneWriter => tx[p]["run_result_document"] =
                          {[key |-> id, hash |-> task[p].hash, document |-> r]}
  BY DEF Laid
<1>3. /\ \A x \in db["run_stage"] : x.key[1] # id
      /\ \A x \in db["run_result"] : x.run # id
      /\ \A x \in db["typed"] : x.key[2] # id
      /\ \A x \in db["run_result_document"] : x.key # id
  BY DEF RowsHold, Stored, Whole
<1>4. /\ at[p] \in Entered /\ at[p] \in PastRevision /\ at[p] \in PastSnapshot /\ at[p] \in PastRun
  BY AddingStages DEF Entered, Stages, PastRevision, PastSnapshot, PastManifest, PastRun
<1>5. task[p] \in Runs /\ KnowsRevision(p) /\ KnowsSnapshot(p) /\ KnowsRun(p)
  BY <1>4 DEF RowsHold, Writer, Given, Knows
<1>6. \A k : New(p, k)[2] = id
  BY DEF New
<1>7. \E h \in View(p)["scenario_run"] :
          /\ h.key = id /\ h.status = task[p].status /\ h.hash = task[p].hash
          /\ \E s \in View(p)["input_snapshot"] : s.id = h.snapshot /\ s.key = task[p].snapshot
  <2>1. RunRow(p) \in View(p)["scenario_run"]
    BY <1>1, <1>4, <1>5 DEF KnowsRun
  <2>2. \E s \in View(p)["input_snapshot"] : s.id = known[p].snapshot /\ s.key = task[p].snapshot
    BY <1>4, <1>5 DEF KnowsSnapshot, Snapshot
  <2>3. /\ RunRow(p).key = id /\ RunRow(p).status = task[p].status
        /\ RunRow(p).hash = task[p].hash /\ RunRow(p).snapshot = known[p].snapshot
    BY DEF RunRow
  <2> QED
    BY <2>1, <2>2, <2>3
<1>8. ReadStages(View(p), id) = {StageOf(x) : x \in Elements(task[p].stages)}
  <2>1. \A x \in StageRows(p) : x.key[1] = id
    BY DEF StageRows
  <2>2. {x \in View(p)["run_stage"] : x.key[1] = id} = StageRows(p)
    BY <1>1, <1>2, <1>3, <2>1
  <2> QED
    BY <2>2, StagesRead
<1>9. OneWriter => ReadDocument(View(p), id, task[p].hash) = r
  <2> DEFINE document == [key |-> id, hash |-> task[p].hash, document |-> r]
             found == {x \in View(p)["run_result_document"] : x.key = id}
  <2> SUFFICES ASSUME OneWriter PROVE ReadDocument(View(p), id, task[p].hash) = r
    OBVIOUS
  <2>1. found = {document}
    BY <1>1, <1>2, <1>3
  <2>2. The(found) = document /\ found # {}
    BY <2>1 DEF The
  <2>3. document.hash = task[p].hash /\ document.document = r
    OBVIOUS
  <2> HIDE DEF document
  <2> QED
    BY <2>2, <2>3, Zenon DEF ReadDocument
<1>10. ReadResults(View(p), id) = results
  <2>1. \A x \in results : x.run = id
    BY DEF StoredIdentities
  <2> HIDE DEF results
  <2> QED
    BY <1>1, <1>2, <1>3, <2>1 DEF ReadResults
<1>11. {x \in View(p)["typed"] : \E y \in results : y.id = x.key} = StoredTyped(p, r)
  <2>1. \A y \in results : y.id[2] = id
    BY <1>6 DEF StoredIdentities
  <2>2. \A x \in StoredTyped(p, r) : \E y \in results : y.id = x.key
    <3>1. \A x \in tx[p]["typed"] : \E y \in tx[p]["run_result"] : y.id = x.key
      BY DEF RowsHold, Writer, Written, Whole
    <3> QED
      BY <1>2, <3>1
  <2> HIDE DEF results
  <2> QED
    BY <1>1, <1>2, <1>3, <2>1, <2>2
<1>12. ReadRows(View(p), id) = ResultRows(r)
  <2>1. ReadTyped(View(p), results) = TypedRows(r)
    BY <1>11, TypedRead
  <2>2. {[key |-> x.key[2], kind |-> x.kind, status |-> x.status, grade |-> x.grade]
         : x \in results} = IdentityRows(r)
    BY IdentitiesRead
  <2> HIDE DEF results
  <2> QED
    BY <1>10, <2>1, <2>2, Zenon DEF ReadRows, ResultRows
<1>13. Anchored(View(p), id)
  <2>1. \A y \in results : y.id[2] = id
    BY <1>6 DEF StoredIdentities
  <2>2. \A x \in tx[p]["typed"] : Located(x, View(p), known[p].revision)
    BY <1>4, <1>5 DEF KnowsRun
  <2> HIDE DEF results
  <2> QED
    BY <1>1, <1>3, <1>10, <2>1, <2>2 DEF Anchored, Located
<1> QED
  BY <1>7, <1>8, <1>9, <1>12, <1>13 DEF Kept

-----------------------------------------------------------------------------
(***************************************************************************)
(* The invariant of the register.                                          *)
(***************************************************************************)

HeadOf(run)   == [status |-> run.status, hash |-> run.hash, input |-> run.snapshot]
StagesOf(run) == {StageOf(x) : x \in Elements(run.stages)}

\* Whoever commits is the first with its identifier.
Sole(p) ==
    at[p] = "commit" =>
        /\ ~Exists(db, task[p].id)
        /\ \A q \in Processes \ {p} : \A x \in tx[q]["scenario_run"] : x.key # task[p].id

\* A reader has read of a stored run what it was stored as.
Reading == {"stages", "document", "rows"}
ReadSoFar(p, run) ==
    /\ task[p].id = run.id /\ Exists(db, run.id)
    /\ {"head", "document"} \subseteq DOMAIN known[p] /\ known[p].head = HeadOf(run)
    /\ at[p] # "stages" => "stages" \in DOMAIN known[p] /\ known[p].stages = StagesOf(run)
    /\ at[p] = "document" => OneWriter
    /\ known[p].document = IF OneWriter /\ at[p] = "rows" THEN run.result ELSE None
Reader(p) == at[p] \in Reading => \E run \in Runs : ReadSoFar(p, run)

\* The statements, and the steps between them.
Places == Entered \cup Reading \cup {"ready", "closed", "migrate", "recorded", "down", "check"}

Recorded == \A x \in db["scenario_run"] : \E run \in Runs : run.id = x.key /\ Kept(db, run)

Caller(p) == at[p] \in Places /\ Laid(p) /\ Sole(p) /\ Reader(p)

RunsHold == DOMAIN reply = Processes /\ Recorded /\ \A p \in Processes : Caller(p)

\* A run that is kept reads back as it was given.
LEMMA HeadRead ==
    ASSUME RowsHold, NEW run, Kept(db, run) PROVE ReadHead(db, run.id) = HeadOf(run)
<1> DEFINE runs == {x \in db["scenario_run"] : x.key = run.id}
<1>1. PICK r \in db["scenario_run"] :
          /\ r.key = run.id /\ r.status = run.status /\ r.hash = run.hash
          /\ \E s \in db["input_snapshot"] : s.id = r.snapshot /\ s.key = run.snapshot
  BY DEF Kept
<1>2. PICK s \in db["input_snapshot"] : s.id = r.snapshot /\ s.key = run.snapshot
  BY <1>1
<1>3. The(runs) = r
  <2>1. r \in runs /\ \A x \in runs : x \in db["scenario_run"] /\ x.key = r.key
    BY <1>1
  <2>2. "scenario_run" \in Keyed
    BY DEF Keyed, Tables
  <2> HIDE DEF runs
  <2>3. The(runs) \in runs
    BY <2>1, TheRow
  <2> QED
    BY <2>1, <2>2, <2>3, KeysCommitted
<1>4. The({x \in db["input_snapshot"] : x.id = r.snapshot}) = s
  <2> DEFINE snapshots == {x \in db["input_snapshot"] : x.id = r.snapshot}
  <2>1. s \in snapshots /\ \A x \in snapshots : x \in db["input_snapshot"] /\ x.id = s.id
    BY <1>2
  <2>2. \A x \in db["input_snapshot"] : x.id = s.id => x = s
    BY DEF RowsHold, Stored, IdsUnique, Identified
  <2> HIDE DEF snapshots
  <2>3. The(snapshots) \in snapshots
    BY <2>1, TheRow
  <2>4. The(snapshots) = s
    BY <2>1, <2>2, <2>3
  <2> QED
    BY <2>4 DEF snapshots
<1>5. ReadHead(db, run.id) = [status |-> The(runs).status, hash |-> The(runs).hash,
          input |-> The({x \in db["input_snapshot"] : x.id = The(runs).snapshot}).key]
  BY DEF ReadHead
<1> HIDE DEF runs
<1> QED
  BY <1>1, <1>2, <1>3, <1>4, <1>5 DEF HeadOf

\* The parts of a stored run.
LEMMA DocumentReplaced ==
    \A h, s, d, r, e : [Assembled(h, s, d, r) EXCEPT !.document = e] = Assembled(h, s, e, r)
BY DEF Assembled

\* What is shown of a run that was read is what it was stored as, on either tier.
LEMMA RunShown ==
    ASSUME NEW run \in Runs, NEW d, OneWriter => d = run.result
    PROVE  Shown(run.id, Assembled(HeadOf(run), StagesOf(run), d, ResultRows(run.result)))
               = Expected(run)
<1>1. The({x \in Runs : x.id = run.id}) = run
  <2> DEFINE same == {x \in Runs : x.id = run.id}
  <2>1. run \in same /\ \A x \in same : x = run
    BY ResultsAssumption
  <2> HIDE DEF same
  <2>2. The(same) \in same
    BY <2>1, TheRow
  <2>3. The(same) = run
    BY <2>1, <2>2
  <2> QED
    BY <2>3 DEF same
<1>2. Expected(run) = Assembled(HeadOf(run), StagesOf(run), run.result, ResultRows(run.result))
  BY DEF Expected, HeadOf, StagesOf
<1> QED
  BY <1>1, <1>2, DocumentReplaced DEF Shown, OneWriter

\* A run whose identifier is stored is the one that is kept.
LEMMA RunFound ==
    ASSUME RowsHold, Recorded, NEW run \in Runs, Exists(db, run.id) PROVE Kept(db, run)
<1>1. PICK other \in Runs : other.id = run.id /\ Kept(db, other)
  BY DEF Recorded, Exists
<1>2. other = run
  BY <1>1, ResultsAssumption
<1> QED
  BY <1>1, <1>2

\* Every stored run is read back as it was given.
LEMMA Shelves ==
    ASSUME RowsHold, Recorded
    PROVE  /\ DOMAIN StoredRuns = {x.key : x \in db["scenario_run"]}
           /\ \A id \in DOMAIN StoredRuns : \E run \in Runs : id = run.id
           /\ \A run \in Runs : Exists(db, run.id) <=> run.id \in DOMAIN StoredRuns
           /\ \A run \in Runs : Exists(db, run.id) => StoredRuns[run.id] = Expected(run)
<1>1. DOMAIN StoredRuns = {x.key : x \in db["scenario_run"]}
  BY DEF StoredRuns
<1>2. \A id \in DOMAIN StoredRuns : \E run \in Runs : id = run.id
  BY <1>1 DEF Recorded
<1>3. \A run \in Runs : Exists(db, run.id) <=> run.id \in DOMAIN StoredRuns
  BY <1>1 DEF Exists
<1>4. ASSUME NEW run \in Runs, Exists(db, run.id) PROVE StoredRuns[run.id] = Expected(run)
  <2>1. Kept(db, run)
    BY <1>4, RunFound
  <2>2. ReadHead(db, run.id) = HeadOf(run)
    BY <2>1, HeadRead
  <2>3. HeadOf(run).hash = run.hash
    BY DEF HeadOf
  <2>4. /\ ReadStages(db, run.id) = StagesOf(run) /\ ReadRows(db, run.id) = ResultRows(run.result)
        /\ OneWriter => ReadDocument(db, run.id, run.hash) = run.result
    BY <2>1 DEF Kept, StagesOf
  <2>5. Content(run.id) = Assembled(HeadOf(run), StagesOf(run),
            ReadDocument(db, run.id, run.hash), ResultRows(run.result))
    BY <2>2, <2>3, <2>4 DEF Content
  <2>6. StoredRuns[run.id] = Shown(run.id, Content(run.id))
    BY <1>1, <1>3, <1>4 DEF StoredRuns
  <2> QED
    BY <2>4, <2>5, <2>6, RunShown
<1> QED
  BY <1>1, <1>2, <1>3, <1>4

-----------------------------------------------------------------------------
(***************************************************************************)
(* What a step does to the register.                                       *)
(***************************************************************************)

\* The reply of p: it stays, is cleared for the next call, tells why a call
\* failed, or what was read.
Silent(p)  == reply' = reply
Cleared(p) == reply' = [reply EXCEPT ![p] = None]
Refused(p) ==
    \E id \in {None} \cup {run.id : run \in Runs}, how \in Failures : Replied(p, id, how, None)
Fetched(p) ==
    \E run \in Runs :
        \/ ~Exists(db, run.id) /\ Replied(p, run.id, "absent", None)
        \/ /\ Exists(db, run.id)
           /\ Replied(p, run.id, "read",
                      [Expected(run) EXCEPT !.document = IF OneWriter THEN run.result ELSE None])

\* The statements that lay a run out, which is nobody else's.
Lays(p) ==
    /\ at[p] = "run" /\ task[p] \in Runs
    /\ \A y \in Held("scenario_run") : y.key # task[p].id
    /\ \E new : /\ RowsOfRun(p, new)
                /\ OneWriter => /\ "run_result_document" \in DOMAIN new
                                /\ new["run_result_document"] =
                                      {[key |-> task[p].id, hash |-> task[p].hash,
                                        document |-> task[p].result]}
                /\ Write(p, new, <<>>, "commit")

\* Any other step that commits nothing.
Proceeds(p) == at'[p] \in Places \ {"commit"} /\ Reader(p)'

\* The register stays as it is, or the run of p joins it.
Keeps(p) ==
    /\ Only(p) /\ tier' = tier /\ db' = db
    /\ Silent(p) \/ Cleared(p) \/ Refused(p) \/ Fetched(p)
    /\ Proceeds(p) \/ Lays(p)
Stores(p) ==
    /\ Commits(p) /\ at'[p] = "ready"
    /\ \E how \in {"stored", "failed"} : Replied(p, task[p].id, how, None)
Effect(p) == Keeps(p) \/ Stores(p)

\* A call or an open that fails.
LEMMA FailureKeeps ==
    ASSUME NEW p \in Processes, Only(p), tier' = tier, db' = db, at'[p] \in {"ready", "down"},
           NEW id \in {None} \cup {run.id : run \in Runs}, NEW how \in Failures,
           Replied(p, id, how, None)
    PROVE  Effect(p)
<1>1. Refused(p)
  BY Zenon DEF Refused
<1>2. Proceeds(p)
  BY DEF Proceeds, Places, Reader, Reading
<1> QED
  BY <1>1, <1>2 DEF Effect, Keeps

\* A call of add that fails.
LEMMA FailedKeeps ==
    ASSUME RowsHold, NEW p \in Processes, at[p] \in Calling, NEW how \in Failures, Fail(p, how)
    PROVE  Effect(p)
<1>1. Ends(p)
  BY FailEnds DEF RowsHold
<1>2. Replied(p, task[p].id, how, None)
  BY DEF Fail, Ended
<1>3. task[p] \in Runs
  BY DEF RowsHold, Writer, Given, Calling
<1> QED
  BY <1>1, <1>2, <1>3, FailureKeeps DEF Ends

\* A statement of add that is not the last one.
LEMMA WriteProceeds ==
    ASSUME RowsHold, NEW p \in Processes, NEW next \in Entered \ {"commit"},
           NEW new, NEW learnt, Write(p, new, learnt, next)
    PROVE  Effect(p)
<1>1. Only(p) /\ db' = db /\ tier' = tier /\ at'[p] = next
  BY WriteFacts
<1>2. reply' = reply
  BY DEF Write
<1>3. Proceeds(p)
  BY <1>1, AddingStages DEF Proceeds, Places, Reader, Reading, Entered, Stages
<1> QED
  BY <1>1, <1>2, <1>3 DEF Effect, Keeps, Silent

\* The statements that lay the run out.
LEMMA LaysKeeps ==
    ASSUME RowsHold, NEW p \in Processes, Lays(p) PROVE Effect(p)
<1>1. PICK new : Write(p, new, <<>>, "commit")
  BY DEF Lays
<1>2. Only(p) /\ db' = db /\ tier' = tier
  BY <1>1, WriteFacts
<1>3. reply' = reply
  BY <1>1 DEF Write
<1> QED
  BY <1>2, <1>3 DEF Effect, Keeps, Silent

\* Nothing else than the revision's rows can be missing.
LEMMA RefusalsFail ==
    ASSUME NEW p PROVE Refusals(p) \subseteq Failures
BY DEF Refusals, Failures

\* The statements of the SQLite tier.
LEMMA SqliteEffects ==
    ASSUME RowsHold, NEW p \in Processes, tier = "sqlite", SqliteWrites(p) PROVE Effect(p)
<1>1. at[p] \in {"scenario", "snapshot", "manifest", "run"}
  BY Zenon DEF SqliteWrites, EnsureScenario, EnsureSnapshot, EnsureManifest, WriteRun
<1>2. at[p] \in Calling /\ {"snapshot", "manifest", "run"} \subseteq Entered \ {"commit"}
  BY <1>1, AddingStages DEF Calling, Entered, Stages
<1>3. {"constraint", "missing"} \subseteq Failures
  BY DEF Failures
<1>4. CASE EnsureScenario(p)
  <2>1. \/ \E new, learnt : Write(p, new, learnt, "snapshot")
        \/ Fail(p, "constraint")
    BY <1>4, Zenon DEF EnsureScenario
  <2> QED
    BY <1>2, <1>3, <2>1, WriteProceeds, FailedKeeps
<1>5. CASE EnsureSnapshot(p)
  <2>1. \E new, learnt : Write(p, new, learnt, "manifest")
    BY <1>5, Zenon DEF EnsureSnapshot
  <2> QED
    BY <1>2, <2>1, WriteProceeds
<1>6. CASE EnsureManifest(p)
  <2>1. \E new, learnt : Write(p, new, learnt, "run")
    BY <1>6, Zenon DEF EnsureManifest
  <2> QED
    BY <1>2, <2>1, WriteProceeds
<1>7. CASE WriteRun(p)
  <2> DEFINE document == {[key |-> task[p].id, hash |-> task[p].hash, document |-> task[p].result]}
             new == [run_result |-> StoredIdentities(p, task[p].result),
                     typed |-> StoredTyped(p, task[p].result),
                     scenario_run |-> {RunRow(p)}, run_stage |-> StageRows(p),
                     run_result_document |-> document]
  <2>1. /\ at[p] = "run"
        /\ \/ Fail(p, "constraint")
           \/ \E how \in Refusals(p) : Fail(p, how)
           \/ ~Exists(db, task[p].id) /\ Write(p, new, <<>>, "commit")
    BY <1>7, Zenon DEF WriteRun
  <2>2. ASSUME ~Exists(db, task[p].id), Write(p, new, <<>>, "commit") PROVE Lays(p)
    <3>1. at[p] \in Adding /\ at[p] \notin PastRun /\ task[p] \in Runs
      BY <1>2, <2>1, AddingStages DEF Stages, PastRun, RowsHold, Writer, Given, Calling
    <3>2. tx[p]["scenario_run"] = {}
      BY <3>1 DEF RowsHold, Writer, Written, Taken
    <3>3. Held("scenario_run") = db["scenario_run"]
      BY <3>1, <3>2, OwnOnly DEF Tables, OneWriter
    <3>4. \A y \in Held("scenario_run") : y.key # task[p].id
      BY <2>2, <3>3 DEF Exists
    <3>5. \A x, y \in document : x.key = task[p].id /\ x = y
      OBVIOUS
    <3> HIDE DEF document
    <3>6. /\ DOMAIN new = {"run_result", "typed", "scenario_run", "run_stage", "run_result_document"}
          /\ new["run_result"] = StoredIdentities(p, task[p].result)
          /\ new["typed"] = StoredTyped(p, task[p].result)
          /\ new["scenario_run"] = {RunRow(p)} /\ new["run_stage"] = StageRows(p)
          /\ new["run_result_document"] = document
      BY Zenon
    <3> HIDE DEF new
    <3>7. RowsOfRun(p, new)
      BY <3>5, <3>6 DEF RowsOfRun
    <3>8. "run_result_document" \in DOMAIN new
      BY <3>6
    <3> USE DEF document
    <3> QED
      BY <2>1, <2>2, <3>1, <3>4, <3>6, <3>7, <3>8, Zenon DEF Lays
  <2> HIDE DEF new
  <2> QED
    BY <1>2, <1>3, <2>1, <2>2, RefusalsFail, LaysKeeps, FailedKeeps
<1> QED
  BY <1>4, <1>5, <1>6, <1>7 DEF SqliteWrites

\* The statements of the PostgreSQL tier.
LEMMA PostgresEffects ==
    ASSUME RowsHold, NEW p \in Processes, tier = "postgresql", PostgresWrites(p) PROVE Effect(p)
<1> DEFINE Onwards == Entered \ {"commit"}
<1>1. at[p] \in Stages \cup {"begin"}
  BY Zenon DEF PostgresWrites, BeginProfiles, FindProfile, InsertProfile, FindScenario,
     InsertScenario, FindRevision, CountRevisions, InsertRevision, FindSnapshot, InsertSnapshot,
     FindManifest, InsertManifest, InsertRun, Stages
<1>2. /\ at[p] \in Calling
      /\ {"profiles", "insert_profile", "insert_scenario", "revision", "count", "insert_revision",
          "snapshot", "insert_snapshot", "manifest", "insert_manifest", "run"} \subseteq Onwards
  BY <1>1, AddingStages DEF Calling, Entered, Stages
<1>3. {"constraint", "missing"} \subseteq Failures
  BY DEF Failures
<1>4. ASSUME NEW next \in Onwards, \E new, learnt : Write(p, new, learnt, next) PROVE Effect(p)
  BY <1>4, WriteProceeds
<1>5. ASSUME NEW how \in Failures, Fail(p, how) PROVE Effect(p)
  BY <1>2, <1>5, FailedKeeps
<1>6. ASSUME NEW next \in Onwards, NEW other \in Onwards,
             \E new, learnt : Write(p, new, learnt, next) \/ Write(p, new, learnt, other)
      PROVE  Effect(p)
  BY <1>4, <1>6
<1>7. CASE BeginProfiles(p)
  <2>1. \E new, learnt : Write(p, new, learnt, "profiles")
    BY <1>7, Zenon DEF BeginProfiles, Learn
  <2> QED
    BY <1>2, <1>4, <2>1
<1>8. CASE FindProfile(p)
  <2>1. \E new, learnt : Write(p, new, learnt, "profiles") \/ Write(p, new, learnt, "insert_profile")
    BY <1>8, Zenon DEF FindProfile, Learn
  <2> QED
    BY <1>2, <1>6, <2>1
<1>9. CASE InsertProfile(p)
  <2>1. \E new, learnt : Write(p, new, learnt, "profiles")
    BY <1>9, Zenon DEF InsertProfile
  <2> QED
    BY <1>2, <1>4, <2>1
<1>10. CASE FindScenario(p)
  <2>1. \E new, learnt : Write(p, new, learnt, "insert_scenario") \/ Write(p, new, learnt, "revision")
    BY <1>10, Zenon DEF FindScenario, Learn
  <2> QED
    BY <1>2, <1>6, <2>1
<1>11. CASE InsertScenario(p)
  <2>1. \E new, learnt : Write(p, new, learnt, "revision")
    BY <1>11, Zenon DEF InsertScenario
  <2> QED
    BY <1>2, <1>4, <2>1
<1>12. CASE FindRevision(p)
  <2>1. \E new, learnt : Write(p, new, learnt, "count") \/ Write(p, new, learnt, "snapshot")
    BY <1>12, Zenon DEF FindRevision, Learn
  <2> QED
    BY <1>2, <1>6, <2>1
<1>13. CASE CountRevisions(p)
  <2>1. \E new, learnt : Write(p, new, learnt, "insert_revision")
    BY <1>13, Zenon DEF CountRevisions, Learn
  <2> QED
    BY <1>2, <1>4, <2>1
<1>14. CASE InsertRevision(p)
  <2>1. (\E new, learnt : Write(p, new, learnt, "snapshot")) \/ Fail(p, "constraint")
    BY <1>14, Zenon DEF InsertRevision
  <2> QED
    BY <1>2, <1>3, <1>4, <1>5, <2>1
<1>15. CASE FindSnapshot(p)
  <2>1. \E new, learnt : Write(p, new, learnt, "insert_snapshot") \/ Write(p, new, learnt, "manifest")
    BY <1>15, Zenon DEF FindSnapshot, Learn
  <2> QED
    BY <1>2, <1>6, <2>1
<1>16. CASE InsertSnapshot(p)
  <2>1. \E new, learnt : Write(p, new, learnt, "manifest")
    BY <1>16, Zenon DEF InsertSnapshot
  <2> QED
    BY <1>2, <1>4, <2>1
<1>17. CASE FindManifest(p)
  <2>1. \E new, learnt : Write(p, new, learnt, "insert_manifest") \/ Write(p, new, learnt, "run")
    BY <1>17, Zenon DEF FindManifest, Learn
  <2> QED
    BY <1>2, <1>6, <2>1
<1>18. CASE InsertManifest(p)
  <2>1. \E new, learnt : Write(p, new, learnt, "run")
    BY <1>18, Zenon DEF InsertManifest
  <2> QED
    BY <1>2, <1>4, <2>1
<1>19. CASE InsertRun(p)
  <2> DEFINE new == [run_result |-> StoredIdentities(p, task[p].result),
                     typed |-> StoredTyped(p, task[p].result),
                     scenario_run |-> {RunRow(p)}, run_stage |-> StageRows(p)]
  <2>1. /\ at[p] = "run" /\ CanInsert(p)
        /\ \/ \E how \in Refusals(p) : Fail(p, how)
           \/ Write(p, new, <<>>, "commit")
    BY <1>19, Zenon DEF InsertRun
  <2>2. ASSUME Write(p, new, <<>>, "commit") PROVE Lays(p)
    <3>1. tx[p]["scenario_run"] = {} /\ task[p] \in Runs
      <4>1. at[p] \notin PastRun
        BY <2>1 DEF PastRun
      <4> QED
        BY <1>2, <4>1 DEF RowsHold, Writer, Written, Taken, Given, Calling
    <3>2. Wanted(p) = <<"scenario_run", task[p].id>>
      BY <2>1 DEF Wanted
    <3>3. \A y \in Held("scenario_run") : y.key # task[p].id
      BY <2>1, <3>1, <3>2, InsertFree
    <3>4. /\ DOMAIN new = {"run_result", "typed", "scenario_run", "run_stage"}
          /\ new["run_result"] = StoredIdentities(p, task[p].result)
          /\ new["typed"] = StoredTyped(p, task[p].result)
          /\ new["scenario_run"] = {RunRow(p)} /\ new["run_stage"] = StageRows(p)
      BY Zenon
    <3> HIDE DEF new
    <3>5. RowsOfRun(p, new) /\ ~OneWriter
      BY <3>4 DEF RowsOfRun, OneWriter
    <3> QED
      BY <2>1, <2>2, <3>1, <3>3, <3>5, Zenon DEF Lays
  <2> HIDE DEF new
  <2> QED
    BY <1>5, <2>1, <2>2, RefusalsFail, LaysKeeps
<1> QED
  BY <1>7, <1>8, <1>9, <1>10, <1>11, <1>12, <1>13, <1>14, <1>15, <1>16, <1>17, <1>18, <1>19
     DEF PostgresWrites

\* Requests, and the head of a run that is read.
LEMMA CallsEffect ==
    ASSUME RowsHold, RunsHold, NEW p \in Processes, NEW run \in Offers[p],
           RequestAdd(p, run) \/ GetHead(p, run.id)
    PROVE  Effect(p)
<1>0. Connections /\ run \in Runs /\ Recorded
  BY OffersAssumption DEF RowsHold, RunsHold
<1>1. Only(p) /\ db' = db /\ tier' = tier
  BY <1>0, CallsOutside DEF Outside
<1>2. CASE RequestAdd(p, run)
  <2>1. Cleared(p) /\ at'[p] = "check"
    BY <1>0, <1>2 DEF RequestAdd, Cleared, Goto, Connections
  <2>2. Proceeds(p)
    BY <2>1 DEF Proceeds, Places, Reader, Reading
  <2> QED
    BY <1>1, <2>1, <2>2 DEF Effect, Keeps
<1>3. CASE GetHead(p, run.id)
  <2>1. /\ at[p] = "ready" /\ task' = [task EXCEPT ![p] = [id |-> run.id]]
        /\ \/ ~Exists(db, run.id) /\ Replied(p, run.id, "absent", None) /\ at' = at
           \/ /\ Exists(db, run.id) /\ Cleared(p) /\ Goto(p, "stages")
              /\ known' = [known EXCEPT ![p] = [head |-> ReadHead(db, run.id), document |-> None]]
    BY <1>3, Zenon DEF GetHead, Idle, Cleared
  <2>2. CASE ~Exists(db, run.id) /\ Replied(p, run.id, "absent", None) /\ at' = at
    <3>1. Fetched(p)
      BY <1>0, <2>2, Zenon DEF Fetched
    <3>2. Proceeds(p)
      BY <2>1, <2>2 DEF Proceeds, Places, Reader, Reading
    <3> QED
      BY <1>1, <3>1, <3>2 DEF Effect, Keeps
  <2>3. CASE /\ Exists(db, run.id) /\ Cleared(p) /\ Goto(p, "stages")
             /\ known' = [known EXCEPT ![p] = [head |-> ReadHead(db, run.id), document |-> None]]
    <3>1. /\ at'[p] = "stages" /\ task'[p] = [id |-> run.id]
          /\ known'[p] = [head |-> ReadHead(db, run.id), document |-> None]
      BY <1>0, <2>1, <2>3 DEF Goto, Connections
    <3>2. ReadHead(db, run.id) = HeadOf(run)
      BY <1>0, <2>3, RunFound, HeadRead
    <3>3. ReadSoFar(p, run)'
      BY <1>1, <2>3, <3>1, <3>2 DEF ReadSoFar, HeadOf
    <3>4. Proceeds(p)
      BY <1>0, <3>1, <3>3 DEF Proceeds, Places, Reader, Reading
    <3> QED
      BY <1>1, <2>3, <3>4 DEF Effect, Keeps
  <2> QED
    BY <2>1, <2>2, <2>3
<1> QED
  BY <1>2, <1>3

\* A stored run that is being read is found as it was stored.
LEMMA ReaderFinds ==
    ASSUME RowsHold, RunsHold, NEW p \in Processes, at[p] \in Reading
    PROVE  \E run \in Runs :
               /\ ReadSoFar(p, run) /\ ReadHead(db, run.id) = HeadOf(run)
               /\ ReadStages(db, run.id) = StagesOf(run)
               /\ ReadRows(db, run.id) = ResultRows(run.result)
               /\ OneWriter => ReadDocument(db, run.id, run.hash) = run.result
<1>1. PICK run \in Runs : ReadSoFar(p, run)
  BY DEF RunsHold, Caller, Reader
<1>2. Kept(db, run)
  BY <1>1, RunFound DEF RunsHold, ReadSoFar
<1>3. ReadHead(db, run.id) = HeadOf(run)
  BY <1>2, HeadRead
<1> QED
  BY <1>1, <1>2, <1>3 DEF Kept, StagesOf

\* A statement of get.
LEMMA GetEffect ==
    ASSUME RowsHold, RunsHold, NEW p \in Processes, Get(p) PROVE Effect(p)
<1>0. Connections /\ Shaped
  BY DEF RowsHold, Shaped, Writer, Written
<1>1. at[p] \in Reading
  BY Zenon DEF Get, GetStages, GetDocument, GetRows, Reading
<1>2. Only(p) /\ db' = db /\ tier' = tier
  BY <1>0, ReadsOutside DEF Outside, Ends
<1>3. task' = task
  BY Zenon DEF Get, GetStages, GetDocument, GetRows
<1>4. PICK run \in Runs :
          /\ ReadSoFar(p, run) /\ ReadHead(db, run.id) = HeadOf(run)
          /\ ReadStages(db, run.id) = StagesOf(run)
          /\ ReadRows(db, run.id) = ResultRows(run.result)
          /\ OneWriter => ReadDocument(db, run.id, run.hash) = run.result
  BY <1>1, ReaderFinds
<1>5. /\ task[p].id = run.id /\ Exists(db, run.id) /\ {"head", "document"} \subseteq DOMAIN known[p]
      /\ known[p].head = HeadOf(run)
      /\ at[p] # "stages" => "stages" \in DOMAIN known[p] /\ known[p].stages = StagesOf(run)
      /\ at[p] = "document" => OneWriter
      /\ known[p].document = IF OneWriter /\ at[p] = "rows" THEN run.result ELSE None
  BY <1>4 DEF ReadSoFar
<1>6. CASE GetStages(p)
  <2> DEFINE learnt == [stages |-> StagesOf(run)]
  <2>1. /\ at[p] = "stages" /\ reply' = reply
        /\ known'[p] = Joined(learnt, known[p])
        /\ at'[p] = IF OneWriter THEN "document" ELSE "rows"
    BY <1>0, <1>4, <1>5, <1>6 DEF GetStages, Goto, Connections, OneWriter
  <2>2. /\ DOMAIN learnt = {"stages"} /\ learnt.stages = StagesOf(run)
    OBVIOUS
  <2> HIDE DEF learnt
  <2>3. /\ {"head", "document", "stages"} \subseteq DOMAIN known'[p]
        /\ known'[p].head = HeadOf(run) /\ known'[p].document = None
        /\ known'[p].stages = StagesOf(run)
    BY <1>5, <2>1, <2>2, JoinedField
  <2>4. ReadSoFar(p, run)'
    BY <1>2, <1>3, <1>5, <2>1, <2>3 DEF ReadSoFar, OneWriter
  <2>5. Proceeds(p)
    BY <2>1, <2>4 DEF Proceeds, Places, Reader, Reading
  <2> QED
    BY <1>2, <2>1, <2>5 DEF Effect, Keeps, Silent
<1>7. CASE GetDocument(p)
  <2> DEFINE learnt == [document |-> run.result]
  <2>1. at[p] = "document" /\ OneWriter /\ known[p].head.hash = run.hash
    BY <1>5, <1>7 DEF GetDocument, HeadOf
  <2>2. /\ reply' = reply /\ at'[p] = "rows" /\ known'[p] = Joined(learnt, known[p])
    BY <1>0, <1>4, <1>5, <1>7, <2>1 DEF GetDocument, Goto, Connections
  <2>3. /\ DOMAIN learnt = {"document"} /\ learnt.document = run.result
    OBVIOUS
  <2> HIDE DEF learnt
  <2>4. /\ {"head", "document", "stages"} \subseteq DOMAIN known'[p]
        /\ known'[p].head = HeadOf(run) /\ known'[p].document = run.result
        /\ known'[p].stages = StagesOf(run)
    BY <1>5, <2>1, <2>2, <2>3, JoinedField
  <2>5. ReadSoFar(p, run)'
    BY <1>2, <1>3, <1>5, <2>1, <2>2, <2>4 DEF ReadSoFar, OneWriter
  <2>6. Proceeds(p)
    BY <2>2, <2>5 DEF Proceeds, Places, Reader, Reading
  <2> QED
    BY <1>2, <2>2, <2>6 DEF Effect, Keeps, Silent
<1>8. CASE GetRows(p)
  <2> DEFINE document == IF OneWriter THEN run.result ELSE None
  <2>1. at[p] = "rows" /\ known[p].document = document /\ known[p].stages = StagesOf(run)
    BY <1>5, <1>8 DEF GetRows
  <2>2. /\ Replied(p, run.id, "read",
               Assembled(HeadOf(run), StagesOf(run), document, ResultRows(run.result)))
        /\ at'[p] = "ready"
    BY <1>0, <1>4, <1>5, <1>8, <2>1 DEF GetRows, Goto, Connections
  <2>3. Assembled(HeadOf(run), StagesOf(run), document, ResultRows(run.result))
            = [Expected(run) EXCEPT !.document = document]
    BY DocumentReplaced DEF Expected, HeadOf, StagesOf
  <2>4. Fetched(p)
    BY <1>5, <2>2, <2>3, Zenon DEF Fetched
  <2>5. Proceeds(p)
    BY <2>2 DEF Proceeds, Places, Reader, Reading
  <2> QED
    BY <1>2, <2>4, <2>5 DEF Effect, Keeps
<1> QED
  BY <1>6, <1>7, <1>8 DEF Get

\* Looking for the identifier.
LEMMA CheckEffect ==
    ASSUME RowsHold, NEW p \in Processes, CheckRun(p, "begin") PROVE Effect(p)
<1>0. Connections /\ Shaped
  BY DEF RowsHold, Shaped, Writer, Written
<1>1. at[p] = "check" /\ at[p] \in Calling /\ "duplicate" \in Failures
  BY Zenon DEF CheckRun, Calling, Failures
<1>2. CASE Fail(p, "duplicate")
  BY <1>1, <1>2, FailedKeeps
<1>3. CASE Goto(p, "begin") /\ UNCHANGED <<tier, schema, rows, lock, task, known, reply, counters>>
  <2>1. /\ at' = [at EXCEPT ![p] = "begin"] /\ reply' = reply /\ known' = known /\ task' = task
        /\ tx' = tx /\ db' = db /\ tier' = tier
    BY <1>3 DEF Goto, rows
  <2>2. Only(p) /\ at'[p] = "begin"
    BY <1>0, <2>1 DEF Only, Others, Connections
  <2>3. Proceeds(p)
    BY <2>2 DEF Proceeds, Places, Reader, Reading, Entered
  <2> QED
    BY <2>1, <2>2, <2>3 DEF Effect, Keeps, Silent
<1> QED
  BY <1>2, <1>3, Zenon DEF CheckRun

\* Opening the file, BEGIN IMMEDIATE, and waiting for the lock in vain.
LEMMA OpeningEffect ==
    ASSUME RowsHold, NEW p \in Processes,
           \/ ReadVersion(p) \/ RefuseNewer(p) \/ Apply(p) \/ TableExists(p)
           \/ Record(p) \/ Opened(p) \/ BeginImmediate(p)
           \/ Busy(p) \/ Restart(p)
    PROVE  Effect(p)
<1>0. Connections /\ Shaped
  BY DEF RowsHold, Shaped, Writer, Written
<1>1. Only(p) /\ db' = db /\ tier' = tier
  BY <1>0, OpeningOutside DEF Outside
<1>2. ASSUME NEW step \in {"ready", "closed", "migrate", "recorded", "down", "scenario"},
             Goto(p, step), Silent(p) \/ Cleared(p)
      PROVE  Effect(p)
  <2>1. at'[p] = step
    BY <1>0, <1>2 DEF Goto, Connections
  <2>2. Proceeds(p)
    BY <2>1 DEF Proceeds, Places, Reader, Reading, Entered
  <2> QED
    BY <1>1, <1>2, <2>2 DEF Effect, Keeps
<1>3. ASSUME NEW how \in Failures, Replied(p, None, how, None), Goto(p, "down") PROVE Effect(p)
  <2>1. at'[p] = "down"
    BY <1>0, <1>3 DEF Goto, Connections
  <2> QED
    BY <1>1, <1>3, <2>1, FailureKeeps
<1>4. {"newer", "exists", "busy"} \subseteq Failures
  BY DEF Failures
<1>5. CASE ReadVersion(p)
  BY <1>2, <1>5 DEF ReadVersion, Cleared
<1>6. CASE RefuseNewer(p) \/ TableExists(p)
  BY <1>3, <1>4, <1>6 DEF RefuseNewer, TableExists, OpenFails
<1>7. CASE Apply(p)
  BY <1>2, <1>7 DEF Apply, Silent
<1>8. CASE Record(p)
  BY <1>2, <1>8 DEF Record, Silent
<1>9. CASE Opened(p)
  BY <1>2, <1>9 DEF Opened, Silent
<1>10. CASE BeginImmediate(p)
  BY <1>2, <1>10 DEF BeginImmediate, Silent
<1>11. CASE Busy(p)
  <2>1. \/ at[p] = "begin" /\ Ended(p, "busy") /\ Goto(p, "ready")
        \/ Replied(p, None, "busy", None) /\ Goto(p, "down")
    BY <1>11, Zenon DEF Busy
  <2>2. ASSUME at[p] = "begin", Ended(p, "busy"), Goto(p, "ready") PROVE Effect(p)
    <3>1. task[p] \in Runs /\ at'[p] = "ready"
      BY <1>0, <2>2 DEF RowsHold, Writer, Given, Entered, Goto, Connections
    <3>2. Replied(p, task[p].id, "busy", None)
      BY <2>2 DEF Ended
    <3> QED
      BY <1>1, <1>4, <3>1, <3>2, FailureKeeps
  <2> QED
    BY <1>3, <1>4, <2>1, <2>2
<1>12. CASE Restart(p)
  <2>1. Goto(p, Started) /\ Silent(p) /\ Started \in {"closed", "ready"}
    BY <1>12 DEF Restart, Silent, Started
  <2> QED
    BY <1>2, <2>1
<1> QED
  BY <1>5, <1>6, <1>7, <1>8, <1>9, <1>10, <1>11, <1>12

\* COMMIT, a statement that fails, and a process that dies.
LEMMA FaultsEffect ==
    ASSUME RowsHold, RunsHold, NEW p \in Processes,
           Commit(p) \/ StatementFails(p) \/ LostAnswer(p) \/ Crash(p)
    PROVE  Effect(p)
<1>0. Connections
  BY DEF RowsHold
<1>1. CASE Commit(p) \/ LostAnswer(p)
  <2>1. Commits(p)
    BY <1>0, <1>1, CommitCommits
  <2>2. at'[p] = "ready"
    BY <1>0, <1>1 DEF Commit, LostAnswer, Goto, Connections
  <2>3. \E how \in {"stored", "failed"} : Replied(p, task[p].id, how, None)
    BY <1>1 DEF Commit, LostAnswer, Ended
  <2> QED
    BY <2>1, <2>2, <2>3 DEF Effect, Stores
<1>2. CASE Crash(p)
  <2>1. Only(p) /\ db' = db /\ tier' = tier /\ at'[p] \in {"ready", "down"}
    BY <1>0, <1>2, FaultsEnd DEF Ends
  <2>2. Silent(p)
    BY <1>2 DEF Crash, Silent
  <2>3. Proceeds(p)
    BY <2>1 DEF Proceeds, Places, Reader, Reading
  <2> QED
    BY <2>1, <2>2, <2>3 DEF Effect, Keeps
<1>3. CASE StatementFails(p)
  <2>1. Only(p) /\ db' = db /\ tier' = tier /\ at'[p] \in {"ready", "down"}
    BY <1>0, <1>3, FaultsEnd DEF Ends
  <2>2. Replied(p, task[p].id, "failed", None) /\ InTransaction(p)
    BY <1>3 DEF StatementFails, Ended
  <2>3. at[p] \in Entered
    BY <2>2 DEF RunsHold, Caller, Places, Reading, InTransaction
  <2>4. task[p] \in Runs /\ "failed" \in Failures
    BY <2>3 DEF RowsHold, Writer, Given, Failures
  <2> QED
    BY <2>1, <2>2, <2>4, FailureKeeps
<1> QED
  BY <1>1, <1>2, <1>3

\* Every step leaves the register as it is, or adds the run of a process.
LEMMA StepEffect ==
    ASSUME RowsHold, RunsHold, Next PROVE \E p \in Processes : Effect(p)
<1>1. ASSUME NEW p \in Processes, Step(p) PROVE Effect(p)
  <2>1. CASE tier = "sqlite" /\ SqliteStep(p)
    BY <2>1, OpeningEffect, SqliteEffects DEF SqliteStep, SqliteWrites
  <2>2. CASE tier = "postgresql" /\ PostgresStep(p)
    <3>1. ASSUME Conflict(p) PROVE Effect(p)
      <4>1. at[p] \in Calling /\ Fail(p, "conflict") /\ "conflict" \in Failures
        BY <3>1, AddingStages DEF Conflict, Inserting, Calling, Entered, Stages, Failures
      <4> QED
        BY <4>1, FailedKeeps
    <3> QED
      BY <2>2, <3>1, PostgresEffects DEF PostgresStep, PostgresWrites
  <2>3. CASE CheckRun(p, "begin")
    BY <2>3, CheckEffect
  <2>4. CASE Get(p)
    BY <2>4, GetEffect
  <2>5. CASE Commit(p)
    BY <2>5, FaultsEffect
  <2> QED
    BY <1>1, <2>1, <2>2, <2>3, <2>4, <2>5 DEF Step
<1>2. ASSUME NEW p \in Processes, NEW run \in Offers[p],
             RequestAdd(p, run) \/ GetHead(p, run.id)
      PROVE  Effect(p)
  BY <1>2, CallsEffect
<1>3. ASSUME NEW p \in Processes,
             Busy(p) \/ StatementFails(p) \/ LostAnswer(p) \/ Crash(p) \/ Restart(p)
      PROVE  Effect(p)
  BY <1>3, OpeningEffect, FaultsEffect
<1> QED
  BY <1>1, <1>2, <1>3 DEF Next

-----------------------------------------------------------------------------
(***************************************************************************)
(* The invariant is kept.                                                  *)
(***************************************************************************)

\* Who does not move has laid out what it had.
LEMMA LaidStays ==
    ASSUME NEW q, Laid(q), tier' = tier, at'[q] = at[q], known'[q] = known[q],
           task'[q] = task[q], tx'[q] = tx[q]
    PROVE  Laid(q)'
<1>1. /\ StoredIdentities(q, task[q].result)' = StoredIdentities(q, task[q].result)
      /\ StageRows(q)' = StageRows(q)
  BY DEF StoredIdentities, New, StageRows
<1>2. StoredTyped(q, task[q].result)' = StoredTyped(q, task[q].result)
  BY DEF StoredTyped, IdsOf, New
<1> QED
  BY <1>1, <1>2 DEF Laid, OneWriter

\* And reads on.
LEMMA ReaderStays ==
    ASSUME NEW q, Reader(q), tier' = tier, at'[q] = at[q], known'[q] = known[q],
           task'[q] = task[q], db["scenario_run"] \subseteq db'["scenario_run"]
    PROVE  Reader(q)'
<1>1. \A id : Exists(db, id) => Exists(db', id)
  BY DEF Exists
<1> QED
  BY <1>1 DEF Reader, ReadSoFar, OneWriter

\* A run is laid out with all of its rows.
LEMMA RunLaid ==
    ASSUME RowsHold, NEW p \in Processes, Lays(p)
    PROVE  /\ Laid(p)' /\ at'[p] = "commit" /\ task' = task
           /\ \A x \in tx'[p]["scenario_run"] : x.key = task[p].id
<1>1. PICK new :
          /\ RowsOfRun(p, new) /\ Write(p, new, <<>>, "commit")
          /\ OneWriter => /\ "run_result_document" \in DOMAIN new
                          /\ new["run_result_document"] =
                                {[key |-> task[p].id, hash |-> task[p].hash,
                                  document |-> task[p].result]}
  BY Zenon DEF Lays
<1>2. /\ task' = task /\ at'[p] = "commit" /\ known'[p] = Joined(<<>>, known[p]) /\ tier' = tier
  BY <1>1, WriteFacts
<1>3. \A t \in Tables : tx'[p][t] = IF t \in DOMAIN new THEN tx[p][t] \cup new[t] ELSE tx[p][t]
  BY <1>1, WriteAdds, Zenon
<1>4. /\ Taken(p) /\ KnowsRevision(p) /\ Whole(tx[p])
      /\ at[p] \in PastRevision /\ at[p] \notin PastRun
  BY DEF Lays, RowsHold, Writer, Written, Knows, PastRevision, PastSnapshot, PastManifest, PastRun
<1>5. tx[p]["scenario_run"] = {}
  BY <1>4 DEF Taken
<1>6. /\ tx[p]["run_result"] = {} /\ tx[p]["run_stage"] = {} /\ tx[p]["typed"] = {}
      /\ tx[p]["run_result_document"] = {}
  BY <1>4, <1>5 DEF Whole, Exists
<1>7. /\ tx'[p]["run_result"] = StoredIdentities(p, task[p].result)
      /\ tx'[p]["typed"] = StoredTyped(p, task[p].result)
      /\ tx'[p]["run_stage"] = StageRows(p) /\ tx'[p]["scenario_run"] = {RunRow(p)}
      /\ OneWriter => tx'[p]["run_result_document"] =
                          {[key |-> task[p].id, hash |-> task[p].hash,
                            document |-> task[p].result]}
  <2> DEFINE Filled(t) == tx'[p][t] = tx[p][t] \cup new[t]
  <2>1. \A t \in Tables \cap DOMAIN new : Filled(t)
    BY <1>3
  <2>2. {"run_result", "typed", "run_stage", "scenario_run"} \subseteq Tables \cap DOMAIN new
    BY <1>1 DEF RowsOfRun, Tables
  <2>3. OneWriter => "run_result_document" \in Tables \cap DOMAIN new
    BY <1>1 DEF Tables
  <2>4. /\ Filled("run_result") /\ Filled("typed") /\ Filled("run_stage") /\ Filled("scenario_run")
        /\ OneWriter => Filled("run_result_document")
    <3> HIDE DEF Filled
    <3> QED
      BY <2>1, <2>2, <2>3
  <2> QED
    BY <1>1, <1>5, <1>6, <2>4 DEF RowsOfRun
<1>8. known'[p].stations = known[p].stations /\ known'[p].payloads = known[p].payloads
  <2>1. DOMAIN <<>> = {}
    OBVIOUS
  <2> QED
    BY <1>2, <1>4, <2>1, JoinedField DEF KnowsRevision
<1>9. /\ StoredIdentities(p, task[p].result)' = StoredIdentities(p, task[p].result)
      /\ StageRows(p)' = StageRows(p)
  BY <1>2 DEF StoredIdentities, New, StageRows
<1>10. StoredTyped(p, task[p].result)' = StoredTyped(p, task[p].result)
  BY <1>2, <1>8 DEF StoredTyped, IdsOf, New
<1>11. Laid(p)'
  BY <1>2, <1>7, <1>9, <1>10 DEF Laid, OneWriter
<1>12. RunRow(p).key = task[p].id
  BY DEF RunRow
<1> QED
  BY <1>2, <1>7, <1>11, <1>12

\* What a process has inserted of runs, it has at COMMIT, and is its own.
LEMMA RunAtCommit ==
    ASSUME RowsHold, NEW p \in Processes
    PROVE  /\ at[p] = "commit" => tx[p]["scenario_run"] = {RunRow(p)}
           /\ at[p] # "commit" => tx[p]["scenario_run"] = {}
           /\ RunRow(p).key = task[p].id
BY DEF RowsHold, Writer, Written, Taken, Knows, KnowsRun, PastRun, RunRow

\* A step that commits nothing.
LEMMA KeepsHold ==
    ASSUME RowsHold, RowsHold', RunsHold, NEW p \in Processes, Keeps(p) PROVE RunsHold'
<1>1. Only(p) /\ tier' = tier /\ db' = db /\ (Proceeds(p) \/ Lays(p))
  BY DEF Keeps
<1>2. DOMAIN reply' = Processes
  BY DEF RunsHold, Keeps, Silent, Cleared, Refused, Fetched, Replied
<1>3. Recorded'
  BY <1>1 DEF RunsHold, Recorded, Kept, OneWriter
<1>4. ASSUME NEW q \in Processes \ {p} PROVE Caller(q)'
  <2>1. at'[q] = at[q] /\ known'[q] = known[q] /\ task'[q] = task[q] /\ tx'[q] = tx[q]
    BY <1>1, OthersStay
  <2>2. Caller(q)
    BY DEF RunsHold
  <2>3. at'[q] \in Places /\ Laid(q)' /\ Reader(q)'
    BY <1>1, <2>1, <2>2, LaidStays, ReaderStays DEF Caller
  <2>4. Sole(q)'
    <3> SUFFICES ASSUME at[q] = "commit" PROVE Sole(q)'
      BY <2>1 DEF Sole
    <3>1. /\ ~Exists(db, task[q].id)
          /\ \A r \in Processes \ {q} : \A x \in tx[r]["scenario_run"] : x.key # task[q].id
      BY <2>2 DEF Caller, Sole
    <3>2. \A x \in tx'[p]["scenario_run"] : x.key # task[q].id
      <4>1. CASE Proceeds(p)
        <5>1. at'[p] # "commit"
          BY <4>1 DEF Proceeds
        <5>2. tx'[p]["scenario_run"] = {}
          BY <5>1 DEF RowsHold, Writer, Written, Taken, PastRun
        <5> QED
          BY <5>2
      <4>2. CASE Lays(p)
        <5>1. RunRow(q) \in Held("scenario_run") /\ RunRow(q).key = task[q].id
          BY RunAtCommit DEF Held
        <5>2. task[p].id # task[q].id
          BY <4>2, <5>1 DEF Lays
        <5> QED
          BY <4>2, <5>2, RunLaid
      <4> QED
        BY <1>1, <4>1, <4>2
    <3>3. \A r \in Processes \ {p} : tx'[r] = tx[r]
      BY <1>1, OthersStay
    <3> QED
      BY <1>1, <2>1, <3>1, <3>2, <3>3 DEF Sole
  <2> QED
    BY <2>3, <2>4 DEF Caller
<1>5. Caller(p)'
  <2>1. CASE Proceeds(p)
    BY <2>1 DEF Proceeds, Caller, Laid, Sole
  <2>2. CASE Lays(p)
    <3>1. /\ Laid(p)' /\ at'[p] = "commit" /\ task' = task
      BY <2>2, RunLaid
    <3>2. at'[p] \in Places /\ Reader(p)'
      BY <3>1, AddingStages DEF Places, Entered, Stages, Reader, Reading
    <3>3. Sole(p)'
      <4>1. \A y \in Held("scenario_run") : y.key # task[p].id
        BY <2>2 DEF Lays
      <4>2. ~Exists(db, task[p].id)
        BY <4>1 DEF Held, Exists
      <4>3. \A q \in Processes \ {p} : \A x \in tx[q]["scenario_run"] : x.key # task[p].id
        BY <4>1 DEF Held
      <4>4. \A q \in Processes \ {p} : tx'[q] = tx[q]
        BY <1>1, OthersStay
      <4> QED
        BY <1>1, <3>1, <4>2, <4>3, <4>4 DEF Sole
    <3> QED
      BY <3>1, <3>2, <3>3 DEF Caller
  <2> QED
    BY <1>1, <2>1, <2>2
<1> QED
  BY <1>2, <1>3, <1>4, <1>5 DEF RunsHold

\* The run that is committed is recorded, and the others are as they were.
LEMMA StoresRecord ==
    ASSUME RowsHold, RowsHold', RunsHold, NEW p \in Processes, Stores(p)
    PROVE  /\ \A t \in Tables : db'[t] = db[t] \cup tx[p][t]
           /\ tier' = tier /\ at[p] = "commit" /\ task[p] \in Runs
           /\ ~Exists(db, task[p].id)
           /\ tx[p]["scenario_run"] = {RunRow(p)} /\ RunRow(p).key = task[p].id
           /\ Kept(db', task[p])
           /\ \A run : Exists(db, run.id) /\ Kept(db, run) => Kept(db', run)
<1>1. Commits(p)
  BY DEF Stores
<1>2. db' = View(p) /\ tier' = tier /\ at[p] = "commit" /\ \A t \in Tables : db'[t] = db[t] \cup tx[p][t]
  BY <1>1, AtCommit DEF Commits
<1>3. Laid(p) /\ ~Exists(db, task[p].id)
  BY <1>2 DEF RunsHold, Caller, Sole
<1>4. task[p] \in Runs
  BY <1>2, AddingStages DEF RowsHold, Writer, Given, Entered, Stages
<1>5. tx[p]["scenario_run"] = {RunRow(p)} /\ RunRow(p).key = task[p].id
  BY <1>2, RunAtCommit
<1>6. Kept(db', task[p])
  BY <1>2, <1>3, LaidKept
<1>7. ASSUME NEW run, Exists(db, run.id), Kept(db, run) PROVE Kept(db', run)
  <2>1. run.id # task[p].id
    BY <1>3, <1>7
  <2>2. ~Exists(tx[p], run.id)
    BY <1>5, <2>1 DEF Exists
  <2>3. Whole(tx[p]) /\ Whole(db')
    BY DEF RowsHold, Writer, Written, Stored
  <2> QED
    BY <1>2, <1>7, <2>2, <2>3, KeptGrows
<1> QED
  BY <1>2, <1>3, <1>4, <1>5, <1>6, <1>7

\* A step that commits a run.
LEMMA StoresHold ==
    ASSUME RowsHold, RowsHold', RunsHold, NEW p \in Processes, Stores(p) PROVE RunsHold'
<1>1. Only(p) /\ tx'[p] = NoRows /\ at'[p] = "ready"
  BY DEF Stores, Commits
<1>2. /\ \A t \in Tables : db'[t] = db[t] \cup tx[p][t]
      /\ tier' = tier /\ at[p] = "commit" /\ task[p] \in Runs /\ ~Exists(db, task[p].id)
      /\ tx[p]["scenario_run"] = {RunRow(p)} /\ RunRow(p).key = task[p].id
      /\ Kept(db', task[p])
      /\ \A run : Exists(db, run.id) /\ Kept(db, run) => Kept(db', run)
  BY StoresRecord
<1>3. db'["scenario_run"] = db["scenario_run"] \cup {RunRow(p)}
  BY <1>2 DEF Tables
<1>4. DOMAIN reply' = Processes
  BY DEF RunsHold, Stores, Replied
<1>5. Recorded'
  <2>1. \A run : Kept(db', run) => Kept(db, run)'
    BY <1>2 DEF Kept, OneWriter
  <2>2. ASSUME NEW x \in db["scenario_run"]
        PROVE  \E run \in Runs : run.id = x.key /\ Kept(db', run)
    <3>1. PICK run \in Runs : run.id = x.key /\ Kept(db, run)
      BY DEF RunsHold, Recorded
    <3>2. Exists(db, run.id)
      BY <3>1 DEF Exists
    <3> QED
      BY <1>2, <3>1, <3>2
  <2> QED
    BY <1>2, <1>3, <2>1, <2>2 DEF Recorded
<1>6. ASSUME NEW q \in Processes \ {p} PROVE Caller(q)'
  <2>1. at'[q] = at[q] /\ known'[q] = known[q] /\ task'[q] = task[q] /\ tx'[q] = tx[q]
    BY <1>1, OthersStay
  <2>2. Caller(q)
    BY DEF RunsHold
  <2>3. at'[q] \in Places /\ Laid(q)' /\ Reader(q)'
    BY <1>2, <1>3, <2>1, <2>2, LaidStays, ReaderStays DEF Caller
  <2>4. Sole(q)'
    <3> SUFFICES ASSUME at[q] = "commit" PROVE Sole(q)'
      BY <2>1 DEF Sole
    <3>1. /\ ~Exists(db, task[q].id)
          /\ \A r \in Processes \ {q} : \A x \in tx[r]["scenario_run"] : x.key # task[q].id
      BY <2>2 DEF Caller, Sole
    <3>2. task[p].id # task[q].id
      BY <1>2, <3>1
    <3>3. ~Exists(db', task[q].id)
      BY <1>2, <1>3, <3>1, <3>2 DEF Exists
    <3>4. tx'[p]["scenario_run"] = {}
      BY <1>1 DEF NoRows, Tables
    <3>5. \A r \in Processes \ {p} : tx'[r] = tx[r]
      BY <1>1, OthersStay
    <3> QED
      BY <2>1, <3>1, <3>3, <3>4, <3>5 DEF Sole
  <2> QED
    BY <2>3, <2>4 DEF Caller
<1>7. Caller(p)'
  BY <1>1 DEF Caller, Places, Laid, Sole, Reader, Reading
<1> QED
  BY <1>4, <1>5, <1>6, <1>7 DEF RunsHold

\* Nothing is recorded at first.
LEMMA InitRuns == Init => RunsHold
<1> SUFFICES ASSUME Init PROVE RunsHold
  OBVIOUS
<1>1. /\ db = NoRows /\ reply = [p \in Processes |-> None]
      /\ \A p \in Processes : at[p] \in {"ready", "closed"}
  BY DEF Init, Started
<1>2. Recorded
  BY <1>1 DEF Recorded, NoRows, Tables
<1>3. \A p \in Processes : Caller(p)
  BY <1>1 DEF Caller, Places, Laid, Sole, Reader, Reading
<1> QED
  BY <1>1, <1>2, <1>3 DEF RunsHold

\* Every step keeps the invariant.
LEMMA NextRuns == RowsHold /\ RunsHold /\ [Next]_vars => RunsHold'
<1>1. ASSUME RowsHold, RunsHold, Next PROVE RunsHold'
  <2>1. RowsHold'
    BY <1>1, NextRows
  <2>2. PICK p \in Processes : Effect(p)
    BY <1>1, StepEffect
  <2> QED
    BY <1>1, <2>1, <2>2, KeepsHold, StoresHold DEF Effect
<1>2. ASSUME RowsHold, RunsHold, UNCHANGED vars PROVE RunsHold'
  <2>1. /\ tier' = tier /\ db' = db /\ tx' = tx /\ at' = at /\ task' = task
        /\ known' = known /\ reply' = reply
    BY <1>2 DEF vars
  <2>2. Recorded'
    BY <1>2, <2>1 DEF RunsHold, Recorded, Kept, OneWriter
  <2>3. ASSUME NEW p \in Processes PROVE Caller(p)'
    <3>1. Caller(p)
      BY <1>2 DEF RunsHold
    <3> QED
      BY <2>1, <3>1, LaidStays, ReaderStays DEF Caller, Sole
  <2> QED
    BY <1>2, <2>1, <2>2, <2>3 DEF RunsHold
<1> QED
  BY <1>1, <1>2

-----------------------------------------------------------------------------
(***************************************************************************)
(* Every step is one of the register's, or none.                           *)
(***************************************************************************)

\* What the register holds are the runs that exist, as they were given.
Shelved ==
    /\ StoredRuns = [id \in {x.key : x \in db["scenario_run"]} |-> StoredRuns[id]]
    /\ \A id \in DOMAIN StoredRuns : \E run \in Runs : id = run.id
    /\ \A run \in Runs : Exists(db, run.id) <=> run.id \in DOMAIN StoredRuns
    /\ \A run \in Runs : Exists(db, run.id) => StoredRuns[run.id] = Expected(run)

\* They are on the shelves in every state.
LEMMA RunsShelved == RowsHold /\ RunsHold => Shelved
<1> SUFFICES ASSUME RowsHold, RunsHold PROVE Shelved
  OBVIOUS
<1>1. StoredRuns = [id \in {x.key : x \in db["scenario_run"]} |-> StoredRuns[id]]
  BY DEF StoredRuns
<1>2. Recorded
  BY DEF RunsHold
<1> QED
  BY <1>1, <1>2, Shelves DEF Shelved

\* After a step, too.
LEMMA RunsStayShelved == RowsHold' /\ RunsHold' => Shelved'
BY RunsShelved, PTL

\* A call that runs has no answer yet.
LEMMA ClearedShown == ShownReply(None) = None
BY DEF ShownReply

\* A failure is told without its cause.
LEMMA FailureShown ==
    ASSUME NEW id \in {None} \cup {run.id : run \in Runs}, NEW how \in Failures
    PROVE  ShownReply([id |-> id, how |-> how, run |-> None]) = Register!Reply(id, "failed", None)
<1> DEFINE r == [id |-> id, how |-> how, run |-> None]
<1>1. r # None
  BY RepliesAssumption
<1>2. r.how = how /\ how \notin {"read", "stored", "absent"}
  BY DEF Failures
<1>3. [r EXCEPT !.how = "failed"] = [id |-> id, how |-> "failed", run |-> None]
  OBVIOUS
<1> HIDE DEF r
<1>4. ShownReply(r) = [r EXCEPT !.how = "failed"]
  BY <1>1, <1>2 DEF ShownReply
<1> QED
  BY <1>3, <1>4 DEF r, Register!Reply

\* That a run is stored, or is not there, is told as it is.
LEMMA AnswerShown ==
    ASSUME NEW run \in Runs, NEW how \in {"stored", "absent"}
    PROVE  ShownReply([id |-> run.id, how |-> how, run |-> None]) = Register!Reply(run.id, how, None)
<1> DEFINE r == [id |-> run.id, how |-> how, run |-> None]
<1>1. r # None
  BY RepliesAssumption
<1>2. r.how = how
  OBVIOUS
<1> HIDE DEF r
<1>3. ShownReply(r) = r
  BY <1>1, <1>2 DEF ShownReply
<1> QED
  BY <1>3 DEF r, Register!Reply

\* So is the answer that is lost, as a failure.
LEMMA LostShown ==
    ASSUME NEW run \in Runs
    PROVE  ShownReply([id |-> run.id, how |-> "failed", run |-> None])
               = Register!Reply(run.id, "failed", None)
BY FailureShown DEF Failures

\* A run that was read is told whole, with its document.
LEMMA ReadShown ==
    ASSUME NEW run \in Runs, NEW document, document = IF OneWriter THEN run.result ELSE None
    PROVE  ShownReply([id |-> run.id, how |-> "read",
                       run |-> [Expected(run) EXCEPT !.document = document]])
               = Register!Reply(run.id, "read", Expected(run))
<1> DEFINE content == [Expected(run) EXCEPT !.document = document]
           r == [id |-> run.id, how |-> "read", run |-> content]
<1>1. r # None
  BY RepliesAssumption
<1>2. content = Assembled(HeadOf(run), StagesOf(run), document, ResultRows(run.result))
  BY DocumentReplaced DEF Expected, HeadOf, StagesOf
<1>3. Shown(run.id, content) = Expected(run)
  BY <1>2, RunShown
<1> HIDE DEF content
<1>4. r.how = "read" /\ r.id = run.id /\ r.run = content
  OBVIOUS
<1>5. \A c : [r EXCEPT !.run = c] = [id |-> run.id, how |-> "read", run |-> c]
  OBVIOUS
<1> HIDE DEF r
<1>6. ShownReply(r) = [r EXCEPT !.run = Shown(r.id, r.run)]
  BY <1>1, <1>4, Zenon DEF ShownReply
<1>7. ShownReply(r) = [id |-> run.id, how |-> "read", run |-> Expected(run)]
  BY <1>3, <1>4, <1>5, <1>6
<1> QED
  BY <1>7 DEF r, content, Register!Reply

\* The tier does not change, and so neither does what is shown.
LEMMA SameShown ==
    ASSUME tier' = tier PROVE \A r : ShownReply(r)' = ShownReply(r)
BY DEF ShownReply, Shown

\* Who is silent tells nothing.
LEMMA SilentShown ==
    ASSUME tier' = tier, reply' = reply PROVE ShownReplies' = ShownReplies
BY DEF ShownReplies, ShownReply, Shown

\* A reply is told to its own client.
LEMMA ReplyShown ==
    ASSUME RunsHold, tier' = tier, NEW p \in Processes, NEW r, reply' = [reply EXCEPT ![p] = r]
    PROVE  ShownReplies' = [ShownReplies EXCEPT ![p] = ShownReply(r)]
<1>1. DOMAIN reply = Processes
  BY DEF RunsHold
<1>2. ASSUME NEW q \in Processes
      PROVE  ShownReply(reply[q])' = IF q = p THEN ShownReply(r) ELSE ShownReply(reply[q])
  <2>1. reply'[q] = IF q = p THEN r ELSE reply[q]
    BY <1>1
  <2>2. ShownReply(reply[q])' = ShownReply(reply'[q])
    BY DEF ShownReply, Shown
  <2> QED
    BY <2>1, <2>2
<1>3. ShownReplies' = [q \in Processes |-> ShownReply(reply[q])']
  BY DEF ShownReplies
<1>4. [ShownReplies EXCEPT ![p] = ShownReply(r)]
          = [q \in Processes |-> IF q = p THEN ShownReply(r) ELSE ShownReply(reply[q])]
  BY DEF ShownReplies
<1> QED
  BY <1>2, <1>3, <1>4

\* The register is what the committed rows say.
LEMMA SameStored ==
    ASSUME tier' = tier, db' = db PROVE StoredRuns' = StoredRuns
BY DEF StoredRuns, Shown, Content

\* The entry of a run.
LEMMA EntryOf ==
    ASSUME NEW run \in Runs
    PROVE  \E e \in Entries : e.id = run.id /\ e.content = Expected(run)
<1> DEFINE e == [id |-> run.id, content |-> Expected(run)]
<1>1. e \in Entries
  BY DEF Entries
<1>2. e.id = run.id /\ e.content = Expected(run)
  OBVIOUS
<1> QED
  BY <1>1, <1>2

RegisterVars == <<StoredRuns, ShownReplies>>

\* A step that commits nothing.
LEMMA KeepsRegister ==
    ASSUME RowsHold, RunsHold, NEW p \in Processes, Keeps(p)
    PROVE  Register!Next \/ UNCHANGED RegisterVars
<1>1. tier' = tier /\ db' = db
  BY DEF Keeps
<1>2. StoredRuns' = StoredRuns
  BY <1>1, SameStored
<1>3. CASE Silent(p)
  BY <1>1, <1>2, <1>3, SilentShown DEF Silent, RegisterVars
<1>4. CASE Cleared(p)
  <2>1. ShownReplies' = [ShownReplies EXCEPT ![p] = None]
    BY <1>1, <1>4, ReplyShown, ClearedShown DEF Cleared
  <2>2. Register!Call(p)
    BY <1>2, <2>1, Zenon DEF Register!Call, Register!Replies
  <2> QED
    BY <2>2, Zenon DEF Register!Next
<1>5. CASE Refused(p)
  <2>1. PICK id \in {None} \cup {run.id : run \in Runs}, how \in Failures :
            reply' = [reply EXCEPT ![p] = [id |-> id, how |-> how, run |-> None]]
    BY <1>5, Zenon DEF Refused, Replied
  <2>2. ShownReplies' = [ShownReplies EXCEPT ![p] = Register!Reply(id, "failed", None)]
    BY <1>1, <2>1, ReplyShown, FailureShown
  <2>3. Register!Refuse(p, id)
    BY <1>2, <2>2, Zenon DEF Register!Refuse, Register!Replies
  <2>4. id = None \/ \E e \in Entries : e.id = id
    BY EntryOf
  <2> QED
    BY <2>3, <2>4, Zenon DEF Register!Next
<1>6. CASE Fetched(p)
  <2>1. PICK run \in Runs :
          \/ ~Exists(db, run.id) /\ Replied(p, run.id, "absent", None)
          \/ /\ Exists(db, run.id)
             /\ Replied(p, run.id, "read",
                    [Expected(run) EXCEPT !.document = IF OneWriter THEN run.result ELSE None])
    BY <1>6, Zenon DEF Fetched
  <2>2. /\ Exists(db, run.id) <=> run.id \in DOMAIN StoredRuns
        /\ Exists(db, run.id) => StoredRuns[run.id] = Expected(run)
    BY RunsShelved DEF Shelved
  <2>3. ShownReplies' = [ShownReplies EXCEPT ![p] =
            IF run.id \in DOMAIN StoredRuns
            THEN Register!Reply(run.id, "read", StoredRuns[run.id])
            ELSE Register!Reply(run.id, "absent", None)]
    <3>1. CASE ~Exists(db, run.id) /\ Replied(p, run.id, "absent", None)
      <4>1. ShownReplies' = [ShownReplies EXCEPT ![p] = Register!Reply(run.id, "absent", None)]
        BY <1>1, <3>1, ReplyShown, AnswerShown DEF Replied
      <4> QED
        BY <2>2, <3>1, <4>1
    <3>2. CASE /\ Exists(db, run.id)
               /\ Replied(p, run.id, "read",
                      [Expected(run) EXCEPT !.document = IF OneWriter THEN run.result ELSE None])
      <4> DEFINE document == IF OneWriter THEN run.result ELSE None
                 r == [id |-> run.id, how |-> "read",
                       run |-> [Expected(run) EXCEPT !.document = document]]
      <4>1. reply' = [reply EXCEPT ![p] = r]
        BY <3>2, Zenon DEF Replied
      <4>2. ShownReply(r) = Register!Reply(run.id, "read", Expected(run))
        BY ReadShown
      <4> HIDE DEF r
      <4>3. ShownReplies' = [ShownReplies EXCEPT ![p] = Register!Reply(run.id, "read", Expected(run))]
        BY <1>1, <4>1, <4>2, ReplyShown
      <4> QED
        BY <2>2, <3>2, <4>3
    <3> QED
      BY <2>1, <3>1, <3>2
  <2>4. Register!Get(p, run.id)
    BY <1>2, <2>3, Zenon DEF Register!Get, Register!Replies
  <2>5. \E e \in Entries : e.id = run.id
    BY EntryOf
  <2> QED
    BY <2>4, <2>5, Zenon DEF Register!Next
<1> QED
  BY <1>3, <1>4, <1>5, <1>6 DEF Keeps

\* A step that commits a run adds it to the register.
LEMMA StoresRegister ==
    ASSUME RowsHold, RowsHold', RunsHold, RunsHold', NEW p \in Processes, Stores(p)
    PROVE  Register!Next
<1>1. /\ tier' = tier /\ task[p] \in Runs /\ ~Exists(db, task[p].id)
      /\ RunRow(p).key = task[p].id
      /\ db'["scenario_run"] = db["scenario_run"] \cup {RunRow(p)}
  BY StoresRecord DEF Tables
<1>2. PICK run \in Runs : run = task[p]
  BY <1>1
<1>3. PICK e \in Entries : e.id = run.id /\ e.content = Expected(run)
  BY EntryOf
<1>4. PICK how \in {"stored", "failed"} :
          reply' = [reply EXCEPT ![p] = [id |-> run.id, how |-> how, run |-> None]]
  BY <1>2, Zenon DEF Stores, Replied
<1>5. ShownReplies' = [ShownReplies EXCEPT ![p] = Register!Reply(e.id, how, None)]
  <2>1. ShownReply([id |-> run.id, how |-> how, run |-> None]) = Register!Reply(run.id, how, None)
    BY AnswerShown, LostShown
  <2> QED
    BY <1>1, <1>3, <1>4, <2>1, ReplyShown
<1>6. Shelved /\ Shelved'
  BY RunsShelved, RunsStayShelved
<1>7. e.id \notin DOMAIN StoredRuns
  BY <1>1, <1>2, <1>3, <1>6 DEF Shelved
<1>8. StoredRuns' = [id \in DOMAIN StoredRuns \cup {e.id} |->
                        IF id = e.id THEN e.content ELSE StoredRuns[id]]
  <2> DEFINE ids == {x.key : x \in db["scenario_run"]}
             after == {x.key : x \in db'["scenario_run"]}
  <2>1. /\ DOMAIN StoredRuns = ids
        /\ StoredRuns' = [id \in after |-> StoredRuns'[id]]
    BY <1>6 DEF Shelved
  <2>2. after = ids \cup {e.id}
    BY <1>1, <1>2, <1>3
  <2>3. StoredRuns'[e.id] = e.content
    <3>1. Exists(db', run.id)
      BY <1>1, <1>2 DEF Exists
    <3> QED
      BY <1>3, <1>6, <3>1 DEF Shelved
  <2>4. ASSUME NEW id \in ids PROVE StoredRuns'[id] = StoredRuns[id]
    <3>1. PICK other \in Runs : id = other.id
      BY <1>6, <2>1 DEF Shelved
    <3>2. Exists(db, other.id) /\ Exists(db', other.id)
      BY <1>1, <3>1 DEF Exists
    <3> QED
      BY <1>6, <3>1, <3>2 DEF Shelved
  <2> HIDE DEF ids, after
  <2> QED
    BY <1>1, <1>2, <1>3, <1>7, <2>1, <2>2, <2>3, <2>4
<1>9. Register!Add(p, e)
  BY <1>5, <1>7, <1>8, Zenon DEF Register!Add, Register!Replies
<1> QED
  BY <1>9, Zenon DEF Register!Next

\* The register is empty at first.
LEMMA InitRegister == Init => Register!Init
<1> SUFFICES ASSUME Init PROVE Register!Init
  OBVIOUS
<1>1. db["scenario_run"] = {} /\ reply = [p \in Processes |-> None]
  BY DEF Init, NoRows, Tables
<1>2. StoredRuns = <<>>
  BY <1>1 DEF StoredRuns
<1>3. ShownReplies = [p \in Processes |-> None]
  BY <1>1, ClearedShown DEF ShownReplies
<1> QED
  BY <1>2, <1>3 DEF Register!Init

\* Every step of the store is one of the register's, or leaves it alone.
LEMMA NextRegister ==
    ASSUME RowsHold, RowsHold', RunsHold, RunsHold', [Next]_vars
    PROVE  [Register!Next]_<<StoredRuns, ShownReplies>>
<1>1. CASE Next
  <2>1. PICK p \in Processes : Effect(p)
    BY <1>1, StepEffect
  <2> QED
    BY <2>1, KeepsRegister, StoresRegister DEF Effect, RegisterVars
<1>2. CASE UNCHANGED vars
  <2>1. tier' = tier /\ db' = db /\ reply' = reply
    BY <1>2 DEF vars
  <2> QED
    BY <2>1, SameStored, SilentShown
<1> QED
  BY <1>1, <1>2

\* For any number of processes and any runs, on either tier, the store is the
\* register that ports/run_repository.py promises: a run appears with all of
\* its rows in one step, the one that acknowledges it or whose acknowledgement
\* is lost; it reads back as it was given whatever else is stored beside it,
\* and never changes; and a get that overlaps adds returns all of a run or none
\* of it (add, get, _read_rows).
THEOREM StoreIsRegister == Spec => RegisterImplemented
<1>1. Spec => [](RowsHold /\ RunsHold)
  BY InitRows, NextRows, InitRuns, NextRuns, PTL DEF Spec
<1>2. RowsHold /\ RunsHold /\ RowsHold' /\ RunsHold' /\ [Next]_vars
          => [Register!Next]_<<StoredRuns, ShownReplies>>
  BY NextRegister
<1> QED
  BY <1>1, <1>2, InitRegister, PTL DEF Spec, RegisterImplemented, Register!Spec
=============================================================================
