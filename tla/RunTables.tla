----------------------------- MODULE RunTables -----------------------------
(***************************************************************************)
(* What the two relational tiers of the run store share: the tables, the   *)
(* connections that write and read them, and how a run is read back.       *)
(* SqliteRuns and PostgresRuns hold the statements of each tier, RunStore  *)
(* puts them together.                                                     *)
(*                                                                         *)
(* A transaction only adds rows, so it is the rows it has added so far:    *)
(* they join the committed tables at COMMIT and are gone after ROLLBACK or *)
(* a crash.  Every row carries the columns of its UNIQUE constraint as     *)
(* `key`.  An identifier (uuid4) is the connection, the run and the key it *)
(* was made for.  A hash is the value it is taken of.                      *)
(***************************************************************************)
EXTENDS Decompose, RunRows, FiniteSetsExt, TLC

\* result_ids[...], station_ids[...] and payload_ids[...] raise KeyError for
\* a key they do not hold; events, metrics and annotations use .get.
Required(x) == x.table \notin {"RUN_EVENT", "METRIC", "ANNOTATION"}
Resolvable(r, stations, payloads) ==
    LET keys == {x.key : x \in IdentityRows(r)} IN
    \A x \in TypedRows(r) :
        /\ x.key \in keys
        /\ Required(x) => /\ x.parent  \in keys \cup {None}
                          /\ x.station \in DOMAIN stations \cup {None}
                          /\ x.payload \in DOMAIN payloads \cup {None}

\* Whatever a row refers to is a row of the result, or a station or a payload
\* of the input.
Resolved(r, s) ==
    \A x \in TypedRows(r) :
        /\ x.parent  \in {y.key : y \in IdentityRows(r)} \cup {None}
        /\ x.station \in DOMAIN s.stations \cup {None}
        /\ x.payload \in DOMAIN s.payloads \cup {None}

CONSTANTS
    Processes,     \* processes that use the store, one connection at a time
    Tiers,         \* the tiers to check: subset of {"sqlite", "postgresql"}
    Files,         \* schema versions a file may have when it is first opened
    Runs,          \* StoredRuns clients may add: id, snapshot, manifest, status, stages, result
    Offers,        \* the runs each process is asked to add and asked for
    MaxAdds,       \* bound on the calls of add
    MaxGets,       \* bound on the calls of get
    MaxFaults      \* bound on timeouts, failed statements and crashes

ASSUME ProcessesAssumption == None \notin Processes
ASSUME TiersAssumption == Tiers \subseteq {"sqlite", "postgresql"}
ASSUME FilesAssumption == Files \subseteq Nat
\* A result names stations and payloads of the input it was computed from.
ASSUME RunsAssumption ==
    \A run \in Runs :
        /\ Numbered(run.snapshot)
        /\ Resolvable(run.result, run.snapshot.stations, run.snapshot.payloads)
\* No reference of a result is left open, and no two runs have one identifier (uuid4).
ASSUME ResultsAssumption ==
    \A run \in Runs :
        /\ Resolved(run.result, run.snapshot)
        /\ \A other \in Runs : other.id = run.id => other = run
\* An identifier is not None.
ASSUME IdsAssumption ==
    \A p \in Processes, run \in Runs :
        /\ \A x \in IdentityRows(run.result) : <<p, run.id, x.key>> # None
        /\ \A k \in DOMAIN run.snapshot.stations : <<p, run.id, <<"station", k>>>> # None
        /\ \A k \in DOMAIN run.snapshot.payloads : <<p, run.id, <<"payload", k>>>> # None
ASSUME OffersAssumption == \A p \in Processes : Offers[p] \subseteq Runs

Tables == {"profile", "profile_revision", "scenario", "scenario_revision", "scenario_station",
           "communication_revision", "scenario_payload", "payload_dependency", "input_snapshot",
           "engine_manifest", "scenario_run", "run_stage", "run_result", "typed",
           "run_result_document"}

VARIABLES
    tier,      \* the configured tier; never changes
    scripts,   \* scripts a SQLite file holds the tables of
    version,   \* the row of schema_version; 0 without one
    db,        \* committed rows by table
    tx,        \* rows of each process's open transaction, by table
    lock,      \* process that holds SQLite's write lock
    at,        \* the statement each process executes next
    task,      \* the run it adds, or the identifier it asks for
    known,     \* what its earlier statements returned
    reply,     \* how its last call of add, get or open ended; None while one runs
    adds, gets, faults  \* counted against the bounds

vars == <<tier, scripts, version, db, tx, lock, at, task, known, reply, adds, gets, faults>>
rows     == <<db, tx>>
schema   == <<scripts, version>>
counters == <<adds, gets, faults>>

NoRows == [t \in Tables |-> {}]
Added(t, new) == [u \in Tables |-> IF u \in DOMAIN new THEN t[u] \cup new[u] ELSE t[u]]

\* What a statement of p sees: READ COMMITTED, and its own rows.
View(p) == Added(db, tx[p])

New(p, key) == <<p, task[p].id, key>>

\* What f says, and g where f says nothing.
Joined(f, g) ==
    [x \in DOMAIN f \cup DOMAIN g |-> IF x \in DOMAIN f THEN f[x] ELSE g[x]]

\* The one row of a set of rows.
The(set) == CHOOSE x \in set : TRUE

\* The semantic hash of a revision: not what stations and payloads are, only
\* their keys, in order.
\* A slip: a hash that leaves the stations out.
RevisionHashWithoutStations(s) == <<s.fixture, s.window, s.mode, DOMAIN s.payloads, s.question>>
RevisionHash(s) == <<s.fixture, s.window, s.mode, DOMAIN s.stations, DOMAIN s.payloads, s.question>>

ManifestKey(manifest) == <<manifest.version, manifest.code>>

(***************************************************************************)
(* Results.                                                                *)
(***************************************************************************)

Lookup(map, key) == IF key \in DOMAIN map THEN map[key] ELSE None

\* The rows of the nine result tables, references resolved to identifiers.
IdsOf(p, r) == [k \in {x.key : x \in IdentityRows(r)} |-> New(p, k)]

StoredIdentities(p, r) ==
    {[id |-> New(p, x.key), run |-> task[p].id, key |-> <<task[p].id, x.key>>,
      kind |-> x.kind, status |-> x.status, grade |-> x.grade] : x \in IdentityRows(r)}

StoredTyped(p, r) ==
    LET ids == IdsOf(p, r) IN
    {[key |-> ids[x.key], table |-> x.table, parent |-> Lookup(ids, x.parent),
      station |-> Lookup(known[p].stations, x.station),
      payload |-> Lookup(known[p].payloads, x.payload), body |-> x.body]
     : x \in TypedRows(r)}

\* Table constraints a validated run may break: a queue place twice, an
\* allocation rounded to no time, a stage, a stable key or a reference twice.
QueuePlacesDiffer(s) ==
    \A j, k \in DOMAIN s.payloads : j # k => s.payloads[j].sequence # s.payloads[k].sequence
IntervalsOpen(r) == \A a \in Elements(r.allocations) : a.start < a.end

\* A contact is modeled once, a modeled one is a candidate once, a candidate is
\* scheduled once, and the allocations of a session are numbered.
SamePlace(x, y) ==
    /\ x.table = y.table /\ x.parent = y.parent
    /\ \/ x.table \in {"MODELED_CONTACT", "CANDIDATE_SESSION", "SCHEDULED_SESSION"}
       \/ x.table = "TRANSFER_ALLOCATION" /\ x.body[1] = y.body[1]

\* UNIQUE columns of the rows of one run.
KeysDiffer(run) ==
    /\ \A i, j \in DOMAIN run.stages : i # j =>
          /\ run.stages[i].code # run.stages[j].code
          /\ run.stages[i].ordinal # run.stages[j].ordinal
    /\ \A x, y \in IdentityRows(run.result) : x.key = y.key => x = y
    /\ \A x, y \in TypedRows(run.result) : x.key = y.key \/ SamePlace(x, y) => x = y

\* What the statements of a run with this result may be refused for.
Refusals(p) ==
    LET r == task[p].result IN
    IF ~KeysDiffer(task[p]) THEN {"constraint"}
    ELSE IF ~Resolvable(r, known[p].stations, known[p].payloads) THEN {"missing"}
    ELSE IF ~IntervalsOpen(r) THEN {"constraint"} ELSE {}

StageRows(p) ==
    {[key |-> <<task[p].id, x.code>>, ordinal |-> x.ordinal, status |-> x.status, count |-> x.count]
     : x \in Elements(task[p].stages)}

RunRow(p) ==
    [key |-> task[p].id, snapshot |-> known[p].snapshot, manifest |-> known[p].manifest,
     status |-> task[p].status, hash |-> task[p].hash]

(***************************************************************************)
(* Reading.                                                                *)
(***************************************************************************)

\* key_of, station_key and payload_key turn identifiers back into keys; the
\* latter two are read over every revision.
ReadResults(t, id) == {x \in t["run_result"] : x.run = id}

KeyOf(results, x) == IF x = None THEN None ELSE The({y \in results : y.id = x}).key[2]
NameOf(set, x)    == IF x = None THEN None ELSE The({y \in set : y.id = x}).name

ReadTyped(t, results) ==
    {Row(KeyOf(results, x.key), x.table, KeyOf(results, x.parent),
         NameOf(t["scenario_station"], x.station), NameOf(t["scenario_payload"], x.payload), x.body)
     : x \in {x \in t["typed"] : \E y \in results : y.id = x.key}}

ReadRows(t, id) ==
    LET results == ReadResults(t, id)
    IN  [results |-> {[key |-> x.key[2], kind |-> x.kind, status |-> x.status, grade |-> x.grade]
                      : x \in results},
         typed   |-> ReadTyped(t, results)]

ReadStages(t, id) ==
    {[code |-> x.key[2], ordinal |-> x.ordinal, status |-> x.status, count |-> x.count]
     : x \in {x \in t["run_stage"] : x.key[1] = id}}

\* The head joins the run to its snapshot.
ReadHead(t, id) ==
    LET run == The({x \in t["scenario_run"] : x.key = id})
    IN  [status |-> run.status, hash |-> run.hash,
         input |-> The({x \in t["input_snapshot"] : x.id = run.snapshot}).key]

\* A document whose hash is not the run's is refused.  PostgreSQL stores no
\* document, and its get returns none.
ReadDocument(t, id, hash) ==
    LET found == {x \in t["run_result_document"] : x.key = id}
    IN  IF found = {} THEN None
        ELSE IF The(found).hash # hash THEN "mismatch" ELSE The(found).document

Exists(t, id) == \E x \in t["scenario_run"] : x.key = id

\* A StoredRun as the statements of get make it up.
Assembled(head, stages, document, typed) ==
    [head |-> head, stages |-> stages, document |-> document, rows |-> typed]

(***************************************************************************)
(* Connections.                                                            *)
(***************************************************************************)

Idle(p) == at[p] = "ready"
Replied(p, id, how, run) == reply' = [reply EXCEPT ![p] = [id |-> id, how |-> how, run |-> run]]
Ended(p, how) == Replied(p, task[p].id, how, None)

\* A transaction ends: its rows and its locks go, the connection is closed.
Release(p) == lock' = IF lock = p THEN None ELSE lock
Goto(p, step) == at' = [at EXCEPT ![p] = step]

\* A slip: ROLLBACK is left out when the connection is given back.
KeepLock(p, how) ==
    /\ Ended(p, how)
    /\ tx' = [tx EXCEPT ![p] = NoRows]
    /\ known' = [known EXCEPT ![p] = <<>>]
    /\ Goto(p, "ready")
    /\ UNCHANGED <<tier, schema, db, lock, task, counters>>

\* The call of p fails: ROLLBACK, the lock is given back, the error is redacted.
Fail(p, how) ==
    /\ Ended(p, how)
    /\ tx' = [tx EXCEPT ![p] = NoRows]
    /\ known' = [known EXCEPT ![p] = <<>>]
    /\ Release(p)
    /\ Goto(p, "ready")
    /\ UNCHANGED <<tier, schema, db, task, counters>>

\* A client asks p to store a run.
RequestAdd(p, run) ==
    /\ Idle(p) /\ adds < MaxAdds
    /\ adds' = adds + 1
    /\ task' = [task EXCEPT ![p] = run]
    /\ known' = [known EXCEPT ![p] = <<>>]
    /\ reply' = [reply EXCEPT ![p] = None]
    /\ Goto(p, "check")
    /\ UNCHANGED <<tier, schema, rows, lock, gets, faults>>

\* The identifier is looked for before the transaction begins.
CheckRun(p, next) ==
    /\ at[p] = "check"
    /\ \/ /\ Exists(db, task[p].id)
          /\ Fail(p, "duplicate")
       \/ /\ ~Exists(db, task[p].id)
          /\ Goto(p, next)
          /\ UNCHANGED <<tier, schema, rows, lock, task, known, reply, counters>>

\* A slip: every statement is committed on its own.
WriteThrough(p, new, learnt, next) ==
    /\ db' = Added(db, new)
    /\ known' = [known EXCEPT ![p] = Joined(learnt, known[p])]
    /\ Goto(p, next)
    /\ UNCHANGED <<tier, schema, tx, lock, task, reply, counters>>

\* One statement of p adds `new` to its transaction and the code goes on.
Write(p, new, learnt, next) ==
    /\ tx' = [tx EXCEPT ![p] = Added(tx[p], new)]
    /\ known' = [known EXCEPT ![p] = Joined(learnt, known[p])]
    /\ Goto(p, next)
    /\ UNCHANGED <<tier, schema, db, lock, task, reply, counters>>

Commit(p) ==
    /\ at[p] = "commit"
    /\ db' = View(p)
    /\ tx' = [tx EXCEPT ![p] = NoRows]
    /\ known' = [known EXCEPT ![p] = <<>>]
    /\ Release(p)
    /\ Ended(p, "stored")
    /\ Goto(p, "ready")
    /\ UNCHANGED <<tier, schema, task, counters>>

\* get: a statement for the head, one for the stages, one for the document and
\* one for every table of rows; the last ones are a single step, for the rows
\* of a run are committed at once.
GetHead(p, id) ==
    /\ Idle(p) /\ gets < MaxGets
    /\ gets' = gets + 1
    /\ task' = [task EXCEPT ![p] = [id |-> id]]
    /\ \/ /\ ~Exists(db, id)
          /\ Replied(p, id, "absent", None)
          /\ UNCHANGED <<known, at>>
       \/ /\ Exists(db, id)
          /\ known' = [known EXCEPT ![p] = [head |-> ReadHead(db, id), document |-> None]]
          /\ reply' = [reply EXCEPT ![p] = None]
          /\ Goto(p, "stages")
    /\ UNCHANGED <<tier, schema, rows, lock, adds, faults>>

GetStages(p) ==
    /\ at[p] = "stages"
    /\ known' = [known EXCEPT ![p] = Joined([stages |-> ReadStages(db, task[p].id)], known[p])]
    /\ Goto(p, IF tier = "sqlite" THEN "document" ELSE "rows")
    /\ UNCHANGED <<tier, schema, rows, lock, task, reply, counters>>

GetDocument(p) ==
    /\ at[p] = "document"
    /\ known' = [known EXCEPT ![p] =
           Joined([document |-> ReadDocument(db, task[p].id, known[p].head.hash)], known[p])]
    /\ Goto(p, "rows")
    /\ UNCHANGED <<tier, schema, rows, lock, task, reply, counters>>

GetRows(p) ==
    /\ at[p] = "rows"
    /\ Replied(p, task[p].id, "read",
               Assembled(known[p].head, known[p].stages, known[p].document,
                         ReadRows(db, task[p].id)))
    /\ known' = [known EXCEPT ![p] = <<>>]
    /\ Goto(p, "ready")
    /\ UNCHANGED <<tier, schema, rows, lock, task, counters>>

Get(p) == GetStages(p) \/ GetDocument(p) \/ GetRows(p)
=============================================================================
