----------------------------- MODULE SqliteRuns -----------------------------
(***************************************************************************)
(* The SQLite tier of the run store: adapters/sqlite/schema.py, which      *)
(* brings a file to the current schema on every open, and the add of       *)
(* adapters/sqlite/repository.py.                                          *)
(*                                                                         *)
(* The file has one writer.  `BEGIN` takes the write lock with the first   *)
(* statement that writes, `BEGIN IMMEDIATE` at once; whoever wants it      *)
(* while it is held waits, and gives up after busy_timeout.  A reader      *)
(* never waits (WAL).                                                      *)
(***************************************************************************)
EXTENDS RunTables

SchemaVersion == 2
Scripts == 1 .. SchemaVersion

(***************************************************************************)
(* Opening.                                                                *)
(***************************************************************************)

\* current_version, read on a connection that holds nothing.
ReadVersion(p) ==
    /\ at[p] = "closed"
    /\ known' = [known EXCEPT ![p] = [version |-> version]]
    /\ task' = [task EXCEPT ![p] = None]
    /\ reply' = [reply EXCEPT ![p] = None]
    /\ Goto(p, "migrate")
    /\ UNCHANGED <<tier, schema, rows, lock, counters>>

\* An open that fails leaves no connection behind.
OpenFails(p, how) ==
    /\ Replied(p, None, how, None)
    /\ Release(p)
    /\ Goto(p, "down")
    /\ UNCHANGED <<tier, schema, rows, task, known, counters>>

\* The next script above the version that was read; none is left at the head.
Pending(p) == {s \in Scripts : s > known[p].version}

\* A file of a newer build is left alone.
RefuseNewer(p) ==
    /\ at[p] = "migrate" /\ known[p].version > SchemaVersion
    /\ OpenFails(p, "newer")

\* BEGIN and the statements of a script: CREATE TABLE fails where the table
\* has been created since the version was read.
Apply(p) ==
    /\ at[p] = "migrate" /\ Pending(p) # {} /\ lock = None
    /\ Min(Pending(p)) \notin scripts
    /\ lock' = p
    /\ Goto(p, "recorded")
    /\ UNCHANGED <<tier, schema, rows, task, known, reply, counters>>

TableExists(p) ==
    /\ at[p] = "migrate" /\ Pending(p) # {} /\ lock = None
    /\ Min(Pending(p)) \in scripts
    /\ OpenFails(p, "exists")

\* A slip: the version is recorded after the script's transaction.
RecordApart(p) ==
    /\ at[p] = "recorded"
    /\ scripts' = scripts \cup {Min(Pending(p))}
    /\ version' = known[p].version
    /\ known' = [known EXCEPT ![p] = [version |-> Min(Pending(p))]]
    /\ Release(p)
    /\ Goto(p, "migrate")
    /\ UNCHANGED <<tier, rows, task, reply, counters>>

\* The version row joins the script's transaction, then COMMIT.
Record(p) ==
    /\ at[p] = "recorded"
    /\ scripts' = scripts \cup {Min(Pending(p))}
    /\ version' = Min(Pending(p))
    /\ known' = [known EXCEPT ![p] = [version |-> Min(Pending(p))]]
    /\ Release(p)
    /\ Goto(p, "migrate")
    /\ UNCHANGED <<tier, rows, task, reply, counters>>

Opened(p) ==
    /\ at[p] = "migrate" /\ Pending(p) = {} /\ known[p].version = SchemaVersion
    /\ Goto(p, "ready")
    /\ UNCHANGED <<tier, schema, rows, lock, task, known, reply, counters>>

(***************************************************************************)
(* Adding a run.                                                           *)
(***************************************************************************)

\* A slip: BEGIN without IMMEDIATE, and the writers are not ordered.
BeginDeferred(p) ==
    /\ at[p] = "begin"
    /\ Goto(p, "scenario")
    /\ UNCHANGED <<tier, schema, rows, lock, task, known, reply, counters>>

BeginImmediate(p) ==
    /\ at[p] = "begin" /\ lock = None
    /\ lock' = p
    /\ Goto(p, "scenario")
    /\ UNCHANGED <<tier, schema, rows, task, known, reply, counters>>

\* The write lock is held for longer than busy_timeout.
Busy(p) ==
    /\ lock \notin {None, p} /\ faults < MaxFaults
    /\ \/ at[p] = "begin" /\ Ended(p, "busy") /\ Goto(p, "ready")
       \/ /\ at[p] = "migrate" /\ Pending(p) # {}
          /\ Replied(p, None, "busy", None)
          /\ Goto(p, "down")
    /\ faults' = faults + 1
    /\ UNCHANGED <<tier, schema, rows, lock, task, known, adds, gets>>

StationRows(p, revision, s) ==
    {[id |-> New(p, <<"station", x.key>>), key |-> <<revision, x.key>>, name |-> x.key,
      comm |-> x.comm, ground |-> x.ground, rank |-> x.rank, mask |-> x.mask] : x \in Stations(s)}

CommunicationRows(p, revision, s) ==
    {[key |-> <<revision, k>>, payload |-> CommunicationPayload(s.stations[k].capacity)]
     : k \in DOMAIN s.stations}

PayloadRows(p, revision, s) ==
    {[id |-> New(p, <<"payload", x.key>>), key |-> <<revision, x.key>>, name |-> x.key,
      type |-> x.type, sequence |-> x.sequence, detail |-> x.detail] : x \in Payloads(s)}

\* The keys of a revision's rows, for the references of the result rows.
RevisionKeys(t, table, revision) ==
    [k \in {x.name : x \in {x \in t[table] : x.key[1] = revision}} |->
        The({x \in t[table] : x.key = <<revision, k>>}).id]

ScenarioRow(p, s) == [id |-> New(p, "scenario"), key |-> s.fixture, question |-> s.question]

\* Synthetic contacts name their provider, derived ones their orbit.
RevisionRow(p, scenario, number, s) ==
    [id |-> New(p, "revision"), key |-> <<scenario, number>>, hash |-> RevisionHash(s),
     source |-> s.source, policy |-> s.policy, storage |-> s.enabled, craft |-> SpacecraftKey(s)]

\* The scenario by its key and the revision by its hash, each inserted when
\* it is not there; the number is one more than there are.
EnsureScenario(p) ==
    /\ at[p] = "scenario"
    /\ LET s         == task[p].snapshot
           heads     == {x \in db["scenario"] : x.key = s.fixture}
           head      == IF heads = {} THEN ScenarioRow(p, s) ELSE The(heads)
           ofHead    == {x \in db["scenario_revision"] : x.key[1] = head.id}
           same      == {x \in ofHead : x.hash = RevisionHash(s)}
           revision  == RevisionRow(p, head.id, Cardinality(ofHead) + 1, s)
       IN \/ /\ same # {}
             /\ LET id == The(same).id IN
                Write(p, <<>>, [revision |-> id,
                                stations |-> RevisionKeys(db, "scenario_station", id),
                                payloads |-> RevisionKeys(db, "scenario_payload", id)], "snapshot")
          \/ /\ same = {} /\ ~QueuePlacesDiffer(s)
             /\ Fail(p, "constraint")
          \/ /\ same = {} /\ QueuePlacesDiffer(s)
             /\ LET stations == StationRows(p, revision.id, s)
                    payloads == PayloadRows(p, revision.id, s)
                IN Write(p, [scenario               |-> {head} \ heads,
                             scenario_revision      |-> {revision},
                             scenario_station       |-> stations,
                             communication_revision |-> CommunicationRows(p, revision.id, s),
                             scenario_payload       |-> payloads,
                             payload_dependency     |-> {<<revision.id, d>> : d \in s.after}],
                         [revision |-> revision.id,
                          stations |-> [x \in DOMAIN s.stations |-> New(p, <<"station", x>>)],
                          payloads |-> [x \in DOMAIN s.payloads |-> New(p, <<"payload", x>>)]],
                         "snapshot")

EnsureSnapshot(p) ==
    /\ at[p] = "snapshot"
    /\ LET found == {x \in db["input_snapshot"] : x.key = task[p].snapshot}
           row   == [id |-> New(p, "snapshot"), key |-> task[p].snapshot, revision |-> known[p].revision]
       IN IF found # {} THEN Write(p, <<>>, [snapshot |-> The(found).id], "manifest")
          ELSE Write(p, [input_snapshot |-> {row}], [snapshot |-> row.id], "manifest")

\* A manifest is found again by engine version and code revision alone.
EnsureManifest(p) ==
    /\ at[p] = "manifest"
    /\ LET found == {x \in db["engine_manifest"] : x.key = ManifestKey(task[p].manifest)}
           row   == [id |-> New(p, "manifest"), key |-> ManifestKey(task[p].manifest),
                     manifest |-> task[p].manifest]
       IN IF found # {} THEN Write(p, <<>>, [manifest |-> The(found).id], "run")
          ELSE Write(p, [engine_manifest |-> {row}], [manifest |-> row.id], "run")

\* The run, its stages, its result rows and its document.
WriteRun(p) ==
    /\ at[p] = "run"
    /\ LET run == task[p] IN
       \/ /\ Exists(db, run.id)
          /\ Fail(p, "constraint")
       \/ /\ ~Exists(db, run.id)
          /\ \E how \in Refusals(p) : Fail(p, how)
       \/ /\ ~Exists(db, run.id) /\ Refusals(p) = {}
          /\ Write(p, [run_result |-> StoredIdentities(p, run.result),
                       typed |-> StoredTyped(p, run.result),
                       scenario_run |-> {RunRow(p)}, run_stage |-> StageRows(p),
                       run_result_document |-> {[key |-> run.id, hash |-> run.hash,
                                                 document |-> run.result]}],
                   <<>>, "commit")

SqliteStep(p) ==
    \/ ReadVersion(p) \/ RefuseNewer(p) \/ Apply(p) \/ TableExists(p) \/ Record(p) \/ Opened(p)
    \/ BeginImmediate(p) \/ EnsureScenario(p) \/ EnsureSnapshot(p)
    \/ EnsureManifest(p) \/ WriteRun(p)
=============================================================================
