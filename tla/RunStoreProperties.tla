------------------------- MODULE RunStoreProperties -------------------------
(***************************************************************************)
(* What the run store promises, and what its tables are at rest.           *)
(***************************************************************************)
EXTENDS RunStore

\* A run as get has to return it.
StageOf(x) == [code |-> x.code, ordinal |-> x.ordinal, status |-> x.status, count |-> x.count]
Expected(run) ==
    Assembled([status |-> run.status, hash |-> run.hash, input |-> run.snapshot],
              {StageOf(x) : x \in Elements(run.stages)}, run.result, ResultRows(run.result))

Entries == {[id |-> run.id, content |-> Expected(run)] : run \in Runs}

\* PostgreSQL keeps no result document: there the mapping supplies it.
Shown(id, content) ==
    IF tier = "sqlite" THEN content
    ELSE [content EXCEPT !.document = The({run \in Runs : run.id = id}).result]

Content(id) ==
    LET head == ReadHead(db, id)
    IN  Assembled(head, ReadStages(db, id), ReadDocument(db, id, head.hash), ReadRows(db, id))

\* A reply is not None.
Failures == {"duplicate", "constraint", "missing", "conflict", "busy", "newer", "exists", "failed"}
ASSUME RepliesAssumption ==
    /\ \A id \in {None} \cup {run.id : run \in Runs}, how \in Failures \cup {"stored", "absent"} :
          [id |-> id, how |-> how, run |-> None] # None
    /\ \A run \in Runs : \A document \in {run.result, None} :
          [id |-> run.id, how |-> "read",
           run |-> [Expected(run) EXCEPT !.document = document]] # None

\* Why a call failed does not concern the register.
ShownReply(r) ==
    CASE r = None -> None
      [] r # None /\ r.how = "read" -> [r EXCEPT !.run = Shown(r.id, r.run)]
      [] r # None /\ r.how \in {"stored", "absent"} -> r
      [] OTHER -> [r EXCEPT !.how = "failed"]

StoredRuns   == [id \in {x.key : x \in db["scenario_run"]} |-> Shown(id, Content(id))]
ShownReplies == [p \in Processes |-> ShownReply(reply[p])]

Register == INSTANCE RunRegister WITH
    Clients <- Processes, stored <- StoredRuns, reply <- ShownReplies

\* The relational tiers implement the register: a run appears with every one
\* of its rows, in the step that acknowledges it or whose acknowledgement is
\* lost, reads back as it was given, whatever shares its scenario, revision,
\* snapshot and manifest, and never changes; a get that overlaps an add
\* returns all of the run or nothing (add, get, _read_rows).
RegisterImplemented == Register!Spec

-----------------------------------------------------------------------------
Keyed == Tables \ {"payload_dependency"}

\* The two selects of _ensure_scenario do not exclude a second transaction in
\* PostgreSQL, which has no UNIQUE (scenario_id, semantic_hash): both file a
\* revision, and only one of them gets the snapshot.
OneWriter == tier = "sqlite"

\* Committed tables are consistent whatever the order of statements, failures
\* and crashes of the processes: no UNIQUE column holds a value twice, the
\* revisions of a scenario are numbered from 1 without a gap, a reference
\* leads to a row, a run's stations and payloads are those of the revision
\* its snapshot is filed under, and nothing was left by an add that failed.
RowsAtRest ==
    /\ \A t \in Keyed : \A x, y \in db[t] : x.key = y.key => x = y
    /\ \A s \in db["scenario"] :
          LET numbers == {x.key[2] : x \in {x \in db["scenario_revision"] : x.key[1] = s.id}}
          IN  numbers = 1 .. Cardinality(numbers) /\ numbers # {}
    /\ \A r \in db["scenario_run"] :
          /\ \E s \in db["input_snapshot"] : s.id = r.snapshot
          /\ \E m \in db["engine_manifest"] : m.id = r.manifest
    /\ \A x \in db["typed"] :
          \E y \in db["run_result"] :
              /\ y.id = x.key
              /\ OneWriter => \A s \in db["input_snapshot"], r \in db["scenario_run"] :
                    (r.key = y.run /\ s.id = r.snapshot) =>
                        /\ x.station # None => \E z \in db["scenario_station"] :
                                                  z.id = x.station /\ z.key[1] = s.revision
                        /\ x.payload # None => \E z \in db["scenario_payload"] :
                                                  z.id = x.payload /\ z.key[1] = s.revision
    /\ \A s \in db["input_snapshot"] :
          /\ \E r \in db["scenario_run"] : r.snapshot = s.id
          /\ \E x \in db["scenario_revision"] : x.id = s.revision
    /\ OneWriter => \A x, y \in db["scenario_revision"] :
          /\ \E s \in db["input_snapshot"] : s.revision = x.id
          /\ x.key[1] = y.key[1] /\ x.hash = y.hash => x = y

\* An add fails for what is wrong with the run or for another process, and
\* never because a result names a station or a payload that the revision it
\* shares does not have (KeyError in _write_results): runs share a revision
\* when their inputs have the same hash (_revision_hash).
FailsForCause ==
    \A p \in Processes :
        LET r == reply[p] IN
        r # None =>
            /\ r.how # "missing"
            /\ r.how = "duplicate" => Exists(db, r.id)
            /\ r.how = "conflict" => tier = "postgresql" /\ adds > 1
            /\ r.how = "busy" => tier = "sqlite" /\ faults > 0
            /\ r.how = "constraint" =>
                  \/ ~QueuePlacesDiffer(task[p].snapshot)
                  \/ ~KeysDiffer(task[p])
                  \/ ~IntervalsOpen(task[p].result)
                  \/ tier = "sqlite" /\ Exists(db, r.id)

\* Two adds in PostgreSQL never wait for each other's profiles, scenario,
\* snapshot or manifest: every add takes them in one order (decompose_snapshot
\* sorts the profiles).
NoWaitCycle ==
    \A p, q \in Processes : ~(q \in WaitsFor(p) /\ p \in WaitsFor(q))

\* A file holds the tables of exactly the scripts up to the version it
\* records, after any crash of any process that migrates it, so that the next
\* open goes on from there; and an open that finds its tables made is one
\* that another process overtook: trying again starts from a later version
\* (migrate).
SchemaWhole ==
    tier = "sqlite" =>
        /\ scripts = 1 .. version
        /\ \A p \in Processes :
              (reply[p] # None /\ reply[p].how = "exists" /\ known[p] # <<>>)
                  => version > known[p].version

\* Every call and every open comes to an end: whoever fails gives back the
\* write lock and its rows, no process waits for another one for ever, and the
\* bounded number of calls leaves nothing under way.
CallsEnd == <>[](\A p \in Processes : at[p] \in {"ready", "down"})
=============================================================================
