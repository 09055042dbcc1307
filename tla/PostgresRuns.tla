---------------------------- MODULE PostgresRuns ----------------------------
(***************************************************************************)
(* The add of adapters/postgres/repository.py: one READ COMMITTED          *)
(* transaction of find-or-insert statements.                               *)
(*                                                                         *)
(* Nothing orders two transactions but the UNIQUE constraints.  Inserting  *)
(* a key that another open transaction has inserted waits until that one   *)
(* ends; if it commits, the insert fails, and so does inserting a key      *)
(* committed since it was looked for.  So an insert is an action apart     *)
(* from the select before it.  The pointer of a scenario to its current    *)
(* revision is left out: the store never reads it, and the insert of the   *)
(* revision before it already waits for whoever could hold that row.       *)
(***************************************************************************)
EXTENDS RunTables

Snapshot(p)    == task[p].snapshot
NextProfile(p) == Head(known[p].todo)

\* Table and key of the row p inserts next.
Wanted(p) ==
    CASE at[p] = "insert_profile"  -> <<"profile", NextProfile(p).key>>
      [] at[p] = "insert_scenario" -> <<"scenario", Snapshot(p).fixture>>
      [] at[p] = "insert_revision" -> <<"scenario_revision", <<known[p].scenario, known[p].number>>>>
      [] at[p] = "insert_snapshot" -> <<"input_snapshot", Snapshot(p)>>
      [] at[p] = "insert_manifest" -> <<"engine_manifest", ManifestKey(task[p].manifest)>>
      [] at[p] = "run"             -> <<"scenario_run", task[p].id>>

Inserting == {"insert_profile", "insert_scenario", "insert_revision", "insert_snapshot",
              "insert_manifest", "run"}

\* Other transactions that have inserted what p is about to insert.
WaitsFor(p) ==
    IF tier # "postgresql" \/ at[p] \notin Inserting THEN {}
    ELSE {q \in Processes \ {p} : \E x \in tx[q][Wanted(p)[1]] : x.key = Wanted(p)[2]}

Committed(p)  == \E x \in db[Wanted(p)[1]] : x.key = Wanted(p)[2]
CanInsert(p)  == at[p] \in Inserting /\ WaitsFor(p) = {} /\ ~Committed(p)

\* The key has been committed by another transaction meanwhile.
Conflict(p) ==
    /\ at[p] \in Inserting /\ WaitsFor(p) = {} /\ Committed(p)
    /\ Fail(p, "conflict")

\* A find that only remembers what it found.
Learn(p, learnt, next) == Write(p, <<>>, learnt, next)

BeginProfiles(p) ==
    /\ at[p] = "begin"
    /\ Learn(p, [todo |-> Profiles(Snapshot(p)), profiles |-> <<>>], "profiles")

\* The current revision of the profile with this key, whatever it says.
FindProfile(p) ==
    /\ at[p] = "profiles"
    /\ known[p].todo # <<>>
    /\ LET spec  == NextProfile(p)
           found == {x \in View(p)["profile"] : x.key = spec.key}
       IN IF found = {} THEN Learn(p, <<>>, "insert_profile")
          ELSE Learn(p, [todo |-> Tail(known[p].todo),
                         profiles |-> Joined([k \in {spec.key} |-> The(found).current],
                                            known[p].profiles)], "profiles")

\* The columns of the revision's typed table; a spacecraft has none.
TypedProfile(spec) == IF spec.kind = "SPACECRAFT" THEN None ELSE spec.payload

\* The head, its only revision, published, and the pointer to it.
InsertProfile(p) ==
    /\ at[p] = "insert_profile" /\ CanInsert(p)
    /\ LET spec     == NextProfile(p)
           revision == New(p, <<"revision", spec.key>>)
       IN Write(p, [profile          |-> {[key |-> spec.key, kind |-> spec.kind, current |-> revision]},
                    profile_revision |-> {[id |-> revision, key |-> <<spec.key, 1>>,
                                           payload |-> TypedProfile(spec)]}],
                [todo |-> Tail(known[p].todo),
                 profiles |-> Joined([k \in {spec.key} |-> revision], known[p].profiles)], "profiles")

FindScenario(p) ==
    /\ at[p] = "profiles"
    /\ known[p].todo = <<>>
    /\ LET found == {x \in View(p)["scenario"] : x.key = Snapshot(p).fixture}
       IN IF found = {} THEN Learn(p, <<>>, "insert_scenario")
          ELSE Learn(p, [scenario |-> The(found).id], "revision")

InsertScenario(p) ==
    /\ at[p] = "insert_scenario" /\ CanInsert(p)
    /\ LET row == [id |-> New(p, "scenario"), key |-> Snapshot(p).fixture,
                   question |-> Snapshot(p).question]
       IN Write(p, [scenario |-> {row}], [scenario |-> row.id], "revision")

OfScenario(p) == {x \in View(p)["scenario_revision"] : x.key[1] = known[p].scenario}

NamesOf(p, table, revision) ==
    LET found == {x \in View(p)[table] : x.key[1] = revision}
    IN  [k \in {x.name : x \in found} |-> The({x \in found : x.name = k}).id]

FindRevision(p) ==
    /\ at[p] = "revision"
    /\ LET same == {x \in OfScenario(p) : x.hash = RevisionHash(Snapshot(p))}
       IN \/ /\ same = {}
             /\ Learn(p, <<>>, "count")
          \/ \E x \in same :
                Learn(p, [revision |-> x.id, stations |-> NamesOf(p, "scenario_station", x.id),
                          payloads |-> NamesOf(p, "scenario_payload", x.id)], "snapshot")

\* The count is a statement of its own: it may see more than the one before.
CountRevisions(p) ==
    /\ at[p] = "count"
    /\ Learn(p, [number |-> Cardinality(OfScenario(p)) + 1], "insert_revision")

\* The revision and its rows.  A station refers to the profiles found or
\* inserted under its keys.
InsertRevision(p) ==
    /\ at[p] = "insert_revision" /\ CanInsert(p)
    /\ LET s        == Snapshot(p)
           id       == New(p, "revision")
           profile  == known[p].profiles
       IN \/ /\ ~QueuePlacesDiffer(s)
             /\ Fail(p, "constraint")
          \/ /\ QueuePlacesDiffer(s)
             /\ Write(p,
                  [scenario_revision |-> {[id |-> id, key |-> <<known[p].scenario, known[p].number>>,
                       hash |-> RevisionHash(s), source |-> s.source, storage |-> s.enabled,
                       craft |-> profile[SpacecraftKey(s)],
                       orbit |-> {profile[x.key] : x \in OrbitProfiles(s)},
                       policy |-> {profile[x.key] : x \in PolicyProfiles(s)}]},
                   scenario_station |->
                      {[id |-> New(p, <<"station", x.key>>), key |-> <<id, x.key>>, name |-> x.key,
                        comm |-> profile[x.comm], ground |-> profile[x.ground], rank |-> x.rank,
                        mask |-> x.mask] : x \in Stations(s)},
                   scenario_payload |->
                      {[id |-> New(p, <<"payload", x.key>>), key |-> <<id, x.key>>, name |-> x.key,
                        type |-> profile[x.type], sequence |-> x.sequence, detail |-> x.detail]
                       : x \in Payloads(s)},
                   payload_dependency |-> {<<id, d>> : d \in s.after}],
                  [revision |-> id,
                   stations |-> [x \in DOMAIN s.stations |-> New(p, <<"station", x>>)],
                   payloads |-> [x \in DOMAIN s.payloads |-> New(p, <<"payload", x>>)]],
                  "snapshot")

FindSnapshot(p) ==
    /\ at[p] = "snapshot"
    /\ LET found == {x \in View(p)["input_snapshot"] : x.key = Snapshot(p)}
       IN IF found = {} THEN Learn(p, <<>>, "insert_snapshot")
          ELSE Learn(p, [snapshot |-> The(found).id], "manifest")

InsertSnapshot(p) ==
    /\ at[p] = "insert_snapshot" /\ CanInsert(p)
    /\ LET row == [id |-> New(p, "snapshot"), key |-> Snapshot(p), revision |-> known[p].revision]
       IN Write(p, [input_snapshot |-> {row}], [snapshot |-> row.id], "manifest")

FindManifest(p) ==
    /\ at[p] = "manifest"
    /\ LET found == {x \in View(p)["engine_manifest"] : x.key = ManifestKey(task[p].manifest)}
       IN IF found = {} THEN Learn(p, <<>>, "insert_manifest")
          ELSE Learn(p, [manifest |-> The(found).id], "run")

InsertManifest(p) ==
    /\ at[p] = "insert_manifest" /\ CanInsert(p)
    /\ LET row == [id |-> New(p, "manifest"), key |-> ManifestKey(task[p].manifest),
                   manifest |-> task[p].manifest]
       IN Write(p, [engine_manifest |-> {row}], [manifest |-> row.id], "run")

\* The run, inserted QUEUED and made terminal by the last statement, with its
\* stages and result rows.  Nobody sees the states in between.
InsertRun(p) ==
    /\ at[p] = "run" /\ CanInsert(p)
    /\ LET run == task[p] IN
       \/ \E how \in Refusals(p) : Fail(p, how)
       \/ /\ Refusals(p) = {}
          /\ Write(p, [run_result |-> StoredIdentities(p, run.result),
                       typed |-> StoredTyped(p, run.result),
                       scenario_run |-> {RunRow(p)}, run_stage |-> StageRows(p)],
                   <<>>, "commit")

PostgresStep(p) ==
    \/ BeginProfiles(p) \/ Conflict(p)
    \/ FindProfile(p) \/ InsertProfile(p) \/ FindScenario(p) \/ InsertScenario(p)
    \/ FindRevision(p) \/ CountRevisions(p) \/ InsertRevision(p)
    \/ FindSnapshot(p) \/ InsertSnapshot(p) \/ FindManifest(p) \/ InsertManifest(p) \/ InsertRun(p)
=============================================================================
