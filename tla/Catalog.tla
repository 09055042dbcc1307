------------------------------ MODULE Catalog ------------------------------
(***************************************************************************)
(* The catalog of profiles and scenarios: the lifecycle rules of           *)
(* application/catalog.py over the repositories of adapters/, as the API   *)
(* serves it from a pool of worker threads and as build_application seeds  *)
(* it at every start.                                                      *)
(*                                                                         *)
(* A use case is a sequence of repository calls, each on a connection of   *)
(* its own and each committed when it returns; nothing holds them          *)
(* together.  So an action is one repository call with the code around it, *)
(* `job` says where every worker is between two of them, and other         *)
(* workers, a failed call or a crash come in between.                      *)
(*                                                                         *)
(* Profiles and scenarios are two shelves with one lifecycle.  Identifiers *)
(* (uuid4) are positions in the sequences of rows.                         *)
(***************************************************************************)
EXTENDS Integers, Sequences, FiniteSets

CONSTANTS
    Workers,      \* threads of the API
    Boot,         \* the thread that seeds the presets before the API serves
    Keys,         \* stable keys a client may ask for
    Contents,     \* scenario contents and profile payloads
    Invalid,      \* contents that parse_fixture_content(...).validate() refuses
    Presets,      \* packaged fixtures: [key, content, profiles], profiles a sequence of keys
    Tiers,        \* TRUE: the SQLite tier; FALSE: the catalog is in memory
    None,
    MaxHeads, MaxRevisions, MaxSnapshots, MaxRuns, \* bounds on what clients ask for
    MaxFaults     \* bound on failed calls and crashes

Processes == Workers \cup {Boot}
Shelves   == {"profile", "scenario"}

ASSUME NoneAssumption      == None \notin Nat
ASSUME ProcessesAssumption == Boot \notin Workers
ASSUME ContentsAssumption  == Invalid \subseteq Contents
ASSUME TiersAssumption     == Tiers \subseteq BOOLEAN
ASSUME PresetsAssumption   == \A i \in 1 .. Len(Presets) : Presets[i].content \in Contents

VARIABLES
    heads,     \* rows of catalog_profile and catalog_scenario
    revisions, \* rows of catalog_profile_revision and catalog_scenario_revision
    snapshots, \* rows of catalog_snapshot
    runs,      \* runs of a snapshot, in the run repository
    linked,    \* rows of catalog_scenario_run: <<head, run>>
    mode,      \* "boot", "serving", "down", or "refused": seeding raised an error
    seeding,   \* how far seed_scenario_preset is, in Presets and in their profiles
    job,       \* what each thread is doing
    faults,    \* failed calls and crashes so far
    durable    \* the tier: never changes

rows == <<heads, revisions, snapshots, runs, linked>>
vars == <<rows, mode, seeding, job, faults, durable>>

-----------------------------------------------------------------------------
\* A thread's place between two repository calls, with the values it has read.
Job(step, shelf, key, head, rev, no, content) ==
    [step |-> step, shelf |-> shelf, key |-> key, head |-> head, rev |-> rev,
     no |-> no, content |-> content]

Idle == Job("idle", None, None, None, None, None, None)

\* is_preset is TRUE of what seeding inserts.  A client may set it too, which tells
\* nothing apart: when clients come, the keys of all presets are taken.
HeadRow(shelf, key, preset, current) ==
    [shelf |-> shelf, key |-> key, preset |-> preset, current |-> current]

\* `stamp` stands for published_at: whose request set it.
RevisionRow(head, no, status, content, stamp) ==
    [head |-> head, no |-> no, status |-> status, content |-> content, stamp |-> stamp]

RevisionsOf(h) == {r \in DOMAIN revisions : revisions[r].head = h}

Taken(shelf, key) == \E h \in DOMAIN heads : heads[h].shelf = shelf /\ heads[h].key = key

At(p, step) == job[p].step = step

Goes(p, next) == job' = [job EXCEPT ![p] = next]

\* The use case ends in an error.  For a request that is all; the seeding of
\* presets has no caller that would catch it, and the process does not start.
Raises(p) ==
    /\ Goes(p, Idle)
    /\ mode' = IF p = Boot THEN "refused" ELSE mode

Init ==
    /\ heads = <<>> /\ revisions = <<>> /\ snapshots = <<>> /\ runs = <<>> /\ linked = {}
    /\ mode = "boot" /\ seeding = [preset |-> 1, spec |-> 0, known |-> {}]
    /\ job = [p \in Processes |-> Idle]
    /\ faults = 0 /\ durable \in Tiers

-----------------------------------------------------------------------------
\* The requests of clients.
Free(w) == mode = "serving" /\ At(w, "idle")

Requests(w, next) ==
    /\ Free(w) /\ Goes(w, next)
    /\ UNCHANGED <<rows, mode, seeding, faults, durable>>

RequestCreate(w) ==
    /\ Len(heads) < MaxHeads
    /\ \E shelf \in Shelves, key \in Keys, c \in Contents :
          Requests(w, Job("list_heads", shelf, key, None, None, None, c))

\* A new draft, with content of its own or that of a revision of the same head.
RequestRevision(w) ==
    /\ Len(revisions) < MaxRevisions
    /\ \E h \in DOMAIN heads, c \in Contents :
          Requests(w, Job("list_revisions", heads[h].shelf, None, h, None, None, c))

RequestPublish(w) ==
    \E r \in DOMAIN revisions :
        Requests(w, Job("read_draft", None, None, None, r, None, None))

\* A clone is a scenario created with the content of a revision of another one.
RequestClone(w) ==
    /\ Len(heads) < MaxHeads
    /\ \E r \in DOMAIN revisions, key \in Keys :
          /\ heads[revisions[r].head].shelf = "scenario"
          /\ Requests(w, Job("list_heads", "scenario", key, None, None, None,
                             revisions[r].content))

RequestSnapshot(w) ==
    /\ Len(snapshots) < MaxSnapshots
    /\ \E r \in DOMAIN revisions :
          /\ heads[revisions[r].head].shelf = "scenario"
          /\ Requests(w, Job("read_published", None, None, None, r, None, None))

\* The run is computed from the snapshot; an invalid one is refused before.
RequestRun(w) ==
    /\ Len(runs) < MaxRuns
    /\ \E s \in DOMAIN snapshots :
          /\ snapshots[s].content \notin Invalid
          /\ Requests(w, Job("add_run", None, None, None, s, None, None))

-----------------------------------------------------------------------------
\* create_profile, create_scenario: list, then insert the head; a scenario
\* then gets its first draft, and so does every profile that is seeded.
ListHeads(p) ==
    /\ At(p, "list_heads")
    /\ IF Taken(job[p].shelf, job[p].key)
       THEN Raises(p)
       ELSE Goes(p, [job[p] EXCEPT !.step = "add_head"]) /\ UNCHANGED mode
    /\ UNCHANGED <<rows, seeding, faults, durable>>

\* UNIQUE(stable_key), which the in-memory catalog does not have.
KeyConflict(shelf, key) == durable /\ Taken(shelf, key)

AddHead(p) ==
    /\ At(p, "add_head")
    /\ LET shelf == job[p].shelf
           key   == job[p].key
       IN  IF KeyConflict(shelf, key)
           THEN Raises(p) /\ UNCHANGED heads
           ELSE /\ heads' = Append(heads, HeadRow(shelf, key, p = Boot, None))
                /\ Goes(p, IF shelf = "scenario" \/ p = Boot
                           THEN Job("list_revisions", shelf, key, Len(heads) + 1, None, None,
                                    job[p].content)
                           ELSE Idle)
                /\ UNCHANGED mode
    /\ UNCHANGED <<revisions, snapshots, runs, linked, seeding, faults, durable>>

NextNumber(h) == Cardinality(RevisionsOf(h)) + 1

\* create_profile_revision, _new_scenario_revision: count, then insert a draft.
ListRevisions(p) ==
    /\ At(p, "list_revisions")
    /\ Goes(p, Job("add_revision", job[p].shelf, job[p].key, job[p].head, None,
                   NextNumber(job[p].head), job[p].content))
    /\ UNCHANGED <<rows, mode, seeding, faults, durable>>

\* A slip: the insert is not held to a unique number.
NumberConflictIgnored(head, no) == FALSE

\* UNIQUE(scenario_id, revision_no), which the in-memory catalog does not have.
NumberConflict(head, no) == durable /\ \E r \in RevisionsOf(head) : revisions[r].no = no

\* A slip: the insert replaces the row that has the same number.
AddRevisionReplacing(p) ==
    /\ At(p, "add_revision")
    /\ LET row  == RevisionRow(job[p].head, job[p].no, "DRAFT", job[p].content, None)
           same == {r \in RevisionsOf(job[p].head) : revisions[r].no = job[p].no}
       IN  revisions' = IF same = {} THEN Append(revisions, row)
                        ELSE [r \in DOMAIN revisions |-> IF r \in same THEN row
                                                         ELSE revisions[r]]
    /\ Goes(p, IF p = Boot THEN Job("read_draft", None, None, None, Len(revisions'), None, None)
                           ELSE Idle)
    /\ UNCHANGED <<heads, snapshots, runs, linked, mode, seeding, faults, durable>>

AddRevision(p) ==
    /\ At(p, "add_revision")
    /\ IF NumberConflict(job[p].head, job[p].no)
       THEN Raises(p) /\ UNCHANGED revisions
       ELSE /\ revisions' = Append(revisions, RevisionRow(job[p].head, job[p].no, "DRAFT",
                                                       job[p].content, None))
            /\ Goes(p, IF p = Boot
                       THEN Job("read_draft", None, None, None, Len(revisions) + 1, None, None)
                       ELSE Idle)
            /\ UNCHANGED mode
    /\ UNCHANGED <<heads, snapshots, runs, linked, seeding, faults, durable>>

-----------------------------------------------------------------------------
\* publish_*_revision: read the draft, replace it, point the head at it.
ReadDraft(p) ==
    /\ At(p, "read_draft")
    /\ LET r == job[p].rev
       IN  IF revisions[r].status = "PUBLISHED"
           THEN Raises(p)
           ELSE /\ Goes(p, Job("replace", None, None, revisions[r].head, r, revisions[r].no,
                               revisions[r].content))
                /\ UNCHANGED mode
    /\ UNCHANGED <<rows, seeding, faults, durable>>

\* A slip: the row is written back as it was read.
ReplacementUnpublished(p) ==
    RevisionRow(job[p].head, job[p].no, "DRAFT", job[p].content, None)

Replacement(p) == RevisionRow(job[p].head, job[p].no, "PUBLISHED", job[p].content, p)

Replace(p) ==
    /\ At(p, "replace")
    /\ revisions' = [revisions EXCEPT ![job[p].rev] = Replacement(p)]
    /\ Goes(p, Job("point", None, None, job[p].head, job[p].rev, None, None))
    /\ UNCHANGED <<heads, snapshots, runs, linked, mode, seeding, faults, durable>>

\* A slip: the pointer only ever moves to the newest revision.
SetCurrentNewestOnly(p) ==
    /\ At(p, "point")
    /\ LET h == heads[job[p].head]
       IN  heads' = IF \E r \in RevisionsOf(job[p].head) : r > job[p].rev THEN heads
                    ELSE [heads EXCEPT ![job[p].head] =
                             HeadRow(h.shelf, h.key, h.preset, job[p].rev)]
    /\ Goes(p, Idle)
    /\ UNCHANGED <<revisions, snapshots, runs, linked, mode, seeding, faults, durable>>

SetCurrent(p) ==
    /\ At(p, "point")
    /\ LET h == heads[job[p].head]
       IN  heads' = [heads EXCEPT ![job[p].head] = HeadRow(h.shelf, h.key, h.preset, job[p].rev)]
    /\ Goes(p, Idle)
    /\ UNCHANGED <<revisions, snapshots, runs, linked, mode, seeding, faults, durable>>

-----------------------------------------------------------------------------
\* A slip: any revision can be promoted.
PromotableAny(r) == TRUE

\* create_snapshot: only a published revision is promoted.
Promotable(r) == revisions[r].status = "PUBLISHED"

ReadPublished(p) ==
    /\ At(p, "read_published")
    /\ LET r == job[p].rev
       IN  IF Promotable(r)
           THEN /\ Goes(p, Job("add_snapshot", None, None, None, r, revisions[r].no,
                               revisions[r].content))
                /\ UNCHANGED mode
           ELSE Raises(p)
    /\ UNCHANGED <<rows, seeding, faults, durable>>

\* The row is inserted; whether its content is valid is asked afterwards, and
\* only decides what the client is told.
AddSnapshot(p) ==
    /\ At(p, "add_snapshot")
    /\ snapshots' = Append(snapshots, [rev |-> job[p].rev, no |-> job[p].no,
                                       content |-> job[p].content])
    /\ Goes(p, Idle)
    /\ UNCHANGED <<heads, revisions, runs, linked, mode, seeding, faults, durable>>

\* create_run: the run is stored, then recorded under its scenario.
RecordedUnder(s) == revisions[snapshots[s].rev].head

AddRun(p) ==
    /\ At(p, "add_run")
    /\ runs' = Append(runs, job[p].rev)
    /\ Goes(p, Job("record_run", None, None, RecordedUnder(job[p].rev),
                   Len(runs) + 1, None, None))
    /\ UNCHANGED <<heads, revisions, snapshots, linked, mode, seeding, faults, durable>>

RecordRun(p) ==
    /\ At(p, "record_run")
    /\ linked' = linked \cup {<<job[p].head, job[p].rev>>}
    /\ Goes(p, Idle)
    /\ UNCHANGED <<heads, revisions, snapshots, runs, mode, seeding, faults, durable>>

-----------------------------------------------------------------------------
\* seed_scenario_preset, once per packaged fixture, before the API serves.
Seeds(next) == seeding' = next
Place(preset, spec, known) == [preset |-> preset, spec |-> spec, known |-> known]

Preset == Presets[seeding.preset]

\* A slip: what an earlier start has seeded is not looked for.
SeededNever(key) == FALSE

\* On a restart the preset is there already.
Seeded(key) == \E h \in DOMAIN heads : /\ heads[h].shelf = "scenario" /\ heads[h].key = key
                                       /\ heads[h].preset

BeginPreset ==
    /\ mode = "boot" /\ At(Boot, "idle")
    /\ seeding.preset <= Len(Presets) /\ seeding.spec = 0
    /\ IF Seeded(Preset.key)
       THEN Seeds(Place(seeding.preset + 1, 0, {}))
       ELSE Seeds(Place(seeding.preset, 1,
                        {heads[h].key : h \in {i \in DOMAIN heads : heads[i].shelf = "profile"}}))
    /\ UNCHANGED <<rows, mode, job, faults, durable>>

SeedProfile ==
    /\ mode = "boot" /\ At(Boot, "idle")
    /\ seeding.preset <= Len(Presets) /\ seeding.spec \in 1 .. Len(Preset.profiles)
    /\ LET key == Preset.profiles[seeding.spec]
       IN  /\ Seeds(Place(seeding.preset, seeding.spec + 1, seeding.known \cup {key}))
           /\ IF key \in seeding.known
              THEN UNCHANGED job
              ELSE Goes(Boot, Job("list_heads", "profile", key, None, None, None, Preset.content))
    /\ UNCHANGED <<rows, mode, faults, durable>>

SeedScenario ==
    /\ mode = "boot" /\ At(Boot, "idle")
    /\ seeding.preset <= Len(Presets) /\ seeding.spec = Len(Preset.profiles) + 1
    /\ Seeds(Place(seeding.preset + 1, 0, {}))
    /\ Goes(Boot, Job("list_heads", "scenario", Preset.key, None, None, None, Preset.content))
    /\ UNCHANGED <<rows, mode, faults, durable>>

Serve ==
    /\ mode = "boot" /\ At(Boot, "idle") /\ seeding.preset > Len(Presets)
    /\ mode' = "serving"
    /\ UNCHANGED <<rows, seeding, job, faults, durable>>

-----------------------------------------------------------------------------
\* A repository call fails (the database stays locked for longer than the busy
\* timeout): the request ends there; so does the start, if it is seeding.
CallFails(p) ==
    /\ faults < MaxFaults /\ ~At(p, "idle")
    /\ faults' = faults + 1
    /\ Goes(p, Idle)
    /\ mode' = IF p = Boot THEN "down" ELSE mode
    /\ UNCHANGED <<rows, seeding, durable>>

\* The process dies: every request is lost, and what is only in memory with it.
Crash ==
    /\ faults < MaxFaults /\ mode \in {"boot", "serving"}
    /\ faults' = faults + 1
    /\ mode' = "down"
    /\ job' = [p \in Processes |-> Idle]
    /\ IF durable
       THEN UNCHANGED rows
       ELSE heads' = <<>> /\ revisions' = <<>> /\ snapshots' = <<>> /\ runs' = <<>>
            /\ linked' = {}
    /\ UNCHANGED <<seeding, durable>>

Restart ==
    /\ mode = "down"
    /\ mode' = "boot" /\ Seeds(Place(1, 0, {}))
    /\ UNCHANGED <<rows, job, faults, durable>>

-----------------------------------------------------------------------------
Request(w) ==
    \/ RequestCreate(w) \/ RequestRevision(w) \/ RequestPublish(w) \/ RequestClone(w)
    \/ RequestSnapshot(w) \/ RequestRun(w)

Call(p) ==
    \/ ListHeads(p) \/ AddHead(p) \/ ListRevisions(p) \/ AddRevision(p)
    \/ ReadDraft(p) \/ Replace(p) \/ SetCurrent(p)
    \/ ReadPublished(p) \/ AddSnapshot(p) \/ AddRun(p) \/ RecordRun(p)

Seed == BeginPreset \/ SeedProfile \/ SeedScenario \/ Serve

Next ==
    \/ \E w \in Workers : Request(w)
    \/ \E p \in Processes : Call(p) \/ CallFails(p)
    \/ Seed \/ Crash \/ Restart

Spec == Init /\ [][Next]_vars

\* A thread that is not interrupted goes on, and a process that is down is
\* started again.
FairSpec ==
    /\ Spec
    /\ \A p \in Processes : WF_vars(Call(p))
    /\ WF_vars(Seed) /\ WF_vars(Restart)
=============================================================================
