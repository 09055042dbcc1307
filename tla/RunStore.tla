------------------------------ MODULE RunStore ------------------------------
(***************************************************************************)
(* The run store: processes that open it, add runs and read them back, on  *)
(* the SQLite or on the PostgreSQL tier, statement by statement; statements *)
(* that fail, and processes that die between two of them.                  *)
(***************************************************************************)
EXTENDS SqliteRuns, PostgresRuns

Started == IF tier = "sqlite" THEN "closed" ELSE "ready"

\* A file of an earlier build holds the scripts up to its version; PostgreSQL
\* is migrated by whoever deploys it.
Init ==
    /\ tier \in Tiers
    /\ version \in (IF tier = "sqlite" THEN Files ELSE {0})
    /\ scripts = 1 .. version
    /\ db = NoRows
    /\ tx = [p \in Processes |-> NoRows]
    /\ lock = None
    /\ at = [p \in Processes |-> Started]
    /\ task = [p \in Processes |-> None]
    /\ known = [p \in Processes |-> <<>>]
    /\ reply = [p \in Processes |-> None]
    /\ adds = 0 /\ gets = 0 /\ faults = 0

InTransaction(p) == at[p] \notin {"ready", "closed", "migrate", "recorded", "down", "check",
                                  "begin", "stages", "document", "rows"}

Faulty == faults < MaxFaults /\ faults' = faults + 1

\* A statement of add fails: the disk is full, the connection is lost.
StatementFails(p) ==
    /\ InTransaction(p) /\ Faulty
    /\ Ended(p, "failed")
    /\ tx' = [tx EXCEPT ![p] = NoRows]
    /\ known' = [known EXCEPT ![p] = <<>>]
    /\ Release(p)
    /\ Goto(p, "ready")
    /\ UNCHANGED <<tier, schema, db, task, adds, gets>>

\* The server commits, and the connection is lost before it says so.
LostAnswer(p) ==
    /\ tier = "postgresql" /\ at[p] = "commit" /\ Faulty
    /\ db' = View(p)
    /\ Ended(p, "failed")
    /\ tx' = [tx EXCEPT ![p] = NoRows]
    /\ known' = [known EXCEPT ![p] = <<>>]
    /\ Goto(p, "ready")
    /\ UNCHANGED <<tier, schema, lock, task, adds, gets>>

Crash(p) ==
    /\ at[p] # "down" /\ Faulty
    /\ tx' = [tx EXCEPT ![p] = NoRows]
    /\ known' = [known EXCEPT ![p] = <<>>]
    /\ Release(p)
    /\ Goto(p, "down")
    /\ UNCHANGED <<tier, schema, db, task, reply, adds, gets>>

\* A process that dies or fails to open the store is started again, unless the
\* file is of a newer build.
Restart(p) ==
    /\ at[p] = "down" /\ version <= SchemaVersion
    /\ Goto(p, Started)
    /\ UNCHANGED <<tier, schema, rows, lock, task, known, reply, counters>>

\* The next statement of a call, or of opening the file.
Step(p) ==
    \/ /\ tier = "sqlite"
       /\ CheckRun(p, "begin") \/ SqliteStep(p)
    \/ /\ tier = "postgresql"
       /\ CheckRun(p, "begin") \/ PostgresStep(p)
    \/ Commit(p) \/ Get(p)

Next ==
    \E p \in Processes :
        \/ Step(p)
        \/ \E run \in Offers[p] : RequestAdd(p, run) \/ GetHead(p, run.id)
        \/ Busy(p) \/ StatementFails(p) \/ LostAnswer(p) \/ Crash(p) \/ Restart(p)

\* Some process goes on while one can: the calls are bounded, and so no process
\* can keep the others from it.
Spec == Init /\ [][Next]_vars /\ WF_vars(\E p \in Processes : Step(p))
=============================================================================
