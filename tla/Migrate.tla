------------------------------ MODULE Migrate ------------------------------
(***************************************************************************)
(* meta.Open: every process (serve or import) that opens meta.db applies   *)
(* the migrations its schema still lacks before it does anything else.     *)
(*                                                                         *)
(* migrate reads user_version once and then applies, one transaction each, *)
(* the versions above it.  A transaction runs the version's script and     *)
(* sets user_version; what can interleave with it is a crash, or another   *)
(* process that opens the same database.  Nothing compares user_version    *)
(* again, so that what keeps two processes apart is that a script fails on *)
(* a schema that it does not fit.                                          *)
(*                                                                         *)
(* Of the schema only what the scripts depend on is modelled: how the two  *)
(* tables are keyed, and the columns the scripts name.                     *)
(***************************************************************************)
EXTENDS Integers

CONSTANT Processes   \* processes that open the database

ASSUME ProcessesAssumption == Processes # {}

Versions == 1..6

VARIABLES
    snapshotsTable,  \* form of table snapshots (see SnapshotsForms)
    runsTable,       \* form of table extractor_runs, with step_outputs
    version,         \* PRAGMA user_version
    pc,              \* where each process is
    todo,            \* versions each process still has to apply
    foreignKeys      \* whether each process's connection enforces foreign keys

schema == <<snapshotsTable, runsTable>>
locals == <<pc, todo, foreignKeys>>
vars   == <<schema, version, locals>>

PC == {"down", "opened", "migrating", "serving"}

\* Keyed by timestamp with a status (v1), by id (v3), without status (v5).
SnapshotsForms == {"none", "timestamp", "id", "stateless"}

\* A row per output (v2), per extractor with step_outputs (v4), cascading (v6).
RunsForms == {"none", "perOutput", "perExtractor", "cascading"}

\* The schema that the scripts of versions 1..k produce, run in order.
SchemaIs(k) ==
    \/ k = 0 /\ snapshotsTable = "none"      /\ runsTable = "none"
    \/ k = 1 /\ snapshotsTable = "timestamp" /\ runsTable = "none"
    \/ k = 2 /\ snapshotsTable = "timestamp" /\ runsTable = "perOutput"
    \/ k = 3 /\ snapshotsTable = "id"        /\ runsTable = "perOutput"
    \/ k = 4 /\ snapshotsTable = "id"        /\ runsTable = "perExtractor"
    \/ k = 5 /\ snapshotsTable = "stateless" /\ runsTable = "perExtractor"
    \/ k = 6 /\ snapshotsTable = "stateless" /\ runsTable = "cascading"

----------------------------------------------------------------------------
(* The scripts.  A script that names a table or a column that is not there *)
(* (or creates one that is) fails, and its transaction is rolled back.     *)

CreateSnapshots ==
    /\ snapshotsTable = "none"
    /\ snapshotsTable' = "timestamp"
    /\ UNCHANGED runsTable

CreateRuns ==
    /\ runsTable = "none"
    /\ runsTable' = "perOutput"
    /\ UNCHANGED snapshotsTable

\* Mutant of RebuildSnapshots: status is not copied, and so not needed.
RebuildAnySnapshots ==
    /\ snapshotsTable # "none"
    /\ snapshotsTable' = "id"
    /\ UNCHANGED runsTable

\* Copies status and is_archived, which v5 drops.  It runs on its own result:
\* ids are numbered anew, in the order they have.
RebuildSnapshots ==
    /\ snapshotsTable \in {"timestamp", "id"}
    /\ snapshotsTable' = "id"
    /\ UNCHANGED runsTable

\* Joins runs and snapshots on timestamp, which the new table does not have.
ReshapeRuns ==
    /\ snapshotsTable \in {"id", "stateless"}
    /\ runsTable = "perOutput"
    /\ runsTable' = "perExtractor"
    /\ UNCHANGED snapshotsTable

DropStatus ==
    /\ snapshotsTable = "id"
    /\ snapshotsTable' = "stateless"
    /\ UNCHANGED runsTable

\* Runs on its own result as well.
CascadeRuns ==
    /\ runsTable \in {"perExtractor", "cascading"}
    /\ runsTable' = "cascading"
    /\ UNCHANGED snapshotsTable

Script(v) ==
    \/ v = 1 /\ CreateSnapshots
    \/ v = 2 /\ CreateRuns
    \/ v = 3 /\ RebuildSnapshots
    \/ v = 4 /\ ReshapeRuns
    \/ v = 5 /\ DropStatus
    \/ v = 6 /\ CascadeRuns

----------------------------------------------------------------------------
(* Open.                                                                   *)

Becomes(p, label) == pc' = [pc EXCEPT ![p] = label]

\* The connection is opened with foreign_keys(1) and user_version is read; with
\* nothing pending Open returns at once.
Open(p) ==
    LET pending == {v \in Versions : v > version}
    IN  /\ pc[p] = "down"
        /\ todo' = [todo EXCEPT ![p] = pending]
        /\ foreignKeys' = [foreignKeys EXCEPT ![p] = TRUE]
        /\ Becomes(p, IF pending = {} THEN "serving" ELSE "opened")
        /\ UNCHANGED <<schema, version>>

DisableForeignKeys(p) ==
    /\ pc[p] = "opened"
    /\ foreignKeys' = [foreignKeys EXCEPT ![p] = FALSE]
    /\ Becomes(p, "migrating")
    /\ UNCHANGED <<schema, version, todo>>

\* Mutant of ApplyMigration: user_version is set once, by the last version.
ApplyAndStampLast(p) ==
    /\ pc[p] = "migrating"
    /\ \E v \in todo[p] :
         /\ \A u \in todo[p] : v <= u
         /\ Script(v)
         /\ todo' = [todo EXCEPT ![p] = @ \ {v}]
         /\ version' = IF todo'[p] = {} THEN v ELSE version
    /\ UNCHANGED <<pc, foreignKeys>>

\* One transaction: the oldest pending version's script, and user_version.
ApplyMigration(p) ==
    /\ pc[p] = "migrating"
    /\ \E v \in todo[p] :
         /\ \A u \in todo[p] : v <= u
         /\ Script(v)
         /\ version' = v
         /\ todo' = [todo EXCEPT ![p] = @ \ {v}]
    /\ UNCHANGED <<pc, foreignKeys>>

\* foreign_key_check finds nothing, since every script keeps the references;
\* the deferred statement switches enforcement on again.
Verify(p) ==
    /\ pc[p] = "migrating"
    /\ todo[p] = {}
    /\ foreignKeys' = [foreignKeys EXCEPT ![p] = TRUE]
    /\ Becomes(p, "serving")
    /\ UNCHANGED <<schema, version, todo>>

\* Mutant of Stop: Open's error is logged, and the process goes on.
ServeAnyway(p) ==
    /\ pc[p] # "down"
    /\ Becomes(p, "serving")
    /\ UNCHANGED <<schema, version, todo, foreignKeys>>

\* The process ends or is killed, or a statement of Open fails (the script does
\* not fit the schema, the database is locked for longer than busy_timeout): the
\* transaction is rolled back, the database closed, and the process exits.
Stop(p) ==
    /\ pc[p] # "down"
    /\ Becomes(p, "down")
    /\ todo' = [todo EXCEPT ![p] = {}]
    /\ foreignKeys' = [foreignKeys EXCEPT ![p] = FALSE]
    /\ UNCHANGED <<schema, version>>

----------------------------------------------------------------------------

\* A database left by any release, the first one's empty file included.
Init ==
    /\ version \in {0} \cup Versions
    /\ SchemaIs(version)
    /\ pc = [p \in Processes |-> "down"]
    /\ todo = [p \in Processes |-> {}]
    /\ foreignKeys = [p \in Processes |-> FALSE]

Next ==
    \E p \in Processes :
        \/ Open(p)
        \/ DisableForeignKeys(p)
        \/ ApplyMigration(p)
        \/ Verify(p)
        \/ Stop(p)

Spec == Init /\ [][Next]_vars

----------------------------------------------------------------------------
(* Properties.                                                             *)

\* The type invariant; only a process inside Open has migrations to apply.
TypeOK ==
    /\ snapshotsTable \in SnapshotsForms
    /\ runsTable \in RunsForms
    /\ version \in {0} \cup Versions
    /\ pc \in [Processes -> PC]
    /\ todo \in [Processes -> SUBSET Versions]
    /\ foreignKeys \in [Processes -> BOOLEAN]
    /\ \A p \in Processes : pc[p] \in {"down", "serving"} => todo[p] = {}

\* A process whose Open has returned works on the newest schema, with foreign
\* keys enforced (on which the run queue's deletes rest), and keeps it, even
\* while other processes replay migrations from a version read long ago.
ServingLatest ==
    \A p \in Processes : pc[p] = "serving" =>
        SchemaIs(6) /\ version = 6 /\ foreignKeys[p]

\* However the process is interrupted and whoever opens the database beside it,
\* the schema is one that a prefix of the scripts produces, and user_version
\* says which; the one exception is a v3 replayed over another process's v4.
SchemaInOrder ==
    \E k \in {0} \cup Versions :
        /\ SchemaIs(k)
        /\ version = k \/ (version = 3 /\ k = 4)

\* The same without the exception, as one process alone keeps it: a crash at any
\* point leaves a database that the next Open can bring up to date.
VersionIsSchema == SchemaIs(version)
=============================================================================
