--------------------------- MODULE RuntimeStorage ---------------------------
(* The opening of the runtime database (requests/storage.py,                  *)
(* initialize_runtime_storage): processes that start, crash and start again   *)
(* create the file or bring a file of an older version to the present one,    *)
(* while others may do the same or already use it.  Each script runs between  *)
(* BEGIN IMMEDIATE and COMMIT and is one step; the statements of version 1's  *)
(* migration are not in one transaction and are steps of their own.           *)
EXTENDS Integers

CONSTANTS Process,
          Consumer,       \* consumers of single flights, the rows that outlive a migration
          FirstVersions,  \* schema versions the file may have at first; 0: no file
          MaxCrashes      \* bound on crashes

SCHEMA_VERSION == 8

ASSUME StorageAssumption == FirstVersions \subseteq 0 .. SCHEMA_VERSION /\ MaxCrashes \in Nat

VARIABLES
    file,       \* [exists, private, version, metadata, holds]: version is PRAGMA user_version,
                \* metadata the row of schema_metadata, holds what the versions after 1 added
    at,         \* where each process is in initialize_runtime_storage
    existed,    \* its local "existed"
    seen,       \* its local "current_version"
    consumers,  \* [consumer -> "none", "active", "completed" with an owner, or "unattributed"]
    crashes

storageVars == <<file, at, existed, seen, consumers, crashes>>

\* What the migration to each version adds; version 8 replaces a table.
Adds == [v \in 2 .. SCHEMA_VERSION |->
            CASE v = 2 -> {"active"}
              [] v = 3 -> {"queue_entries", "provider_queue_cursors", "queue_events"}
              [] v = 4 -> {"gate_state", "gate_reservations", "gate_reservation_scopes",
                           "gate_starts", "gate_events"}
              [] v = 5 -> {"single_flights", "single_flight_consumers", "admission_events"}
              [] v = 6 -> {"raw_publications"}
              [] v = 7 -> {"raw_eligible"}
              [] v = 8 -> {"result_owner_id"}]
Through(v) == UNION {Adds[w] : w \in 2 .. v}

NoFile == [exists |-> FALSE, private |-> FALSE, version |-> 0, metadata |-> 0, holds |-> {}]
FileOf(v) == IF v = 0 THEN NoFile
             ELSE [exists |-> TRUE, private |-> TRUE, version |-> v, metadata |-> v, holds |-> Through(v)]

\* Rows that a database of version v may hold: consumers came with version 5,
\* completed results with version 8.
ConsumerStates(v) == {"none"} \cup (IF v >= 5 THEN {"active"} ELSE {})
                              \cup (IF v = 8 THEN {"completed"} ELSE {})

StorageInit ==
    /\ \E v \in FirstVersions : file = FileOf(v) /\ consumers \in [Consumer -> ConsumerStates(v)]
    /\ at = [p \in Process |-> "stopped"]
    /\ existed = [p \in Process |-> FALSE] /\ seen = [p \in Process |-> 0]
    /\ crashes = 0

Goes(p, from, to) == at[p] = from /\ at' = [at EXCEPT ![p] = to]

\* The root is the user's own and private, and the path is no link.
Start(p) ==
    /\ Goes(p, "stopped", "connecting")
    /\ existed' = [existed EXCEPT ![p] = file.exists]
    /\ UNCHANGED <<file, seen, consumers, crashes>>

\* sqlite3.connect makes the file with the permissions the umask leaves.
Connect(p) ==
    /\ Goes(p, "connecting", IF existed[p] THEN "checking" ELSE "restricting")
    /\ IF file.exists THEN UNCHANGED file
       ELSE \E private \in BOOLEAN : file' = [file EXCEPT !.exists = TRUE, !.private = private]
    /\ UNCHANGED <<existed, seen, consumers, crashes>>

\* Only the process that did not find the file sets its mode.
RestrictMode(p) ==
    /\ Goes(p, "restricting", "checking")
    /\ file' = [file EXCEPT !.private = TRUE]
    /\ UNCHANGED <<existed, seen, consumers, crashes>>

CheckMode(p) ==
    /\ Goes(p, "checking", IF file.private THEN "reading" ELSE "stopped")
    /\ UNCHANGED <<file, existed, seen, consumers, crashes>>

ReadVersion(p) ==
    /\ Goes(p, "reading", CASE file.version = 0 -> "creating"
                            [] file.version \in 1 .. SCHEMA_VERSION - 1 -> "migrating"
                            [] file.version = SCHEMA_VERSION -> "verifying")
    /\ seen' = [seen EXCEPT ![p] = file.version]
    /\ UNCHANGED <<file, existed, consumers, crashes>>

\* A second creator fails on the first CREATE TABLE and rolls back.
CreateSchema(p) ==
    /\ LET empty == file.metadata = 0
       IN  /\ Goes(p, "creating", IF empty THEN "verifying" ELSE "stopped")
           /\ file' = IF empty THEN [FileOf(SCHEMA_VERSION) EXCEPT !.private = file.private] ELSE file
    /\ UNCHANGED <<existed, seen, consumers, crashes>>

\* The metadata is read before the script's transaction begins.
ReadMetadata(p) ==
    /\ Goes(p, "migrating", IF file.metadata = seen[p] THEN "scripting" ELSE "stopped")
    /\ UNCHANGED <<file, existed, seen, consumers, crashes>>

\* Version 1: ALTER TABLE commits by itself ...
AddActive(p) ==
    /\ at[p] = "scripting" /\ seen[p] = 1
    /\ LET runs == "active" \notin file.holds
       IN  /\ Goes(p, "scripting", IF runs THEN "committing" ELSE "stopped")
           /\ file' = IF runs THEN [file EXCEPT !.holds = @ \cup Adds[2]] ELSE file
    /\ UNCHANGED <<existed, seen, consumers, crashes>>

\* ... and the two versions are committed by what comes next.
CommitVersionTwo(p) ==
    /\ Goes(p, "committing", "migrating")
    /\ file' = [file EXCEPT !.version = 2, !.metadata = 2]
    /\ seen' = [seen EXCEPT ![p] = 2]
    /\ UNCHANGED <<existed, consumers, crashes>>

\* Faulty: what is there already is left as it is (CREATE TABLE IF NOT EXISTS).
AcceptsRepeated(v) == TRUE
\* Faulty: the new table has no check of the owner.
AcceptsUnattributed(v) == v = 8 \/ Adds[v] \cap file.holds = {}

\* A table or column that is there already, or a completed consumer without its
\* owner, fails the script to version v, and all of it is rolled back.
Accepts(v) == IF v = 8 THEN \A c \in Consumer : consumers[c] # "completed"
              ELSE Adds[v] \cap file.holds = {}

\* The copy into version 8's table leaves the owner out.
Copied(v) == [c \in Consumer |-> IF v = 8 /\ consumers[c] = "completed" THEN "unattributed" ELSE consumers[c]]

\* Faulty: the row of schema_metadata is forgotten.
MigratedByPragma(v) == [file EXCEPT !.version = v, !.holds = @ \cup Adds[v]]
Migrated(v) == [file EXCEPT !.version = v, !.metadata = v, !.holds = @ \cup Adds[v]]

RunScript(p) ==
    /\ at[p] = "scripting" /\ seen[p] >= 2
    /\ LET v == seen[p] + 1
       IN  IF Accepts(v)
           THEN /\ Goes(p, "scripting", IF v = SCHEMA_VERSION THEN "verifying" ELSE "migrating")
                /\ file' = Migrated(v)
                /\ seen' = [seen EXCEPT ![p] = v]
                /\ consumers' = Copied(v)
           ELSE Goes(p, "scripting", "stopped") /\ UNCHANGED <<file, seen, consumers>>
    /\ UNCHANGED <<existed, crashes>>

VerifySchema(p) ==
    /\ Goes(p, "verifying", IF file.version = SCHEMA_VERSION /\ file.metadata = SCHEMA_VERSION
                            THEN "opened" ELSE "stopped")
    /\ UNCHANGED <<file, existed, seen, consumers, crashes>>

-----------------------------------------------------------------------------
\* The repository in use: a request is attached, a result is delivered.
Attach(p, c) ==
    /\ at[p] = "opened" /\ consumers[c] = "none"
    /\ consumers' = [consumers EXCEPT ![c] = "active"]
    /\ UNCHANGED <<file, at, existed, seen, crashes>>
Complete(p, c) ==
    /\ at[p] = "opened" /\ consumers[c] = "active"
    /\ consumers' = [consumers EXCEPT ![c] = "completed"]
    /\ UNCHANGED <<file, at, existed, seen, crashes>>
Close(p) == Goes(p, "opened", "stopped") /\ UNCHANGED <<file, existed, seen, consumers, crashes>>

Crash(p) ==
    /\ crashes < MaxCrashes /\ at[p] # "stopped"
    /\ at' = [at EXCEPT ![p] = "stopped"] /\ crashes' = crashes + 1
    /\ UNCHANGED <<file, existed, seen, consumers>>

Initialize(p) ==
    \/ Start(p) \/ Connect(p) \/ RestrictMode(p) \/ CheckMode(p) \/ ReadVersion(p)
    \/ CreateSchema(p) \/ ReadMetadata(p) \/ AddActive(p) \/ CommitVersionTwo(p)
    \/ RunScript(p) \/ VerifySchema(p)

StorageNext == \E p \in Process : \/ Initialize(p) \/ Close(p) \/ Crash(p)
                           \/ \E c \in Consumer : Attach(p, c) \/ Complete(p, c)

\* A start that failed is tried again, and a started process goes on.
StorageSpec == StorageInit /\ [][StorageNext]_storageVars /\ \A p \in Process : WF_storageVars(Initialize(p))

-----------------------------------------------------------------------------
\* Whoever uses the database finds the whole present schema in a private file,
\* although others may still be migrating it: a late migration never turns the
\* version back (initialize_runtime_storage, the _migrate functions).
OpenedIsCurrent ==
    \A p \in Process : at[p] = "opened" =>
        file = [FileOf(SCHEMA_VERSION) EXCEPT !.private = TRUE]

\* A result that was delivered keeps its owner, also when a process that saw
\* version 7 migrates the database a second time (_migrate_v7_to_v8).
ResultsKept ==
    [][\A c \in Consumer : consumers[c] = "completed" => consumers'[c] = "completed"]_storageVars

\* From version 2 on, whatever was interrupted, the database can be opened: of
\* a database of version 1 or one whose creation was interrupted this is false,
\* for a crash leaves what every later start refuses (_migrate_v1_to_v2, chmod).
UpgradeCompletes == file.version >= 2 ~> \E p \in Process : at[p] = "opened"
=============================================================================
