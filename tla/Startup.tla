------------------------------ MODULE Startup ------------------------------
(***************************************************************************)
(* What a starting engine does to the files an earlier build left behind:  *)
(* the version migrations of the configuration (conf/src/load.rs) and of   *)
(* the database schema (db/src/migration.rs), in the order of runtime.rs.  *)
(* Builds of different age start, crash and start again on the same files; *)
(* the user edits the configuration in between.                            *)
(*                                                                         *)
(* A document is abstracted to its version, whether a version 1 document   *)
(* has the transport that can be migrated, and its station names: in       *)
(* normal form, in need of it, or refused by validate.  The migration      *)
(* registries are the gapless ones their validators ask for.               *)
(***************************************************************************)
EXTENDS Naturals, Sequences

CONSTANTS
    Builds,       \* Builds[b]: the [config, db] versions build b supports
    MaxCrashes,   \* bound: processes that die while starting or running
    MaxEdits      \* bound: edits of the document by the user

\* The builds have this code, hence version 2 of the configuration or a later
\* one, and a later build never supports less.
ASSUME BuildsAssumption ==
    /\ Len(Builds) > 0 /\ MaxCrashes \in Nat /\ MaxEdits \in Nat
    /\ \A b \in 1..Len(Builds) : Builds[b].config \in Nat \ {0, 1} /\ Builds[b].db \in Nat \ {0}
    /\ \A b, c \in 1..Len(Builds) :
          b < c => Builds[b].config <= Builds[c].config /\ Builds[b].db <= Builds[c].db

VARIABLES
    doc,         \* the config file: [version, tcp, names]; version 0 is no file
    tables,      \* the migrations whose tables exist
    applied,     \* schema_migrations: the versions recorded, in order
    starter,     \* starter[b]: [at, loaded, refused]
    lockOwner,   \* the build with the singleton lock, 0 for none
    crashes, edits,
    newest,      \* ghost: the newest build that got the lock
    edited       \* ghost: the document as the user last left it

startFiles == <<doc, tables, applied>>
bounds == <<crashes, edits, edited>>
startupVars == <<startFiles, starter, lockOwner, bounds, newest>>

Ids == 1..Len(Builds)
NoFile == [version |-> 0, tcp |-> TRUE, names |-> "normal"]
Document == [version : 1..(Builds[Len(Builds)].config), tcp : BOOLEAN,
             names : {"normal", "raw", "bad"}]
Down == [at |-> "down", loaded |-> NoFile, refused |-> FALSE]

StartupInit ==
    /\ doc \in {NoFile, [version |-> 1, tcp |-> TRUE, names |-> "raw"]}
    /\ tables = {} /\ applied = <<>>
    /\ starter = [b \in Ids |-> Down]
    /\ lockOwner = 0 /\ crashes = 0 /\ edits = 0 /\ newest = 0 /\ edited = doc

----------------------------------------------------------------------------
(* Configuration *)

\* run_config_migrations: from the first version on, and not from the future;
\* migrate_v1_to_v2 takes the tcp transport only.  validate follows.
Loadable(d, b) ==
    /\ d.version <= Builds[b].config
    /\ d.version = 1 /\ Builds[b].config > 1 => d.tcp
    /\ d.names # "bad"

Migrated(d, b) == [d EXCEPT !.version = Builds[b].config]
Default(b) == [version |-> Builds[b].config, tcp |-> TRUE, names |-> "normal"]
NormalForm(d) == [d EXCEPT !.names = IF @ = "raw" THEN "normal" ELSE @]

Step(b, at) == starter' = [starter EXCEPT ![b].at = at]
Refuse(b) == starter' = [starter EXCEPT ![b] = [Down EXCEPT !.refused = TRUE]]

\* The read-only load that finds the lock path, before the lock.
PreliminaryLoad(b) ==
    /\ starter[b].at = "down"
    /\ IF doc.version = 0 \/ Loadable(doc, b)
       THEN starter' = [starter EXCEPT ![b] = [Down EXCEPT !.at = "lock"]]
       ELSE Refuse(b)
    /\ UNCHANGED <<startFiles, lockOwner, bounds, newest>>

AcquireLock(b) ==
    /\ starter[b].at = "lock" /\ lockOwner = 0
    /\ lockOwner' = b /\ Step(b, "ensure")
    /\ newest' = IF b > newest THEN b ELSE newest
    /\ UNCHANGED <<startFiles, bounds>>

\* ensure_config_file
EnsureConfig(b) ==
    /\ starter[b].at = "ensure"
    /\ doc' = IF doc.version = 0 THEN Default(b) ELSE doc
    /\ Step(b, "load")
    /\ UNCHANGED <<tables, applied, lockOwner, bounds, newest>>

\* load_for_engine_startup up to validate.
LoadConfig(b) ==
    /\ starter[b].at = "load"
    /\ IF Loadable(doc, b)
       THEN LET loaded == NormalForm(Migrated(doc, b))
            IN  /\ starter' = [starter EXCEPT ![b].loaded = loaded,
                                 ![b].at = IF loaded # doc THEN "write" ELSE "open"]
                /\ UNCHANGED lockOwner
       ELSE Refuse(b) /\ lockOwner' = 0
    /\ UNCHANGED <<startFiles, bounds, newest>>

\* write_config_atomic, when the version or a name changed.
WriteMigrated(b) ==
    /\ starter[b].at = "write"
    /\ doc' = starter[b].loaded
    /\ Step(b, "open")
    /\ UNCHANGED <<tables, applied, lockOwner, bounds, newest>>

----------------------------------------------------------------------------
(* Database schema *)

\* run_migrations and validate_applied: tables without a history, an empty
\* history, a gap or a version from the future are refused.
AcceptableHistory(b) ==
    /\ tables # {} <=> applied # <<>>
    /\ \A i \in 1..Len(applied) : applied[i] = i
    /\ Len(applied) <= Builds[b].db

\* run_one: the tables and their record in one immediate transaction.
\* Defect considered: the record is committed before the tables are made.
RunMigration_RecordFirst(b, v) ==
    /\ starter[b].at = "open"
    /\ \/ v = Len(applied) + 1 /\ applied' = Append(applied, v) /\ UNCHANGED tables
       \/ v = Len(applied) /\ v \notin tables /\ tables' = tables \cup {v} /\ UNCHANGED applied
    /\ UNCHANGED <<doc, starter, lockOwner, bounds, newest>>

RunMigration(b, v) ==
    /\ starter[b].at = "open" /\ AcceptableHistory(b)
    /\ v = Len(applied) + 1
    /\ tables' = tables \cup {v} /\ applied' = Append(applied, v)
    /\ UNCHANGED <<doc, starter, lockOwner, bounds, newest>>

\* validate_current_schema, once nothing is left to apply; the engine serves.
OpenDatabase(b) ==
    /\ starter[b].at = "open"
    /\ \/ /\ AcceptableHistory(b) /\ Len(applied) = Builds[b].db
          /\ IF 1..(Builds[b].db) \subseteq tables
             THEN Step(b, "up") /\ UNCHANGED lockOwner
             ELSE Refuse(b) /\ lockOwner' = 0
       \/ /\ ~AcceptableHistory(b)
          /\ Refuse(b) /\ lockOwner' = 0
    /\ UNCHANGED <<startFiles, bounds, newest>>

----------------------------------------------------------------------------
\* A process dies or is stopped; an uncommitted transaction is rolled back.
StarterDies(b) ==
    /\ starter[b].at # "down" /\ crashes < MaxCrashes
    /\ crashes' = crashes + 1
    /\ starter' = [starter EXCEPT ![b] = Down]
    /\ lockOwner' = IF lockOwner = b THEN 0 ELSE lockOwner
    /\ UNCHANGED <<startFiles, edits, edited, newest>>

UserEdits(d) ==
    /\ edits < MaxEdits /\ edits' = edits + 1
    /\ doc' = d /\ edited' = d
    /\ starter' = [b \in Ids |-> [starter[b] EXCEPT !.refused = FALSE]]
    /\ UNCHANGED <<tables, applied, lockOwner, crashes, newest>>

StartupStep(b) ==
    \/ PreliminaryLoad(b) \/ AcquireLock(b) \/ EnsureConfig(b) \/ LoadConfig(b)
    \/ WriteMigrated(b) \/ OpenDatabase(b) \/ StarterDies(b)
    \/ \E v \in 1..(Builds[b].db) : RunMigration(b, v)

StartupNext == (\E b \in Ids : StartupStep(b)) \/ (\E d \in Document : UserEdits(d))

StartupSpec == StartupInit /\ [][StartupNext]_startupVars

----------------------------------------------------------------------------
\* A build refuses to start only when a newer build has taken over the files,
\* or over a document the user wrote: no crash between, or inside, the
\* migrations of the configuration and of the schema locks a build out.
RefusalWarranted ==
    \A b \in Ids : starter[b].refused =>
        b < newest \/ (edited.version # 0 /\ ~Loadable(edited, b))

----------------------------------------------------------------------------
(***************************************************************************)
(* Why it holds, as an inductive invariant.                                *)
(***************************************************************************)
StarterFields == {"at", "loaded", "refused"}
HoldsLock == {"ensure", "load", "write", "open", "up"}
DocumentShape(d) ==
    /\ DOMAIN d = {"version", "tcp", "names"} /\ d.version \in Nat
    /\ d.names \in {"normal", "raw", "bad"}
    /\ d.version = 0 => d.names = "normal"

\* The document is the user's, or one that some build up to the newest wrote;
\* the schema history has no gap, has its tables, and is not ahead of the newest
\* build; whoever is past the lock is no newer than the newest.
StartupInv ==
    /\ newest \in 0..Len(Builds) /\ DocumentShape(doc) /\ DocumentShape(edited)
    /\ DOMAIN starter = Ids /\ \A b \in Ids : DOMAIN starter[b] = StarterFields
    /\ \A b \in Ids :
          /\ starter[b].at \in HoldsLock => b <= newest
          /\ starter[b].at = "write" => /\ DocumentShape(starter[b].loaded)
                                        /\ starter[b].loaded.version = Builds[b].config
                                        /\ starter[b].loaded.names = "normal"
    /\ doc # edited => \E n \in Ids : n <= newest /\ doc.version = Builds[n].config
                                      /\ doc.names = "normal"
    /\ applied \in Seq(Nat) /\ \A i \in 1..Len(applied) : applied[i] = i
    /\ tables = 1..Len(applied)
    /\ applied # <<>> => newest > 0 /\ Len(applied) <= Builds[newest].db
=============================================================================
