--------------------------- MODULE ServiceInstall ---------------------------
(***************************************************************************)
(* Installing and removing the daemon as a service: the commands of        *)
(* daemon/src/service.rs with the systemd and the Windows backend and      *)
(* their shared helper, the component manifest (manifest/src/lib.rs) that  *)
(* says what may be removed, and the engine the service runs, which        *)
(* records its own files there (engine/src/runtime.rs).                    *)
(*                                                                         *)
(* One administrator issues commands one after the other.  Every file or   *)
(* service operation of a command is a step, and every step may fail: the  *)
(* command then ends with an error and may be issued again.  The service   *)
(* may crash, and be started by the service manager, between commands.     *)
(***************************************************************************)
EXTENDS Naturals, FiniteSets

CONSTANTS
    MaxCommands   \* bound: commands issued in a behaviour

ASSUME ServiceAssumption == MaxCommands \in Nat

VARIABLES
    backend,   \* "systemd" or "windows"
    disk,      \* the components that exist; "unit" is the service definition
    entries,   \* the components the manifest records
    service,   \* what the service's process is doing
    cmd,       \* the command being executed
    at,        \* its next step
    todo,      \* components cleanup has still to remove
    failed,    \* cleanup's first_error is set
    outcome,   \* how the last command ended
    issued     \* commands issued so far

admin == <<cmd, at, todo, failed, outcome, issued>>
serviceVars == <<backend, disk, entries, service, admin>>

Components == {"bin", "config", "db", "lock"}      \* ComponentKind
Data == {"config", "db", "lock"}
Commands == [verb : {"install", "reinstall", "remove"}, manage : BOOLEAN,
             data : BOOLEAN, bin : BOOLEAN, all : BOOLEAN]
Idle == [verb |-> "install", manage |-> FALSE, data |-> FALSE, bin |-> FALSE, all |-> FALSE]

ServiceTypeOK ==
    /\ backend \in {"systemd", "windows"}
    /\ disk \subseteq Components \union {"unit", "manifest"}
    /\ entries \subseteq Components
    /\ service \in {"inactive", "open_lock", "ensure_config", "record_config",
                    "record_lock", "record_db", "create_db", "running"}
    /\ cmd \in Commands
    /\ at \in {"idle", "stop", "rm_unit", "copy_bin", "record_bin", "write_config",
               "record_config", "write_unit", "activate", "cleanup", "removing"}
    /\ todo \subseteq Components /\ failed \in BOOLEAN
    /\ outcome \in {"none", "ok", "error"} /\ issued \in 0..MaxCommands

ServiceInit ==
    /\ backend \in {"systemd", "windows"}
    /\ disk = {} /\ entries = {} /\ service = "inactive"
    /\ cmd = Idle /\ at = "idle" /\ todo = {} /\ failed = FALSE
    /\ outcome = "none" /\ issued = 0

-----------------------------------------------------------------------------
(* The component manifest.                                                 *)

\* ComponentManifest::record: load, insert and replace the file atomically,
\* under the manifest's lock.
Record(c) ==
    /\ entries' = entries \union {c}
    /\ disk' = disk \union {"manifest"}

\* ComponentManifest::list: a missing manifest lists nothing.
Listed == IF "manifest" \in disk THEN entries ELSE {}

-----------------------------------------------------------------------------
(* The engine that runs as the service.                                    *)

\* The service manager starts the installed service: at boot, on the user's
\* demand, or again after a failure.  No command is in progress.
ManagerStarts ==
    /\ service = "inactive" /\ at = "idle" /\ {"unit", "bin"} \subseteq disk
    /\ service' = "open_lock"
    /\ UNCHANGED <<backend, disk, entries, admin>>

ServiceCrashes ==
    /\ service # "inactive"
    /\ service' = "inactive"
    /\ UNCHANGED <<backend, disk, entries, admin>>

\* start_with_provider_factory: the lock file, then the config if there is none.
EngineOpensLock ==
    /\ service = "open_lock"
    /\ disk' = disk \union {"lock"} /\ service' = "ensure_config"
    /\ UNCHANGED <<backend, entries, admin>>

EngineEnsuresConfig ==
    /\ service = "ensure_config"
    /\ disk' = disk \union {"config"} /\ service' = "record_config"
    /\ UNCHANGED <<backend, entries, admin>>

\* start_with_provider_factory: components.record of config and lock.
EngineRecords ==
    /\ \/ service = "record_config" /\ Record("config") /\ service' = "record_lock"
       \/ service = "record_lock" /\ Record("lock") /\ service' = "record_db"
    /\ UNCHANGED <<backend, admin>>

\* Defect considered: the database is created before it is recorded.
EngineRecordsDb_CreatesFirst ==
    /\ service = "record_db"
    /\ disk' = disk \union {"db"} /\ service' = "create_db"
    /\ UNCHANGED <<backend, entries, admin>>

\* start_with_provider_factory: the database files are recorded, then made.
EngineRecordsDb ==
    /\ service = "record_db"
    /\ Record("db") /\ service' = "create_db"
    /\ UNCHANGED <<backend, admin>>

\* DbActor::start_with_lease
EngineCreatesDb ==
    /\ service = "create_db"
    /\ disk' = disk \union {"db"} /\ service' = "running"
    /\ UNCHANGED <<backend, entries, admin>>

-----------------------------------------------------------------------------
(* The commands.                                                           *)

host == <<backend, disk, entries, service>>
GoTo(step) == at' = step /\ UNCHANGED <<cmd, todo, failed, outcome, issued>>
EndWith(how) ==
    /\ at' = "idle" /\ outcome' = how
    /\ cmd' = IF how = "ok" THEN cmd ELSE Idle
    /\ todo' = {} /\ failed' = FALSE /\ UNCHANGED issued

\* install_service, reinstall_service, uninstall_service: the first step of
\* each.  A managed reinstall and a removal stop the service first; systemd
\* skips that when there is no unit, and refuses to reinstall without one.
FirstStep(c) ==
    LET present == "unit" \in disk
    IN  CASE c.verb = "install" -> "copy_bin"
          [] c.verb = "reinstall" -> IF c.manage /\ present THEN "stop" ELSE "copy_bin"
          [] c.verb = "remove" -> IF present THEN "stop" ELSE "cleanup"

Issue(c) ==
    /\ at = "idle" /\ issued < MaxCommands
    /\ backend = "systemd" /\ c.verb = "reinstall" => "unit" \in disk
    /\ cmd' = c /\ at' = FirstStep(c)
    /\ issued' = issued + 1 /\ outcome' = "none"
    /\ UNCHANGED <<todo, failed, host>>

\* uninstall_service: --all asks for everything.
Asked(c) ==
    (IF c.data \/ c.all THEN Data ELSE {}) \union (IF c.bin \/ c.all THEN {"bin"} ELSE {})

\* require_systemctl(stop); on Windows service.stop and wait_for_state, where
\* run_until_service_stop asks the engine to stop.
StopService ==
    /\ at = "stop"
    /\ service' = "inactive"
    /\ GoTo(IF cmd.verb = "reinstall" /\ backend = "systemd" THEN "copy_bin" ELSE "rm_unit")
    /\ UNCHANGED <<backend, disk, entries>>

\* remove_unit: disable, remove the file, daemon-reload; on Windows
\* service.delete and wait_for_deletion.
RemoveUnit ==
    /\ at = "rm_unit"
    /\ disk' = disk \ {"unit"}
    /\ GoTo(IF cmd.verb = "remove" THEN "cleanup" ELSE "copy_bin")
    /\ UNCHANGED <<backend, entries, service>>

\* install_service_files: copy_binary_as
CopyBinary ==
    /\ at = "copy_bin"
    /\ disk' = disk \union {"bin"} /\ GoTo("record_bin")
    /\ UNCHANGED <<backend, entries, service>>

\* install_service_files: manifest.record of the binary and of the config.
RecordInstalled ==
    /\ \/ at = "record_bin" /\ Record("bin") /\ GoTo("write_config")
       \/ at = "record_config" /\ Record("config") /\ GoTo("write_unit")
    /\ UNCHANGED <<backend, service>>

\* install_service_files: the default config, unless there is one.
WriteConfig ==
    /\ at = "write_config"
    /\ disk' = disk \union {"config"} /\ GoTo("record_config")
    /\ UNCHANGED <<backend, entries, service>>

\* install_unit; on Windows create_service, which refuses an existing one, and
\* which a manual installation leaves out.
WriteUnit ==
    /\ at = "write_unit"
    /\ IF backend = "windows" /\ ~cmd.manage
       THEN EndWith("ok") /\ UNCHANGED disk
       ELSE /\ backend = "windows" => "unit" \notin disk
            /\ disk' = disk \union {"unit"}
            /\ IF cmd.manage THEN GoTo("activate") ELSE EndWith("ok")
    /\ UNCHANGED <<backend, entries, service>>

\* activate_service: daemon-reload, enable --now; on Windows service.start and
\* wait_for_state.  A running service is left running.
Activate ==
    /\ at = "activate"
    /\ service' = IF service = "inactive" THEN "open_lock" ELSE service
    /\ EndWith("ok")
    /\ UNCHANGED <<backend, disk, entries>>

\* cleanup_service_layout: what it will remove, listed and fixed paths alike.
BeginCleanup ==
    /\ at = "cleanup" /\ todo = {} /\ ~failed
    /\ LET wanted == Asked(cmd) \intersect (Listed \union {"config", "bin"})
       IN  IF wanted = {} THEN EndWith("ok")
           ELSE /\ todo' = wanted /\ at' = "removing"
                /\ UNCHANGED <<cmd, failed, outcome, issued>>
    /\ UNCHANGED host

\* remove_component_path and retain_first_error, for one of the components.
RemoveComponent(c) ==
    /\ at = "removing" /\ c \in todo
    /\ todo' = todo \ {c}
    /\ \/ disk' = disk \ {c} /\ UNCHANGED failed
       \/ c \in disk /\ failed' = TRUE /\ UNCHANGED disk
    /\ UNCHANGED <<backend, entries, service, cmd, at, outcome, issued>>

\* Defect considered: the manifest goes although something could not be removed.
FinishCleanup_ForgetsFailed ==
    /\ at = "removing" /\ todo = {}
    /\ EndWith(IF failed THEN "error" ELSE "ok")
    /\ IF cmd.all
       THEN disk' = disk \ {"manifest"} /\ entries' = {}
       ELSE UNCHANGED <<disk, entries>>
    /\ UNCHANGED <<backend, service>>

\* cleanup_service_layout: only when everything went is the manifest removed.
FinishCleanup ==
    /\ at = "removing" /\ todo = {}
    /\ EndWith(IF failed THEN "error" ELSE "ok")
    /\ IF cmd.all /\ ~failed
       THEN disk' = disk \ {"manifest"} /\ entries' = {}
       ELSE UNCHANGED <<disk, entries>>
    /\ UNCHANGED <<backend, service>>

\* A step fails, or the command is interrupted: it ends where it is.
CommandFails ==
    /\ at # "idle"
    /\ EndWith("error")
    /\ UNCHANGED host

-----------------------------------------------------------------------------
\* The command line's options: those of a removal belong to it, and --all comes alone.
Issued ==
    {c \in Commands : /\ c.verb # "remove" => ~c.data /\ ~c.bin /\ ~c.all
                      /\ c.verb = "remove" => c.manage
                      /\ c.all => ~c.data /\ ~c.bin}

ServiceEngineStep ==
    \/ EngineOpensLock \/ EngineEnsuresConfig \/ EngineRecords \/ EngineRecordsDb
    \/ EngineCreatesDb
CommandStep ==
    \/ StopService \/ RemoveUnit \/ CopyBinary \/ RecordInstalled \/ WriteConfig
    \/ WriteUnit \/ Activate \/ BeginCleanup \/ FinishCleanup
    \/ \E c \in Components : RemoveComponent(c)

ServiceNext ==
    \/ ManagerStarts \/ ServiceCrashes \/ ServiceEngineStep
    \/ \E c \in Issued : Issue(c)
    \/ CommandStep \/ CommandFails

ServiceSpec == ServiceInit /\ [][ServiceNext]_serviceVars

-----------------------------------------------------------------------------
\* Nothing is removed from under the service: while cleanup works, its process
\* is not running, whatever failed or was left over before.
StoppedWhileRemoving == at \in {"cleanup", "removing"} => service = "inactive"

\* The database is never on disk without a manifest entry that a later removal
\* will find, whichever step of the engine or of a command was the last.
DatabaseRecorded == "db" \in disk => "db" \in Listed

\* After a successful `service remove --all` nothing is left on disk, even if
\* earlier commands or the engine failed half-way; an engine that died between
\* creating and recording its lock file may leave that one.
AllRemoved ==
    at = "idle" /\ outcome = "ok" /\ cmd.all /\ service = "inactive" => disk \subseteq {"lock"}

-----------------------------------------------------------------------------
(* The inductive invariant of the three.                                   *)

\* A command's steps are those of its verb.
InstallSteps == {"copy_bin", "record_bin", "write_config", "record_config", "write_unit",
                 "activate"}
StepInv ==
    /\ cmd.all => cmd.verb = "remove"
    /\ at \in InstallSteps => cmd.verb # "remove"
    /\ at \in {"cleanup", "removing"} => cmd.verb = "remove"

\* The service's process runs only where there is a unit, so a removal that finds
\* none to stop has nothing to stop.
UnitInv ==
    /\ service # "inactive" \/ at = "activate" => "unit" \in disk
    /\ at \in {"rm_unit", "cleanup", "removing"} => service = "inactive"
    /\ at \in {"cleanup", "removing"} => "unit" \notin disk

\* The database is recorded before it is created.
RecordInv ==
    "db" \in disk \/ service = "create_db" => "db" \in entries /\ "manifest" \in disk

\* A full removal leaves what it still has to do or could not do, and then nothing.
RemovalInv ==
    /\ disk \subseteq Components \union {"unit", "manifest"}
    /\ at = "removing" /\ cmd.all => failed \/ disk \subseteq todo \union {"lock", "manifest"}
    /\ at = "idle" /\ outcome = "ok" /\ cmd.all => disk \subseteq {"lock"}

ServiceInv == StepInv /\ UnitInv /\ RecordInv /\ RemovalInv
=============================================================================
