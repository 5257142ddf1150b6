--------------------------- MODULE TimezoneCommit ---------------------------
(***************************************************************************)
(* The configuration commit protocol of the engine: UPDATE_CONFIG and      *)
(* MIGRATE_DB_TIMEZONE requests over the config file, the live            *)
(* ConfigState, the config_commit mutex and the database worker, with     *)
(* request cancellation, I/O failures, crashes, graceful restarts and the  *)
(* startup recovery of a half-finished timezone migration.                 *)
(*                                                                         *)
(* Abstractions.  A configuration is [tz, stations]: "stations" stands for *)
(* every hot-reloadable field, "tz" for db.timezone, the restart-only field*)
(* the protocol moves.  A request is one-shot: its kind and payload are    *)
(* chosen when it obtains the config_commit mutex (waiting for the mutex   *)
(* has no effect, so it is not a state).  History rows are modelled        *)
(* elsewhere; here the worker keeps only the timezone it keys them by.     *)
(***************************************************************************)
EXTENDS Naturals, Sequences

CONSTANTS Requests,   \* one-shot RPC requests (the bound on their number)
          Timezones,  \* valid IANA names
          Stations,   \* values of the hot-reloadable fields
          QueueCap,   \* capacity of the database command channel
          MaxFaults,  \* bound on crashes and I/O failures
          None        \* Option::None

ASSUME ConstantsAssumption ==
    /\ QueueCap \in Nat \ {0}
    /\ MaxFaults \in Nat
    /\ None \notin Requests
    /\ None \notin Timezones
    /\ Timezones # {}
    /\ Stations # {}

VARIABLES
    file,       \* the config file
    dbTz,       \* engine_state.db_timezone
    dbPending,  \* engine_state.timezone_sync_pending
    phase,      \* engine life cycle
    live,       \* the config held by ConfigState
    lastError,  \* ConfigState.last_error is set
    workerTz,   \* DbInstance.timezone
    poisoned,   \* the worker rejects every further command
    exitReq,    \* EngineControl holds an exit request (the first one made stands)
    lock,       \* owner of config_commit
    pc,         \* where each request, or the command it became, stands
    arg,        \* per request: the candidate config and the old timezone
    queue,      \* database command channel
    faults      \* crashes and I/O failures so far

durable == <<file, dbTz, dbPending>>
vars == <<file, dbTz, dbPending, phase, live, lastError, workerTz, poisoned,
          exitReq, lock, pc, arg, queue, faults>>

Config == [tz : Timezones, stations : Stations]

\* States in which dropping the request future releases the mutex.
Cancellable == {"preparing_update", "preparing_migrate", "admit"}
\* States of a command that the database worker is executing.
Working == {"committed", "replaced", "clearing", "failing", "poisoning"}
States == {"new", "done", "persisted", "queued"} \cup Cancellable \cup Working
Phases == {"down", "loaded", "recovered", "up", "stopping", "refused"}

WorkerBusy == \E r \in Requests : pc[r] \in Working

Fault == /\ faults < MaxFaults
         /\ faults' = faults + 1

Finish(r) == pc' = [pc EXCEPT ![r] = "done"]

Goto(r, s) == pc' = [pc EXCEPT ![r] = s]

Init == /\ file \in Config
        /\ dbTz \in {None, file.tz}
        /\ dbPending = None
        /\ phase = "down"
        /\ live = file
        /\ lastError = FALSE
        /\ workerTz = None
        /\ poisoned = FALSE
        /\ exitReq = FALSE
        /\ lock = None
        /\ pc = [r \in Requests |-> "new"]
        /\ arg = [r \in Requests |-> [cand |-> file, old |-> file.tz]]
        /\ queue = << >>
        /\ faults = 0
-----------------------------------------------------------------------------
(* Engine startup, in the order of start_with_provider_factory.            *)

\* The singleton lock is held; the config is loaded from the file.
StartLoad ==
    /\ phase = "down"
    /\ phase' = "loaded"
    /\ live' = file
    /\ UNCHANGED <<durable, lastError, workerTz, poisoned, exitReq, lock, pc, arg,
                   queue, faults>>

\* The recovered config: only db.timezone differs from what the file held.
\* Defect considered: rebuilding it from defaults.
Recovered_Defaults(z) == [tz |-> z, stations |-> CHOOSE s \in Stations : TRUE]
Recovered(z) == [live EXCEPT !.tz = z]

\* recover_pending_timezone: a pending marker names the timezone the database
\* already uses; the config file is brought up to it before the worker starts.
RecoverPendingTimezone ==
    /\ phase = "loaded"
    /\ \/ /\ dbPending # None
          /\ dbPending # dbTz
          /\ phase' = "refused"
          /\ UNCHANGED <<file, live>>
       \/ /\ dbPending # None
          /\ dbPending = dbTz
          /\ live.tz # dbPending
          /\ live' = Recovered(dbPending)
          /\ file' = live'
          /\ phase' = "recovered"
       \/ /\ dbPending = None \/ (dbPending = dbTz /\ live.tz = dbPending)
          /\ phase' = "recovered"
          /\ UNCHANGED <<file, live>>
    /\ UNCHANGED <<dbTz, dbPending, lastError, workerTz, poisoned, exitReq, lock, pc,
                   arg, queue, faults>>

\* set_db_timezone: stored and cached.
SetDbTimezone(z) == workerTz' = z /\ dbTz' = z

\* The marker is deleted.  Defect considered: it is left in place.
DeleteMarker_Skipped == UNCHANGED dbPending
DeleteMarker == dbPending' = None

\* DbInstance::open / ensure_timezone, then the engine serves requests with a
\* fresh ConfigState, mutex, channel and worker.
EnsureTimezone ==
    /\ phase = "recovered"
    /\ \/ /\ dbPending # None
          /\ dbTz # dbPending \/ live.tz # dbPending
          /\ phase' = "refused"
          /\ UNCHANGED <<dbTz, dbPending, workerTz>>
       \/ /\ dbPending # None
          /\ dbTz = dbPending
          /\ live.tz = dbPending
          /\ workerTz' = dbPending
          /\ DeleteMarker
          /\ phase' = "up"
          /\ UNCHANGED dbTz
       \/ /\ dbPending = None
          /\ dbTz = None
          /\ SetDbTimezone(live.tz)
          /\ phase' = "up"
          /\ UNCHANGED dbPending
       \/ /\ dbPending = None
          /\ dbTz = live.tz
          /\ workerTz' = dbTz
          /\ phase' = "up"
          /\ UNCHANGED <<dbTz, dbPending>>
       \/ /\ dbPending = None
          /\ dbTz \notin {None, live.tz}
          /\ phase' = "refused"
          /\ UNCHANGED <<dbTz, dbPending, workerTz>>
    /\ lastError' = FALSE
    /\ poisoned' = FALSE
    /\ exitReq' = FALSE
    /\ lock' = None
    /\ queue' = << >>
    /\ UNCHANGED <<file, live, pc, arg, faults>>
-----------------------------------------------------------------------------
(* UPDATE_CONFIG: commit_config_with_preparer.                             *)

\* The mutex is obtained and the candidate compared with the live config.
\* A rejected or unchanged candidate releases the mutex in the same poll.
BeginUpdate(r, cand) ==
    /\ phase = "up"
    /\ pc[r] = "new"
    /\ lock = None
    /\ \/ /\ cand.tz # live.tz \/ cand = live
          /\ Finish(r)
          /\ UNCHANGED <<lock, arg>>
       \/ /\ cand.tz = live.tz
          /\ cand # live
          /\ lock' = r
          /\ arg' = [arg EXCEPT ![r] = [cand |-> cand, old |-> live.tz]]
          /\ Goto(r, "preparing_update")
    /\ UNCHANGED <<durable, phase, live, lastError, workerTz, poisoned, exitReq,
                   queue, faults>>

\* The blocking prepare task finished: the temporary file replaces the config.
PersistUpdate(r) ==
    /\ pc[r] = "preparing_update"
    /\ file' = arg[r].cand
    /\ Goto(r, "persisted")
    /\ UNCHANGED <<dbTz, dbPending, phase, live, lastError, workerTz, poisoned,
                   exitReq, lock, arg, queue, faults>>

\* No await separates persist() from apply(): only a crash can come between.
ApplyUpdate(r) ==
    /\ pc[r] = "persisted"
    /\ live' = arg[r].cand
    /\ lastError' = FALSE
    /\ lock' = None
    /\ Finish(r)
    /\ UNCHANGED <<durable, phase, workerTz, poisoned, exitReq, arg, queue, faults>>

\* Preparing or replacing the file fails: persistence_error records it.
UpdateFails(r) ==
    /\ Fault
    /\ pc[r] = "preparing_update"
    /\ lastError' = TRUE
    /\ lock' = None
    /\ Finish(r)
    /\ UNCHANGED <<durable, phase, live, workerTz, poisoned, exitReq, arg, queue>>
-----------------------------------------------------------------------------
(* MIGRATE_DB_TIMEZONE: migrate_db_timezone and the worker's bundle.       *)

BeginMigrate(r, z) ==
    /\ phase = "up"
    /\ pc[r] = "new"
    /\ lock = None
    /\ lock' = r
    /\ arg' = [arg EXCEPT ![r] = [cand |-> [live EXCEPT !.tz = z], old |-> live.tz]]
    /\ Goto(r, IF z = live.tz THEN "admit" ELSE "preparing_migrate")
    /\ UNCHANGED <<durable, phase, live, lastError, workerTz, poisoned, exitReq,
                   queue, faults>>

PrepareMigrate(r) ==
    /\ pc[r] = "preparing_migrate"
    /\ Goto(r, "admit")
    /\ UNCHANGED <<durable, phase, live, lastError, workerTz, poisoned, exitReq, lock,
                   arg, queue, faults>>

MigrateFails(r) ==
    /\ Fault
    /\ pc[r] = "preparing_migrate"
    /\ lock' = None
    /\ Finish(r)
    /\ UNCHANGED <<durable, phase, live, lastError, workerTz, poisoned, exitReq, arg,
                   queue>>

\* enqueue_timezone_bundle: the command now owns the commit guard.
Admit(r) ==
    /\ pc[r] = "admit"
    /\ \/ /\ ~poisoned
          /\ Len(queue) < QueueCap
          /\ queue' = Append(queue, r)
          /\ Goto(r, "queued")
          /\ UNCHANGED lock
       \/ /\ poisoned
          /\ lock' = None
          /\ Finish(r)
          /\ UNCHANGED queue
    /\ UNCHANGED <<durable, phase, live, lastError, workerTz, poisoned, exitReq, arg,
                   faults>>

\* Defect considered: a guard that is not released by the drop of the future.
CancelRequest_KeepsGuard(r) ==
    /\ pc[r] \in Cancellable
    /\ Finish(r)
    /\ UNCHANGED <<durable, phase, live, lastError, workerTz, poisoned, exitReq, lock, arg,
                   queue, faults>>

\* A timeout, a client that went away or the router's abort drops the request
\* future at an await point, and with it the guard it still owns.
CancelRequest(r) ==
    /\ pc[r] \in Cancellable
    /\ lock' = None
    /\ Finish(r)
    /\ UNCHANGED <<durable, phase, live, lastError, workerTz, poisoned, exitReq, arg,
                   queue, faults>>

CanMigrate(r) == dbPending = None /\ dbTz = arg[r].old

\* The marker written with the new timezone, in the same transaction.
\* Defect considered: no marker is written.
Marker_Missing(old, z) == None
Marker(old, z) == IF z = old THEN None ELSE z

\* The worker takes the next command and runs migrate_timezone's transaction,
\* or rejects the command when it is poisoned.
WorkerMigrate ==
    /\ phase \in {"up", "stopping"}
    /\ queue # << >>
    /\ ~WorkerBusy
    /\ LET r == Head(queue)
           z == arg[r].cand.tz
       IN  \/ /\ ~poisoned
              /\ CanMigrate(r)
              /\ dbTz' = z
              /\ dbPending' = Marker(arg[r].old, z)
              /\ workerTz' = z
              /\ Goto(r, IF z = arg[r].old THEN "clearing" ELSE "committed")
              /\ UNCHANGED lock
           \/ /\ poisoned \/ ~CanMigrate(r)
              /\ lock' = None
              /\ Finish(r)
              /\ UNCHANGED <<dbTz, dbPending, workerTz>>
    /\ queue' = Tail(queue)
    /\ UNCHANGED <<file, phase, live, lastError, poisoned, exitReq, arg, faults>>

\* The transaction fails and rolls back.
WorkerMigrateFails ==
    /\ Fault
    /\ phase \in {"up", "stopping"}
    /\ queue # << >>
    /\ ~WorkerBusy
    /\ ~poisoned
    /\ lock' = None
    /\ Finish(Head(queue))
    /\ queue' = Tail(queue)
    /\ UNCHANGED <<durable, phase, live, lastError, workerTz, poisoned, exitReq, arg>>

\* finalize, first half: the prepared file replaces the config file.
FinalizePersist(r) ==
    /\ pc[r] = "committed"
    /\ file' = arg[r].cand
    /\ Goto(r, "replaced")
    /\ UNCHANGED <<dbTz, dbPending, phase, live, lastError, workerTz, poisoned,
                   exitReq, lock, arg, queue, faults>>

\* finalize, second half: the live config follows.
FinalizeApply(r) ==
    /\ pc[r] = "replaced"
    /\ live' = arg[r].cand
    /\ lastError' = FALSE
    /\ Goto(r, "clearing")
    /\ UNCHANGED <<durable, phase, workerTz, poisoned, exitReq, lock, arg, queue,
                   faults>>

\* clear_pending_timezone, the reply, and the guard is dropped.
ClearPending(r) ==
    /\ pc[r] = "clearing"
    /\ \/ /\ dbPending \in {None, arg[r].cand.tz}
          /\ DeleteMarker
          /\ lock' = None
          /\ Finish(r)
       \/ /\ dbPending \notin {None, arg[r].cand.tz}
          /\ Goto(r, "failing")
          /\ UNCHANGED <<dbPending, lock>>
    /\ UNCHANGED <<file, dbTz, phase, live, lastError, workerTz, poisoned, exitReq,
                   arg, queue, faults>>

\* finalize or clear_pending_timezone fails after the commit.
PostCommitStepFails(r) ==
    /\ Fault
    /\ pc[r] \in {"committed", "clearing"}
    /\ Goto(r, "failing")
    /\ UNCHANGED <<durable, phase, live, lastError, workerTz, poisoned, exitReq, lock,
                   arg, queue>>

\* Defect considered: the error is recorded but no restart is requested.
PostCommitFailure_NoRestart(r) ==
    /\ pc[r] = "failing"
    /\ lastError' = TRUE
    /\ lock' = None
    /\ Goto(r, "poisoning")
    /\ UNCHANGED <<durable, phase, live, workerTz, poisoned, exitReq, arg, queue, faults>>

\* The postcommit_failure callback: ask for a restart, record the error and
\* drop the guard, all before the worker turns poisoned.
PostCommitFailure(r) ==
    /\ pc[r] = "failing"
    /\ exitReq' = TRUE
    /\ lastError' = TRUE
    /\ lock' = None
    /\ Goto(r, "poisoning")
    /\ UNCHANGED <<durable, phase, live, workerTz, poisoned, arg, queue, faults>>

WorkerPoison(r) ==
    /\ pc[r] = "poisoning"
    /\ poisoned' = TRUE
    /\ Finish(r)
    /\ UNCHANGED <<durable, phase, live, lastError, workerTz, exitReq, lock, arg,
                   queue, faults>>
-----------------------------------------------------------------------------
(* Leaving: a graceful stop (RPC, signal or the requested restart) and a   *)
(* crash.                                                                  *)

\* Request tasks are aborted at their await points; the worker keeps draining.
BeginStop ==
    /\ phase = "up"
    /\ phase' = "stopping"
    /\ pc' = [r \in Requests |-> IF pc[r] \in Cancellable THEN "done" ELSE pc[r]]
    /\ lock' = IF lock # None /\ pc[lock] \in Cancellable THEN None ELSE lock
    /\ UNCHANGED <<durable, live, lastError, workerTz, poisoned, exitReq, arg, queue,
                   faults>>

\* The worker drained its queue and was joined; the process may start again.
FinishStop ==
    /\ phase = "stopping"
    /\ \A r \in Requests : pc[r] \in {"new", "done"}
    /\ phase' = "down"
    /\ UNCHANGED <<durable, live, lastError, workerTz, poisoned, exitReq, lock, pc, arg,
                   queue, faults>>

\* A crash, or a startup step that fails on I/O: only durable state survives.
Crash ==
    /\ Fault
    /\ phase \notin {"down", "refused"}
    /\ phase' = "down"
    /\ pc' = [r \in Requests |-> IF pc[r] = "new" THEN "new" ELSE "done"]
    /\ lock' = None
    /\ queue' = << >>
    /\ UNCHANGED <<durable, live, lastError, workerTz, poisoned, exitReq, arg>>
-----------------------------------------------------------------------------
RequestStep(r) ==
    \/ PersistUpdate(r) \/ ApplyUpdate(r)
    \/ PrepareMigrate(r) \/ Admit(r)

WorkerStep ==
    \/ WorkerMigrate
    \/ \E r \in Requests : \/ FinalizePersist(r) \/ FinalizeApply(r)
                           \/ ClearPending(r) \/ PostCommitFailure(r)
                           \/ WorkerPoison(r)

Startup == StartLoad \/ RecoverPendingTimezone \/ EnsureTimezone

Next ==
    \/ Startup
    \/ \E r \in Requests, c \in Config : BeginUpdate(r, c)
    \/ \E r \in Requests, z \in Timezones : BeginMigrate(r, z)
    \/ \E r \in Requests : \/ RequestStep(r)
                           \/ UpdateFails(r) \/ MigrateFails(r)
                           \/ PostCommitStepFails(r)
                           \/ CancelRequest(r)
    \/ WorkerStep
    \/ WorkerMigrateFails
    \/ BeginStop
    \/ FinishStop
    \/ Crash

Spec == Init /\ [][Next]_vars

(* Fairness: the tokio runtime polls woken tasks, the worker thread runs,  *)
(* the supervisor starts the engine again, and a requested restart is      *)
(* obeyed by the server's select loop.  Nothing obliges a client to send a *)
(* request or to cancel one.                                               *)
Fairness ==
    /\ WF_vars(Startup)
    /\ \A r \in Requests : WF_vars(RequestStep(r))
    /\ WF_vars(WorkerStep)
    /\ WF_vars(exitReq /\ BeginStop)
    /\ WF_vars(FinishStop)

FairSpec == Spec /\ Fairness
-----------------------------------------------------------------------------
\* Every variable has its type, and a running worker has a timezone to key
\* history rows by, stored in the database as well.
TypeOK ==
    /\ file \in Config
    /\ dbTz \in Timezones \cup {None}
    /\ dbPending \in Timezones \cup {None}
    /\ phase \in Phases
    /\ live \in Config
    /\ lastError \in BOOLEAN
    /\ workerTz \in Timezones \cup {None}
    /\ poisoned \in BOOLEAN
    /\ exitReq \in BOOLEAN
    /\ lock \in Requests \cup {None}
    /\ pc \in [Requests -> States]
    /\ arg \in [Requests -> [cand : Config, old : Timezones]]
    /\ queue \in Seq(Requests)
    /\ faults \in Nat
    /\ phase \in {"up", "stopping"} => workerTz # None /\ dbTz # None

\* Startup never refuses to open the database ("DB timezone != config" or a
\* pending marker that matches nothing): whatever crashed or failed before,
\* recover_pending_timezone and ensure_timezone find a state they can repair.
StartupNeverRefused == phase # "refused"

\* A served request that finds the commit mutex free and no restart underway
\* sees one timezone: live config, database and worker agree, and no
\* half-finished migration is left behind.
ServingConsistent ==
    (phase = "up" /\ lock = None /\ ~exitReq)
        => /\ live.tz = dbTz
           /\ workerTz = dbTz
           /\ dbPending = None

\* The file and the live config differ only while the owner of the mutex is
\* between persist() and apply().
LiveMatchesFile ==
    (phase \in {"up", "stopping"} /\ live # file)
        => /\ lock # None
           /\ pc[lock] \in {"persisted", "replaced"}

\* A poisoned worker has always asked for the restart that repairs it.
PoisonRequestsRestart == (poisoned /\ phase = "up") => exitReq

\* A write of the config file changes the timezone or the hot fields, never
\* both: no request's commit is undone by another's stale copy.
NoLostUpdate ==
    [][file'.tz = file.tz \/ file'.stations = file.stations]_file

\* Seen across crashes, the pair (database, config file) is one atomic record:
\* each request changes it at most once, by exactly what it asked for, when its
\* transaction commits or its file is renamed, and recovery changes nothing.
EffectiveConfig ==
    [tz |-> IF dbTz = None THEN file.tz ELSE dbTz, stations |-> file.stations]

StageOf(p) ==
    CASE p = "new" -> "new"
      [] p = "preparing_update" -> "update"
      [] p \in {"preparing_migrate", "admit", "queued"} -> "migrate"
      [] OTHER -> "closed"

Stage == [r \in Requests |-> StageOf(pc[r])]

Want == [r \in Requests |-> arg[r].cand]

Atomic == INSTANCE AtomicConfig WITH config <- EffectiveConfig, stage <- Stage,
                                     want <- Want

RefinesAtomicConfig == Atomic!Spec

(* The inductive invariant behind the safety properties.                   *)

Holding == Cancellable \cup {"persisted", "queued", "committed", "replaced",
                             "clearing", "failing"}

\* The mutex is owned by exactly the request or command that carries its guard.
LockInv ==
    /\ \A r \in Requests : pc[r] \in Holding => lock = r
    /\ lock # None => pc[lock] \in Holding

\* A queued command carries its guard, so there is never more than one.
QueueInv == /\ \A i \in 1..Len(queue) : pc[queue[i]] = "queued"
            /\ Len(queue) <= 1

\* Only a running engine has requests underway; a stopping one has no task left
\* that an abort could still cancel.
PhaseInv ==
    /\ phase \notin {"up", "stopping"} =>
          \A r \in Requests : pc[r] \in {"new", "done"}
    /\ phase = "stopping" => \A r \in Requests : pc[r] \notin Cancellable
    /\ phase \in {"loaded", "recovered"} => live = file
    /\ (phase = "recovered" /\ dbPending # None) => live.tz = dbPending

\* What a crash at any moment leaves behind can be repaired at startup.
Recoverable ==
    /\ dbPending # None => dbTz = dbPending
    /\ dbPending = None => dbTz \in {None, file.tz}

\* What each request or command knows about the state it will change.
ProgressInv ==
    \A r \in Requests :
      /\ pc[r] \in {"preparing_update", "persisted"} => arg[r].cand.tz = live.tz
      /\ pc[r] \in {"preparing_migrate", "admit", "queued", "committed", "replaced"}
            => arg[r].cand.stations = live.stations /\ arg[r].old = live.tz
      /\ pc[r] \in {"committed", "replaced"} => dbPending = arg[r].cand.tz
      /\ pc[r] \in {"persisted", "replaced"} => file = arg[r].cand
      /\ pc[r] = "clearing" => /\ dbPending \in {None, arg[r].cand.tz}
                               /\ dbTz = live.tz
      /\ pc[r] = "poisoning" => exitReq

\* The database runs ahead of the live config only inside a bundle or once a
\* restart has been requested.
AheadInv ==
    phase \in {"up", "stopping"} =>
      /\ workerTz = dbTz
      /\ (live.tz # dbTz \/ dbPending # None) =>
            \/ exitReq
            \/ lock # None /\ pc[lock] \in {"committed", "replaced", "clearing", "failing"}
      /\ poisoned => exitReq

IInv == /\ TypeOK /\ LockInv /\ QueueInv /\ PhaseInv /\ Recoverable
        /\ ProgressInv /\ AheadInv /\ LiveMatchesFile /\ StartupNeverRefused
-----------------------------------------------------------------------------
\* A half-finished migration is eventually completed, by the worker or by the
\* restart that follows a failure.
SyncSettles == (dbPending # None) ~> (dbPending = None)

\* The commit mutex is never kept for ever, cancelled requests included.
LockReleased == (lock # None) ~> (lock = None)
=============================================================================
