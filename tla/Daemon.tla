------------------------------- MODULE Daemon -------------------------------
(***************************************************************************)
(* Who owns the weather engine: engine processes that compete for the      *)
(* singleton lock file (engine/src/lock.rs, daemon/src/run.rs), the probe  *)
(* that finds out what is running (daemon/src/probe.rs), the renderers     *)
(* that adopt an engine or start one of their own (renderer/common/src/    *)
(* daemon.rs, tui/src/lib.rs, gui lib.rs) and the stop command             *)
(* (daemon/src/stop.rs).                                                   *)
(*                                                                         *)
(* The lock file is an inode behind a path.  `service remove --with-data`  *)
(* unlinks the path while processes may have it open, so every system call *)
(* of the acquisition and of an observation is a step of its own.  The RPC *)
(* and the PUB endpoint are one port.  All processes use one config, so    *)
(* the probe's adoption of an engine with another config does not arise.   *)
(***************************************************************************)
EXTENDS Naturals, FiniteSets

CONSTANTS
    Renderers,       \* processes that want an engine, or want it stopped
    Services,        \* engines that no renderer of the model starts
    Tokened,         \* those of them that have an owner token all the same
    LockRetries,     \* ENGINE_LOCK_RETRIES, 8 in the code
    ProbeSamples,    \* PROBE_SAMPLE_ATTEMPTS, 3 in the code
    MaxRestarts,     \* bound: RESTART exits in a behaviour
    MaxRemovals,     \* bound: removals of the lock file in a behaviour
    None

ASSUME DaemonAssumption ==
    /\ LockRetries \in Nat /\ ProbeSamples \in Nat \ {0}
    /\ MaxRestarts \in Nat /\ MaxRemovals \in Nat
    /\ Tokened \subseteq Services
    /\ None \notin Nat \union Renderers \union Services

VARIABLES
    path,      \* the inode the lock path names, or None
    files,     \* number of inodes created so far
    holder,    \* inode -> the engine with the exclusive lock, or None
    meta,      \* inode -> the launch metadata it contains, or None
    eng,       \* engine -> its state
    port,      \* the engine bound to the endpoints, or None
    restarts,  \* restarts so far
    lost,      \* history: engines whose lock file was unlinked under them
    prober,    \* renderer or stop command -> its state
    stops      \* history: the shutdowns accepted over RPC

lockVars == <<path, files, holder, meta>>
vars == <<lockVars, eng, port, restarts, lost, prober, stops>>

Engines == Renderers \union Services     \* a renderer's child bears its name
Inodes == 1..(MaxRemovals + 1)
\* launch_metadata, as far as it is compared: who was started, which instance.
Launch == [engine : Engines, inst : 0..MaxRestarts]
Snapshots == [state : {"missing", "free", "held"}, inode : Inodes \union {None},
              meta : Launch \union {None}]

\* The owner token an engine was started with, if any.
Owner(e) == IF e \in Renderers \union Tokened THEN e ELSE None

TypeOK ==
    /\ path \in Inodes \union {None} /\ files \in 0..(MaxRemovals + 1)
    /\ holder \in [Inodes -> Engines \union {None}]
    /\ meta \in [Inodes -> Launch \union {None}]
    /\ eng \in [Engines -> [st : {"absent", "open", "lock", "match", "write", "recheck",
                                  "starting", "serving", "closing", "exited"},
                            fd : Inodes \union {None}, tries : 0..LockRetries,
                            inst : 0..MaxRestarts, again : BOOLEAN]]
    /\ port \in Engines \union {None}
    /\ restarts \in 0..MaxRestarts /\ lost \subseteq Engines
    /\ prober \in [Renderers ->
         [at : {"idle", "open_before", "lock_before", "ask", "open_after", "lock_after",
                "ready", "stop_engine", "drop_child", "ended"},
          obs : Snapshots \union {None}, before : Snapshots \union {None},
          status : Launch \union {None}, reach : BOOLEAN, samples : 0..ProbeSamples,
          phase : {"ensure", "waiting", "stop", "stopping"},
          spawned : BOOLEAN, own : {"none", "owned", "adopted"},
          token : Engines \union {None}, served : Engines \union {None}]]
    /\ stops \subseteq [token : Engines \union {None}, probed : Engines, engine : Engines]

Init ==
    /\ path = None /\ files = 0
    /\ holder = [i \in Inodes |-> None] /\ meta = [i \in Inodes |-> None]
    /\ eng = [e \in Engines |-> [st |-> "absent", fd |-> None, tries |-> 0, inst |-> 0,
                                 again |-> FALSE]]
    /\ port = None /\ restarts = 0 /\ lost = {} /\ stops = {}
    /\ prober = [p \in Renderers |-> [at |-> "idle", obs |-> None, before |-> None,
                   status |-> None, reach |-> FALSE, samples |-> 0, phase |-> "ensure", spawned |-> FALSE,
                   own |-> "none", token |-> None, served |-> None]]

-----------------------------------------------------------------------------
(* An engine process.                                                      *)

Gone(rec) == [rec EXCEPT !.st = "exited", !.fd = None, !.tries = 0, !.inst = 0,
                         !.again = FALSE]
Alive(e) == eng[e].st \notin {"absent", "exited"}
Unlocked(e) == [i \in Inodes |-> IF holder[i] = e THEN None ELSE holder[i]]
Observing(i) == \E p \in Renderers : prober[p].at \in {"lock_before", "lock_after"}
                                   /\ prober[p].obs.inode = i

\* LockGuard::acquire: another attempt after the delay, or the error that ends
\* the process.
RetryOrFail(e) ==
    IF eng[e].tries < LockRetries
    THEN eng' = [eng EXCEPT ![e].st = "open", ![e].fd = None, ![e].tries = @ + 1]
    ELSE eng' = [eng EXCEPT ![e] = Gone(@)]

\* A service manager or a user starts an engine that has no owner.
ServiceStarts(e) ==
    /\ e \in Services /\ eng[e].st = "absent"
    /\ eng' = [eng EXCEPT ![e].st = "open"]
    /\ UNCHANGED <<lockVars, port, restarts, lost, prober, stops>>

\* acquire: OpenOptions::create(true).open(path)
OpenLock(e) ==
    /\ eng[e].st = "open"
    /\ files' = IF path = None THEN files + 1 ELSE files
    /\ path' = IF path = None THEN files + 1 ELSE path
    /\ eng' = [eng EXCEPT ![e].st = "lock", ![e].fd = path']
    /\ UNCHANGED <<holder, meta, port, restarts, lost, prober, stops>>

\* acquire: try_lock_exclusive, which a probe's shared lock also blocks.
TryLock(e) ==
    /\ eng[e].st = "lock"
    /\ \/ /\ holder[eng[e].fd] = None
          /\ holder' = [holder EXCEPT ![eng[e].fd] = e]
          /\ eng' = [eng EXCEPT ![e].st = "match"]
       \/ /\ holder[eng[e].fd] # None \/ Observing(eng[e].fd)
          /\ RetryOrFail(e) /\ UNCHANGED holder
    /\ UNCHANGED <<path, files, meta, port, restarts, lost, prober, stops>>

\* Defect considered: locking without comparing the file with the path.
FileMatchesPath_Always(i) == TRUE

\* file_matches_path
FileMatchesPath(i) == i = path

\* acquire: the first check; then write_metadata truncates the file.
MatchPath(e) ==
    /\ eng[e].st = "match"
    /\ IF FileMatchesPath(eng[e].fd)
       THEN /\ eng' = [eng EXCEPT ![e].st = "write"]
            /\ meta' = [meta EXCEPT ![eng[e].fd] = None]
            /\ UNCHANGED holder
       ELSE RetryOrFail(e) /\ holder' = Unlocked(e) /\ UNCHANGED meta
    /\ UNCHANGED <<path, files, port, restarts, lost, prober, stops>>

\* write_metadata: the new contents are there.
WriteMetadata(e) ==
    /\ eng[e].st = "write"
    /\ meta' = [meta EXCEPT ![eng[e].fd] = [engine |-> e, inst |-> eng[e].inst]]
    /\ eng' = [eng EXCEPT ![e].st = "recheck"]
    /\ UNCHANGED <<path, files, holder, port, restarts, lost, prober, stops>>

\* acquire: the second check; past it the engine is the singleton.
RecheckPath(e) ==
    /\ eng[e].st = "recheck"
    /\ IF FileMatchesPath(eng[e].fd)
       THEN eng' = [eng EXCEPT ![e].st = "starting", ![e].tries = 0] /\ UNCHANGED holder
       ELSE RetryOrFail(e) /\ holder' = Unlocked(e)
    /\ UNCHANGED <<path, files, meta, port, restarts, lost, prober, stops>>

\* The engine stops and its lock guard is dropped.
Exits(e) ==
    /\ eng' = [eng EXCEPT ![e] = Gone(@)]
    /\ holder' = Unlocked(e)
    /\ port' = IF port = e THEN None ELSE port
    /\ lost' = lost \ {e}

\* start_with_provider_factory and run_engine_sockets: the rest of the start,
\* the endpoints bound last.
Bind(e) ==
    /\ eng[e].st = "starting"
    /\ port = None
    /\ port' = e /\ eng' = [eng EXCEPT ![e].st = "serving"]
    /\ UNCHANGED <<lockVars, restarts, lost, prober, stops>>

\* Some step of the start fails (config, provider, database, a bound port).
StartFails(e) ==
    /\ eng[e].st = "starting" /\ Exits(e)
    /\ UNCHANGED <<path, files, meta, restarts, prober, stops>>

\* A serving engine accepts RESTART, or stops on a signal or a failure.
EngineEnds(e) ==
    /\ eng[e].st = "serving"
    /\ \/ Exits(e) /\ UNCHANGED restarts
       \/ /\ restarts < MaxRestarts /\ restarts' = restarts + 1
          /\ eng' = [eng EXCEPT ![e].st = "closing", ![e].again = TRUE]
          /\ UNCHANGED <<holder, port, lost>>
    /\ UNCHANGED <<path, files, meta, prober, stops>>

\* run_engine_sockets drops the sockets before the runtime drops the lock.
CloseSockets(e) ==
    /\ eng[e].st = "closing" /\ port = e
    /\ port' = None
    /\ UNCHANGED <<lockVars, eng, restarts, lost, prober, stops>>

\* run: a shutdown ends the process, a restart starts a fresh instance.
ReleaseLock(e) ==
    /\ eng[e].st = "closing" /\ port # e
    /\ holder' = Unlocked(e) /\ lost' = lost \ {e}
    /\ eng' = [eng EXCEPT ![e] =
                  IF @.again THEN [Gone(@) EXCEPT !.st = "open", !.inst = eng[e].inst + 1]
                  ELSE Gone(@)]
    /\ UNCHANGED <<path, files, meta, port, restarts, prober, stops>>

Singleton(e) == eng[e].st \in {"starting", "serving", "closing"}

\* cleanup_service_layout with --with-data unlinks the recorded lock file.
RemoveLockFile ==
    /\ path # None /\ files <= MaxRemovals
    /\ path' = None
    /\ lost' = lost \union {e \in Engines : Singleton(e) /\ eng[e].fd = path}
    /\ UNCHANGED <<files, holder, meta, eng, port, restarts, prober, stops>>

-----------------------------------------------------------------------------
(* probe_status, run by a renderer's supervisor or by the stop command.    *)

Set(p, rec) == prober' = [prober EXCEPT ![p] = rec]
World == <<lockVars, eng, port, restarts, lost, stops>>
ProbeFrom(rec) == [rec EXCEPT !.at = "open_before", !.obs = None, !.before = None,
                              !.status = None, !.reach = FALSE, !.samples = 0]
Ended(rec) == [rec EXCEPT !.at = "ended", !.obs = None, !.before = None,
                          !.status = None, !.reach = FALSE, !.samples = 0, !.token = None,
                          !.served = None]
\* The prober gives up or is done; a spawned child is dropped, hence killed.
Finished(rec) == [Ended(rec) EXCEPT !.at = IF rec.spawned THEN "drop_child" ELSE "ended"]

\* The initial probe of a renderer, or that of a stop command.
BeginProbe(p) ==
    /\ prober[p].at = "idle"
    /\ \E goal \in {"ensure", "stop"} :
         Set(p, [ProbeFrom(prober[p]) EXCEPT !.phase = goal])
    /\ UNCHANGED World

Missing == [state |-> "missing", inode |-> None, meta |-> None]

\* What a finished observation leads to: the status request after the first
\* one of a sample, the classification after the second.
Observed(p, snapshot) ==
    IF prober[p].at \in {"open_before", "lock_before"}
    THEN Set(p, [prober[p] EXCEPT !.at = "ask", !.before = snapshot, !.obs = None])
    ELSE Set(p, [prober[p] EXCEPT !.at = "ready", !.obs = snapshot])

\* observe_lock_once: open the file and read its metadata.
ObserveOpen(p) ==
    /\ prober[p].at \in {"open_before", "open_after"}
    /\ IF path = None
       THEN Observed(p, Missing)
       ELSE Set(p, [prober[p] EXCEPT
              !.at = IF @ = "open_before" THEN "lock_before" ELSE "lock_after",
              !.obs = [state |-> "free", inode |-> path, meta |-> meta[path]]])
    /\ UNCHANGED World

\* observe_lock_once: try_lock_shared and file_matches_path; a file that was
\* replaced meanwhile is observed again.
ObserveLock(p) ==
    /\ prober[p].at \in {"lock_before", "lock_after"}
    /\ IF FileMatchesPath(prober[p].obs.inode)
       THEN Observed(p, [prober[p].obs EXCEPT
              !.state = IF holder[prober[p].obs.inode] = None THEN "free" ELSE "held"])
       ELSE Set(p, [prober[p] EXCEPT
              !.at = IF @ = "lock_before" THEN "open_before" ELSE "open_after",
              !.obs = None])
    /\ UNCHANGED World

\* tcp_endpoint_reachable and rpc_endpoint_status, which may also time out.
\* A bound engine answers with its own instance and is always ready.
AskStatus(p) ==
    /\ prober[p].at = "ask"
    /\ \E answer \in {None} \union {[engine |-> e, inst |-> eng[e].inst] :
                                       e \in {x \in Engines : port = x}} :
         Set(p, [prober[p] EXCEPT !.at = "open_after", !.status = answer,
                                   !.reach = port # None])
    /\ UNCHANGED World

\* Defect considered: a status that is not compared with the lock's metadata.
StatusDisposition_AnyInstance(status, held) == "matching"

\* status_disposition of a ready engine with the requested config.
StatusDisposition(status, held) ==
    IF held # None /\ held # status THEN "foreign" ELSE "matching"

HeldMetadata(snapshot) == IF snapshot.state = "held" THEN snapshot.meta ELSE None

\* classify_probe; whether a held lock is older than the startup timeout is
\* up to the clock.
ClassifyProbe(snapshot, status, reachable) ==
    LET disposition == IF status = None THEN "none"
                       ELSE StatusDisposition(status, HeldMetadata(snapshot))
    IN  CASE disposition = "foreign" -> {"endpoint_conflict"}
          [] disposition # "foreign" /\ snapshot.state = "held" ->
               IF disposition = "matching" THEN {"running"} ELSE {"starting", "unhealthy"}
          [] disposition # "foreign" /\ snapshot.state # "held" ->
               IF reachable THEN {"endpoint_conflict"} ELSE {"not_running"}

Sampled(p) == prober[p].at = "ready" /\ prober[p].own = "none"
Stable(p) == prober[p].before = prober[p].obs
Result(p, state) == Sampled(p) /\ Stable(p)
                    /\ state \in ClassifyProbe(prober[p].obs, prober[p].status, prober[p].reach)

\* probe_status: the lock changed during the sample.
Resample(p) ==
    /\ Sampled(p) /\ ~Stable(p)
    /\ IF prober[p].samples + 1 < ProbeSamples
       THEN Set(p, [ProbeFrom(prober[p]) EXCEPT !.samples = prober[p].samples + 1])
       ELSE Set(p, Finished(prober[p]))
    /\ UNCHANGED World

-----------------------------------------------------------------------------
(* DaemonSupervisor: ensure_ready and wait_for_readiness.                  *)

Ensuring(p) == prober[p].phase \in {"ensure", "waiting"}

\* ensure_ready: nothing runs, so start a foreground engine with a new token.
StartForeground(p) ==
    /\ Result(p, "not_running") /\ prober[p].phase = "ensure"
    /\ eng' = [eng EXCEPT ![p].st = "open"]
    /\ Set(p, [ProbeFrom(prober[p]) EXCEPT !.phase = "waiting", !.spawned = TRUE])
    /\ UNCHANGED <<lockVars, port, restarts, lost, stops>>

\* readiness_decision: the lock names the child that was spawned.
IsSpawned(p, held) == prober[p].spawned /\ held # None /\ held.engine = p

\* ensure_ready and readiness_decision on a running engine.  An adopting
\* renderer drops the child it had started.
BecomeReady(p) ==
    /\ Ensuring(p) /\ Result(p, "running")
    /\ LET mine == IsSpawned(p, HeldMetadata(prober[p].obs))
           rec == [prober[p] EXCEPT !.own = IF mine THEN "owned" ELSE "adopted",
                     !.served = IF mine THEN prober[p].status.engine ELSE None, !.obs = None, !.before = None,
                     !.status = None, !.reach = FALSE, !.samples = 0]
       IN  Set(p, IF rec.spawned /\ ~mine THEN [rec EXCEPT !.at = "drop_child"] ELSE rec)
    /\ UNCHANGED World

\* wait_for_readiness: sleep and probe again, unless there is nothing left to
\* wait for.
KeepWaiting(p) ==
    /\ Ensuring(p)
    /\ \/ Result(p, "starting")
          /\ Set(p, [ProbeFrom(prober[p]) EXCEPT !.phase = "waiting"])
       \/ Result(p, "not_running") /\ prober[p].phase = "waiting"
          /\ IF prober[p].spawned /\ Alive(p)
             THEN Set(p, ProbeFrom(prober[p])) ELSE Set(p, Finished(prober[p]))
    /\ UNCHANGED World

\* ensure_ready: an unhealthy engine or a conflict is an error.
EnsureReadyFails(p) ==
    /\ Ensuring(p) /\ (Result(p, "unhealthy") \/ Result(p, "endpoint_conflict"))
    /\ Set(p, Finished(prober[p]))
    /\ UNCHANGED World

\* wait_for_readiness: the deadline ends the wait, a probe in progress included.
\* wait_until_stopped looks at its deadline once the probe in progress is over.
DeadlinePasses(p) ==
    /\ prober[p].phase \in {"waiting", "stopping"} /\ prober[p].own = "none"
    /\ prober[p].at \notin {"idle", "drop_child", "ended"}
    /\ Set(p, Finished(prober[p]))
    /\ UNCHANGED World

\* ForegroundDaemon::drop: the child is killed if it still runs, and reaped.
DropChild(p) ==
    /\ prober[p].at = "drop_child"
    /\ Exits(p)
    /\ Set(p, IF prober[p].own = "adopted" THEN [prober[p] EXCEPT !.at = "ready", !.spawned = FALSE]
              ELSE [Ended(prober[p]) EXCEPT !.spawned = FALSE])
    /\ UNCHANGED <<path, files, meta, restarts, stops>>

-----------------------------------------------------------------------------
(* Stopping an engine.                                                     *)

\* Defect considered: a shutdown that ignores the owner token.
OwnerAuthorized_Always(e, token) == TRUE

\* shutdown_owner_authorized: a token must be the engine's own.
OwnerAuthorized(e, token) == token = None \/ token = Owner(e)

\* The SHUTDOWN request reaches whoever is bound to the endpoint now.
RequestShutdown(p, token) ==
    IF port # None /\ eng[port].st = "serving" /\ OwnerAuthorized(port, token)
    THEN /\ eng' = [eng EXCEPT ![port].st = "closing"]
         /\ stops' = stops \union {[token |-> token, probed |-> prober[p].served, engine |-> port]}
    ELSE UNCHANGED <<eng, stops>>

\* close_session, run_session: only an owner asks its engine to stop, then
\* drops the process handle.
CloseSession(p) ==
    /\ prober[p].at = "ready" /\ prober[p].own # "none"
    /\ IF prober[p].own = "owned"
       THEN RequestShutdown(p, p) /\ Set(p, [prober[p] EXCEPT !.at = "drop_child"])
       ELSE UNCHANGED <<eng, stops>> /\ Set(p, Ended(prober[p]))
    /\ UNCHANGED <<lockVars, port, restarts, lost>>

\* stop, and the renderers' --stop: the probe decides whether there is anything
\* to stop.  The daemon's command sends the token in the lock, the TUI's none.
StopProbed(p) ==
    /\ prober[p].phase = "stop"
    /\ \/ /\ Result(p, "running")
          /\ LET held == HeldMetadata(prober[p].obs)
             IN  \E t \in {None} \union {Owner(h.engine) : h \in {held} \ {None}} :
                   Set(p, [prober[p] EXCEPT !.at = "stop_engine", !.token = t,
                             !.served = prober[p].status.engine, !.obs = None, !.before = None, !.status = None,
                             !.reach = FALSE, !.samples = 0])
       \/ /\ \E s \in {"not_running", "starting", "unhealthy", "endpoint_conflict"} :
               Result(p, s)
          /\ Set(p, Ended(prober[p]))
    /\ UNCHANGED World

\* stop: request_shutdown with the token from the lock, then wait_until_stopped.
StopRequests(p) ==
    /\ prober[p].at = "stop_engine"
    /\ RequestShutdown(p, prober[p].token)
    /\ Set(p, IF stops' # stops
              THEN [ProbeFrom(prober[p]) EXCEPT !.phase = "stopping"]
              ELSE Ended(prober[p]))
    /\ UNCHANGED <<lockVars, port, restarts, lost>>

\* wait_until_stopped: poll until nothing runs.
StopWaits(p) ==
    /\ prober[p].phase = "stopping"
    /\ \/ Result(p, "not_running") /\ Set(p, Ended(prober[p]))
       \/ /\ \E s \in {"running", "starting", "unhealthy", "endpoint_conflict"} : Result(p, s)
          /\ Set(p, ProbeFrom(prober[p]))
    /\ UNCHANGED World

-----------------------------------------------------------------------------
EngineStep(e) ==
    \/ ServiceStarts(e) \/ OpenLock(e) \/ TryLock(e) \/ MatchPath(e) \/ WriteMetadata(e)
    \/ RecheckPath(e) \/ Bind(e) \/ StartFails(e) \/ EngineEnds(e) \/ CloseSockets(e)
    \/ ReleaseLock(e)
ProberStep(p) ==
    \/ BeginProbe(p) \/ ObserveOpen(p) \/ ObserveLock(p) \/ AskStatus(p) \/ Resample(p)
    \/ StartForeground(p) \/ BecomeReady(p) \/ KeepWaiting(p) \/ EnsureReadyFails(p)
    \/ DropChild(p) \/ StopProbed(p) \/ StopRequests(p) \/ StopWaits(p)

Next ==
    \/ \E e \in Engines : EngineStep(e)
    \/ \E p \in Renderers : ProberStep(p) \/ DeadlinePasses(p) \/ CloseSession(p)
    \/ RemoveLockFile

Spec == Init /\ [][Next]_vars

-----------------------------------------------------------------------------
\* At most one engine is past the acquisition of the singleton lock, however
\* the lock file is replaced while engines open, lock, verify and restart; an
\* engine whose file was unlinked after its last check is the only exception.
OneSingleton ==
    \A e, f \in Engines :
        Singleton(e) /\ Singleton(f) /\ e \notin lost /\ f \notin lost => e = f

\* A renderer that takes itself for the owner was answered by the very engine
\* it spawned, although lock, metadata and endpoint were sampled one by one.
OwnedIsMine ==
    \A p \in Renderers : prober[p].own = "owned" /\ prober[p].at # "ended" => prober[p].served = p

\* Between the probe and the shutdown the engine may be replaced: a request
\* that names an owner, a closing renderer's included, stops the engine that
\* had answered its probe, or none.
OthersSpared == \A s \in stops : s.token # None => s.engine = s.probed

-----------------------------------------------------------------------------
(***************************************************************************)
(* Why these hold, as inductive invariants.  Of the records only the       *)
(* fields are needed, not the ranges TypeOK gives them.                    *)
(***************************************************************************)
EngineFields == {"st", "fd", "tries", "inst", "again"}
ProberFields == {"at", "obs", "before", "status", "reach", "samples", "phase", "spawned",
                 "own", "token", "served"}
Holding == {"match", "write", "recheck", "starting", "serving", "closing"}

\* An inode is never named twice; an engine past try_lock_exclusive holds the
\* file it opened, and unless that file was removed under it, a singleton's file
\* is the one the path names.
LockInv ==
    /\ DOMAIN eng = Engines /\ \A e \in Engines : DOMAIN eng[e] = EngineFields
    /\ DOMAIN holder = Inodes /\ port \in Engines \union {None}
    /\ files \in 0..(MaxRemovals + 1) /\ path \in Inodes \union {None}
    /\ path = None => files <= MaxRemovals
    /\ \A e \in Engines :
          /\ eng[e].st = "lock" => eng[e].fd \in Inodes
          /\ eng[e].st \in Holding => eng[e].fd \in Inodes /\ holder[eng[e].fd] = e
          /\ Singleton(e) /\ e \notin lost => eng[e].fd = path

\* An owner is past probing and was answered by its own child; the owner token
\* that a stop command took from the lock names the engine that answered it.
OwnerInv ==
    /\ DOMAIN prober = Renderers /\ \A p \in Renderers : DOMAIN prober[p] = ProberFields
    /\ \A p \in Renderers :
          /\ prober[p].own # "none" => prober[p].at \in {"ready", "drop_child", "ended"}
          /\ prober[p].own = "owned" /\ prober[p].at # "ended" => prober[p].served = p
          /\ prober[p].at = "stop_engine" /\ prober[p].token # None =>
                prober[p].served = prober[p].token
=============================================================================
