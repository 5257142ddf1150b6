------------------------- MODULE DaemonHost_proofs -------------------------
(***************************************************************************)
(* Proofs about the processes and files of one host: the singleton lock    *)
(* and the owners of Daemon, the files of ServiceInstall and the migrating *)
(* builds of Startup, for every set of processes, every number of retries, *)
(* samples, restarts and removals, every sequence of commands and every    *)
(* list of builds.                                                         *)
(***************************************************************************)
EXTENDS Daemon, ServiceInstall, Startup, TLAPS

----------------------------------------------------------------------------
(* Daemon: the singleton lock.                                             *)

\* LockInv holds before any engine runs.
LEMMA LockInitially == Init => LockInv
BY DaemonAssumption DEF Init, LockInv, EngineFields, Holding, Singleton, Engines, Inodes

\* A step of engine e that leaves the lock file alone and lets e either release
\* what it holds or keep it.
LEMMA RetryKeepsLockInv ==
    ASSUME LockInv, NEW e \in Engines, ~Singleton(e),
           RetryOrFail(e), UNCHANGED <<path, files, port, lost>>,
           \/ holder' = Unlocked(e)
           \/ eng[e].st \notin Holding /\ UNCHANGED holder
    PROVE  LockInv'
<1>1. /\ DOMAIN eng' = Engines
      /\ \A f \in Engines : f # e => eng'[f] = eng[f]
      /\ DOMAIN eng'[e] = EngineFields /\ eng'[e].st \in {"open", "exited"}
  <2>1. CASE eng' = [eng EXCEPT ![e].st = "open", ![e].fd = None, ![e].tries = @ + 1]
    BY <2>1 DEF LockInv, EngineFields
  <2>2. CASE eng' = [eng EXCEPT ![e] = Gone(@)]
    BY <2>2 DEF LockInv, Gone, EngineFields
  <2>. QED BY <2>1, <2>2 DEF RetryOrFail
<1>2. DOMAIN holder' = Inodes /\ \A i \in Inodes : holder[i] # e => holder'[i] = holder[i]
  BY DEF LockInv, Unlocked
<1>. QED BY <1>1, <1>2 DEF LockInv, Holding, Singleton

LEMMA ExitKeepsLockInv ==
    ASSUME LockInv, NEW e \in Engines, UNCHANGED <<path, files>>, Exits(e)
    PROVE  LockInv'
<1>1. /\ DOMAIN eng' = Engines
      /\ \A f \in Engines : f # e => eng'[f] = eng[f]
      /\ DOMAIN eng'[e] = EngineFields /\ eng'[e].st = "exited"
  BY DEF LockInv, Exits, Gone, EngineFields
<1>2. DOMAIN holder' = Inodes /\ \A i \in Inodes : holder[i] # e => holder'[i] = holder[i]
  BY DEF LockInv, Exits, Unlocked
<1>3. port' \in Engines \union {None} /\ \A f \in Engines : f # e => (f \in lost' <=> f \in lost)
  BY DEF LockInv, Exits
<1>. QED BY <1>1, <1>2, <1>3 DEF LockInv, Holding, Singleton

\* Every step of an engine keeps it.
LEMMA EngineKeepsLockInv ==
    ASSUME LockInv, NEW e \in Engines, EngineStep(e)
    PROVE  LockInv'
<1>1. CASE ServiceStarts(e)
  <2>1. /\ DOMAIN eng' = Engines
        /\ \A f \in Engines : f # e => eng'[f] = eng[f]
        /\ DOMAIN eng'[e] = EngineFields /\ eng'[e].st = "open"
    BY <1>1 DEF ServiceStarts, LockInv, EngineFields
  <2>. QED BY <1>1, <2>1 DEF ServiceStarts, lockVars, LockInv, Holding, Singleton
<1>2. CASE OpenLock(e)
  <2>1. /\ DOMAIN eng' = Engines
        /\ \A f \in Engines : f # e => eng'[f] = eng[f]
        /\ DOMAIN eng'[e] = EngineFields /\ eng'[e].st = "lock" /\ eng'[e].fd = path'
    BY <1>2 DEF OpenLock, LockInv, EngineFields
  <2>2. /\ path' \in Inodes /\ files' \in 0..(MaxRemovals + 1)
        /\ path' # None
    BY <1>2, DaemonAssumption DEF OpenLock, LockInv, Inodes
  <2>3. ASSUME NEW f \in Engines, f # e, Singleton(f), f \notin lost PROVE path' = path
    BY <1>2, <2>3, DaemonAssumption DEF LockInv, OpenLock, Singleton, Holding, Inodes
  <2>. QED BY <1>2, <2>1, <2>2, <2>3 DEF OpenLock, LockInv, Holding, Singleton
<1>3. CASE TryLock(e)
  <2>1. CASE holder[eng[e].fd] = None /\ holder' = [holder EXCEPT ![eng[e].fd] = e]
             /\ eng' = [eng EXCEPT ![e].st = "match"]
    <3>1. /\ DOMAIN eng' = Engines
          /\ \A f \in Engines : f # e => eng'[f] = eng[f]
          /\ DOMAIN eng'[e] = EngineFields /\ eng'[e].st = "match" /\ eng'[e].fd = eng[e].fd
      BY <2>1 DEF LockInv, EngineFields
    <3>2. eng[e].fd \in Inodes
      BY <1>3 DEF TryLock, LockInv
    <3>3. /\ DOMAIN holder' = Inodes /\ holder'[eng[e].fd] = e
          /\ \A i \in Inodes : holder[i] # None => holder'[i] = holder[i]
      BY <2>1, <3>2 DEF LockInv
    <3>4. None \notin Engines
      BY DaemonAssumption DEF Engines
    <3>. QED BY <1>3, <3>1, <3>2, <3>3, <3>4 DEF TryLock, LockInv, Holding, Singleton
  <2>2. CASE RetryOrFail(e) /\ UNCHANGED holder
    BY <1>3, <2>2, RetryKeepsLockInv DEF TryLock, Holding, Singleton
  <2>. QED BY <1>3, <2>1, <2>2 DEF TryLock
<1>4. CASE MatchPath(e)
  <2>1. CASE FileMatchesPath(eng[e].fd)
    <3>1. /\ DOMAIN eng' = Engines
          /\ \A f \in Engines : f # e => eng'[f] = eng[f]
          /\ DOMAIN eng'[e] = EngineFields /\ eng'[e].st = "write" /\ eng'[e].fd = eng[e].fd
      BY <1>4, <2>1 DEF MatchPath, LockInv, EngineFields
    <3>. QED BY <1>4, <2>1, <3>1 DEF MatchPath, LockInv, Holding, Singleton
  <2>2. CASE ~FileMatchesPath(eng[e].fd)
    BY <1>4, <2>2, RetryKeepsLockInv DEF MatchPath, Singleton
  <2>. QED BY <2>1, <2>2
<1>5. CASE WriteMetadata(e)
  <2>1. /\ DOMAIN eng' = Engines
        /\ \A f \in Engines : f # e => eng'[f] = eng[f]
        /\ DOMAIN eng'[e] = EngineFields /\ eng'[e].st = "recheck" /\ eng'[e].fd = eng[e].fd
    BY <1>5 DEF WriteMetadata, LockInv, EngineFields
  <2>. QED BY <1>5, <2>1 DEF WriteMetadata, LockInv, Holding, Singleton
<1>6. CASE RecheckPath(e)
  <2>1. CASE FileMatchesPath(eng[e].fd)
    <3>1. /\ DOMAIN eng' = Engines
          /\ \A f \in Engines : f # e => eng'[f] = eng[f]
          /\ DOMAIN eng'[e] = EngineFields /\ eng'[e].st = "starting" /\ eng'[e].fd = eng[e].fd
      BY <1>6, <2>1 DEF RecheckPath, LockInv, EngineFields
    <3>. QED BY <1>6, <2>1, <3>1 DEF RecheckPath, FileMatchesPath, LockInv, Holding, Singleton
  <2>2. CASE ~FileMatchesPath(eng[e].fd)
    BY <1>6, <2>2, RetryKeepsLockInv DEF RecheckPath, Singleton
  <2>. QED BY <2>1, <2>2
<1>7. CASE Bind(e)
  <2>1. /\ DOMAIN eng' = Engines
        /\ \A f \in Engines : f # e => eng'[f] = eng[f]
        /\ DOMAIN eng'[e] = EngineFields /\ eng'[e].st = "serving" /\ eng'[e].fd = eng[e].fd
    BY <1>7 DEF Bind, LockInv, EngineFields
  <2>. QED BY <1>7, <2>1 DEF Bind, lockVars, LockInv, Holding, Singleton
<1>8. CASE StartFails(e)
  BY <1>8, ExitKeepsLockInv DEF StartFails
<1>9. CASE EngineEnds(e)
  <2>1. CASE Exits(e)
    BY <1>9, <2>1, ExitKeepsLockInv DEF EngineEnds
  <2>2. CASE eng' = [eng EXCEPT ![e].st = "closing", ![e].again = TRUE]
             /\ UNCHANGED <<holder, port, lost>>
    <3>1. /\ DOMAIN eng' = Engines
          /\ \A f \in Engines : f # e => eng'[f] = eng[f]
          /\ DOMAIN eng'[e] = EngineFields /\ eng'[e].st = "closing" /\ eng'[e].fd = eng[e].fd
      BY <2>2 DEF LockInv, EngineFields
    <3>. QED BY <1>9, <2>2, <3>1 DEF EngineEnds, LockInv, Holding, Singleton
  <2>. QED BY <1>9, <2>1, <2>2 DEF EngineEnds
<1>10. CASE CloseSockets(e)
  BY <1>10 DEF CloseSockets, lockVars, LockInv, Holding, Singleton
<1>11. CASE ReleaseLock(e)
  <2>1. /\ DOMAIN eng' = Engines
        /\ \A f \in Engines : f # e => eng'[f] = eng[f]
        /\ DOMAIN eng'[e] = EngineFields /\ eng'[e].st \in {"open", "exited"}
    BY <1>11 DEF ReleaseLock, Gone, LockInv, EngineFields
  <2>2. DOMAIN holder' = Inodes /\ \A i \in Inodes : holder[i] # e => holder'[i] = holder[i]
    BY <1>11 DEF LockInv, ReleaseLock, Unlocked
  <2>3. \A f \in Engines : f # e => (f \in lost' <=> f \in lost)
    BY <1>11 DEF ReleaseLock
  <2>. QED BY <1>11, <2>1, <2>2, <2>3 DEF ReleaseLock, LockInv, Holding, Singleton
<1>. QED
  BY <1>1, <1>2, <1>3, <1>4, <1>5, <1>6, <1>7, <1>8, <1>9, <1>10, <1>11 DEF EngineStep

\* It does not depend on the probers.
LEMMA ProbesKeepLockInv ==
    ASSUME LockInv, UNCHANGED <<path, files, holder, eng, port, lost>>
    PROVE  LockInv'
BY DEF LockInv, Singleton

\* A shutdown request only moves a serving engine on.
LEMMA ShutdownKeepsLockInv ==
    ASSUME LockInv, NEW p \in Renderers, NEW token, RequestShutdown(p, token),
           UNCHANGED <<path, files, holder, port, lost>>
    PROVE  LockInv'
<1>1. CASE UNCHANGED eng
  BY <1>1, ProbesKeepLockInv
<1>2. CASE port # None /\ eng[port].st = "serving" /\ eng' = [eng EXCEPT ![port].st = "closing"]
  <2>1. port \in Engines
    BY <1>2 DEF LockInv
  <2>2. /\ DOMAIN eng' = Engines
        /\ \A f \in Engines : f # port => eng'[f] = eng[f]
        /\ DOMAIN eng'[port] = EngineFields /\ eng'[port].st = "closing"
        /\ eng'[port].fd = eng[port].fd
    BY <1>2, <2>1 DEF LockInv, EngineFields
  <2>. QED BY <1>2, <2>1, <2>2 DEF LockInv, Holding, Singleton
<1>. QED BY <1>1, <1>2 DEF RequestShutdown

\* Every step of a renderer or of a stop command keeps it.
LEMMA ProberKeepsLockInv ==
    ASSUME LockInv, NEW p \in Renderers, ProberStep(p) \/ DeadlinePasses(p) \/ CloseSession(p)
    PROVE  LockInv'
<1>1. CASE UNCHANGED World
  BY <1>1, ProbesKeepLockInv DEF World, lockVars
<1>2. CASE StartForeground(p)
  <2>0. p \in Engines
    BY DEF Engines
  <2>1. /\ DOMAIN eng' = Engines
        /\ \A f \in Engines : f # p => eng'[f] = eng[f]
        /\ DOMAIN eng'[p] = EngineFields /\ eng'[p].st = "open"
    BY <1>2, <2>0 DEF StartForeground, LockInv, EngineFields
  <2>. QED BY <1>2, <2>0, <2>1 DEF StartForeground, lockVars, LockInv, Holding, Singleton
<1>3. CASE DropChild(p)
  BY <1>3, ExitKeepsLockInv DEF DropChild, Engines
<1>4. CASE StopRequests(p)
  BY <1>4, ShutdownKeepsLockInv DEF StopRequests, lockVars
<1>5. CASE CloseSession(p)
  <2>1. CASE RequestShutdown(p, p)
    BY <1>5, <2>1, ShutdownKeepsLockInv DEF CloseSession, lockVars
  <2>2. CASE UNCHANGED <<eng, stops>>
    BY <1>5, <2>2, ProbesKeepLockInv DEF CloseSession, lockVars
  <2>. QED BY <1>5, <2>1, <2>2 DEF CloseSession
<1>. QED
  BY <1>1, <1>2, <1>3, <1>4, <1>5
     DEF ProberStep, BeginProbe, ObserveOpen, ObserveLock, AskStatus, Resample, BecomeReady,
         KeepWaiting, EnsureReadyFails, StopProbed, StopWaits, DeadlinePasses

\* Removing the lock file makes its holder a lost one.
LEMMA RemovalKeepsLockInv ==
    ASSUME LockInv, RemoveLockFile
    PROVE  LockInv'
BY DEF LockInv, RemoveLockFile, Singleton

----------------------------------------------------------------------------
(* Daemon: who answers for whom.                                           *)

\* What OwnerInv says of the record of prober p.
OwnerOk(p, r) ==
    /\ DOMAIN r = ProberFields
    /\ r.own # "none" => r.at \in {"ready", "drop_child", "ended"}
    /\ r.own = "owned" /\ r.at # "ended" => r.served = p
    /\ r.at = "stop_engine" /\ r.token # None => r.served = r.token

LEMMA OwnerParts ==
    OwnerInv <=> DOMAIN prober = Renderers /\ \A p \in Renderers : OwnerOk(p, prober[p])
BY DEF OwnerInv, OwnerOk

LEMMA SetKeepsOwnerInv ==
    ASSUME OwnerInv, NEW p \in Renderers, NEW r, OwnerOk(p, r), Set(p, r)
    PROVE  OwnerInv'
<1>1. /\ DOMAIN prober' = Renderers /\ prober'[p] = r
      /\ \A q \in Renderers : q # p => prober'[q] = prober[q]
  BY DEF Set, OwnerInv
<1>2. \A q \in Renderers : OwnerOk(q, prober[q])
  BY OwnerParts
<1>3. \A q \in Renderers : OwnerOk(q, prober'[q])
  BY <1>1, <1>2
<1>. QED BY <1>1, <1>3 DEF OwnerInv, OwnerOk

\* A probe that starts anew, and a prober that is done, claim nothing.
LEMMA FreshRecords ==
    ASSUME NEW p, NEW r, DOMAIN r = ProberFields
    PROVE  /\ OwnerOk(p, Ended(r))
           /\ r.own = "none" => OwnerOk(p, ProbeFrom(r)) /\ OwnerOk(p, Finished(r))
           /\ ProbeFrom(r).own = r.own /\ ProbeFrom(r).at = "open_before"
           /\ DOMAIN ProbeFrom(r) = ProberFields /\ DOMAIN Ended(r) = ProberFields
           /\ Ended(r).at = "ended" /\ Ended(r).own = r.own
BY DEF OwnerOk, Ended, ProbeFrom, Finished, ProberFields

\* A probe reports a running engine only if one answered, and then a lock that
\* is held and has metadata names the instance that answered.
LEMMA RunningAgrees ==
    ASSUME NEW p \in Renderers, Result(p, "running")
    PROVE  /\ prober[p].status # None
           /\ HeldMetadata(prober[p].obs) \in {None, prober[p].status}
           /\ prober[p].own = "none" /\ prober[p].at = "ready"
<1>1. "running" \in ClassifyProbe(prober[p].obs, prober[p].status, prober[p].reach)
  BY DEF Result
<1>2. prober[p].own = "none" /\ prober[p].at = "ready"
  BY DEF Result, Sampled
<1>. DEFINE disp == IF prober[p].status = None THEN "none"
                    ELSE StatusDisposition(prober[p].status, HeldMetadata(prober[p].obs))
<1>3. disp = "matching"
  <2>1. disp \in {"none", "foreign", "matching"}
    BY DEF StatusDisposition
  <2>2. CASE disp = "foreign"
    BY <1>1, <2>2 DEF ClassifyProbe
  <2>3. CASE disp = "none"
    BY <1>1, <2>3 DEF ClassifyProbe
  <2>. QED BY <2>1, <2>2, <2>3
<1>. QED BY <1>2, <1>3 DEF StatusDisposition

\* The steps in which the prober's record alone changes keep OwnerInv.
LEMMA ProbingKeepsOwnerInv ==
    ASSUME OwnerInv, NEW p \in Renderers,
           \/ BeginProbe(p) \/ ObserveOpen(p) \/ ObserveLock(p) \/ AskStatus(p) \/ Resample(p)
           \/ KeepWaiting(p) \/ EnsureReadyFails(p) \/ StopWaits(p) \/ DeadlinePasses(p)
    PROVE  OwnerInv'
<1>1. OwnerOk(p, prober[p]) /\ DOMAIN prober[p] = ProberFields
  BY OwnerParts DEF OwnerOk
<1>2. ASSUME NEW r, Set(p, r), prober[p].own = "none",
             r \in {ProbeFrom(prober[p]), Ended(prober[p]), Finished(prober[p])}
      PROVE  OwnerInv'
  BY <1>1, <1>2, FreshRecords, SetKeepsOwnerInv
<1>3. ASSUME NEW r, Set(p, r), DOMAIN r = ProberFields, r.own = "none", r.at # "stop_engine"
      PROVE  OwnerInv'
  BY <1>3, SetKeepsOwnerInv DEF OwnerOk
<1>4. prober[p].at \notin {"ready", "drop_child", "ended"} => prober[p].own = "none"
  BY <1>1 DEF OwnerOk
<1>5. CASE BeginProbe(p)
  <2>1. PICK goal \in {"ensure", "stop"} : Set(p, [ProbeFrom(prober[p]) EXCEPT !.phase = goal])
    BY <1>5 DEF BeginProbe
  <2>2. prober[p].own = "none"
    BY <1>4, <1>5 DEF BeginProbe
  <2>3. /\ ProbeFrom(prober[p]).own = "none" /\ ProbeFrom(prober[p]).at = "open_before"
        /\ DOMAIN ProbeFrom(prober[p]) = ProberFields
    BY <1>1, <2>2, FreshRecords
  <2>. DEFINE r == [ProbeFrom(prober[p]) EXCEPT !.phase = goal]
  <2>4. DOMAIN r = ProberFields /\ r.own = "none" /\ r.at = "open_before"
    BY <2>3 DEF ProberFields
  <2>. QED BY <1>3, <2>1, <2>4
<1>6. ASSUME NEW snapshot, Observed(p, snapshot), prober[p].own = "none"
      PROVE  OwnerInv'
  <2>. DEFINE r1 == [prober[p] EXCEPT !.at = "ask", !.before = snapshot, !.obs = None]
              r2 == [prober[p] EXCEPT !.at = "ready", !.obs = snapshot]
  <2>1. /\ DOMAIN r1 = ProberFields /\ r1.own = "none" /\ r1.at = "ask"
        /\ DOMAIN r2 = ProberFields /\ r2.own = "none" /\ r2.at = "ready"
    BY <1>1, <1>6 DEF ProberFields
  <2>2. Set(p, r1) \/ Set(p, r2)
    BY <1>6 DEF Observed
  <2>. QED BY <1>3, <2>1, <2>2
<1>7. CASE ObserveOpen(p)
  <2>1. prober[p].own = "none"
    BY <1>4, <1>7 DEF ObserveOpen
  <2>. DEFINE r == [prober[p] EXCEPT
                      !.at = IF @ = "open_before" THEN "lock_before" ELSE "lock_after",
                      !.obs = [state |-> "free", inode |-> path, meta |-> meta[path]]]
  <2>2. DOMAIN r = ProberFields /\ r.own = "none" /\ r.at \in {"lock_before", "lock_after"}
    BY <1>1, <2>1 DEF ProberFields
  <2>3. Observed(p, Missing) \/ Set(p, r)
    BY <1>7 DEF ObserveOpen
  <2>. QED BY <1>3, <1>6, <2>1, <2>2, <2>3
<1>8. CASE ObserveLock(p)
  <2>1. prober[p].own = "none"
    BY <1>4, <1>8 DEF ObserveLock
  <2>. DEFINE r == [prober[p] EXCEPT
                      !.at = IF @ = "lock_before" THEN "open_before" ELSE "open_after",
                      !.obs = None]
  <2>2. DOMAIN r = ProberFields /\ r.own = "none" /\ r.at \in {"open_before", "open_after"}
    BY <1>1, <2>1 DEF ProberFields
  <2>3. (\E snapshot : Observed(p, snapshot)) \/ Set(p, r)
    BY <1>8 DEF ObserveLock
  <2>. QED BY <1>3, <1>6, <2>1, <2>2, <2>3
<1>9. CASE AskStatus(p)
  <2>1. prober[p].own = "none"
    BY <1>4, <1>9 DEF AskStatus
  <2>2. PICK answer : Set(p, [prober[p] EXCEPT !.at = "open_after", !.status = answer,
                                               !.reach = port # None])
    BY <1>9 DEF AskStatus
  <2>. DEFINE r == [prober[p] EXCEPT !.at = "open_after", !.status = answer,
                                     !.reach = port # None]
  <2>3. DOMAIN r = ProberFields /\ r.own = "none" /\ r.at = "open_after"
    BY <1>1, <2>1 DEF ProberFields
  <2>. QED BY <1>3, <2>2, <2>3
<1>10. CASE Resample(p)
  <2>1. prober[p].own = "none"
    BY <1>10 DEF Resample, Sampled
  <2>. DEFINE r == [ProbeFrom(prober[p]) EXCEPT !.samples = prober[p].samples + 1]
  <2>2. /\ ProbeFrom(prober[p]).own = "none" /\ ProbeFrom(prober[p]).at = "open_before"
        /\ DOMAIN ProbeFrom(prober[p]) = ProberFields
    BY <1>1, <2>1, FreshRecords
  <2>3. DOMAIN r = ProberFields /\ r.own = "none" /\ r.at = "open_before"
    BY <2>2 DEF ProberFields
  <2>4. Set(p, r) \/ Set(p, Finished(prober[p]))
    BY <1>10 DEF Resample
  <2>. QED BY <1>2, <1>3, <2>1, <2>3, <2>4
<1>11. CASE KeepWaiting(p)
  <2>1. prober[p].own = "none"
    BY <1>11 DEF KeepWaiting, Result, Sampled
  <2>. DEFINE r == [ProbeFrom(prober[p]) EXCEPT !.phase = "waiting"]
  <2>2. /\ ProbeFrom(prober[p]).own = "none" /\ ProbeFrom(prober[p]).at = "open_before"
        /\ DOMAIN ProbeFrom(prober[p]) = ProberFields
    BY <1>1, <2>1, FreshRecords
  <2>3. DOMAIN r = ProberFields /\ r.own = "none" /\ r.at = "open_before"
    BY <2>2 DEF ProberFields
  <2>4. Set(p, r) \/ Set(p, ProbeFrom(prober[p])) \/ Set(p, Finished(prober[p]))
    BY <1>11 DEF KeepWaiting
  <2>. QED BY <1>2, <1>3, <2>1, <2>3, <2>4
<1>12. CASE EnsureReadyFails(p)
  BY <1>2, <1>12 DEF EnsureReadyFails, Result, Sampled
<1>13. CASE StopWaits(p)
  BY <1>2, <1>13 DEF StopWaits, Result, Sampled
<1>14. CASE DeadlinePasses(p)
  BY <1>2, <1>14 DEF DeadlinePasses
<1>. QED BY <1>5, <1>7, <1>8, <1>9, <1>10, <1>11, <1>12, <1>13, <1>14

\* So do the steps that decide on an engine or end a prober.
LEMMA DecidingKeepsOwnerInv ==
    ASSUME OwnerInv, NEW p \in Renderers,
           \/ StartForeground(p) \/ BecomeReady(p) \/ DropChild(p) \/ StopProbed(p)
           \/ StopRequests(p) \/ CloseSession(p)
    PROVE  OwnerInv'
<1>1. OwnerOk(p, prober[p]) /\ DOMAIN prober[p] = ProberFields
  BY OwnerParts DEF OwnerOk
<1>2. ASSUME Set(p, Ended(prober[p])) PROVE OwnerInv'
  BY <1>1, <1>2, FreshRecords, SetKeepsOwnerInv
<1>3. ASSUME NEW ph, prober[p].own = "none",
             \/ Set(p, [ProbeFrom(prober[p]) EXCEPT !.phase = ph])
             \/ Set(p, [ProbeFrom(prober[p]) EXCEPT !.phase = ph, !.spawned = TRUE])
      PROVE  OwnerInv'
  <2>. DEFINE r1 == [ProbeFrom(prober[p]) EXCEPT !.phase = ph]
              r2 == [ProbeFrom(prober[p]) EXCEPT !.phase = ph, !.spawned = TRUE]
  <2>1. /\ ProbeFrom(prober[p]).own = "none" /\ ProbeFrom(prober[p]).at = "open_before"
        /\ DOMAIN ProbeFrom(prober[p]) = ProberFields
    BY <1>1, <1>3, FreshRecords
  <2>2. /\ DOMAIN r1 = ProberFields /\ r1.own = "none" /\ r1.at = "open_before"
        /\ DOMAIN r2 = ProberFields /\ r2.own = "none" /\ r2.at = "open_before"
    BY <2>1 DEF ProberFields
  <2>3. OwnerOk(p, r1) /\ OwnerOk(p, r2)
    BY <2>2 DEF OwnerOk
  <2>. QED BY <1>3, <2>3, SetKeepsOwnerInv
<1>4. CASE StartForeground(p)
  BY <1>3, <1>4 DEF StartForeground, Result, Sampled
<1>5. CASE BecomeReady(p)
  <2>. DEFINE mine == IsSpawned(p, HeldMetadata(prober[p].obs))
              rec == [prober[p] EXCEPT !.own = IF mine THEN "owned" ELSE "adopted",
                        !.served = IF mine THEN prober[p].status.engine ELSE None,
                        !.obs = None, !.before = None, !.status = None, !.reach = FALSE,
                        !.samples = 0]
              dropping == [rec EXCEPT !.at = "drop_child"]
  <2>1. /\ HeldMetadata(prober[p].obs) \in {None, prober[p].status}
        /\ prober[p].own = "none" /\ prober[p].at = "ready"
    BY <1>5, RunningAgrees DEF BecomeReady
  <2>2. mine => prober[p].status.engine = p
    BY <2>1 DEF IsSpawned
  <2>3. /\ DOMAIN rec = ProberFields /\ rec.at = "ready"
        /\ rec.own = IF mine THEN "owned" ELSE "adopted"
        /\ mine => rec.served = p
    BY <1>1, <2>1, <2>2 DEF ProberFields
  <2>4. OwnerOk(p, rec)
    BY <2>3 DEF OwnerOk
  <2>5. ~mine => OwnerOk(p, dropping)
    <3>1. DOMAIN dropping = ProberFields /\ dropping.at = "drop_child" /\ dropping.own = rec.own
      BY <2>3 DEF ProberFields
    <3>. HIDE DEF mine, rec, dropping
    <3>. QED BY <2>3, <3>1 DEF OwnerOk
  <2>6. Set(p, rec) \/ (~mine /\ Set(p, dropping))
    BY <1>5 DEF BecomeReady
  <2>. QED BY <2>4, <2>5, <2>6, SetKeepsOwnerInv
<1>6. CASE DropChild(p)
  <2>. DEFINE r1 == [prober[p] EXCEPT !.at = "ready", !.spawned = FALSE]
              r2 == [Ended(prober[p]) EXCEPT !.spawned = FALSE]
  <2>1. /\ DOMAIN r1 = ProberFields /\ r1.own = prober[p].own /\ r1.at = "ready"
        /\ DOMAIN Ended(prober[p]) = ProberFields /\ Ended(prober[p]).at = "ended"
    BY <1>1, FreshRecords DEF ProberFields
  <2>2. DOMAIN r2 = ProberFields /\ r2.at = "ended"
    BY <2>1 DEF ProberFields
  <2>3. OwnerOk(p, r2) /\ (prober[p].own = "adopted" => OwnerOk(p, r1))
    BY <2>1, <2>2 DEF OwnerOk
  <2>4. Set(p, r2) \/ (prober[p].own = "adopted" /\ Set(p, r1))
    BY <1>6 DEF DropChild
  <2>. QED BY <2>3, <2>4, SetKeepsOwnerInv
<1>7. CASE StopProbed(p)
  <2>1. CASE Set(p, Ended(prober[p]))
    BY <1>2, <2>1
  <2>2. CASE Result(p, "running") /\ ~Set(p, Ended(prober[p]))
    <3>. DEFINE held == HeldMetadata(prober[p].obs)
                rec(t) == [prober[p] EXCEPT !.at = "stop_engine", !.token = t,
                             !.served = prober[p].status.engine, !.obs = None,
                             !.before = None, !.status = None, !.reach = FALSE, !.samples = 0]
    <3>1. held \in {None, prober[p].status} /\ prober[p].own = "none"
      BY <2>2, RunningAgrees
    <3>2. PICK t \in {None} \union {Owner(h.engine) : h \in {held} \ {None}} : Set(p, rec(t))
      BY <1>7, <2>2 DEF StopProbed
    <3>3. t = None \/ t = prober[p].status.engine
      BY <3>1, <3>2 DEF Owner
    <3>4. /\ DOMAIN rec(t) = ProberFields /\ rec(t).own = "none" /\ rec(t).token = t
          /\ rec(t).served = prober[p].status.engine
      BY <1>1, <3>1 DEF ProberFields
    <3>5. OwnerOk(p, rec(t))
      BY <3>3, <3>4 DEF OwnerOk
    <3>. QED BY <3>2, <3>5, SetKeepsOwnerInv
  <2>. QED BY <1>7, <2>1, <2>2 DEF StopProbed
<1>8. CASE StopRequests(p)
  <2>1. prober[p].own = "none"
    BY <1>1, <1>8 DEF StopRequests, OwnerOk
  <2>. QED BY <1>2, <1>3, <1>8, <2>1 DEF StopRequests
<1>9. CASE CloseSession(p)
  <2>. DEFINE r == [prober[p] EXCEPT !.at = "drop_child"]
  <2>1. /\ DOMAIN r = ProberFields /\ r.own = prober[p].own /\ r.at = "drop_child"
        /\ r.served = prober[p].served
    BY <1>1 DEF ProberFields
  <2>2. OwnerOk(p, r)
    BY <1>1, <1>9, <2>1 DEF OwnerOk, CloseSession
  <2>3. Set(p, r) \/ Set(p, Ended(prober[p]))
    BY <1>9 DEF CloseSession
  <2>. QED BY <1>2, <2>2, <2>3, SetKeepsOwnerInv
<1>. QED BY <1>4, <1>5, <1>6, <1>7, <1>8, <1>9

\* A request with a token stops only the engine that the token names.
LEMMA RequestSparesOthers ==
    ASSUME OthersSpared, NEW p \in Renderers, NEW token, RequestShutdown(p, token),
           token # None => prober[p].served = token
    PROVE  OthersSpared'
<1>1. CASE UNCHANGED stops
  BY <1>1 DEF OthersSpared
<1>2. CASE /\ OwnerAuthorized(port, token)
           /\ stops' = stops \union {[token |-> token, probed |-> prober[p].served,
                                      engine |-> port]}
  <2>1. token # None => port = token
    BY <1>2 DEF OwnerAuthorized, Owner
  <2>. QED BY <1>2, <2>1 DEF OthersSpared
<1>. QED BY <1>1, <1>2 DEF RequestShutdown

DaemonInv == LockInv /\ OwnerInv /\ OthersSpared

\* Every step keeps the three invariants together.
LEMMA StepKeepsDaemonInv == DaemonInv /\ [Next]_vars => DaemonInv'
<1>. SUFFICES ASSUME DaemonInv, [Next]_vars PROVE DaemonInv'
  OBVIOUS
<1>. USE DEF DaemonInv
<1>1. ASSUME NEW e \in Engines, EngineStep(e) PROVE DaemonInv'
  <2>1. UNCHANGED <<prober, stops>>
    BY <1>1 DEF EngineStep, ServiceStarts, OpenLock, TryLock, MatchPath, WriteMetadata,
                RecheckPath, Bind, StartFails, EngineEnds, CloseSockets, ReleaseLock
  <2>. QED BY <1>1, <2>1, EngineKeepsLockInv DEF OwnerInv, OthersSpared
<1>2. ASSUME NEW p \in Renderers, ProberStep(p) \/ DeadlinePasses(p) \/ CloseSession(p)
      PROVE  DaemonInv'
  <2>1. LockInv'
    BY <1>2, ProberKeepsLockInv
  <2>2. OwnerInv'
    BY <1>2, ProbingKeepsOwnerInv, DecidingKeepsOwnerInv DEF ProberStep
  <2>3. OthersSpared'
    <3>0. OwnerOk(p, prober[p])
      BY OwnerParts
    <3>1. CASE UNCHANGED stops
      BY <3>1 DEF OthersSpared
    <3>2. CASE StopRequests(p)
      BY <3>0, <3>2, RequestSparesOthers DEF StopRequests, OwnerOk
    <3>3. CASE CloseSession(p) /\ ~UNCHANGED stops
      <4>1. RequestShutdown(p, p) /\ prober[p].served = p
        BY <3>0, <3>3 DEF CloseSession, OwnerOk
      <4>. QED BY <4>1, RequestSparesOthers
    <3>. QED
      BY <1>2, <3>1, <3>2, <3>3
         DEF ProberStep, BeginProbe, ObserveOpen, ObserveLock, AskStatus, Resample,
             StartForeground, BecomeReady, KeepWaiting, EnsureReadyFails, DropChild,
             StopProbed, StopWaits, DeadlinePasses, World
  <2>. QED BY <2>1, <2>2, <2>3
<1>3. CASE RemoveLockFile
  BY <1>3, RemovalKeepsLockInv DEF RemoveLockFile, OwnerInv, OthersSpared
<1>4. CASE UNCHANGED vars
  BY <1>4, ProbesKeepLockInv DEF vars, lockVars, OwnerInv, OthersSpared
<1>. QED BY <1>1, <1>2, <1>3, <1>4 DEF Next

\* The lock discipline of acquire and the ownership rules of the supervisor and
\* of the stop command are invariants of every behaviour.
THEOREM DaemonInvariant == Spec => []DaemonInv
<1>1. Init => DaemonInv
  <2>1. Init => OwnerInv /\ OthersSpared
    BY DEF Init, OwnerInv, OthersSpared, ProberFields
  <2>. QED BY <2>1, LockInitially DEF DaemonInv
<1>. QED BY <1>1, StepKeepsDaemonInv, PTL DEF Spec

\* LockGuard::acquire: two engines are never past the acquisition together,
\* unless `service remove --with-data` unlinked the file of one of them after
\* its last file_matches_path.
THEOREM SingletonIsUnique == Spec => []OneSingleton
<1>1. LockInv => OneSingleton
  BY DEF LockInv, OneSingleton, Singleton, Holding
<1>. QED BY <1>1, DaemonInvariant, PTL DEF DaemonInv

\* readiness_decision: a renderer that takes itself for the owner was answered
\* by the engine it spawned.
THEOREM OwnersOwnTheirChild == Spec => []OwnedIsMine
<1>1. OwnerInv => OwnedIsMine
  BY DEF OwnerInv, OwnedIsMine
<1>. QED BY <1>1, DaemonInvariant, PTL DEF DaemonInv

\* shutdown_owner_authorized: a shutdown request with an owner token stops the
\* engine that answered the prober, whatever replaced it since, or none.
THEOREM TokensSpareOthers == Spec => []OthersSpared
BY DaemonInvariant, PTL DEF DaemonInv

----------------------------------------------------------------------------
(* ServiceInstall: cleanup never works under a running service, the        *)
(* database is never on disk without its manifest entry, and a full        *)
(* removal that reports success left nothing behind.                       *)


\* A command that is issued names a verb, and only a removal asks for everything.
LEMMA IssuedVerbs ==
    ASSUME NEW c \in Issued
    PROVE  /\ c.verb \in {"install", "reinstall", "remove"}
           /\ c.all => c.verb = "remove"
  BY DEF Issued, Commands

\* The invariant holds before the first command.
LEMMA ServiceInitially == ServiceInit => ServiceInv
  BY DEF ServiceInit, ServiceInv, StepInv, UnitInv, RecordInv, RemovalInv, Idle,
         InstallSteps

\* The engine's start and the service manager keep it.
LEMMA EngineKeepsServiceInv ==
    ServiceInv /\ (ManagerStarts \/ ServiceCrashes \/ ServiceEngineStep) => ServiceInv'
  <1>1. SUFFICES ASSUME ServiceInv,
                        ManagerStarts \/ ServiceCrashes \/ ServiceEngineStep
                 PROVE  ServiceInv'
    OBVIOUS
  <1> USE <1>1 DEF ServiceInv, StepInv, UnitInv, RecordInv, RemovalInv, InstallSteps, admin,
                  Components, Record
  <1>2. CASE ManagerStarts
    BY <1>2 DEF ManagerStarts
  <1>3. CASE ServiceCrashes
    BY <1>3 DEF ServiceCrashes
  <1>4. CASE EngineOpensLock
    BY <1>4 DEF EngineOpensLock
  <1>5. CASE EngineEnsuresConfig
    BY <1>5 DEF EngineEnsuresConfig
  <1>6. CASE EngineRecords
    BY <1>6 DEF EngineRecords
  <1>7. CASE EngineRecordsDb
    BY <1>7 DEF EngineRecordsDb
  <1>8. CASE EngineCreatesDb
    BY <1>8 DEF EngineCreatesDb
  <1>9. QED
    BY <1>2, <1>3, <1>4, <1>5, <1>6, <1>7, <1>8 DEF ServiceEngineStep

\* The steps that install keep it.
LEMMA InstallKeepsServiceInv ==
    ServiceInv /\ (CopyBinary \/ RecordInstalled \/ WriteConfig \/ WriteUnit \/ Activate)
        => ServiceInv'
  <1>1. SUFFICES ASSUME ServiceInv,
                        CopyBinary \/ RecordInstalled \/ WriteConfig \/ WriteUnit \/ Activate
                 PROVE  ServiceInv'
    OBVIOUS
  <1> USE <1>1 DEF ServiceInv, StepInv, UnitInv, RecordInv, RemovalInv, InstallSteps,
                  Components, Record, GoTo, EndWith
  <1>2. CASE CopyBinary
    BY <1>2 DEF CopyBinary
  <1>3. CASE RecordInstalled
    BY <1>3 DEF RecordInstalled
  <1>4. CASE WriteConfig
    BY <1>4 DEF WriteConfig
  <1>5. CASE WriteUnit
    <2>1. ~cmd.all /\ at = "write_unit" /\ UNCHANGED <<backend, entries, service>>
      BY <1>5 DEF WriteUnit
    <2>2. CASE EndWith("ok") /\ UNCHANGED disk
      BY <2>1, <2>2
    <2>3. CASE disk' = disk \union {"unit"} /\ GoTo("activate")
      BY <2>1, <2>3
    <2>4. CASE disk' = disk \union {"unit"} /\ EndWith("ok")
      BY <2>1, <2>4
    <2>5. QED
      BY <1>5, <2>2, <2>3, <2>4 DEF WriteUnit
  <1>6. CASE Activate
    BY <1>6 DEF Activate
  <1>7. QED
    BY <1>2, <1>3, <1>4, <1>5, <1>6

\* The steps that remove keep it.  Cleanup takes the database from the manifest's
\* list, so RecordInv puts it among what a full removal has to do.
LEMMA RemovalKeepsServiceInv ==
    ServiceInv /\ (StopService \/ RemoveUnit \/ BeginCleanup \/ FinishCleanup
                   \/ \E c \in Components : RemoveComponent(c)) => ServiceInv'
  <1>1. SUFFICES ASSUME ServiceInv,
                        StopService \/ RemoveUnit \/ BeginCleanup \/ FinishCleanup
                        \/ \E c \in Components : RemoveComponent(c)
                 PROVE  ServiceInv'
    OBVIOUS
  <1> USE <1>1 DEF ServiceInv, StepInv, UnitInv, RecordInv, RemovalInv, InstallSteps
  <1>2. CASE StopService
    BY <1>2 DEF StopService, GoTo
  <1>3. CASE RemoveUnit
    BY <1>3 DEF RemoveUnit, GoTo
  <1>4. CASE BeginCleanup
    <2> DEFINE wanted == Asked(cmd) \intersect (Listed \union {"config", "bin"})
    <2>1. cmd.all => Asked(cmd) = Components
      BY DEF Asked, Data, Components
    <2>2. cmd.all => disk \subseteq wanted \union {"lock", "manifest"}
      BY <2>1, <1>4 DEF BeginCleanup, Listed, Components
    <2>3. cmd.all => wanted # {}
      BY <2>1 DEF Components
    <2>4. CASE wanted = {}
      <3>1. ~cmd.all
        BY <2>3, <2>4
      <3>2. EndWith("ok") /\ UNCHANGED host
        BY <1>4, <2>4 DEF BeginCleanup
      <3>3. QED
        BY <1>4, <3>1, <3>2 DEF BeginCleanup, EndWith, host
    <2>5. CASE wanted # {}
      <3>1. todo' = wanted /\ at' = "removing" /\ at = "cleanup" /\ UNCHANGED host
            /\ UNCHANGED <<cmd, failed, outcome, issued>>
        BY <1>4, <2>5 DEF BeginCleanup
      <3> HIDE DEF wanted
      <3>2. QED
        BY <3>1, <2>2 DEF host
    <2>6. QED
      BY <2>4, <2>5
  <1>5. CASE FinishCleanup
    <2>1. CASE cmd.all /\ ~failed
      BY <1>5, <2>1 DEF FinishCleanup, EndWith, Components
    <2>2. CASE ~(cmd.all /\ ~failed)
      BY <1>5, <2>2 DEF FinishCleanup, EndWith, Idle
    <2>3. QED
      BY <2>1, <2>2
  <1>6. ASSUME NEW c \in Components, RemoveComponent(c)
        PROVE  ServiceInv'
    <2>1. /\ at = "removing" /\ at' = at /\ todo' = todo \ {c}
          /\ UNCHANGED <<entries, service, cmd, outcome>>
      BY <1>6 DEF RemoveComponent
    <2>2. CASE disk' = disk \ {c} /\ UNCHANGED failed
      BY <1>6, <2>1, <2>2 DEF Components
    <2>3. CASE failed' = TRUE /\ UNCHANGED disk
      BY <2>1, <2>3
    <2>4. QED
      BY <1>6, <2>2, <2>3 DEF RemoveComponent
  <1>7. QED
    BY <1>2, <1>3, <1>4, <1>5, <1>6

\* Issuing and failing commands keep it: a removal that finds no unit goes straight
\* to cleanup, and UnitInv says that nothing runs then.
LEMMA CommandKeepsServiceInv ==
    ServiceInv /\ ((\E c \in Issued : Issue(c)) \/ CommandFails) => ServiceInv'
  <1>1. SUFFICES ASSUME ServiceInv, (\E c \in Issued : Issue(c)) \/ CommandFails
                 PROVE  ServiceInv'
    OBVIOUS
  <1> USE <1>1 DEF ServiceInv, StepInv, UnitInv, RecordInv, RemovalInv, InstallSteps, host
  <1>2. ASSUME NEW c \in Issued, Issue(c)
        PROVE  ServiceInv'
    <2>1. /\ cmd' = c /\ at' = FirstStep(c) /\ outcome' = "none"
          /\ UNCHANGED <<todo, failed, backend, disk, entries, service>>
      BY <1>2 DEF Issue
    <2>2. CASE c.verb = "install"
      BY <2>1, <2>2, IssuedVerbs, <1>2 DEF FirstStep
    <2>3. CASE c.verb = "reinstall"
      BY <2>1, <2>3, IssuedVerbs, <1>2 DEF FirstStep
    <2>4. CASE c.verb = "remove"
      BY <2>1, <2>4, IssuedVerbs, <1>2 DEF FirstStep
    <2>5. QED
      BY <1>2, <2>2, <2>3, <2>4, IssuedVerbs
  <1>3. CASE CommandFails
    BY <1>3 DEF CommandFails, EndWith, Idle
  <1>4. QED
    BY <1>2, <1>3

\* The invariant is inductive.
LEMMA ServiceInvariant == ServiceSpec => []ServiceInv
  <1>1. ServiceInv /\ [ServiceNext]_serviceVars => ServiceInv'
    <2>1. SUFFICES ASSUME ServiceInv, [ServiceNext]_serviceVars
                   PROVE  ServiceInv'
      OBVIOUS
    <2>2. CASE UNCHANGED serviceVars
      BY <2>1, <2>2 DEF serviceVars, admin, ServiceInv, StepInv, UnitInv, RecordInv,
                        RemovalInv
    <2>3. CASE ServiceNext
      BY <2>1, <2>3, EngineKeepsServiceInv, InstallKeepsServiceInv, RemovalKeepsServiceInv, CommandKeepsServiceInv
         DEF ServiceNext, CommandStep
    <2>4. QED
      BY <2>1, <2>2, <2>3
  <1>2. QED
    BY ServiceInitially, <1>1, PTL DEF ServiceSpec

\* cleanup_service_layout never removes files from under the service's process:
\* a removal passed its stop, or found no unit and therefore no process.
THEOREM CleanupFindsServiceStopped == ServiceSpec => []StoppedWhileRemoving
  <1>1. ServiceInv => StoppedWhileRemoving
    BY DEF ServiceInv, UnitInv, StoppedWhileRemoving
  <1>2. QED
    BY ServiceInvariant, <1>1, PTL

\* The engine's database is never on disk without a manifest entry: whatever
\* crashes or fails, a later removal can find it.
THEOREM DatabaseIsRecorded == ServiceSpec => []DatabaseRecorded
  <1>1. ServiceInv => DatabaseRecorded
    BY DEF ServiceInv, RecordInv, DatabaseRecorded, Listed
  <1>2. QED
    BY ServiceInvariant, <1>1, PTL

\* A successful `service remove --all' has removed everything but, perhaps, a lock
\* file that was never recorded, after any history of failed commands.
THEOREM FullRemovalIsComplete == ServiceSpec => []AllRemoved
  <1>1. ServiceInv => AllRemoved
    BY DEF ServiceInv, RemovalInv, AllRemoved
  <1>2. QED
    BY ServiceInvariant, <1>1, PTL

----------------------------------------------------------------------------
(* Startup: no crash locks a build out.                                    *)

StartupIInv == StartupInv /\ RefusalWarranted

\* What StartupInv says of the starter of build b, of the document, and of the schema.
StarterOk(b, r, n) ==
    /\ DOMAIN r = StarterFields
    /\ r.at \in HoldsLock => b <= n
    /\ r.at = "write" => /\ DocumentShape(r.loaded) /\ r.loaded.version = Builds[b].config
                         /\ r.loaded.names = "normal"
DocumentInv ==
    /\ DocumentShape(doc) /\ DocumentShape(edited)
    /\ doc # edited => \E n \in Ids : n <= newest /\ doc.version = Builds[n].config
                                      /\ doc.names = "normal"
SchemaInv ==
    /\ applied \in Seq(Nat) /\ \A i \in 1..Len(applied) : applied[i] = i
    /\ tables = 1..Len(applied)
    /\ applied # <<>> => newest > 0 /\ Len(applied) <= Builds[newest].db

LEMMA StartupParts ==
    StartupInv <=> /\ newest \in 0..Len(Builds) /\ DocumentInv /\ SchemaInv
                   /\ DOMAIN starter = Ids
                   /\ \A b \in Ids : StarterOk(b, starter[b], newest)
BY DEF StartupInv, StarterOk, DocumentInv, SchemaInv

\* A document that a build was given and cannot load was written by a newer build
\* or is the user's own.
LEMMA UnloadableIsWarranted ==
    ASSUME StartupInv, NEW b \in Ids, doc.version # 0, ~Loadable(doc, b)
    PROVE  b < newest \/ (edited.version # 0 /\ ~Loadable(edited, b))
<1>1. CASE doc = edited
  BY <1>1
<1>2. CASE doc # edited
  <2>1. PICK n \in Ids : n <= newest /\ doc.version = Builds[n].config /\ doc.names = "normal"
    BY <1>2 DEF StartupInv
  <2>2. /\ Builds[n].config \in Nat \ {0, 1} /\ Builds[b].config \in Nat \ {0, 1}
        /\ n < b => Builds[n].config <= Builds[b].config
    BY BuildsAssumption DEF Ids
  <2>3. ~(Builds[n].config <= Builds[b].config)
    BY <2>1, <2>2 DEF Loadable
  <2>4. b # n /\ ~(n < b)
    BY <2>2, <2>3
  <2>. QED BY <2>1, <2>4 DEF Ids, StartupInv
<1>. QED BY <1>1, <1>2

\* A history that a build cannot accept is ahead of it.
LEMMA UnacceptableIsWarranted ==
    ASSUME StartupInv, NEW b \in Ids, b <= newest, ~AcceptableHistory(b)
    PROVE  b < newest
<1>1. /\ \A i \in 1..Len(applied) : applied[i] = i
      /\ applied \in Seq(Nat) /\ tables = 1..Len(applied) /\ newest \in 0..Len(Builds)
      /\ applied # <<>> => newest > 0 /\ Len(applied) <= Builds[newest].db
  BY DEF StartupInv
<1>2. Len(applied) \in Nat /\ (applied # <<>> <=> Len(applied) > 0)
  BY <1>1
<1>3. tables # {} <=> applied # <<>>
  <2>1. CASE Len(applied) > 0
    BY <1>1, <1>2, <2>1, 1 \in 1..Len(applied)
  <2>2. CASE Len(applied) = 0
    BY <1>1, <1>2, <2>2
  <2>. QED BY <1>2, <2>1, <2>2
<1>4. ~(Len(applied) <= Builds[b].db)
  BY <1>1, <1>3 DEF AcceptableHistory
<1>5. Builds[b].db \in Nat /\ newest \in Ids /\ Builds[newest].db \in Nat
  BY <1>1, BuildsAssumption DEF Ids
<1>6. applied # <<>>
  BY <1>2, <1>4, <1>5
<1>7. b # newest
  BY <1>1, <1>4, <1>6
<1>. QED BY <1>1, <1>7 DEF Ids

\* A step that replaces the starter of build b by one that satisfies StarterOk and
\* was not refused, or was with reason, keeps the invariant when the files do.
LEMMA StarterKeepsStartupInv ==
    ASSUME StartupIInv, NEW b \in Ids, NEW r, NEW n \in 0..Len(Builds),
           starter' = [starter EXCEPT ![b] = r], StarterOk(b, r, n), newest' = n, newest <= n,
           r.refused => starter[b].refused \/ b < n
                        \/ (edited.version # 0 /\ ~Loadable(edited, b)),
           UNCHANGED edited, DocumentInv', SchemaInv'
    PROVE  StartupIInv'
<1>1. /\ newest \in 0..Len(Builds) /\ DOMAIN starter = Ids
      /\ \A c \in Ids : StarterOk(c, starter[c], newest)
  BY StartupParts DEF StartupIInv
<1>2. /\ DOMAIN starter' = Ids /\ starter'[b] = r
      /\ \A c \in Ids : c # b => starter'[c] = starter[c]
  BY <1>1
<1>3. ASSUME NEW c \in Ids PROVE StarterOk(c, starter'[c], newest')
  BY <1>1, <1>2, <1>3 DEF StarterOk, Ids
<1>4. StartupInv'
  <2>1. newest' \in 0..Len(Builds)
    OBVIOUS
  <2>2. DOMAIN starter' = Ids /\ \A c \in Ids : StarterOk(c, starter'[c], newest')
    BY <1>2, <1>3
  <2>. QED BY <2>1, <2>2 DEF StartupInv, StarterOk, DocumentInv, SchemaInv
<1>5. RefusalWarranted'
  <2>1. ASSUME NEW c \in Ids, starter'[c].refused
        PROVE  c < newest' \/ (edited.version # 0 /\ ~Loadable(edited, c))
    <3>1. \A d \in Ids : starter[d].refused =>
              d < newest \/ (edited.version # 0 /\ ~Loadable(edited, d))
      BY DEF StartupIInv, RefusalWarranted
    <3>. QED BY <1>1, <1>2, <2>1, <3>1 DEF Ids
  <2>. QED BY <2>1 DEF RefusalWarranted, Loadable
<1>. QED BY <1>4, <1>5 DEF StartupIInv

\* Any build's step keeps the invariant.
LEMMA BuildKeepsStartupInv ==
    ASSUME StartupIInv, NEW b \in Ids, StartupStep(b)
    PROVE  StartupIInv'
<1>1. /\ newest \in 0..Len(Builds) /\ newest <= newest /\ DOMAIN starter = Ids
      /\ DocumentInv /\ SchemaInv
      /\ StarterOk(b, starter[b], newest) /\ StartupInv
  BY StartupParts DEF StartupIInv
<1>2. /\ DOMAIN starter[b] = StarterFields /\ (starter[b].at \in HoldsLock => b <= newest)
      /\ Len(Builds) \in Nat /\ Builds[b].config \in Nat \ {0, 1} /\ Builds[b].db \in Nat
  BY <1>1, BuildsAssumption DEF StarterOk, Ids
<1>3. ASSUME UNCHANGED <<doc, edited, newest>> PROVE DocumentInv'
  BY <1>1, <1>3 DEF DocumentInv
<1>4. ASSUME UNCHANGED <<tables, applied, newest>> PROVE SchemaInv'
  BY <1>1, <1>4 DEF SchemaInv
<1>5. /\ StarterOk(b, Down, newest) /\ ~Down.refused
      /\ StarterOk(b, [Down EXCEPT !.at = "lock"], newest) /\ ~[Down EXCEPT !.at = "lock"].refused
      /\ StarterOk(b, [Down EXCEPT !.refused = TRUE], newest)
  BY DEF StarterOk, Down, StarterFields, HoldsLock
<1>6. ASSUME Refuse(b), UNCHANGED <<doc, edited, newest, tables, applied>>,
             b < newest \/ (edited.version # 0 /\ ~Loadable(edited, b))
      PROVE  StartupIInv'
  <2>1. starter' = [starter EXCEPT ![b] = [Down EXCEPT !.refused = TRUE]]
    BY <1>6 DEF Refuse
  <2>. QED BY <1>1, <1>3, <1>4, <1>5, <1>6, <2>1, StarterKeepsStartupInv
<1>7. ASSUME NEW a, Step(b, a), b <= newest, a # "write", UNCHANGED <<edited, newest>>,
             DocumentInv', SchemaInv'
      PROVE  StartupIInv'
  <2>. DEFINE r == [starter[b] EXCEPT !.at = a]
  <2>1. starter' = [starter EXCEPT ![b] = r]
    BY <1>7 DEF Step
  <2>2. DOMAIN r = StarterFields /\ r.at = a /\ r.refused = starter[b].refused
    BY <1>2 DEF StarterFields
  <2>. HIDE DEF r
  <2>3. StarterOk(b, r, newest)
    BY <1>7, <2>2 DEF StarterOk
  <2>. QED BY <1>1, <1>7, <2>1, <2>2, <2>3, StarterKeepsStartupInv
<1>8. CASE PreliminaryLoad(b)
  <2>1. CASE doc.version = 0 \/ Loadable(doc, b)
    <3>1. starter' = [starter EXCEPT ![b] = [Down EXCEPT !.at = "lock"]]
      BY <1>8, <2>1 DEF PreliminaryLoad
    <3>. QED BY <1>1, <1>3, <1>4, <1>5, <1>8, <3>1, StarterKeepsStartupInv
             DEF PreliminaryLoad, startFiles, bounds
  <2>2. CASE ~(doc.version = 0 \/ Loadable(doc, b))
    BY <1>1, <1>6, <1>8, <2>2, UnloadableIsWarranted DEF PreliminaryLoad, startFiles, bounds
  <2>. QED BY <2>1, <2>2
<1>9. CASE AcquireLock(b)
  <2>. DEFINE n == IF b > newest THEN b ELSE newest
              r == [starter[b] EXCEPT !.at = "ensure"]
  <2>1. n \in 0..Len(Builds) /\ newest <= n /\ b <= n /\ newest' = n
    BY <1>1, <1>2, <1>9 DEF AcquireLock, Ids
  <2>2. DocumentInv'
    <3>1. ASSUME NEW m \in Ids, m <= newest PROVE m <= newest'
      BY <1>1, <2>1, <3>1 DEF Ids
    <3>. QED BY <1>1, <1>9, <3>1 DEF AcquireLock, startFiles, bounds, DocumentInv
  <2>3. SchemaInv'
    <3>1. applied # <<>> => newest > 0 /\ Len(applied) <= Builds[newest].db
      BY <1>1 DEF SchemaInv
    <3>2. newest > 0 => newest' > 0 /\ Builds[newest].db <= Builds[newest'].db
                        /\ Builds[newest].db \in Nat /\ Builds[newest'].db \in Nat
      BY <1>1, <2>1, BuildsAssumption
    <3>3. Len(applied) \in Nat
      BY <1>1 DEF SchemaInv
    <3>4. applied # <<>> => newest' > 0 /\ Len(applied) <= Builds[newest'].db
      BY <3>1, <3>2, <3>3
    <3>. QED BY <1>1, <1>9, <3>4 DEF AcquireLock, startFiles, SchemaInv
  <2>4. starter' = [starter EXCEPT ![b] = r]
    BY <1>9 DEF AcquireLock, Step
  <2>5. DOMAIN r = StarterFields /\ r.at = "ensure" /\ r.refused = starter[b].refused
    BY <1>2 DEF StarterFields
  <2>. HIDE DEF r, n
  <2>6. StarterOk(b, r, n)
    BY <2>1, <2>5 DEF StarterOk
  <2>. QED BY <1>9, <2>1, <2>2, <2>3, <2>4, <2>5, <2>6, StarterKeepsStartupInv
           DEF AcquireLock, bounds
<1>10. CASE EnsureConfig(b)
  <2>1. b <= newest
    BY <1>2, <1>10 DEF EnsureConfig, HoldsLock
  <2>2. DocumentInv'
    <3>1. CASE doc' = doc
      BY <1>3, <1>10, <3>1 DEF EnsureConfig, bounds
    <3>2. CASE doc' = Default(b)
      <4>1. DocumentShape(doc') /\ doc'.version = Builds[b].config /\ doc'.names = "normal"
        BY <1>2, <3>2 DEF Default, DocumentShape
      <4>. QED BY <1>1, <1>10, <2>1, <4>1 DEF EnsureConfig, bounds, DocumentInv
    <3>. QED BY <1>10, <3>1, <3>2 DEF EnsureConfig
  <2>. QED BY <1>4, <1>7, <1>10, <2>1, <2>2 DEF EnsureConfig, bounds
<1>11. CASE LoadConfig(b)
  <2>0. b <= newest
    BY <1>2, <1>11 DEF LoadConfig, HoldsLock
  <2>1. CASE Loadable(doc, b)
    <3>. DEFINE loaded == NormalForm(Migrated(doc, b))
                r == [starter[b] EXCEPT !.loaded = loaded,
                                        !.at = IF loaded # doc THEN "write" ELSE "open"]
    <3>1. /\ DOMAIN loaded = {"version", "tcp", "names"} /\ loaded.version = Builds[b].config
          /\ loaded.names = "normal"
      BY <1>1, <2>1 DEF NormalForm, Migrated, Loadable, DocumentInv, DocumentShape
    <3>2. DocumentShape(loaded)
      BY <1>2, <3>1 DEF DocumentShape
    <3>3. starter' = [starter EXCEPT ![b] = r]
      BY <1>11, <2>1 DEF LoadConfig
    <3>. HIDE DEF loaded
    <3>4. /\ DOMAIN r = StarterFields /\ r.loaded = loaded /\ r.refused = starter[b].refused
      BY <1>2 DEF StarterFields
    <3>. HIDE DEF r
    <3>5. StarterOk(b, r, newest)
      BY <2>0, <3>1, <3>2, <3>4 DEF StarterOk
    <3>. QED BY <1>1, <1>3, <1>4, <1>11, <3>3, <3>4, <3>5, StarterKeepsStartupInv
             DEF LoadConfig, startFiles, bounds
  <2>2. CASE ~Loadable(doc, b)
    <3>1. doc.version # 0
      BY <1>1, <1>2, <2>2 DEF Loadable, DocumentInv, DocumentShape
    <3>. QED BY <1>1, <1>6, <1>11, <2>2, <3>1, UnloadableIsWarranted
             DEF LoadConfig, startFiles, bounds
  <2>. QED BY <2>1, <2>2
<1>12. CASE WriteMigrated(b)
  <2>1. /\ b <= newest /\ DocumentShape(doc') /\ doc'.version = Builds[b].config
        /\ doc'.names = "normal"
    BY <1>1, <1>2, <1>12 DEF WriteMigrated, HoldsLock, StarterOk
  <2>2. DocumentInv'
    BY <1>1, <1>12, <2>1 DEF WriteMigrated, bounds, DocumentInv
  <2>. QED BY <1>4, <1>7, <1>12, <2>1, <2>2 DEF WriteMigrated, bounds
<1>13. CASE OpenDatabase(b)
  <2>0. b <= newest
    BY <1>2, <1>13 DEF OpenDatabase, HoldsLock
  <2>1. CASE Step(b, "up")
    BY <1>3, <1>4, <1>7, <1>13, <2>0, <2>1 DEF OpenDatabase, startFiles, bounds
  <2>2. CASE Refuse(b) /\ ~AcceptableHistory(b)
    BY <1>1, <1>6, <1>13, <2>0, <2>2, UnacceptableIsWarranted DEF OpenDatabase, startFiles, bounds
  <2>3. AcceptableHistory(b) /\ Len(applied) = Builds[b].db => 1..(Builds[b].db) \subseteq tables
    BY <1>1 DEF SchemaInv
  <2>. QED BY <1>13, <2>1, <2>2, <2>3 DEF OpenDatabase
<1>14. CASE StarterDies(b)
  BY <1>1, <1>3, <1>4, <1>5, <1>14, StarterKeepsStartupInv DEF StarterDies, startFiles
<1>15. ASSUME NEW v \in 1..(Builds[b].db), RunMigration(b, v) PROVE StartupIInv'
  <2>1. b <= newest
    BY <1>2, <1>15 DEF RunMigration, HoldsLock
  <2>2. applied \in Seq(Nat) /\ Len(applied) \in Nat /\ tables = 1..Len(applied)
        /\ \A i \in 1..Len(applied) : applied[i] = i
    BY <1>1 DEF SchemaInv
  <2>3. /\ v = Len(applied) + 1 /\ applied' = Append(applied, v) /\ tables' = tables \cup {v}
        /\ UNCHANGED <<doc, starter, edited, newest>>
    BY <1>15 DEF RunMigration, bounds
  <2>4. /\ applied' \in Seq(Nat) /\ Len(applied') = v
        /\ \A i \in 1..Len(applied) : applied'[i] = applied[i]
        /\ applied'[v] = v
    BY <2>2, <2>3
  <2>5. tables' = 1..Len(applied') /\ \A i \in 1..Len(applied') : applied'[i] = i
    BY <2>2, <2>3, <2>4
  <2>6. newest > 0 /\ v <= Builds[newest].db
    <3>1. newest \in Ids /\ (b < newest => Builds[b].db <= Builds[newest].db)
          /\ Builds[newest].db \in Nat
      BY <1>1, <2>1, BuildsAssumption DEF Ids
    <3>2. b \in Nat /\ newest \in Nat /\ (b < newest \/ b = newest) /\ newest > 0
      BY <1>1, <2>1 DEF Ids
    <3>. QED BY <1>2, <3>1, <3>2
  <2>7. SchemaInv'
    BY <2>3, <2>4, <2>5, <2>6 DEF SchemaInv
  <2>8. DocumentInv'
    BY <1>3, <2>3
  <2>9. StartupInv'
    BY <1>1, <2>3, <2>7, <2>8, StartupParts DEF StartupInv, SchemaInv, DocumentInv
  <2>. QED BY <2>3, <2>9 DEF StartupIInv, RefusalWarranted, Loadable
<1>. QED
  BY <1>8, <1>9, <1>10, <1>11, <1>12, <1>13, <1>14, <1>15 DEF StartupStep

\* So does an edit, which starts the account of the refusals anew.
LEMMA EditKeepsStartupInv ==
    ASSUME StartupIInv, NEW d \in Document, UserEdits(d)
    PROVE  StartupIInv'
<1>1. /\ newest \in 0..Len(Builds) /\ DOMAIN starter = Ids /\ SchemaInv
      /\ \A b \in Ids : StarterOk(b, starter[b], newest)
  BY StartupParts DEF StartupIInv
<1>2. DocumentShape(d)
  BY BuildsAssumption DEF Document, DocumentShape
<1>3. ASSUME NEW b \in Ids
      PROVE  StarterOk(b, starter'[b], newest) /\ ~starter'[b].refused
  <2>1. starter'[b] = [starter[b] EXCEPT !.refused = FALSE] /\ DOMAIN starter[b] = StarterFields
    BY <1>1 DEF UserEdits, StarterOk
  <2>2. /\ DOMAIN starter'[b] = StarterFields /\ starter'[b].at = starter[b].at
        /\ starter'[b].loaded = starter[b].loaded /\ ~starter'[b].refused
    BY <2>1 DEF StarterFields
  <2>. QED BY <1>1, <2>2 DEF StarterOk
<1>4. DOMAIN starter' = Ids /\ UNCHANGED newest
  BY DEF UserEdits
<1>5. DocumentInv' /\ SchemaInv'
  BY <1>1, <1>2 DEF UserEdits, DocumentInv, SchemaInv
<1>6. StartupInv'
  BY <1>1, <1>3, <1>4, <1>5 DEF StartupInv, StarterOk, DocumentInv, SchemaInv
<1>. QED BY <1>3, <1>6 DEF StartupIInv, RefusalWarranted

\* The inductive invariant behind a refusal.
THEOREM StartupInvariant == StartupSpec => []StartupIInv
<1>1. StartupInit => StartupIInv
  <2>. SUFFICES ASSUME StartupInit PROVE StartupIInv
    OBVIOUS
  <2>1. DocumentShape(doc) /\ doc = edited
    BY DEF StartupInit, DocumentShape, NoFile
  <2>2. applied \in Seq(Nat) /\ Len(applied) = 0 /\ tables = 1..Len(applied) /\ applied = <<>>
    BY DEF StartupInit
  <2>3. \A b \in Ids : starter[b].at = "down" /\ ~starter[b].refused
                       /\ DOMAIN starter[b] = StarterFields
    BY DEF StartupInit, Down, StarterFields
  <2>4. newest = 0 /\ DOMAIN starter = Ids /\ newest \in 0..Len(Builds)
    BY BuildsAssumption DEF StartupInit
  <2>. QED BY <2>1, <2>2, <2>3, <2>4 DEF StartupIInv, StartupInv, RefusalWarranted, HoldsLock
<1>2. StartupIInv /\ [StartupNext]_startupVars => StartupIInv'
  <2>. SUFFICES ASSUME StartupIInv, [StartupNext]_startupVars PROVE StartupIInv'
    OBVIOUS
  <2>1. CASE UNCHANGED startupVars
    BY <2>1 DEF startupVars, startFiles, bounds, StartupIInv, StartupInv, RefusalWarranted, Loadable
  <2>. QED BY <2>1, BuildKeepsStartupInv, EditKeepsStartupInv DEF StartupNext
<1>. QED BY <1>1, <1>2, PTL DEF StartupSpec

\* load_for_engine_startup and run_migrations: a build refuses to start only over
\* the files of a newer build or a document of the user's, wherever its own or an
\* older build's migrations were cut off.
THEOREM RefusalsAreWarranted == StartupSpec => []RefusalWarranted
BY StartupInvariant, PTL DEF StartupIInv
============================================================================
