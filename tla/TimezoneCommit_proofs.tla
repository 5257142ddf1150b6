------------------------ MODULE TimezoneCommit_proofs ------------------------
(***************************************************************************)
(* Safety of the configuration commit protocol for every set of requests,  *)
(* timezones and hot values, any queue capacity and any number of faults.  *)
(***************************************************************************)
EXTENDS TimezoneCommit, TLAPS

LEMMA InitIInv == Init => IInv
<1> SUFFICES ASSUME Init PROVE IInv
  OBVIOUS
<1> USE ConstantsAssumption DEF Init, Config
<1>1. TypeOK
  <2>1. queue \in Seq(Requests)
    OBVIOUS
  <2>2. arg \in [Requests -> [cand : Config, old : Timezones]]
    OBVIOUS
  <2>3. pc \in [Requests -> States]
    BY DEF States
  <2> QED BY <2>1, <2>2, <2>3 DEF TypeOK, States, Phases
<1>2. LockInv /\ QueueInv /\ PhaseInv /\ Recoverable
  BY DEF LockInv, QueueInv, PhaseInv, Recoverable, Holding, Cancellable
<1>3. ProgressInv /\ AheadInv /\ LiveMatchesFile /\ StartupNeverRefused
  BY DEF ProgressInv, AheadInv, LiveMatchesFile, StartupNeverRefused
<1> QED BY <1>1, <1>2, <1>3 DEF IInv

\* The engine's own steps: startup, stop and crash.
LEMMA EngineStepIInv ==
  ASSUME IInv, StartLoad \/ RecoverPendingTimezone \/ EnsureTimezone
               \/ BeginStop \/ FinishStop \/ Crash
  PROVE  IInv'
<1> USE ConstantsAssumption DEF IInv, TypeOK, LockInv, QueueInv, PhaseInv, Recoverable,
      ProgressInv, AheadInv, LiveMatchesFile, StartupNeverRefused, Holding,
      Cancellable, Working, States, Phases, Config, durable, Fault
<1>1. CASE StartLoad
  BY <1>1 DEF StartLoad
<1>2. CASE RecoverPendingTimezone
  BY <1>2 DEF RecoverPendingTimezone, Recovered
<1>3. CASE EnsureTimezone
  <2>1. TypeOK'
    <3>1. queue' \in Seq(Requests)
      BY <1>3 DEF EnsureTimezone, SetDbTimezone, DeleteMarker
    <3>2. /\ dbTz' \in Timezones \cup {None}
          /\ dbPending' \in Timezones \cup {None}
          /\ workerTz' \in Timezones \cup {None}
          /\ phase' \in {"refused", "up"}
      BY <1>3 DEF EnsureTimezone, SetDbTimezone, DeleteMarker
    <3>3. phase' = "up" => workerTz' # None /\ dbTz' # None
      BY <1>3 DEF EnsureTimezone, SetDbTimezone, DeleteMarker
    <3>4. UNCHANGED <<file, live, pc, arg, faults>> /\ lock' = None
      BY <1>3 DEF EnsureTimezone, SetDbTimezone, DeleteMarker
    <3>5. lastError' \in BOOLEAN /\ poisoned' \in BOOLEAN /\ exitReq' \in BOOLEAN
      BY <1>3 DEF EnsureTimezone, SetDbTimezone, DeleteMarker
    <3> QED BY <3>1, <3>2, <3>3, <3>4, <3>5
  <2>2. LockInv'
    BY <1>3 DEF EnsureTimezone, SetDbTimezone, DeleteMarker
  <2>3. QueueInv'
    BY <1>3 DEF EnsureTimezone, SetDbTimezone, DeleteMarker
  <2>4. PhaseInv'
    BY <1>3 DEF EnsureTimezone, SetDbTimezone, DeleteMarker
  <2>5. Recoverable'
    BY <1>3 DEF EnsureTimezone, SetDbTimezone, DeleteMarker
  <2>6. ProgressInv'
    BY <1>3 DEF EnsureTimezone, SetDbTimezone, DeleteMarker
  <2>7. AheadInv'
    BY <1>3 DEF EnsureTimezone, SetDbTimezone, DeleteMarker
  <2>8. LiveMatchesFile'
    BY <1>3 DEF EnsureTimezone, SetDbTimezone, DeleteMarker
  <2>9. StartupNeverRefused'
    BY <1>3 DEF EnsureTimezone, SetDbTimezone, DeleteMarker
  <2> QED BY <2>1, <2>2, <2>3, <2>4, <2>5, <2>6, <2>7, <2>8, <2>9
<1>4. CASE BeginStop
  BY <1>4 DEF BeginStop
<1>5. CASE FinishStop
  BY <1>5 DEF FinishStop
<1>6. CASE Crash
  BY <1>6 DEF Crash
<1> QED BY <1>1, <1>2, <1>3, <1>4, <1>5, <1>6

\* The steps of an UPDATE_CONFIG request.
LEMMA UpdateStepIInv ==
  ASSUME IInv, NEW r \in Requests, NEW c \in Config,
         BeginUpdate(r, c) \/ PersistUpdate(r) \/ ApplyUpdate(r) \/ UpdateFails(r)
         \/ CancelRequest(r)
  PROVE  IInv'
<1> USE ConstantsAssumption DEF IInv, TypeOK, LockInv, QueueInv, PhaseInv, Recoverable,
      ProgressInv, AheadInv, LiveMatchesFile, StartupNeverRefused, Holding,
      Cancellable, Working, States, Phases, Config, durable, Fault, Finish, Goto
<1>1. CASE BeginUpdate(r, c)
  <2>1. TypeOK'
    <3>1. arg' \in [Requests -> [cand : Config, old : Timezones]]
      BY <1>1 DEF BeginUpdate
    <3>2. pc' \in [Requests -> States]
      BY <1>1 DEF BeginUpdate
    <3> QED BY <1>1, <3>1, <3>2 DEF BeginUpdate
  <2>2. LockInv'
    BY <1>1 DEF BeginUpdate
  <2>3. QueueInv'
    BY <1>1 DEF BeginUpdate
  <2>4. PhaseInv'
    BY <1>1 DEF BeginUpdate
  <2>5. Recoverable'
    BY <1>1 DEF BeginUpdate
  <2>6. ProgressInv'
    BY <1>1 DEF BeginUpdate
  <2>7. AheadInv'
    BY <1>1 DEF BeginUpdate
  <2>8. LiveMatchesFile'
    BY <1>1 DEF BeginUpdate
  <2>9. StartupNeverRefused'
    BY <1>1 DEF BeginUpdate
  <2> QED BY <2>1, <2>2, <2>3, <2>4, <2>5, <2>6, <2>7, <2>8, <2>9
<1>2. CASE PersistUpdate(r)
  BY <1>2 DEF PersistUpdate
<1>3. CASE ApplyUpdate(r)
  <2>1. TypeOK'
    BY <1>3 DEF ApplyUpdate
  <2>2. LockInv'
    BY <1>3 DEF ApplyUpdate
  <2>3. QueueInv'
    BY <1>3 DEF ApplyUpdate
  <2>4. PhaseInv'
    BY <1>3 DEF ApplyUpdate
  <2>5. Recoverable'
    BY <1>3 DEF ApplyUpdate
  <2>6. ProgressInv'
    BY <1>3 DEF ApplyUpdate
  <2>7. AheadInv'
    BY <1>3 DEF ApplyUpdate
  <2>8. LiveMatchesFile'
    BY <1>3 DEF ApplyUpdate
  <2>9. StartupNeverRefused'
    BY <1>3 DEF ApplyUpdate
  <2> QED BY <2>1, <2>2, <2>3, <2>4, <2>5, <2>6, <2>7, <2>8, <2>9
<1>4. CASE UpdateFails(r)
  BY <1>4 DEF UpdateFails
<1>5. CASE CancelRequest(r)
  BY <1>5 DEF CancelRequest
<1> QED BY <1>1, <1>2, <1>3, <1>4, <1>5

\* The steps of a MIGRATE_DB_TIMEZONE request up to its admission.
LEMMA MigrateStepIInv ==
  ASSUME IInv, NEW r \in Requests, NEW z \in Timezones,
         BeginMigrate(r, z) \/ PrepareMigrate(r) \/ MigrateFails(r) \/ Admit(r)
  PROVE  IInv'
<1> USE ConstantsAssumption DEF IInv, TypeOK, LockInv, QueueInv, PhaseInv, Recoverable,
      ProgressInv, AheadInv, LiveMatchesFile, StartupNeverRefused, Holding,
      Cancellable, Working, States, Phases, Config, durable, Fault, Finish, Goto
<1>1. CASE BeginMigrate(r, z)
  BY <1>1 DEF BeginMigrate
<1>2. CASE PrepareMigrate(r)
  BY <1>2 DEF PrepareMigrate
<1>3. CASE MigrateFails(r)
  BY <1>3 DEF MigrateFails
<1>4. CASE Admit(r)
  <2>1. TypeOK'
    <3>1. queue' \in Seq(Requests)
      BY <1>4 DEF Admit
    <3>2. pc' \in [Requests -> States]
      BY <1>4 DEF Admit
    <3> QED BY <1>4, <3>1, <3>2 DEF Admit
  <2>2. LockInv'
    BY <1>4 DEF Admit
  <2>3. QueueInv'
    BY <1>4 DEF Admit
  <2>4. PhaseInv'
    BY <1>4 DEF Admit
  <2>5. Recoverable'
    BY <1>4 DEF Admit
  <2>6. ProgressInv'
    BY <1>4 DEF Admit
  <2>7. AheadInv'
    BY <1>4 DEF Admit
  <2>8. LiveMatchesFile'
    BY <1>4 DEF Admit
  <2>9. StartupNeverRefused'
    BY <1>4 DEF Admit
  <2> QED BY <2>1, <2>2, <2>3, <2>4, <2>5, <2>6, <2>7, <2>8, <2>9
<1> QED BY <1>1, <1>2, <1>3, <1>4

\* The worker's steps after the migration transaction committed.
LEMMA BundleStepIInv ==
  ASSUME IInv, NEW r \in Requests,
         FinalizePersist(r) \/ FinalizeApply(r) \/ ClearPending(r)
         \/ PostCommitStepFails(r) \/ PostCommitFailure(r) \/ WorkerPoison(r)
  PROVE  IInv'
<1> USE ConstantsAssumption DEF IInv, TypeOK, LockInv, QueueInv, PhaseInv, Recoverable,
      ProgressInv, AheadInv, LiveMatchesFile, StartupNeverRefused, Holding,
      Cancellable, Working, States, Phases, Config, durable, Fault, Finish, Goto
<1>1. CASE FinalizePersist(r)
  <2>1. TypeOK'
    BY <1>1 DEF FinalizePersist
  <2>2. LockInv'
    BY <1>1 DEF FinalizePersist
  <2>3. QueueInv'
    BY <1>1 DEF FinalizePersist
  <2>4. PhaseInv'
    BY <1>1 DEF FinalizePersist
  <2>5. Recoverable'
    BY <1>1 DEF FinalizePersist
  <2>6. ProgressInv'
    BY <1>1 DEF FinalizePersist
  <2>7. AheadInv'
    BY <1>1 DEF FinalizePersist
  <2>8. LiveMatchesFile'
    BY <1>1 DEF FinalizePersist
  <2>9. StartupNeverRefused'
    BY <1>1 DEF FinalizePersist
  <2> QED BY <2>1, <2>2, <2>3, <2>4, <2>5, <2>6, <2>7, <2>8, <2>9
<1>2. CASE FinalizeApply(r)
  <2>1. TypeOK'
    BY <1>2 DEF FinalizeApply
  <2>2. LockInv'
    BY <1>2 DEF FinalizeApply
  <2>3. QueueInv'
    BY <1>2 DEF FinalizeApply
  <2>4. PhaseInv'
    BY <1>2 DEF FinalizeApply
  <2>5. Recoverable'
    BY <1>2 DEF FinalizeApply
  <2>6. ProgressInv'
    BY <1>2 DEF FinalizeApply
  <2>7. AheadInv'
    BY <1>2 DEF FinalizeApply
  <2>8. LiveMatchesFile'
    BY <1>2 DEF FinalizeApply
  <2>9. StartupNeverRefused'
    BY <1>2 DEF FinalizeApply
  <2> QED BY <2>1, <2>2, <2>3, <2>4, <2>5, <2>6, <2>7, <2>8, <2>9
<1>3. CASE ClearPending(r)
  <2>1. TypeOK'
    BY <1>3 DEF ClearPending, DeleteMarker
  <2>2. LockInv'
    <3>0. pc[r] = "clearing" /\ lock = r
      BY <1>3 DEF ClearPending
    <3>1. CASE lock' = None /\ Finish(r)
      BY <3>0, <3>1
    <3>2. CASE lock' = lock /\ Goto(r, "failing")
      BY <3>0, <3>2
    <3> QED BY <1>3, <3>1, <3>2 DEF ClearPending
  <2>3. QueueInv'
    BY <1>3 DEF ClearPending, DeleteMarker
  <2>4. PhaseInv'
    BY <1>3 DEF ClearPending, DeleteMarker
  <2>5. Recoverable'
    BY <1>3 DEF ClearPending, DeleteMarker
  <2>6. ProgressInv'
    BY <1>3 DEF ClearPending, DeleteMarker
  <2>7. AheadInv'
    BY <1>3 DEF ClearPending, DeleteMarker
  <2>8. LiveMatchesFile'
    BY <1>3 DEF ClearPending, DeleteMarker
  <2>9. StartupNeverRefused'
    BY <1>3 DEF ClearPending, DeleteMarker
  <2> QED BY <2>1, <2>2, <2>3, <2>4, <2>5, <2>6, <2>7, <2>8, <2>9
<1>4. CASE PostCommitStepFails(r)
  BY <1>4 DEF PostCommitStepFails
<1>5. CASE PostCommitFailure(r)
  BY <1>5 DEF PostCommitFailure
<1>6. CASE WorkerPoison(r)
  BY <1>6 DEF WorkerPoison
<1> QED BY <1>1, <1>2, <1>3, <1>4, <1>5, <1>6

\* The worker takes a command: it is the one that owns the mutex.
LEMMA TakeStepIInv ==
  ASSUME IInv, WorkerMigrate \/ WorkerMigrateFails
  PROVE  IInv'
<1> USE ConstantsAssumption DEF IInv, TypeOK, LockInv, QueueInv, PhaseInv, Recoverable,
      ProgressInv, AheadInv, LiveMatchesFile, StartupNeverRefused, Holding,
      Cancellable, Working, States, Phases, Config, durable, Fault, Finish, Goto
<1>1. CASE WorkerMigrate
  <2>1. TypeOK'
    <3>1. Head(queue) \in Requests
      BY <1>1 DEF WorkerMigrate, CanMigrate, Marker
    <3>2. queue' \in Seq(Requests)
      BY <1>1 DEF WorkerMigrate, CanMigrate, Marker
    <3>3. pc' \in [Requests -> States]
      BY <1>1, <3>1 DEF WorkerMigrate, CanMigrate, Marker
    <3>4. dbTz' \in Timezones /\ dbPending' \in Timezones \cup {None}
      BY <1>1, <3>1 DEF WorkerMigrate, CanMigrate, Marker
    <3> QED BY <1>1, <3>1, <3>2, <3>3, <3>4 DEF WorkerMigrate, CanMigrate, Marker
  <2>2. LockInv'
    BY <1>1 DEF WorkerMigrate, CanMigrate, Marker
  <2>3. QueueInv'
    BY <1>1 DEF WorkerMigrate, CanMigrate, Marker
  <2>4. PhaseInv'
    BY <1>1 DEF WorkerMigrate, CanMigrate, Marker
  <2>5. Recoverable'
    BY <1>1 DEF WorkerMigrate, CanMigrate, Marker
  <2>6. ProgressInv'
    BY <1>1 DEF WorkerMigrate, CanMigrate, Marker
  <2>7. AheadInv'
    BY <1>1 DEF WorkerMigrate, CanMigrate, Marker
  <2>8. LiveMatchesFile'
    BY <1>1 DEF WorkerMigrate, CanMigrate, Marker
  <2>9. StartupNeverRefused'
    BY <1>1 DEF WorkerMigrate, CanMigrate, Marker
  <2> QED BY <2>1, <2>2, <2>3, <2>4, <2>5, <2>6, <2>7, <2>8, <2>9
<1>2. CASE WorkerMigrateFails
  <2>1. TypeOK'
    BY <1>2 DEF WorkerMigrateFails
  <2>2. LockInv'
    BY <1>2 DEF WorkerMigrateFails
  <2>3. QueueInv'
    BY <1>2 DEF WorkerMigrateFails
  <2>4. PhaseInv'
    BY <1>2 DEF WorkerMigrateFails
  <2>5. Recoverable'
    BY <1>2 DEF WorkerMigrateFails
  <2>6. ProgressInv'
    BY <1>2 DEF WorkerMigrateFails
  <2>7. AheadInv'
    BY <1>2 DEF WorkerMigrateFails
  <2>8. LiveMatchesFile'
    BY <1>2 DEF WorkerMigrateFails
  <2>9. StartupNeverRefused'
    BY <1>2 DEF WorkerMigrateFails
  <2> QED BY <2>1, <2>2, <2>3, <2>4, <2>5, <2>6, <2>7, <2>8, <2>9
<1> QED BY <1>1, <1>2

LEMMA NextIInv == IInv /\ [Next]_vars => IInv'
<1> SUFFICES ASSUME IInv, [Next]_vars PROVE IInv'
  OBVIOUS
<1>1. CASE UNCHANGED vars
  BY <1>1 DEF vars, IInv, TypeOK, LockInv, QueueInv, PhaseInv, Recoverable,
              ProgressInv, AheadInv, LiveMatchesFile, StartupNeverRefused
<1>2. CASE Startup \/ BeginStop \/ FinishStop \/ Crash
  BY <1>2, EngineStepIInv DEF Startup
<1>3. ASSUME NEW r \in Requests,
             PersistUpdate(r) \/ ApplyUpdate(r) \/ UpdateFails(r) \/ CancelRequest(r)
      PROVE  IInv'
  <2>1. PICK c \in Config : TRUE
    BY DEF IInv, TypeOK
  <2> QED BY <1>3, UpdateStepIInv
<1>4. ASSUME NEW r \in Requests, NEW c \in Config, BeginUpdate(r, c)
      PROVE  IInv'
  BY <1>4, UpdateStepIInv
<1>5. ASSUME NEW r \in Requests, PrepareMigrate(r) \/ MigrateFails(r) \/ Admit(r)
      PROVE  IInv'
  BY <1>5, MigrateStepIInv, ConstantsAssumption
<1>6. ASSUME NEW r \in Requests, NEW z \in Timezones, BeginMigrate(r, z)
      PROVE  IInv'
  BY <1>6, MigrateStepIInv
<1>7. CASE WorkerStep
  BY <1>7, TakeStepIInv, BundleStepIInv DEF WorkerStep
<1>8. ASSUME NEW r \in Requests, PostCommitStepFails(r) PROVE IInv'
  BY <1>8, BundleStepIInv
<1>9. CASE WorkerMigrateFails
  BY <1>9, TakeStepIInv
<1> QED
  BY <1>1, <1>2, <1>3, <1>4, <1>5, <1>6, <1>7, <1>8, <1>9 DEF Next, RequestStep

\* The inductive invariant of the commit protocol holds in every reachable state.
THEOREM InvariantHolds == Spec => []IInv
<1> QED BY InitIInv, NextIInv, PTL DEF Spec

\* Type correctness: in particular the worker always has a timezone to key by.
THEOREM TypeCorrect == Spec => []TypeOK
<1>1. IInv => TypeOK
  BY DEF IInv
<1> QED BY <1>1, InvariantHolds, PTL

\* recover_pending_timezone and ensure_timezone can always repair what an earlier
\* run left in the config file and the database: startup never refuses.
THEOREM StartupAlwaysPossible == Spec => []StartupNeverRefused
<1>1. IInv => StartupNeverRefused
  BY DEF IInv
<1> QED BY <1>1, InvariantHolds, PTL

\* While the commit mutex is free and no restart is underway, live config,
\* database and worker agree on the timezone.
THEOREM ServingIsConsistent == Spec => []ServingConsistent
<1>1. IInv => ServingConsistent
  BY DEF IInv, AheadInv, ServingConsistent
<1> QED BY <1>1, InvariantHolds, PTL

\* The live config differs from the file only between persist() and apply().
THEOREM LiveFollowsFile == Spec => []LiveMatchesFile
<1>1. IInv => LiveMatchesFile
  BY DEF IInv
<1> QED BY <1>1, InvariantHolds, PTL

\* A poisoned worker never serves without the restart that repairs it.
THEOREM PoisonImpliesRestart == Spec => []PoisonRequestsRestart
<1>1. IInv => PoisonRequestsRestart
  BY DEF IInv, AheadInv, PoisonRequestsRestart
<1> QED BY <1>1, InvariantHolds, PTL

\* Which steps write the config file, and what they write.
LEMMA FileWrites ==
  ASSUME IInv, [Next]_vars
  PROVE  file'.tz = file.tz \/ file'.stations = file.stations
<1> USE DEF IInv, TypeOK, LockInv, PhaseInv, ProgressInv, LiveMatchesFile, Config
<1>1. CASE UNCHANGED file
  BY <1>1
<1>2. CASE RecoverPendingTimezone
  BY <1>2 DEF RecoverPendingTimezone, Recovered
<1>3. ASSUME NEW r \in Requests, PersistUpdate(r)
      PROVE  file'.tz = file.tz
  <2>1. lock = r /\ lock # None /\ phase \in {"up", "stopping"}
    BY <1>3, ConstantsAssumption DEF PersistUpdate, Holding, Cancellable, Phases
  <2>2. live = file /\ arg[r].cand.tz = live.tz
    BY <1>3, <2>1 DEF PersistUpdate
  <2> QED BY <1>3, <2>2 DEF PersistUpdate
<1>4. ASSUME NEW r \in Requests, FinalizePersist(r)
      PROVE  file'.stations = file.stations
  <2>1. lock = r /\ lock # None /\ phase \in {"up", "stopping"}
    BY <1>4, ConstantsAssumption, ZenonT(30) DEF FinalizePersist, Holding, Cancellable, Phases
  <2>2. live = file /\ arg[r].cand.stations = live.stations
    BY <1>4, <2>1 DEF FinalizePersist
  <2> QED BY <1>4, <2>2 DEF FinalizePersist
<1> QED
  BY <1>1, <1>2, <1>3, <1>4
  DEF Next, vars, durable, Startup, StartLoad, EnsureTimezone, SetDbTimezone,
      DeleteMarker, BeginUpdate, ApplyUpdate,
      UpdateFails, BeginMigrate, PrepareMigrate, MigrateFails, Admit, CancelRequest,
      RequestStep, WorkerStep, WorkerMigrate, WorkerMigrateFails, FinalizeApply,
      ClearPending, PostCommitStepFails, PostCommitFailure, WorkerPoison, BeginStop,
      FinishStop, Crash

\* No commit of the config file undoes another request's commit.
THEOREM NoUpdateIsLost == Spec => NoLostUpdate
<1>1. IInv /\ [Next]_vars => [file'.tz = file.tz \/ file'.stations = file.stations]_file
  BY FileWrites
<1> QED BY <1>1, InvariantHolds, PTL DEF Spec, NoLostUpdate

\* A step that leaves the effective config and the requests' candidates alone, and
\* at most closes requests, abandons them in the abstract specification.
LEMMA QuietStep ==
  ASSUME EffectiveConfig' = EffectiveConfig, arg' = arg,
         \A r \in Requests : StageOf(pc'[r]) \in {StageOf(pc[r]), "closed"}
  PROVE  Atomic!Abandon
<1>1. \A r \in Requests : Stage'[r] \in {Stage[r], "closed"}
  BY DEF Stage
<1>2. Stage' \in [Requests -> {"new", "update", "migrate", "closed"}]
  BY DEF Stage, StageOf
<1>3. Want' = Want
  BY DEF Want
<1> QED BY <1>1, <1>2, <1>3 DEF Atomic!Abandon

\* Startup and recovery leave the effective config alone.
LEMMA StartupRefines ==
  ASSUME IInv, Startup
  PROVE  Atomic!Abandon
<1> USE DEF IInv, TypeOK, PhaseInv, Recoverable, EffectiveConfig, Config
<1>1. CASE StartLoad
  BY <1>1, QuietStep DEF StartLoad, durable
<1>2. CASE RecoverPendingTimezone
  <2>1. EffectiveConfig' = EffectiveConfig
    BY <1>2 DEF RecoverPendingTimezone, Recovered
  <2> QED BY <1>2, <2>1, QuietStep DEF RecoverPendingTimezone
<1>3. CASE EnsureTimezone
  <2>1. EffectiveConfig' = EffectiveConfig
    BY <1>3, ConstantsAssumption DEF EnsureTimezone, SetDbTimezone, DeleteMarker
  <2> QED BY <1>3, <2>1, QuietStep DEF EnsureTimezone
<1> QED BY <1>1, <1>2, <1>3 DEF Startup

\* Accepting a request opens it; a rejected one is closed at once.
LEMMA BeginRefines ==
  ASSUME IInv, NEW r \in Requests,
         \/ \E c \in Config : BeginUpdate(r, c)
         \/ \E z \in Timezones : BeginMigrate(r, z)
  PROVE  Atomic!Open(r) \/ Atomic!Abandon
<1> USE DEF IInv, TypeOK
<1>0. EffectiveConfig' = EffectiveConfig
  BY DEF BeginUpdate, BeginMigrate, EffectiveConfig, durable
<1>1. ASSUME NEW s \in {"preparing_update", "preparing_migrate", "admit"},
             NEW c \in Config, pc[r] = "new", Goto(r, s),
             arg' = [arg EXCEPT ![r] = [cand |-> c, old |-> live.tz]]
      PROVE  Atomic!Open(r)
  <2>1. Stage[r] = "new"
    BY <1>1 DEF Stage, StageOf
  <2>2. Stage' = [Stage EXCEPT ![r] = StageOf(s)]
    BY <1>1 DEF Stage, Goto
  <2>3. StageOf(s) \in {"update", "migrate"}
    BY <1>1 DEF StageOf
  <2>4. Want' = [Want EXCEPT ![r] = c]
    BY <1>1 DEF Want
  <2>5. c \in Atomic!Config
    BY <1>1 DEF Config, Atomic!Config
  <2> QED BY <1>0, <2>1, <2>2, <2>3, <2>4, <2>5 DEF Atomic!Open
<1>2. ASSUME Finish(r), UNCHANGED arg
      PROVE  Atomic!Abandon
  BY <1>0, <1>2, QuietStep DEF Finish, StageOf
<1>3. ASSUME NEW c \in Config, BeginUpdate(r, c)
      PROVE  Atomic!Open(r) \/ Atomic!Abandon
  BY <1>1, <1>2, <1>3 DEF BeginUpdate
<1>4. ASSUME NEW z \in Timezones, BeginMigrate(r, z)
      PROVE  Atomic!Open(r)
  <2>1. [live EXCEPT !.tz = z] \in Config
    BY DEF Config
  <2> QED BY <1>1, <1>4, <2>1 DEF BeginMigrate
<1> QED BY <1>3, <1>4

\* The rename of the config file is the moment UPDATE_CONFIG takes effect.
LEMMA PersistRefines ==
  ASSUME IInv, NEW r \in Requests, PersistUpdate(r)
  PROVE  Atomic!CommitUpdate(r)
<1> USE DEF IInv, TypeOK, PersistUpdate
<1>1. dbTz # None
  BY DEF PhaseInv, Phases
<1>2. EffectiveConfig' = [EffectiveConfig EXCEPT !.stations = Want[r].stations]
  BY <1>1 DEF EffectiveConfig, Want, Config
<1>3. Stage[r] = "update" /\ Stage' = [Stage EXCEPT ![r] = "closed"]
  BY DEF Stage, StageOf, Goto
<1>4. Want' = Want
  BY DEF Want
<1> QED BY <1>2, <1>3, <1>4 DEF Atomic!CommitUpdate, Atomic!Closed

\* The database transaction is the moment MIGRATE_DB_TIMEZONE takes effect.
LEMMA MigrateRefines ==
  ASSUME IInv, WorkerMigrate
  PROVE  Atomic!Abandon \/ \E r \in Requests : Atomic!CommitMigrate(r)
<1> USE DEF IInv, TypeOK, WorkerMigrate
<1> DEFINE r == Head(queue)
           z == arg[r].cand.tz
<1>1. r \in Requests /\ pc[r] = "queued"
  <2>1. Len(queue) > 0 /\ Head(queue) = queue[1] /\ Head(queue) \in Requests
    OBVIOUS
  <2> QED BY <2>1 DEF QueueInv
<1>2. CASE dbTz' = z /\ Goto(r, IF z = arg[r].old THEN "clearing" ELSE "committed")
  <2>1. dbTz # None /\ z \in Timezones
    BY <1>1 DEF Config
  <2>2. EffectiveConfig' = [EffectiveConfig EXCEPT !.tz = Want[r].tz]
    BY <1>1, <1>2, <2>1, ConstantsAssumption DEF EffectiveConfig, Want
  <2>3. Stage[r] = "migrate" /\ Stage' = [Stage EXCEPT ![r] = "closed"]
    BY <1>1, <1>2 DEF Stage, StageOf, Goto
  <2>4. Want' = Want
    BY DEF Want
  <2> QED BY <1>1, <2>2, <2>3, <2>4 DEF Atomic!CommitMigrate, Atomic!Closed
<1>3. CASE Finish(r) /\ UNCHANGED <<dbTz, dbPending, workerTz>>
  BY <1>1, <1>3, QuietStep DEF Finish, StageOf, EffectiveConfig
<1> QED BY <1>2, <1>3

\* The worker's second write: the file follows the database.
LEMMA FinalizeRefines ==
  ASSUME IInv, NEW r \in Requests, FinalizePersist(r)
  PROVE  Atomic!Abandon
<1> USE DEF IInv, TypeOK, FinalizePersist
<1>1. lock = r /\ lock # None /\ phase \in {"up", "stopping"}
  BY ConstantsAssumption DEF LockInv, PhaseInv, Holding, Phases
<1>2. live = file /\ arg[r].cand.stations = live.stations /\ dbTz # None
  BY <1>1 DEF LiveMatchesFile, ProgressInv
<1>3. EffectiveConfig' = EffectiveConfig
  BY <1>2 DEF EffectiveConfig, Config
<1> QED BY <1>3, QuietStep DEF Goto, StageOf

\* Every other step moves requests along or ends them, and nothing else.
LEMMA OtherRefines ==
  ASSUME IInv,
         \/ \E r \in Requests :
               \/ ApplyUpdate(r) \/ PrepareMigrate(r) \/ Admit(r) \/ UpdateFails(r)
               \/ MigrateFails(r) \/ PostCommitStepFails(r) \/ CancelRequest(r)
               \/ FinalizeApply(r) \/ ClearPending(r) \/ PostCommitFailure(r)
               \/ WorkerPoison(r)
         \/ WorkerMigrateFails \/ BeginStop \/ FinishStop \/ Crash
  PROVE  Atomic!Abandon
<1> USE DEF IInv, TypeOK
<1>0. EffectiveConfig' = EffectiveConfig /\ arg' = arg
  BY DEF ApplyUpdate, PrepareMigrate, Admit, UpdateFails, MigrateFails,
         PostCommitStepFails, CancelRequest, FinalizeApply, ClearPending,
         PostCommitFailure, WorkerPoison, WorkerMigrateFails, BeginStop, FinishStop,
         Crash, EffectiveConfig, durable
<1>1. ASSUME NEW r \in Requests, Finish(r)
      PROVE  Atomic!Abandon
  BY <1>0, <1>1, QuietStep DEF Finish, StageOf
<1>2. ASSUME NEW r \in Requests, NEW s, Goto(r, s),
             StageOf(s) \in {StageOf(pc[r]), "closed"}
      PROVE  Atomic!Abandon
  BY <1>0, <1>2, QuietStep DEF Goto
<1>3. ASSUME NEW r \in Requests,
             \/ ApplyUpdate(r) \/ PrepareMigrate(r) \/ Admit(r) \/ UpdateFails(r)
             \/ MigrateFails(r) \/ CancelRequest(r) \/ WorkerPoison(r)
      PROVE  Atomic!Abandon
  <2>1. Finish(r) \/ (pc[r] = "preparing_migrate" /\ Goto(r, "admit"))
                  \/ (pc[r] = "admit" /\ Goto(r, "queued"))
    BY <1>3 DEF ApplyUpdate, PrepareMigrate, Admit, UpdateFails, MigrateFails,
                CancelRequest, WorkerPoison
  <2> QED BY <1>1, <1>2, <2>1 DEF StageOf
<1>4. ASSUME NEW r \in Requests,
             \/ PostCommitStepFails(r) \/ FinalizeApply(r) \/ ClearPending(r)
             \/ PostCommitFailure(r)
      PROVE  Atomic!Abandon
  <2>1. Finish(r) \/ Goto(r, "failing") \/ Goto(r, "clearing") \/ Goto(r, "poisoning")
    BY <1>4 DEF PostCommitStepFails, FinalizeApply, ClearPending, PostCommitFailure
  <2> QED BY <1>1, <1>2, <2>1 DEF StageOf
<1>5. CASE WorkerMigrateFails
  <2>1. Head(queue) \in Requests
    BY <1>5 DEF WorkerMigrateFails
  <2> QED BY <1>1, <1>5, <2>1 DEF WorkerMigrateFails
<1>6. CASE BeginStop \/ FinishStop \/ Crash
  <2>1. \A r \in Requests : pc'[r] \in {pc[r], "done"}
    BY <1>6 DEF BeginStop, FinishStop, Crash
  <2> QED BY <1>0, <2>1, QuietStep DEF StageOf
<1> QED BY <1>3, <1>4, <1>5, <1>6

\* The config file and the database together implement one atomic record across
\* every crash, failure and restart: each request takes effect at most once, at its
\* database commit or file rename, and no failure or recovery changes the record.
THEOREM ImplementsAtomicConfig == Spec => RefinesAtomicConfig
<1>1. Init => Atomic!Init
  <2> SUFFICES ASSUME Init
               PROVE  Atomic!Init
    OBVIOUS
  <2>1. EffectiveConfig \in Atomic!Config
    BY ConstantsAssumption DEF Init, Config, EffectiveConfig, Atomic!Config
  <2>2. Stage = [r \in Requests |-> "new"]
    BY DEF Init, Stage, StageOf
  <2>3. Want \in [Requests -> Atomic!Config]
    BY DEF Init, Want, Config, Atomic!Config
  <2> QED BY <2>1, <2>2, <2>3 DEF Atomic!Init
<1>2. IInv /\ [Next]_vars => [Atomic!Next]_(Atomic!avars)
  <2> SUFFICES ASSUME IInv, [Next]_vars
               PROVE  Atomic!Next \/ UNCHANGED <<EffectiveConfig, Stage, Want>>
    BY DEF Atomic!avars
  <2>1. CASE UNCHANGED vars
    BY <2>1 DEF vars, EffectiveConfig, Stage, Want
  <2>2. CASE Next
    BY <2>2, StartupRefines, BeginRefines, PersistRefines, MigrateRefines,
       FinalizeRefines, OtherRefines
    DEF Next, RequestStep, WorkerStep, Atomic!Next
  <2> QED BY <2>1, <2>2
<1> QED BY <1>1, <1>2, InvariantHolds, PTL DEF Spec, RefinesAtomicConfig, Atomic!Spec
=============================================================================
