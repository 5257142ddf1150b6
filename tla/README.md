# A verification of weather.app

weather.app is a local weather service written in Rust: an engine process that
fetches, caches and publishes weather for configured stations, a daemon that
starts and stops it, and renderers (terminal and desktop) that talk to it over
ZeroMQ. This directory holds TLA+ modules translated from its source, the TLC
configurations that check them on small instances, and TLAPS proofs for every
size of instance.

## The system

| part | state | operations | interacts with |
|---|---|---|---|
| configuration commit (`engine/handlers/config.rs`, `conf/persist.rs`, `conf/state.rs`) | config file, live `ConfigState`, `config_commit` mutex, last error | UPDATE_CONFIG: lock, validate, compare, prepare, replace, apply | timezone migration (same mutex), refresh loop (watch) |
| timezone migration and recovery (`engine/handlers/migrate_tz.rs`, `engine/runtime.rs`, `db/storage.rs`) | database timezone, pending marker, worker timezone | MIGRATE_DB_TIMEZONE bundle, startup recovery | database actor runs it, lifecycle restarts after a failure |
| database actor (`db/actor.rs`) | phase, sender, send gate, channel, worker and reaper threads, lease, terminal outcome | admit, call, shutdown, clone, drop, worker loop, poison, reap | every handler; the lock file is its lease |
| request coalescing (`engine/singleflight.rs`) | flights per key with participant counts, one `OnceCell` per flight | run, join, lease drop | weather, catalog and resource handlers |
| refresh scheduler (`engine/refresh.rs`, `engine/time.rs`) | schedule per station, `JoinSet` of jobs, last local date | claim, finish, reconcile, date refresh, timer, drain | config watch, cancellation, weather handler |
| resource cache and transfer (`engine/resource_cache.rs`, `engine/handlers/resource.rs`, the desktop client) | registrations, byte-bounded cache, fetch states, fetch tasks, assembler | register, begin_fetch, cache, finish_fetch, chunked GET_RESOURCE | provider, weather snapshots, desktop page |
| engine server and lifecycle (`engine/server.rs`, `engine/lifecycle.rs`, `handlers/envelope.rs`, `handlers/events.rs`) | sockets, request permits and tasks, side tasks, publisher, event bus, exit request | request processing with timeouts, exit arbitration, ordered stop | all handlers |
| weather service (`engine/handlers/weather.rs`, `temperature_history.rs`) | history rows, refresh guards | cache lookup, fetch, stale fallback, daily high, parent alerts, history pages | coalescing, database, provider, events |
| catalog service (`engine/handlers/catalog.rs`, `fuzzy.rs`) | provinces, cities per province, station mappings, freshness | read or refresh a list, populate all, resolve a station, search | coalescing, upstream permits, database |
| NMC provider (`updater/provider/nmc`, `weather-utils`) | none between calls | HTTP with retries, bounded download, mapping of documents | weather, catalog and resource handlers |
| singleton lock, daemon, supervisor (`engine/lock.rs`, `daemon`, `renderer/common/daemon.rs`) | lock file and its metadata, sampled state, child process | acquire, probe, start, adopt, stop, restart | engine process |
| service integration and manifest (`daemon/service*`, `manifest`) | unit, installed files, manifest entries | install, reinstall, remove, remove with data | service manager (external), engine start |
| loading and schema migration (`conf/load.rs`, `db/migration.rs`) | config document and its version, tables, applied versions | migrate, normalise, write back, refuse | startup |
| client session (`renderer/common/client*`) | pending registry, outbox, send, receive and event tasks, supervisor | request, dispatch, fail all, close | engine server |
| terminal renderer (`tui`) | selection, loads, searches, tokens; station list | reduce events, run effects; command line | client session |
| desktop renderer (`gui`) | session, station names, cache file | window commands | client session, resource transfer |

`PROJECT.json` lists each part with its files and status, and under `hazards`
the places where this code could go wrong in a way a test would hardly reach.

What is hard here: requests are futures that a timeout or the stopping router
drops at any await point; the database is a thread with its own life; a timezone
migration changes two durable stores that cannot be changed atomically; a config
change reaches a loop with jobs in flight; clients read lists, histories and
resources in pieces while what is underneath moves; processes find each other
through a lock file that others may unlink; and installation is a sequence of
file and service operations each of which may fail.

## The modules

### The engine's core

**TimezoneCommit** (with **AtomicConfig**, its abstract specification). State:
the config file, the two `engine_state` rows (`dbTz`, `dbPending`), the live
config, the mutex owner, the command channel, the worker's timezone and poison,
the engine's phase. A configuration is the restart-only timezone and one value
for all hot fields. Actions follow the code's atomic blocks: what happens
between two awaits of a request, or between two durable writes of the worker, is
one step. `PersistUpdate` and `ApplyUpdate` have no await between them, so no
cancellation comes between, but a crash can. The commit guard is moved into the
queued command (`Admit`), so a cancelled request frees the mutex only before
that. `PostCommitFailure` runs before `WorkerPoison`, as in `handle`; requests
may run between the two. Startup is `StartLoad`, `RecoverPendingTimezone`,
`EnsureTimezone`. `Crash` keeps exactly the durable state; it also stands for a
database shutdown that exceeds its deadline and for a startup step that fails on
I/O. `AtomicConfig` lets each request take effect once, on its own half of one record,
or not at all. The mapping reads the timezone from the database once it is
initialised and the hot part from the file; a migration takes effect with the
database transaction, an update with the rename, and recovery has no effect.

**DbActor**. Phases, the asynchronous send gate, the bounded channel, the worker
(receive, execute, poison, end), its lease, and the reaper's two stores
(`ReapPhase`, `ReapTerminal`). The gate is tokio's mutex (external): commands and
shutdowns queue for it (`waiters`, state `gating`) and get it in that order; an
admitted command keeps it while it waits for room in the channel. A cancelled caller
leaves the queue, or gives the gate back. If its command is already in the channel
it becomes `abandoned`: the command is executed all the same. Any command
may panic. A start that fails before the worker is ready is left out.

**Singleflight** and **SingleflightHistory**. `join`, the `OnceCell` protocol
(external: one permit, first result wins, permit returned when the initializer
is dropped), cancellation, and the lease drop. A flight is named by the call that
created it, which is the identity `Arc::ptr_eq` compares. The history module
records who had returned before a call joined.

**RefreshScheduler** (**MCRefreshScheduler**). Instants are kept relative to now:
`due` is the time left, `last` the time since completion up to `AgeCap` (no
lifetime in the model is longer, so older completions behave alike); `Never` is
the `None` of an unrepresentable deadline. `Dispatch` is one whole pass from the
top of the loop to its `select`; the other actions are the `select`'s branches.
`owed` is a history variable: stations without a refresh started since the last
date change the loop saw. The two error branches (the date cannot be computed,
the watch is closed, which needs the engine itself to be gone) are left out.

**EngineServer** (**MCEngineServer**). One engine process from binding its
sockets to the value `run_engine_sockets` returns. The main function's phases are
those of the code (bind, start, wait, cancel, drain the tasks, close the
database, stop the publisher, close the sockets); each of its waits has a step for
success and one for the deadline. Requests are tasks under the concurrency
permits: received, handled, answered, or dropped by the timeout, by an abort or
by a panic. `Handle` is the envelope: signature, schema, owner token, and which
replies carry an exit. The reply is sent before the exit is requested, and a
failed send means no exit. The event bus is bounded and drops its oldest event;
work events that follow the terminal event are counted and bounded.
What a handler computes is abstract: it succeeds, fails, or publishes.

### The engine's data services

**Catalog**. A request for cities, a fuzzy search or the resolution of a station
needs the province list and then one, some or all city lists. `job[r][k]` is a
request's work on one list: cache check, flight, permit, fetch, replacement,
re-read. Replacement is one transaction over the rows, the scope's state and the
mappings, as in `storage.rs`. The provider may move a city to another province,
lists expire, requests are cancelled.

**WeatherService**. Requests with and without refresh for one station over its
history rows, the flight, the fallback to the latest row, `RefreshCompletionGuard`
and the events; and the migration of the rows to another timezone, where two
rows can fall on one date.

**TemperatureHistory**. What the rows hold: the day's high carried over from the
cached row (read before, and written after, other fetches), alerts and air
quality borrowed from the parent for the answer only, and the history read page
by page. Dates of upstream have no year, so a day is compared modulo
`YearLength`.

**NmcProvider**. The calls with their retries on connection errors only, the
download with its declared and its actual length, the catalog rows, and the
mapping of a weather document section by section with its warnings. JSON values
are records by kind, scalars are named by what the conversions tell apart;
`Values` is the set of those a document may be made of, and `IsMissing` a function
over it. Of the fields of a section that are converted alike, a few stand for all.

**ResourceCache**. `last_used` counters become recency
orders. A body is a version of a resource, its size standing for the length and
MIME type the client compares. One GET_RESOURCE round trip is one step, split by
the plan `begin_fetch` returns. A fetch task stores the body in one step and
calls `finish_fetch` in another, as the code does with two lock acquisitions.

**FiniteLists**. What `retain`, `filter` and `sum` do to a list, for ResourceCache,
NmcProvider and StationCli. They are functions over the prefixes of the list,
because the library's `SelectSeq` and `FoldLeft` have no meaning to the prover.

### Processes and files of a host

**Daemon**. The lock file is an inode behind a path. Acquisition (open, lock,
compare the path's inode, write metadata) and observation (lock attempt,
metadata, endpoint, second sample) are one step per system call. Engines start,
bind, restart and end; renderers probe, adopt an engine or start their own and
stop it when they close; the stop command sends the token it read in the lock.
`stops` and `lost` are history variables.

**ServiceInstall**. Components on disk, manifest
entries, the service's process, and the command being executed with its next
step. Both backends; every operation is a step, every step may fail, cleanup goes
on past a failing deletion and keeps its entry. The service's own engine records
its files in the manifest at start, in the order of `runtime.rs`.

**Startup**. Builds of different age start, crash and start again on one config
document and one database: config migration, normalisation and write-back, then
the schema migrations, each with its record in one transaction.

### Renderers

**ClientSession**. Registry critical sections are single steps; what follows the
unlock (answers of `fail_all`, the shutdown signal, the wait for completion) is a
step of its own. Requests can be lost, answered late, or never.

**Tui**. The reducer over keys, effect results, engine events and ticks, with its
tokens; effects are in flight until their result is reduced, in any order, or until
their task panics (`EffectPanics`), of which only a log line is left. `panicked`
is a history variable: the loads and updates lost that way. The profile `release-lto-static`
aborts the process on a panic; every other build goes on as modelled.

**Gui**. Window commands over the session, the set of configured names, the update
lock and the cache file, with process end and start in between, while other clients
change the engine's list. `settled` is a ghost variable: no list but the engine's
is in force and the cache was pruned to it.

**StationCli**. `search`, `list` and the commands that read, change and replace the
station list; the engine's candidate ranking, its page, and the client that
filters, joins and asks for the next page, while the catalog may be replaced.

### Modules for TLC

**MCDaemonHost** (Daemon, ServiceInstall, Startup), **MCDataServices** (Catalog,
WeatherService), **MCSnapshotContent** (NmcProvider, TemperatureHistory,
ResourceCache) and **MCRenderers** (Tui, Gui, StationCli) put modules that answer
one group of questions into one run. They are not compositions: a behaviour
exercises one of the modules while the others stay in an initial state. A property
of one module is checked over exactly that module's reachable states.

Names starting with a definition's name and an underscore (such as
`IsSentinel_TextOnly`) are defects the properties are meant to exclude. They are used by no
specification; substituting one for its definition makes TLC report the property
named in `PROJECT.json`.

## The runs

| run | properties | what it shows | bounds |
|---|---|---|---|
| `timezone_commit` | StartupNeverRefused, ServingConsistent, RefinesAtomicConfig, SyncSettles, LockReleased | startup is never refused whatever crashed; with the mutex free and no exit requested all parties agree on the timezone; database and file behave as one atomic record; markers and mutex are always cleaned up | 3 requests of any kind, 2 timezones, 2 hot values, channel of 2, 2 crashes or I/O failures: enough for a failed bundle, an update in the window before the poison, and a crash during the recovery that follows |
| `db_actor` | NoCommandForgotten, ShutdownMeansReleased, ShutdownReturns | every sent command is answered; lease, phase and outcome are released in order; every shutdown that is not cancelled returns, also one that waits for the gate | 3 commands (one bundle), 2 shutdowns, channel of 1, 2 handles: a shutdown behind a sender that holds the gate on the full channel, a poison racing a shutdown, a panic with a command queued |
| `singleflight` | NoLeakedFlight, CallsReturn | no leaked flight, every call returns | 4 calls, 2 keys: a runner, a waiter that takes over, one leaving and one joining |
| `singleflight_overlap` | OnlyOverlappingShare | violation, see Findings | 3 calls, 1 key |
| `refresh_safety` | LoopConsistent | the job limit, no station stuck in flight, no forgotten date refresh, no oversleeping | district, parent and city, 2 job slots, lifetimes 0, 2 and unrepresentable, 2 config changes (disable and enable while a job runs), 1 date change |
| `refresh_liveness` | DueIsRefreshed | a due station is refreshed | same stations, shorter times, 1 config change |
| `engine_server` | ExitIsWarranted, DbClosesAfterWork, TerminalEventSent, ServerReturns | an exit follows the reply its client was sent; the database is closed after all work; the last event reaches the wire; the server returns whatever hangs | 2 requests over 1 permit, a restart, the owner's shutdown and a stranger's, one side task, a bus of 2 that overflows, 1 work event after the terminal one: a request waiting for a permit while another is aborted, an exit racing a signal and a failing task |
| `client_session` | OwnResponse, WaiterReachable, ClosedMeansStopped, SessionEnds | a call gets its own response; nobody waits for an answer that cannot come; close means stopped; a failed session ends every call | 2 calls, 1 closer, an outbox of 1: a call blocked on the outbox while the session fails, a late answer to a call that timed out |
| `daemon_host` | OneSingleton, OwnedIsMine, OthersSpared, DatabaseRecorded, AllRemoved, RefusalWarranted | one engine per lock; owners and stops hit the right engine; nothing is left behind or lost track of by installation and removal; only newer files make a build refuse | a service's engine and one renderer with its own, 1 restart, 1 removal of the lock file; 4 service commands (a failed installation, a repaired one, a failed removal, a complete one); builds of two ages, 2 crashes, 1 edit by the user |
| `data_services` | ScopesReadable, LatestKept, RefreshReported, RequestsEnd | the catalog's counts and rows always agree; the newest snapshot is the one served, also after a migration; each started refresh is reported ended; catalog requests end | 2 catalog requests, 2 provinces, a city that moves once, 1 permit; 2 weather requests, 2 timezones, 1 migration, days of 2 time units, lifetime 2 |
| `snapshot_content` | CacheConsistent, TransferConsistent, RowsGenuine, HistoryPaged, SnapshotFaithful | documents are mapped without silent loss; rows hold what upstream sent; pages join without a gap; the image cache's accounting and the transfers stay right | 3 images for 2 registrations, cache of 3 chunks, bodies of 1, 2 (two versions) and 4 chunks; 2 overlapping fetches over 3 days across a year's end, pages of 1 row; documents with every kind of value in every section, nesting at most 5 deep, 2 attempts, downloads of up to 3 units |
| `renderers` | LoadTracked, SearchComplete, CachedAreConfigured, PagesCompose, ShownIsSelected | late results never replace what is shown for another selection; what is marked pending is still out, unless its own task panicked; a search lists what its text finds; the pruned cache file holds no removed station as long as the engine's list is in force; paged answers equal unpaged ones when nothing changes meanwhile | lists of 1 and 2 stations, 3 queries (one finds nothing), 4 tokens, 1 panic of a load or update; 3 concurrent window commands on 2 stations, 1 change of the list; 2 command-line programs, pages of at most 2, largest offset 8, 1 catalog change. Calls of the desktop are interchangeable: symmetry |

Deadlock is checked in `timezone_commit`, `db_actor`, `singleflight`,
`refresh_safety`, `refresh_liveness` and `engine_server`, where the modules whose
system may end have an explicit final stuttering step (`AllDone`, `Ended`,
`Stopped`, `Terminated`). It is not checked in the others: their clients may have nothing
more to ask, their session may be closed, or their bounds (commands, requests,
crashes, days, fetches) may be used up, and the properties there do not need it;
what must end is stated as liveness.

### Fairness

* TimezoneCommit: woken tasks are polled, the worker thread runs, the supervisor
  starts the engine again, and the server obeys a requested exit. No client must
  send or cancel, nothing must fail.
* DbActor: weak fairness of the worker, of the reaper and of each call once it has
  begun (OS threads and tokio's scheduler; SQLite calls return). Waiting for the
  gate needs no strong fairness, because tokio's mutex is handed on in the order of
  the waiters. No caller has to call or to cancel.
* Singleflight: weak fairness of every call's own steps; the provider's requests
  carry timeouts, so work ends.
* RefreshScheduler: weak fairness of the loop and of the end of jobs (each
  upstream request has a timeout). Strong fairness of time, of joining an ended
  job and of seeing the cancellation: `tokio::select!` polls its branches in
  random order, so a branch that is ready at every pass is taken eventually.
* EngineServer: weak fairness of the main function alone. Tasks, handlers, the
  publisher and the database may hang; the deadlines of the main function's waits are its
  own steps.
* ClientSession: the runtime polls ready futures (the supervisor, the answers of
  `fail_all`, a call whose oneshot is filled or whose outbox has room). Neither
  the engine nor any deadline is assumed to help, and nobody has to close.
* Catalog: a request or list job that can go on does, and a fetch ends by its
  own timeout. No cancellation is needed for requests to end.

### Findings

`singleflight.rs` says "Only overlapping calls share a result." The code shares a
flight, and its published result, with every call that joins while some
participant still holds a lease. TLC's counterexample: c1 works, c2 waits; c1
publishes and returns; c3 joins while c2 has not left, and gets c1's result
although c1 had returned before c3 began. The weaker statement that does hold,
that a call which finds nobody inside starts new work, is
`LaterCallStartsNewWork`, which is proved.

### What the properties leave open

* `DueIsRefreshed` is checked with one station more than job slots. Stations are
  claimed in configuration order, so with two or more beyond the slots and a
  lifetime shorter than a job the last one may wait for ever; the code promises
  nothing there.
  It is also checked with one config change. After two, a station that was disabled and
  enabled has two jobs at once, and the fairness above, which says that some ended
  job is joined, not which, would let the older one keep its slot for ever.
  Tokio's `JoinSet` hands ended tasks out in the order of their notification, but
  strong fairness of each job is beyond TLC's reach at these bounds.
* A panic in the provider leaves a resource pending for good: its registration is
  never evicted and never fetched again. `CacheConsistent` counts the panicked
  task as the one behind the mark.
* Two versions of one resource with equal length and type are not told apart by
  the client, and `TransferConsistent` does not ask it.
* Completed writes are durable in the model. The config's directory is not synced
  after the rename, so a power loss could undo it; that is outside the model.
* `RowsGenuine` excepts two cases the code allows: of two overlapping fetches of a
  station the later write may drop the day's high, and an undated chart fetched
  before midnight and stored after it counts for the new day.
* `SnapshotFaithful` does not count an alert without its text: it is dropped
  without a warning.
* `OneSingleton` excepts an engine whose lock file was unlinked after its last
  check; `AllRemoved` excepts the lock file of an engine that died between creating
  and recording it.
* Two command-line programs that change the station list at the same time may
  undo each other's change: they read, change and replace without a version.
* `PagesCompose` says nothing of a `list` whose pages straddle a change of the
  stations: the client only appends pages (`client.rs:242`), so after a move between
  two of them a station may be listed twice or not at all.
* When a task of the terminal panics, `LoadTracked` excepts what that task was to
  answer: `TaskFailed` is only logged (`events.rs:147`). A load stays marked
  pending, and the minute's tick does not ask again, until the selection changes or the
  user refreshes; an update of the list stays pending until the program
  ends and keeps every later one back.
* `CachedAreConfigured` excepts an older list put in force after the engine's has
  changed. `bootstrap` takes no `config_update` lock, and none reaches other
  clients: a bootstrap that has read the old list may install it
  (`gui lib.rs:349`) after an update has pruned to the new one, and a removed station
  is then cached again until the next prune. TLC reports it if `Configure` leaves
  `settled` as it is.
* Replacing the cities of a province deletes its station mappings in the same
  transaction, so that a removed station id cannot outlive its catalog
  (`storage.rs:363`). A request that read the old cities before and stores its
  mapping after the replacement (`fuzzy.rs:145`) brings the old id back until the
  next replacement, and `Lookup` answers from it. Catalog has this interleaving;
  no property excludes it.
* A desktop command that starts after `shutdown_owned` took the session opens a
  new one, and may start an engine nobody stops (`gui lib.rs:133`).
* A weather request of the terminal with nothing selectable does not change the
  load token (`tui.rs:599`); `LoadTracked` is about requests that were sent.

## The proofs

Seven modules prove safety properties for all values of the constants:

| proofs | of |
|---|---|
| `TimezoneCommit_proofs` | TimezoneCommit, and that it implements AtomicConfig |
| `EngineServer_proofs` | EngineServer, DbActor |
| `EngineWork_proofs` | Singleflight, RefreshScheduler, ResourceCache |
| `ClientSession_proofs` | ClientSession |
| `DaemonHost_proofs` | Daemon, ServiceInstall, Startup |
| `DataServices_proofs` | Catalog, WeatherService, TemperatureHistory, NmcProvider |
| `Renderers_proofs` | Tui, Gui, StationCli |

An eighth, `FiniteLists_proofs`, has the lemmas about filters and sums over lists
that three of them use. Every invariant a run checks is a theorem here.

### Assumptions

Each module names what it assumes of its constants, and TLC evaluates it in the
module's run. Most of it is typing: positive capacities, natural bounds, `None` and
the like not among the values they are told apart from (they are Rust's `None`).
The others are:

* `CallsAssumption` (Singleflight): `Calls` is finite, because participants are
  counted.
* `ServerAssumption`: fewer work events follow the terminal event than the bus
  holds. What can still publish then is a request being aborted, of which there are at
  most 64, each with a few events, on a bus of 256. Work events before the
  terminal one are unlimited.
* `BuildsAssumption` (Startup): a later build knows at least the config and schema
  versions of an earlier one, as versions are only ever added.
* `TuiAssumption`: the engine's answer to a query lists no station twice, because
  `search_candidates` keeps one candidate per key. It may be empty.
* `ReportsAssumption` (TemperatureHistory): a snapshot carries at most one alert, as
  `map_alert` makes at most one of a document, and its entries are of days near its
  own: the year chosen for a month and day is the same when the answer is stored
  a few days later. An answer with a month and day half a year away could be read as
  last year's when fetched and as this year's when stored; upstream reports a
  week.
* `JsonAssumption` (NmcProvider): JSON values are finite trees. Each has a depth above
  that of its parts, up to a bound, as serde_json refuses a document that nests
  deeper than its recursion limit.
* `CliAssumption` (StationCli): the configured list names no station twice, because
  `validate` refuses such a configuration (`conf/src/load.rs:398`); a catalog is finite.

### The arguments

None of the properties is inductive by itself. Each module states its invariant
as a conjunction of named parts, which TLC has checked on the module's instance:

* TimezoneCommit: `LockInv` (the owner of the mutex is exactly the request or
  command carrying its guard) yields `QueueInv` (at most one bundle at a time).
  `ProgressInv` records what each request knows; because of the mutex its
  candidate is never stale, which is `NoLostUpdate`. `Recoverable` (a marker
  always names the database's timezone; without one the file agrees) holds in
  every state, hence after a crash in any state, and gives `StartupNeverRefused`
  with `PhaseInv`. `AheadInv` says when the database may run ahead of the live
  config, and gives `ServingConsistent` and `PoisonRequestsRestart`.
  `ImplementsAtomicConfig` shows, one lemma per group of actions, that the two
  commits map to commits of `AtomicConfig` and all other steps only open or close
  requests.
* DbActor: `SentInv` (a sent command is answered, queued or executing) and
  `EndInv` (worker end, lease, phase and outcome in this order).
* Singleflight: `LeaseInv` (everybody inside holds the registered flight),
  `PermitInv` (the permit's holder is the running call) and `UnusedInv` (a flight
  nobody created has no result), together with the count of `NoLeakedFlight`,
  whose step cases use the cardinality theorems for adding and removing one call.
* RefreshScheduler: `LoopInv`, which is `LoopConsistent` and that the jobs are a
  finite set. Three facts carry it. The order `enabled_stations` computes is a
  sequence of known stations: it is written as a recursive function over the
  configured list, and that the function exists is shown by assuming a least length
  at which it does not. A claim takes at most the free slots, because the claimed
  stations are the first ones of the order and each one's predecessors are counted;
  so spawning never passes the limit, and a free slot's number exists for each new
  job (there are more numbers than jobs). The sleep is the least of the waits, and
  time takes the same from it as from every deadline.
* ResourceCache: `TransferInv` (all chunks held are of bodies as long as the
  total, which is set with the first of them; a transfer is done when it holds
  that many). `CacheConsistent` needs no strengthening, but each step has to say
  what it does to the byte count: that making a body the most recent, evicting the
  least recent ones and dropping an expired one change the sum over the recency
  order by exactly what the counter is changed by, and that an order without
  duplicates stays one.
* EngineServer: `PhaseInv` (what is started, stopped and closed in each phase of
  the main function, and to what a failure or an exit is owed), `RequestInv` (what
  an accepted answer says of its message, and that the exit stands for one that
  was sent), `OrderInv` (lifecycle events stay in order on the bus and on the wire,
  also when a full bus drops its oldest) and `TerminalInv` (the terminal event is
  on the bus or on the wire as soon as it is published, and too close to the bus's
  end to be pushed off).
* ClientSession: `IdInv` (request ids are drawn below the counter and never
  shared, and a oneshot holds only its own call's response) and `FailureInv` (the
  registry fails once; before that `fail_all` has taken nothing, the supervisor
  goes on only when its own `fail_all` has answered, and completes when every task
  is joined), together with `WaiterReachable` itself.
* Daemon: `LockInv` (an inode is never named twice; an engine past the lock holds
  the file it opened, which is the path's unless it was removed under it) and
  `OwnerInv` (an owner is past probing and was answered by its own child; a stop's
  token names the engine that answered its probe).
* ServiceInstall: `ServiceInv` is `StepInv` (a command's steps are those of its
  verb), `UnitInv` (the service's process runs only where there is a unit, so a
  removal that finds none to stop has nothing to stop), `RecordInv` (the database
  is recorded before it is created) and `RemovalInv` (what a full removal leaves
  is what it has still to do or could not do).
* Startup: `StartupInv` (the document is the user's or one that a build up to the
  newest wrote; the schema history has no gap, has its tables and is not ahead of
  the newest build).
* Catalog: `ScopesReadable` with `WriteInv` (what a leader is about to write are
  cities); the work is in the replacement's transaction, which is rolled back when
  another scope still has one of its cities, so that no other count changes.
* WeatherService: `EventInv` (a request owes a terminal event exactly while its
  guard is armed) and `RowInv` (no row is newer than the newest snapshot, which is
  still there, and every row stands under its date); a migration that puts two rows
  on one date keeps the newer. Extrema over rows are taken from the
  well-foundedness of the naturals (`WFMin` with `NatLessThanWellFounded`).
* TemperatureHistory has two invariants. `PagingInv`: a date the client waits for is
  of a day gone by, so no fetch writes its row any more; it is in the points already,
  or still before the cursor and not among them. A page is the newest dates before
  the cursor, so a date that is stored but not on the page is older than all of
  it: it would otherwise be among those counted. `SnapshotInv`: a snapshot on its way
  into the table (`OnItsWay`) is genuine on whatever day it will be stored, and on a day
  without a race it is the only one and was merged with the row it replaces. The
  high that a merge fills in was sent, because the high of any snapshot is that of
  one of its entries. `merge_parent_alerts` is a recursive function over the
  parent's alerts, shown to exist and to add none twice by assuming a least length
  at which it does not.
* NmcProvider: `ReplyInv` (a reply of the weather endpoint is what `MapWeather` makes
  of the body) reduces `SnapshotFaithful` to a theorem about the mapping of any
  document. That `IsMissing`, which looks into nested values, has the meaning its
  recursion says is shown in rounds, one per depth: each round decides the values
  nesting that deep from what the rounds before decided. The mapping is then
  followed from the inside out by one predicate, `Tells`: an outcome has a value
  only if the document holds one, and if it has none although the document does, it
  warns. It holds of the lookup under an alias, of the scalar conversions and of a
  section, and is kept by the ways sections are combined; for lists it becomes
  that there are at most as many entries as places that hold one, and exactly as
  many unless there is a warning.
* Tui: `ListInv`, `CursorInv` and `MoveInv` (selection, cursor and move draft are
  in their lists), `LoadInv` (a load with the current token is for
  the selected station; a panic moves an effect to the history and changes nothing
  else), `TaskInv`, `PagesInv` and `ResultsInv`: the pages in the
  channel with the current token continue the results where they end, one after
  the other, so appending one gives the prefix of the answer `SearchComplete`
  asks for. `CursorInv` also shows that `Vec::remove` in `delete_selected` has a
  valid index, which no run asks.
* Gui: `CallInv` (a call at work on the cache holds its lock; while `settled`, the
  names are no others than the engine's, and the station about to be stored is one
  of them). The lock is taken before the names are looked at, so that no prune comes
  between the look and the store.
* StationCli: `CliInv`. Its parts are that the configured list stays one without
  duplicates, `CommandOk` (the first page asked for brought at least one item and
  every later one was full, so the bound on the number of requests is never what ends
  a search), and `Gathered` (while the catalog stays, the stations
  gathered are what is found among the candidates before the offset). The candidates
  are ranked with distinct keys, so a page and the rest after it are the candidates
  from the offset on (`PageJoins`), and once the limit is reached the pages not asked
  for would change nothing (`LaterPagesChangeNothing`).
* FiniteLists: the length, order, elements and occurrences of a filtered list, what
  filtering twice or appending does, and when two lists have the same sum. A fact about
  all lengths is proved by counting up: the set of lengths for which it fails has no
  least element. The library's induction theorems, which take an operator, are not
  needed for this.

In each file there is one lemma per action, or per group of actions that
disturb the same part, then the step for `Next` and the theorems.

Some of these arguments corrected the models. `RowsGenuine` said nothing of an entry
without a date until its induction asked what such an entry counts for; it now covers
those too. `CursorInv` was not inductive because
the cursor after a removal from a list of one was computed without
`saturating_sub`, and `PagesInv` because an answer that finds nothing had no
page. These now follow the source, and the renderers' run includes a query that
finds nothing.

### Coverage

Proved, and therefore not repeated in a run: the type invariants of
TimezoneCommit, DbActor, Singleflight, EngineServer, ClientSession and StationCli,
`LiveMatchesFile`, `PoisonRequestsRestart`, `NoLostUpdate`, `OneWorkPerKey`,
`LaterCallStartsNewWork`, `LeaseCoversWork`, `PhaseOnlyAdvances`,
`StoppedWhileRemoving` and `CursorStaysInTheList`.

Only model-checked are the liveness properties: fairness and ENABLED are beyond the
prover. They are `SyncSettles`, `LockReleased`, `ShutdownReturns`, `CallsReturn`,
`DueIsRefreshed`, `ServerReturns`, `SessionEnds` and `RequestsEnd`. The
other checks of TLC remain useful beside the theorems: they show that the interesting
states are reached at all.

## Not modelled

Drawing, key bindings, the log view, command-line parsing, logging, the proxy
settings and build metadata change no state that a correctness property here is
about. Wire encoding and signatures are pure functions whose content is in the
encoding; a message is either valid or not. The fetch log is written and never
read by the program. The desktop's window settings are one file with one writer.
The service managers of the operating systems are external. Power loss that
reorders durable writes is outside every module.

## Plan

Done: every component of the table above has its module, and the proofs above.
Left: a composition of WeatherService with Singleflight's promise in the place of
its own flight.
