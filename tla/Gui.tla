-------------------------------- MODULE Gui --------------------------------
(***************************************************************************)
(* The desktop renderer's commands (gui/src-tauri/src/lib.rs) and its      *)
(* weather cache (gui_cache.rs).  Commands of the window run concurrently  *)
(* over one GuiState: the session, the names of the configured stations,   *)
(* a lock for configuration updates and a lock for the cache file, which   *)
(* outlives the process.  A snapshot is abstracted to its station; whether *)
(* the date changed since a row was written is a choice made when the rows *)
(* of other dates are dropped.                                             *)
(***************************************************************************)
EXTENDS Naturals, FiniteSets

CONSTANTS
    Calls,      \* commands and forwarded events in progress at one time
    Stations,   \* station names
    MaxSets     \* bound on configuration changes

Nobody == "nobody"   \* the lock is free

ASSUME GuiAssumption == Nobody \notin Calls

VARIABLES
    engineStations,  \* the stations of the engine's configuration
    changes,         \* configuration changes so far, bounded by MaxSets
    open,            \* the GUI process runs
    session,         \* "none", "open"; GuiState.session
    shutdownStarted,
    cachedNames,     \* cached_station_names
    rows,            \* weather_snapshot_cache: the stations in it
    cacheLock,       \* holder of gui_cache_update
    configLock,      \* holder of config_update
    call,            \* call[c]: [kind, pc, names, station, stale]
    settled          \* ghost: no list but the engine's is in force; it was pruned to

guiVars == <<engineStations, changes, open, session, shutdownStarted, cachedNames, rows,
             cacheLock, configLock, call, settled>>
guiState == <<session, shutdownStarted, cachedNames>>
world == <<engineStations, changes, open>>

Idle == [kind |-> "none", pc |-> "idle", names |-> {}, station |-> Nobody, stale |-> FALSE]

GuiTypeOK ==
    /\ engineStations \subseteq Stations /\ cachedNames \subseteq Stations
    /\ rows \subseteq Stations
    /\ cacheLock \in Calls \cup {Nobody} /\ configLock \in Calls \cup {Nobody}

GuiInit ==
    /\ engineStations = Stations /\ changes = 0
    /\ open = TRUE /\ session = "none" /\ shutdownStarted = FALSE
    /\ cachedNames = {} /\ rows = {}
    /\ cacheLock = Nobody /\ configLock = Nobody
    /\ call = [c \in Calls |-> Idle]
    /\ settled = FALSE

At(c, pc) == open /\ call[c].pc = pc
Goto(c, pc) == call' = [call EXCEPT ![c].pc = pc]
End(c) == call' = [call EXCEPT ![c] = Idle]

\* The front end invokes a command; an engine event comes the same way as a
\* snapshot a command asked for, and needs no connection of its own.
Invoke(c, kind) ==
    /\ open /\ call[c] = Idle
    /\ call' = [call EXCEPT ![c] = [Idle EXCEPT !.kind = kind,
                   !.pc = IF kind = "update" THEN "lockConfig" ELSE "connect"]]
    /\ UNCHANGED <<world, guiState, rows, cacheLock, configLock, settled>>

\* update_stations serializes under config_update.
LockConfig(c) ==
    /\ At(c, "lockConfig") /\ configLock = Nobody
    /\ configLock' = c
    /\ Goto(c, "connect")
    /\ UNCHANGED <<world, guiState, rows, cacheLock, settled>>

Unlocked(c, lock) == IF lock = c THEN Nobody ELSE lock

\* client(): the session there is, or a new one; the connection may fail.
Connect(c, ok) ==
    /\ At(c, "connect")
    /\ IF session = "open" \/ ok
       THEN /\ session' = "open"
            /\ Goto(c, IF call[c].kind = "weather" THEN "fetch"
                       ELSE IF call[c].kind = "update" THEN "commit" ELSE "getConfig")
            /\ UNCHANGED configLock
       ELSE End(c) /\ configLock' = Unlocked(c, configLock) /\ UNCHANGED session
    /\ UNCHANGED <<world, shutdownStarted, cachedNames, rows, cacheLock, settled>>

\* get_weather's answer or a weather event: a snapshot, stale or not.
SnapshotArrives(c, station, stale) ==
    /\ At(c, "fetch")
    /\ call' = [call EXCEPT ![c].pc = "lockCache", ![c].station = station, ![c].stale = stale]
    /\ UNCHANGED <<world, guiState, rows, cacheLock, configLock, settled>>

\* bootstrap: get_config.
GetConfig(c) ==
    /\ At(c, "getConfig")
    /\ call' = [call EXCEPT ![c].pc = "configure", ![c].names = engineStations]
    /\ UNCHANGED <<world, guiState, rows, cacheLock, configLock, settled>>

\* update_stations: the engine commits the new station list.
CommitConfig(c, names) ==
    /\ At(c, "commit") /\ changes < MaxSets
    /\ engineStations' = names /\ changes' = changes + 1
    /\ call' = [call EXCEPT ![c].pc = "configure", ![c].names = names]
    /\ settled' = (settled /\ names = engineStations)
    /\ UNCHANGED <<open, guiState, rows, cacheLock, configLock>>

\* The request to the engine fails; the guards of the locks are dropped.
RequestFails(c) ==
    /\ open /\ call[c].pc \in {"fetch", "getConfig", "commit"}
    /\ End(c) /\ configLock' = Unlocked(c, configLock)
    /\ UNCHANGED <<world, guiState, rows, cacheLock, settled>>

\* configure_cached_stations.  Nothing tells the call that the engine's list
\* has changed since it was answered.
Configure(c) ==
    /\ At(c, "configure")
    /\ cachedNames' = call[c].names
    /\ settled' = (settled /\ call[c].names = engineStations)
    /\ Goto(c, "lockCache")
    /\ UNCHANGED <<world, session, shutdownStarted, rows, cacheLock, configLock>>

\* Defect considered: the names are looked at before the lock is taken.
LockCache_ChecksFirst(c) ==
    /\ \/ /\ At(c, "lockCache") /\ call[c].kind = "weather"
          /\ IF call[c].station \in cachedNames THEN Goto(c, "checked") ELSE End(c)
          /\ UNCHANGED cacheLock
       \/ /\ \/ At(c, "checked")
             \/ At(c, "lockCache") /\ call[c].kind # "weather"
          /\ cacheLock = Nobody /\ cacheLock' = c
          /\ Goto(c, IF call[c].kind = "weather" THEN "store" ELSE "prune")
    /\ UNCHANGED <<world, guiState, rows, configLock, settled>>

LockCache(c) ==
    /\ At(c, "lockCache") /\ cacheLock = Nobody
    /\ cacheLock' = c
    /\ Goto(c, IF call[c].kind = "weather" THEN "check" ELSE "prune")
    /\ UNCHANGED <<world, guiState, rows, configLock, settled>>

\* cache_weather_if_configured, after the lock: the names are looked at.
CheckNames(c) ==
    /\ At(c, "check")
    /\ IF call[c].station \in cachedNames
       THEN Goto(c, "store") /\ UNCHANGED cacheLock
       ELSE End(c) /\ cacheLock' = Nobody
    /\ UNCHANGED <<world, guiState, rows, configLock, settled>>

\* DELETE ... WHERE local_date <> ?1: midnight has passed, or it has not.
OfToday == {rows, {}}

\* store: a stale snapshot is not kept; other dates go; one transaction.
StoreDone(c, ok) ==
    /\ At(c, "store")
    /\ IF ok /\ ~call[c].stale
       THEN \E kept \in OfToday : rows' = kept \cup {call[c].station}
       ELSE UNCHANGED rows
    /\ End(c) /\ cacheLock' = Nobody
    /\ UNCHANGED <<world, guiState, configLock, settled>>

\* load_today: other dates and unconfigured stations go; one transaction.
PruneDone(c, ok) ==
    /\ At(c, "prune")
    /\ IF ok THEN \E kept \in OfToday : rows' = kept \cap call[c].names ELSE UNCHANGED rows
    /\ settled' = (settled \/ (ok /\ call[c].names = engineStations /\ cachedNames = engineStations))
    /\ End(c) /\ cacheLock' = Nobody /\ configLock' = Unlocked(c, configLock)
    /\ UNCHANGED <<world, guiState>>

\* stop_engine and shutdown_owned take the session; commands go on.
TakeSession(exiting) ==
    /\ open /\ session = "open"
    /\ exiting => ~shutdownStarted
    /\ session' = "none"
    /\ shutdownStarted' = (shutdownStarted \/ exiting)
    /\ UNCHANGED <<world, cachedNames, rows, cacheLock, configLock, call, settled>>

\* The process ends, in an orderly way or not: what ran is gone, the file stays.
ProcessEnds ==
    /\ open /\ open' = FALSE
    /\ session' = "none" /\ shutdownStarted' = FALSE /\ cachedNames' = {}
    /\ cacheLock' = Nobody /\ configLock' = Nobody
    /\ call' = [c \in Calls |-> Idle]
    /\ UNCHANGED <<engineStations, changes, rows, settled>>

ProcessStarts ==
    /\ ~open /\ open' = TRUE
    /\ UNCHANGED <<engineStations, changes, guiState, rows, cacheLock, configLock, call,
                   settled>>

\* Another renderer changes the engine's configuration.
OtherClientCommits(names) ==
    /\ changes < MaxSets /\ names # engineStations
    /\ engineStations' = names /\ changes' = changes + 1
    /\ settled' = FALSE
    /\ UNCHANGED <<open, guiState, rows, cacheLock, configLock, call>>

GuiNext ==
    \/ \E c \in Calls :
          \/ \E kind \in {"bootstrap", "update", "weather"} : Invoke(c, kind)
          \/ LockConfig(c) \/ GetConfig(c) \/ RequestFails(c) \/ Configure(c) \/ LockCache(c)
          \/ CheckNames(c)
          \/ \E ok \in BOOLEAN : Connect(c, ok) \/ StoreDone(c, ok) \/ PruneDone(c, ok)
          \/ \E s \in Stations, stale \in BOOLEAN : SnapshotArrives(c, s, stale)
          \/ \E names \in SUBSET Stations : CommitConfig(c, names)
    \/ \E exiting \in BOOLEAN : TakeSession(exiting)
    \/ ProcessEnds \/ ProcessStarts
    \/ \E names \in SUBSET Stations : OtherClientCommits(names)

GuiSpec == GuiInit /\ [][GuiNext]_guiVars

(* Once the engine's list of stations is in force and the cache was pruned *)
(* to it, the cache file holds no other station's weather, until the list  *)
(* changes or an older one is put in force: a snapshot on its way when the *)
(* list changed does not put a removed station back, and no end of the     *)
(* process does (cache_weather_if_configured, load_today).  A command that *)
(* has read or committed an older list may put that one in force after the *)
(* change: bootstrap takes no config_update lock, and no lock keeps other  *)
(* clients out.  A removed station may then come back until the next prune.*)
CachedAreConfigured == settled => rows \subseteq engineStations

\* What makes it inductive: a call at work on the cache holds the lock, so
\* only one is; while the engine's list is in force the names are no others,
\* and the station about to be stored is one of them.
CallInv ==
    /\ DOMAIN call = Calls
    /\ settled => cachedNames \subseteq engineStations
    /\ \A c \in Calls :
          /\ DOMAIN call[c] = DOMAIN Idle
          /\ call[c].pc \in {"check", "store", "prune"} => cacheLock = c
          /\ settled /\ call[c].pc = "store" => call[c].station \in engineStations
=============================================================================
