-------------------------- MODULE Renderers_proofs --------------------------
(***************************************************************************)
(* Proofs about the desktop renderer's cache (Gui), the interactive        *)
(* terminal renderer (Tui) and the terminal program's commands             *)
(* (StationCli), for any number of concurrent commands, any station lists, *)
(* any catalogs, page sizes and limits, and any answers of the engine.     *)
(***************************************************************************)
EXTENDS Tui, Gui, StationCli, FiniteLists_proofs, SequenceTheorems

----------------------------------------------------------------------------
(* Gui: the cache file.                                                    *)

Critical == {"check", "store", "prune"}

\* What CallInv says of a call k of c, under a lock, the engine's list and the ghost.
CallOk(c, k, lock, names, pruned) ==
    /\ DOMAIN k = {"kind", "pc", "names", "station", "stale"}
    /\ k.pc \in Critical => lock = c
    /\ pruned /\ k.pc = "store" => k.station \in names

LEMMA CallParts ==
    CallInv <=> /\ DOMAIN call = Calls
                /\ settled => cachedNames \subseteq engineStations
                /\ \A c \in Calls : CallOk(c, call[c], cacheLock, engineStations, settled)
BY DEF CallInv, CallOk, Critical, Idle

LEMMA IdleOk ==
    ASSUME NEW c, NEW lock, NEW names, NEW pruned
    PROVE  CallOk(c, Idle, lock, names, pruned)
BY DEF CallOk, Idle, Critical

\* A call at work on the cache keeps every other one out of it.
LEMMA OneAtWork ==
    ASSUME CallInv, NEW c \in Calls, NEW d \in Calls, c # d,
           call[c].pc \in Critical \/ cacheLock = Nobody
    PROVE  call[d].pc \notin Critical
BY GuiAssumption, CallParts DEF CallOk

\* One call moves to k; the lock, the names and the ghost change with it.
LEMMA OneCallMoves ==
    ASSUME CallInv, NEW c \in Calls, NEW k, call' = [call EXCEPT ![c] = k],
           settled' => cachedNames' \subseteq engineStations',
           CallOk(c, k, cacheLock', engineStations', settled'),
           \A d \in Calls : d # c => CallOk(d, call[d], cacheLock', engineStations', settled')
    PROVE  CallInv'
<1>1. DOMAIN call' = Calls /\ call'[c] = k /\ \A d \in Calls : d # c => call'[d] = call[d]
  BY DEF CallInv
<1>2. ASSUME NEW d \in Calls PROVE CallOk(d, call'[d], cacheLock', engineStations', settled')
  BY <1>1
<1>. QED BY <1>1, <1>2 DEF CallInv, CallOk, Critical, Idle

\* A step that leaves the cache alone and the ghost no stronger than it was.
CacheIsStill ==
    /\ UNCHANGED <<cacheLock, cachedNames, rows>>
    /\ settled' => settled /\ engineStations' = engineStations

\* A call moves outside the critical steps, and nothing else of the cache does.
LEMMA OutsideMoves ==
    ASSUME CallInv, CachedAreConfigured, NEW c \in Calls, NEW k,
           call' = [call EXCEPT ![c] = k], DOMAIN k = DOMAIN Idle, k.pc \notin Critical,
           CacheIsStill
    PROVE  CallInv' /\ CachedAreConfigured'
<1>1. CallOk(c, k, cacheLock', engineStations', settled')
  BY DEF CallOk, Critical, Idle
<1>2. ASSUME NEW d \in Calls PROVE CallOk(d, call[d], cacheLock', engineStations', settled')
  BY CallParts DEF CallOk, CacheIsStill
<1>3. settled' => cachedNames' \subseteq engineStations'
  BY CallParts DEF CacheIsStill
<1>4. CallInv'
  BY <1>1, <1>2, <1>3, OneCallMoves
<1>. QED BY <1>4 DEF CachedAreConfigured, CacheIsStill

\* A holder of the lock ends its work.
LEMMA HolderEnds ==
    ASSUME CallInv, NEW c \in Calls, call[c].pc \in Critical, End(c), cacheLock' = Nobody,
           settled' => cachedNames' \subseteq engineStations'
    PROVE  CallInv'
<1>1. ASSUME NEW d \in Calls, d # c
      PROVE  CallOk(d, call[d], cacheLock', engineStations', settled')
  <2>1. call[d].pc \notin Critical
    BY <1>1, OneAtWork
  <2>. QED BY <2>1, CallParts DEF CallOk, Critical
<1>. QED BY <1>1, IdleOk, OneCallMoves DEF End

GuiInv == CallInv /\ CachedAreConfigured

LEMMA GuiInitially == GuiInit => GuiInv
<1>. SUFFICES ASSUME GuiInit PROVE GuiInv
  OBVIOUS
<1>1. ASSUME NEW c \in Calls PROVE CallOk(c, call[c], cacheLock, engineStations, settled)
  BY IdleOk DEF GuiInit
<1>2. DOMAIN call = Calls /\ settled = FALSE
  BY DEF GuiInit
<1>3. CallInv
  BY <1>1, <1>2, CallParts DEF GuiInit
<1>. QED BY <1>2, <1>3 DEF GuiInv, CachedAreConfigured

\* A step of a call keeps the invariant.
LEMMA CallKeepsGuiInv ==
    ASSUME GuiInv, NEW c \in Calls,
           \/ \E kind \in {"bootstrap", "update", "weather"} : Invoke(c, kind)
           \/ LockConfig(c) \/ GetConfig(c) \/ RequestFails(c) \/ Configure(c) \/ LockCache(c)
           \/ CheckNames(c)
           \/ \E ok \in BOOLEAN : Connect(c, ok) \/ StoreDone(c, ok) \/ PruneDone(c, ok)
           \/ \E s \in Stations, stale \in BOOLEAN : SnapshotArrives(c, s, stale)
           \/ \E names \in SUBSET Stations : CommitConfig(c, names)
    PROVE  GuiInv'
<1>0. /\ CallInv /\ CachedAreConfigured
      /\ DOMAIN call[c] = {"kind", "pc", "names", "station", "stale"}
      /\ DOMAIN Idle = {"kind", "pc", "names", "station", "stale"}
      /\ DOMAIN call = Calls
  BY DEF GuiInv, CallInv, Idle
<1>1. ASSUME NEW kind \in {"bootstrap", "update", "weather"}, Invoke(c, kind) PROVE GuiInv'
  <2>. DEFINE k == [Idle EXCEPT !.kind = kind,
                       !.pc = IF kind = "update" THEN "lockConfig" ELSE "connect"]
  <2>1. DOMAIN k = DOMAIN Idle /\ k.pc \notin Critical
    BY <1>0 DEF Critical
  <2>2. call' = [call EXCEPT ![c] = k] /\ CacheIsStill
    BY <1>1 DEF Invoke, guiState, world, CacheIsStill
  <2>. HIDE DEF k
  <2>. QED BY <1>0, <2>1, <2>2, OutsideMoves DEF GuiInv
<1>2. ASSUME LockConfig(c) PROVE GuiInv'
  <2>. DEFINE k == [call[c] EXCEPT !.pc = "connect"]
  <2>1. DOMAIN k = DOMAIN Idle /\ k.pc \notin Critical
    BY <1>0 DEF Critical
  <2>2. call' = [call EXCEPT ![c] = k] /\ CacheIsStill
    BY <1>2 DEF LockConfig, Goto, guiState, world, CacheIsStill
  <2>. HIDE DEF k
  <2>. QED BY <1>0, <2>1, <2>2, OutsideMoves DEF GuiInv
<1>3. ASSUME GetConfig(c) PROVE GuiInv'
  <2>. DEFINE k == [call[c] EXCEPT !.pc = "configure", !.names = engineStations]
  <2>1. DOMAIN k = DOMAIN Idle /\ k.pc \notin Critical
    BY <1>0 DEF Critical
  <2>2. call' = [call EXCEPT ![c] = k] /\ CacheIsStill
    BY <1>3 DEF GetConfig, guiState, world, CacheIsStill
  <2>. HIDE DEF k
  <2>. QED BY <1>0, <2>1, <2>2, OutsideMoves DEF GuiInv
<1>4. ASSUME RequestFails(c) PROVE GuiInv'
  <2>1. call' = [call EXCEPT ![c] = Idle] /\ CacheIsStill
    BY <1>4 DEF RequestFails, End, guiState, world, CacheIsStill
  <2>2. Idle.pc \notin Critical
    BY DEF Idle, Critical
  <2>. QED BY <1>0, <2>1, <2>2, OutsideMoves DEF GuiInv
<1>5. ASSUME Configure(c) PROVE GuiInv'
  <2>. DEFINE k == [call[c] EXCEPT !.pc = "lockCache"]
  <2>1. /\ call' = [call EXCEPT ![c] = k] /\ UNCHANGED <<cacheLock, engineStations, rows>>
        /\ settled' => settled /\ cachedNames' = engineStations
    BY <1>5 DEF Configure, Goto, world
  <2>2. CallOk(c, k, cacheLock', engineStations', settled')
    BY <1>0, <2>1 DEF CallOk, Critical
  <2>3. ASSUME NEW d \in Calls PROVE CallOk(d, call[d], cacheLock', engineStations', settled')
    BY <1>0, <2>1, CallParts DEF CallOk
  <2>. HIDE DEF k
  <2>4. CallInv'
    BY <1>0, <2>1, <2>2, <2>3, CallParts, OneCallMoves
  <2>. QED BY <1>0, <2>1, <2>4 DEF GuiInv, CachedAreConfigured
<1>6. ASSUME LockCache(c) PROVE GuiInv'
  <2>. DEFINE k == [call[c] EXCEPT !.pc = IF call[c].kind = "weather" THEN "check" ELSE "prune"]
  <2>1. /\ call' = [call EXCEPT ![c] = k] /\ cacheLock = Nobody /\ cacheLock' = c
        /\ UNCHANGED <<cachedNames, settled, rows, engineStations>>
    BY <1>6 DEF LockCache, Goto, guiState, world
  <2>2. CallOk(c, k, cacheLock', engineStations', settled')
    BY <1>0, <2>1 DEF CallOk, Critical
  <2>3. ASSUME NEW d \in Calls, d # c
        PROVE  CallOk(d, call[d], cacheLock', engineStations', settled')
    <3>1. call[d].pc \notin Critical
      BY <1>0, <2>1, <2>3, OneAtWork
    <3>. QED BY <1>0, <3>1, CallParts DEF CallOk, Critical
  <2>. HIDE DEF k
  <2>4. CallInv'
    BY <1>0, <2>1, <2>2, <2>3, CallParts, OneCallMoves
  <2>. QED BY <1>0, <2>1, <2>4 DEF GuiInv, CachedAreConfigured
<1>7. ASSUME CheckNames(c) PROVE GuiInv'
  <2>0. call[c].pc \in Critical /\ UNCHANGED <<cachedNames, settled, rows, engineStations>>
    BY <1>7 DEF CheckNames, At, Critical, guiState, world
  <2>1. CASE call[c].station \in cachedNames
    <3>. DEFINE k == [call[c] EXCEPT !.pc = "store"]
    <3>1. call' = [call EXCEPT ![c] = k] /\ cacheLock' = cacheLock
      BY <1>7, <2>1 DEF CheckNames, Goto
    <3>2. CallOk(c, k, cacheLock', engineStations', settled')
      BY <1>0, <2>0, <2>1, <3>1, CallParts DEF CallOk, Critical
    <3>3. ASSUME NEW d \in Calls, d # c
          PROVE  CallOk(d, call[d], cacheLock', engineStations', settled')
      BY <1>0, <2>0, <3>1, CallParts
    <3>. HIDE DEF k
    <3>4. CallInv'
      BY <1>0, <2>0, <3>1, <3>2, <3>3, CallParts, OneCallMoves
    <3>. QED BY <1>0, <2>0, <3>4 DEF GuiInv, CachedAreConfigured
  <2>2. CASE call[c].station \notin cachedNames
    <3>1. End(c) /\ cacheLock' = Nobody
      BY <1>7, <2>2 DEF CheckNames
    <3>2. CallInv'
      BY <1>0, <2>0, <3>1, CallParts, HolderEnds
    <3>. QED BY <1>0, <2>0, <3>2 DEF GuiInv, CachedAreConfigured
  <2>. QED BY <2>1, <2>2
<1>8. ASSUME NEW ok \in BOOLEAN, Connect(c, ok) PROVE GuiInv'
  <2>0. CacheIsStill
    BY <1>8 DEF Connect, world, CacheIsStill
  <2>1. PICK pc \in {"fetch", "commit", "getConfig"} :
          call' = [call EXCEPT ![c].pc = pc] \/ call' = [call EXCEPT ![c] = Idle]
    BY <1>8 DEF Connect, Goto, End
  <2>. DEFINE k == [call[c] EXCEPT !.pc = pc]
  <2>2. DOMAIN k = DOMAIN Idle /\ k.pc \notin Critical /\ Idle.pc \notin Critical
    BY <1>0 DEF Critical, Idle
  <2>3. call' = [call EXCEPT ![c] = k] \/ call' = [call EXCEPT ![c] = Idle]
    BY <2>1
  <2>. HIDE DEF k
  <2>. QED BY <1>0, <2>0, <2>2, <2>3, OutsideMoves DEF GuiInv
<1>9. ASSUME NEW ok \in BOOLEAN, StoreDone(c, ok) PROVE GuiInv'
  <2>0. /\ call[c].pc \in Critical /\ call[c].pc = "store" /\ End(c) /\ cacheLock' = Nobody
        /\ UNCHANGED <<cachedNames, settled, engineStations>>
    BY <1>9 DEF StoreDone, At, Critical, guiState, world
  <2>1. CallInv'
    BY <1>0, <2>0, CallParts, HolderEnds
  <2>2. rows' \subseteq rows \cup {call[c].station}
    BY <1>9 DEF StoreDone, OfToday
  <2>3. settled => call[c].station \in engineStations
    BY <1>0, <2>0 DEF CallInv
  <2>. QED BY <1>0, <2>0, <2>1, <2>2, <2>3 DEF GuiInv, CachedAreConfigured
<1>10. ASSUME NEW ok \in BOOLEAN, PruneDone(c, ok) PROVE GuiInv'
  <2>0. /\ call[c].pc \in Critical /\ End(c) /\ cacheLock' = Nobody
        /\ UNCHANGED <<cachedNames, engineStations>>
        /\ settled' => \/ settled
                       \/ ok /\ call[c].names = engineStations /\ cachedNames = engineStations
    BY <1>10 DEF PruneDone, At, Critical, guiState, world
  <2>1. CallInv'
    BY <1>0, <2>0, CallParts, HolderEnds
  <2>2. rows' \subseteq rows /\ (ok => rows' \subseteq call[c].names)
    BY <1>10 DEF PruneDone, OfToday
  <2>. QED BY <1>0, <2>0, <2>1, <2>2 DEF GuiInv, CachedAreConfigured
<1>11. ASSUME NEW s \in Stations, NEW stale \in BOOLEAN, SnapshotArrives(c, s, stale)
       PROVE  GuiInv'
  <2>. DEFINE k == [call[c] EXCEPT !.pc = "lockCache", !.station = s, !.stale = stale]
  <2>1. DOMAIN k = DOMAIN Idle /\ k.pc \notin Critical
    BY <1>0 DEF Critical
  <2>2. call' = [call EXCEPT ![c] = k] /\ CacheIsStill
    BY <1>11 DEF SnapshotArrives, guiState, world, CacheIsStill
  <2>. HIDE DEF k
  <2>. QED BY <1>0, <2>1, <2>2, OutsideMoves DEF GuiInv
<1>12. ASSUME NEW names \in SUBSET Stations, CommitConfig(c, names) PROVE GuiInv'
  <2>. DEFINE k == [call[c] EXCEPT !.pc = "configure", !.names = names]
  <2>1. DOMAIN k = DOMAIN Idle /\ k.pc \notin Critical
    BY <1>0 DEF Critical
  <2>2. call' = [call EXCEPT ![c] = k] /\ CacheIsStill
    BY <1>12 DEF CommitConfig, guiState, CacheIsStill
  <2>. HIDE DEF k
  <2>. QED BY <1>0, <2>1, <2>2, OutsideMoves DEF GuiInv
<1>. QED BY <1>1, <1>2, <1>3, <1>4, <1>5, <1>6, <1>7, <1>8, <1>9, <1>10, <1>11, <1>12

\* Every step of the desktop renderer keeps the invariant.
LEMMA GuiStepKeeps == GuiInv /\ [GuiNext]_guiVars => GuiInv'
<1>. SUFFICES ASSUME GuiInv, [GuiNext]_guiVars PROVE GuiInv'
  OBVIOUS
<1>0. CallInv /\ CachedAreConfigured
  BY DEF GuiInv
<1>1. CASE CacheIsStill /\ call' = call
  BY <1>0, <1>1 DEF GuiInv, CallInv, CachedAreConfigured, CacheIsStill
<1>2. ASSUME ProcessEnds PROVE GuiInv'
  <2>1. DOMAIN call' = Calls /\ \A c \in Calls : call'[c] = Idle
    BY <1>2 DEF ProcessEnds
  <2>2. cachedNames' = {} /\ UNCHANGED <<engineStations, rows, settled>>
    BY <1>2 DEF ProcessEnds
  <2>3. Idle.pc \notin {"check", "store", "prune"}
    BY DEF Idle
  <2>. QED BY <1>0, <2>1, <2>2, <2>3 DEF GuiInv, CallInv, CachedAreConfigured
<1>3. ASSUME NEW exiting \in BOOLEAN, TakeSession(exiting) PROVE GuiInv'
  BY <1>1, <1>3 DEF TakeSession, world, CacheIsStill
<1>4. ASSUME ProcessStarts PROVE GuiInv'
  BY <1>1, <1>4 DEF ProcessStarts, guiState, CacheIsStill
<1>5. ASSUME NEW names \in SUBSET Stations, OtherClientCommits(names) PROVE GuiInv'
  BY <1>1, <1>5 DEF OtherClientCommits, guiState, CacheIsStill
<1>6. ASSUME UNCHANGED guiVars PROVE GuiInv'
  BY <1>1, <1>6 DEF guiVars, CacheIsStill
<1>. QED BY <1>2, <1>3, <1>4, <1>5, <1>6, CallKeepsGuiInv DEF GuiNext

(* While the engine's own list is the one in force and was pruned to, the  *)
(* cache file holds the weather of no other station: not even a snapshot   *)
(* on its way when the list changed is stored, however many commands and   *)
(* events of the window are in progress and whenever the process ends      *)
(* (cache_weather_if_configured, load_today).                              *)
THEOREM CacheFollowsTheList == GuiSpec => []CachedAreConfigured
<1>1. GuiInv => CachedAreConfigured
  BY DEF GuiInv
<1>. QED BY <1>1, GuiInitially, GuiStepKeeps, PTL DEF GuiSpec

----------------------------------------------------------------------------
(* Tui: the selection, the cursor and the lists.                           *)

\* Every nonempty set of naturals has a least element, and every bounded one a
\* greatest: what CHOOSE picks in FirstSelectable and Neighbour exists.
LEMMA LeastIndex ==
    ASSUME NEW T, T \subseteq Nat, T # {}
    PROVE  \E x \in T : \A y \in T : x <= y
<1>. DEFINE R == OpToRel(<, Nat)
<1>1. IsWellFoundedOn(R, Nat)
  BY NatLessThanWellFounded, Zenon
<1>2. \A x, y \in Nat : y < x => <<y, x>> \in R
  BY DEF OpToRel
<1>. HIDE DEF R
<1>3. PICK x \in T : \A y \in T : ~(<<y, x>> \in R)
  BY <1>1, WFMin, Zenon
<1>4. ASSUME NEW y \in T PROVE x <= y
  <2>1. ~(y < x)
    BY <1>2, <1>3, Zenon
  <2>. QED BY <2>1
<1>. QED BY <1>4

LEMMA GreatestIndex ==
    ASSUME NEW n \in Nat, NEW T, T \subseteq 1..n, T # {}
    PROVE  \E x \in T : \A y \in T : x >= y
<1>. DEFINE D == {n - t : t \in T}
<1>0. \A t \in T : t \in Nat /\ n - t \in Nat
  OBVIOUS
<1>1. D \subseteq Nat /\ D # {}
  BY <1>0
<1>2. PICK m \in D : \A k \in D : m <= k
  BY <1>1, LeastIndex
<1>3. PICK x \in T : m = n - x
  BY <1>2
<1>4. ASSUME NEW y \in T PROVE x >= y
  <2>1. n - x <= n - y
    BY <1>2, <1>3
  <2>2. x \in Nat /\ y \in Nat
    BY <1>0
  <2>. QED BY <2>1, <2>2
<1>. QED BY <1>4

\* A selection that was normalized lies in the list, or there is none.
LEMMA NormalizeRange ==
    ASSUME NEW list \in Seq(StationRow), NEW hid, NEW i
    PROVE  /\ FirstSelectable(list, hid) \in 0..Len(list)
           /\ Normalize(list, hid, i) \in 0..Len(list)
<1>1. Len(list) \in Nat
  OBVIOUS
<1>2. FirstSelectable(list, hid) \in 0..Len(list)
  <2>. DEFINE S == {j \in 1..Len(list) : Selectable(list, hid, j)}
  <2>1. CASE S = {}
    <3>1. FirstSelectable(list, hid) = 0
      BY <2>1 DEF FirstSelectable
    <3>. QED BY <1>1, <3>1
  <2>2. CASE S # {}
    <3>1. S \subseteq Nat
      OBVIOUS
    <3>2. PICK x \in S : \A y \in S : x <= y
      BY <2>2, <3>1, LeastIndex
    <3>3. \A j \in 1..(x - 1) : ~Selectable(list, hid, j)
      BY <1>1, <3>2
    <3>4. \E k \in 1..Len(list) :
             Selectable(list, hid, k) /\ \A j \in 1..(k - 1) : ~Selectable(list, hid, j)
      BY <3>2, <3>3
    <3>5. FirstSelectable(list, hid) \in 1..Len(list)
      BY <3>4 DEF FirstSelectable
    <3>. QED BY <1>1, <3>5
  <2>. QED BY <2>1, <2>2
<1>. QED BY <1>1, <1>2 DEF Normalize, Selectable

LEMMA NeighbourRange ==
    ASSUME NEW list \in Seq(StationRow), NEW hid, NEW i \in 1..Len(list), NEW step
    PROVE  Neighbour(list, hid, i, step) \in 1..Len(list)
<1>. DEFINE ok == {j \in 1..Len(list) : Selectable(list, hid, j)}
            later == {j \in ok : j > i}
            sooner == {j \in ok : j < i}
<1>1. later # {} => \E j \in later : \A k \in later : j <= k
  <2>1. later \subseteq Nat
    OBVIOUS
  <2>. HIDE DEF later
  <2>. QED BY <2>1, LeastIndex
<1>2. sooner # {} => \E j \in sooner : \A k \in sooner : j >= k
  <2>1. sooner \subseteq 1..Len(list) /\ Len(list) \in Nat
    OBVIOUS
  <2>. HIDE DEF sooner
  <2>. QED BY <2>1, GreatestIndex
<1>3. later \subseteq 1..Len(list) /\ sooner \subseteq 1..Len(list)
  OBVIOUS
<1>4. Neighbour(list, hid, i, step) =
        IF step = "down"
        THEN IF later = {} THEN i ELSE CHOOSE j \in later : \A k \in later : j <= k
        ELSE IF sooner = {} THEN i ELSE CHOOSE j \in sooner : \A k \in sooner : j >= k
  BY DEF Neighbour
<1>. HIDE DEF later, sooner
<1>5. CASE step = "down"
  BY <1>1, <1>3, <1>4, <1>5
<1>6. CASE step # "down"
  BY <1>2, <1>3, <1>4, <1>6
<1>. QED BY <1>5, <1>6

LEMMA PositionRange ==
    ASSUME NEW list \in Seq(StationRow), NEW name
    PROVE  Position(list, name) \in 0..Len(list)
<1>1. Len(list) \in Nat
  OBVIOUS
<1>. QED BY <1>1 DEF Position

\* A cursor is 1, or lies in the list it was clamped to or moved in.
InRange(i, list) == i \in Nat \ {0} /\ (i <= Len(list) \/ i = 1)

LEMMA ClampRange ==
    ASSUME NEW list \in Seq(StationRow), NEW i \in Nat \ {0}
    PROVE  /\ InRange(Clamp(list, i), list)
           /\ list # <<>> => Clamp(list, i) \in 1..Len(list)
           /\ InRange(LastIndex(list), list)
BY DEF Clamp, LastIndex, InRange

LEMMA MovedRange ==
    ASSUME NEW i \in Nat \ {0}, NEW len \in Nat, NEW step
    PROVE  /\ Moved(i, len, step) \in Nat \ {0}
           /\ Moved(i, len, step) <= len \/ Moved(i, len, step) = 1
           /\ len # 0 => Moved(i, len, step) \in 1..len
BY DEF Moved

\* Only a station has a name.
LEMMA NameFacts ==
    ASSUME NEW list \in Seq(StationRow)
    PROVE  /\ NameAt(list, 0) = NoStation
           /\ \A i \in 1..Len(list) : NameAt(list, i) = list[i].name /\ NameAt(list, i) # NoStation
<1>1. \A i \in 1..Len(list) : list[i] \in StationRow
  OBVIOUS
<1>2. \A i \in 1..Len(list) : list[i].name \in StationNames
  BY <1>1 DEF StationRow
<1>. QED BY <1>2, TuiAssumption DEF NameAt

\* The changes of a list that begin an update make lists of stations.
LEMMA ChangedLists ==
    ASSUME NEW list \in Seq(StationRow), NEW i \in 1..Len(list)
    PROVE  /\ RemoveAt(list, i) \in Seq(StationRow)
           /\ \A on \in BOOLEAN : [list EXCEPT ![i].enabled = on] \in Seq(StationRow)
           /\ [list EXCEPT ![i].enabled = ~@] \in Seq(StationRow)
<1>1. list[i] \in StationRow
  OBVIOUS
<1>2. ASSUME NEW on \in BOOLEAN PROVE [list[i] EXCEPT !.enabled = on] \in StationRow
  BY <1>1 DEF StationRow
<1>3. ASSUME NEW row \in StationRow PROVE [list EXCEPT ![i] = row] \in Seq(StationRow)
  OBVIOUS
<1>4. RemoveAt(list, i) \in Seq(StationRow)
  BY DEF RemoveAt
<1>. QED BY <1>2, <1>3, <1>4

Lists == ListInv /\ CursorInv /\ MoveInv

\* A step that leaves the list, the selection, the cursor and a move alone.
LEMMA SameLists ==
    ASSUME Lists, UNCHANGED <<stations, selected, manage>>,
           \A u \in updates' : u.stations \in Seq(StationRow),
           mode' = "move" => mode = "move" /\ UNCHANGED <<draft, pendingConfig>>
    PROVE  Lists'
BY DEF Lists, ListInv, CursorInv, MoveInv

LEMMA BegunUpdates ==
    ASSUME ListInv, NEW list \in Seq(StationRow), NEW select, BeginUpdate(list, select)
    PROVE  \A u \in updates' : u.stations \in Seq(StationRow)
BY DEF ListInv, BeginUpdate, configVars

\* What a search found so far is a list of station names.
LEMMA ResultsAreNames ==
    ASSUME ResultsInv
    PROVE  /\ search.results \in Seq(StationNames) /\ Len(search.results) = search.next
           /\ Found[query] \in Seq(StationNames)
<1>1. Found[query] \in Seq(StationNames) /\ search.next \in 0..Len(Found[query])
  BY TuiAssumption DEF ResultsInv
<1>2. search.results = SubSeq(Found[query], 1, search.next)
  BY DEF ResultsInv, SearchComplete
<1>. QED BY <1>1, <1>2

\* add_selected_result: the station found is enabled, or appended.
LEMMA AddedList ==
    ASSUME ListInv, NEW name \in StationNames, NEW i, i = Position(stations, name)
    PROVE  (IF i # 0 THEN [stations EXCEPT ![i].enabled = TRUE]
            ELSE Append(stations, [name |-> name, enabled |-> TRUE])) \in Seq(StationRow)
<1>1. stations \in Seq(StationRow) /\ i \in 0..Len(stations)
  BY PositionRange DEF ListInv
<1>2. CASE i = 0
  <2>1. [name |-> name, enabled |-> TRUE] \in StationRow
    BY DEF StationRow
  <2>2. Append(stations, [name |-> name, enabled |-> TRUE]) \in Seq(StationRow)
    BY <1>1, <2>1
  <2>. QED BY <1>2, <2>2
<1>3. CASE i # 0
  <2>1. i \in 1..Len(stations)
    BY <1>1, <1>3
  <2>2. [stations EXCEPT ![i].enabled = TRUE] \in Seq(StationRow)
    BY <1>1, <2>1, ChangedLists
  <2>. QED BY <1>3, <2>2
<1>. QED BY <1>2, <1>3

\* The cursor after a configuration result lies in the list it is about.
LEMMA CursorAfterRange ==
    ASSUME CursorInv, NEW list \in Seq(StationRow), NEW select, NEW ok
    PROVE  InRange(CursorAfter(list, select, ok), list)
<1>1. Position(list, select) \in 0..Len(list)
  BY PositionRange
<1>2. InRange(Clamp(list, manage), list)
  BY ClampRange DEF CursorInv
<1>3. InRange(LastIndex(list), list)
  BY ClampRange
<1>. QED BY <1>1, <1>2, <1>3 DEF CursorAfter, InRange

\* Every step of the terminal renderer keeps the lists, the cursor and a move.
LEMMA NextKeepsLists ==
    ASSUME Lists, ResultsInv, AppStep
    PROVE  Lists'
<1>0. /\ ListInv /\ CursorInv /\ MoveInv /\ stations \in Seq(StationRow)
      /\ selected \in 0..Len(stations) /\ manage \in Nat \ {0} /\ Len(stations) \in Nat
      /\ \A u \in updates : u.stations \in Seq(StationRow)
      /\ InRange(manage, stations)
  BY DEF Lists, ListInv, CursorInv, InRange
<1>1. CASE /\ UNCHANGED <<stations, selected, manage>> /\ updates' \subseteq updates
           /\ mode' = "move" => mode = "move" /\ UNCHANGED <<draft, pendingConfig>>
  BY <1>0, <1>1, SameLists
<1>2. ASSUME RefreshKey \/ AboutKey \/ Tick \/ IntervalPasses \/ Exit \/ WeatherEvent PROVE Lists'
  BY <1>1, <1>2 DEF RefreshKey, AboutKey, Tick, IntervalPasses, Exit, WeatherEvent,
       selectionVars, manageVars, configVars
<1>3. ASSUME \/ ExitSearch \/ SubmitSearch \/ PreviewResult \/ ApplyPage
             \/ \E step \in {"down", "up"} : SearchCursor(step)
             \/ \E kind \in SearchModes : EnterSearch(kind)
             \/ \E q \in Queries : EditQuery(q)
             \/ \E ok \in BOOLEAN : SearchTaskSends(ok)
             \/ \E ok \in BOOLEAN : \E e \in loads : ApplyWeather(e, ok)
             \/ \E ok \in BOOLEAN : \E e \in previews : ApplyPreview(e, ok)
      PROVE  Lists'
  BY <1>1, <1>3 DEF ExitSearch, SubmitSearch, PreviewResult, ApplyPage, SearchCursor,
       EnterSearch, EditQuery, SearchTaskSends, ApplyWeather, ApplyPreview, SearchModes,
       selectionVars, manageVars, configVars
<1>4. ASSUME ManageKey PROVE Lists'
  <2>1. InRange(manage', stations)
    <3>1. (IF selected = 0 THEN 1 ELSE selected) \in Nat \ {0}
      BY <1>0
    <3>. QED BY <1>0, <1>4, <3>1, ClampRange DEF ManageKey
  <2>. QED BY <1>0, <1>4, <2>1
       DEF ManageKey, Lists, ListInv, CursorInv, MoveInv, InRange, selectionVars, configVars
<1>5. ASSUME NEW step \in {"down", "up"}, SelectKey(step) PROVE Lists'
  <2>1. selected' \in 0..Len(stations)
    <3>1. selected \in 1..Len(stations) /\ selected' = Neighbour(stations, hidden, selected, step)
      BY <1>0, <1>5 DEF SelectKey, Reselect
    <3>. QED BY <1>0, <3>1, NeighbourRange
  <2>. QED BY <1>0, <1>5, <2>1
       DEF SelectKey, Lists, ListInv, CursorInv, MoveInv, manageVars, configVars
<1>6. ASSUME NEW step \in {"down", "up"}, CursorKey(step) PROVE Lists'
  <2>1. InRange(manage', stations)
    BY <1>0, <1>6, MovedRange DEF CursorKey, InRange
  <2>. QED BY <1>0, <1>6, <2>1
       DEF CursorKey, Lists, ListInv, CursorInv, MoveInv, InRange, selectionVars, configVars
<1>7. ASSUME CloseManage PROVE Lists'
  <2>1. selected' \in 0..Len(stations)
    BY <1>0, <1>7, NormalizeRange DEF CloseManage, Reselect
  <2>. QED BY <1>0, <1>7, <2>1
       DEF CloseManage, Lists, ListInv, CursorInv, MoveInv, manageVars, configVars
<1>8. ASSUME HideSelected PROVE Lists'
  <2>1. selected' \in 0..Len(stations)
    BY <1>0, <1>8, NormalizeRange DEF HideSelected, Reselect
  <2>. QED BY <1>0, <1>8, <2>1
       DEF HideSelected, Lists, ListInv, CursorInv, MoveInv, manageVars, configVars
<1>9. ASSUME ToggleSelected \/ DeleteSelected PROVE Lists'
  <2>1. manage \in 1..Len(stations)
    BY <1>0, <1>9 DEF ToggleSelected, DeleteSelected, InRange
  <2>2. /\ RemoveAt(stations, manage) \in Seq(StationRow)
        /\ [stations EXCEPT ![manage].enabled = ~@] \in Seq(StationRow)
    BY <1>0, <2>1, ChangedLists
  <2>3. \A u \in updates' : u.stations \in Seq(StationRow)
    BY <1>0, <1>9, <2>2, BegunUpdates DEF ToggleSelected, DeleteSelected
  <2>4. UNCHANGED <<stations, selected, manage>> /\ mode' = "manage"
    BY <1>9 DEF ToggleSelected, DeleteSelected, selectionVars, manageVars
  <2>. QED BY <2>3, <2>4, SameLists
<1>10. ASSUME BeginMove PROVE Lists'
  <2>1. Clamp(stations, manage) \in 1..Len(stations)
    BY <1>0, <1>10, ClampRange DEF BeginMove
  <2>. DEFINE d == [stations |-> stations, at |-> Clamp(stations, manage),
                    origin |-> Clamp(stations, manage)]
  <2>2. /\ draft'[1] = d /\ pendingConfig' = <<>>
        /\ UNCHANGED <<stations, selected, manage, updates>>
    BY <1>10 DEF BeginMove, selectionVars, configVars
  <2>3. /\ DOMAIN d = {"stations", "at", "origin"} /\ d.stations = stations
        /\ d.at = Clamp(stations, manage) /\ d.origin = Clamp(stations, manage)
    OBVIOUS
  <2>. HIDE DEF d
  <2>. QED BY <1>0, <2>1, <2>2, <2>3 DEF Lists, ListInv, CursorInv, MoveInv
<1>11. ASSUME NEW step \in {"down", "up"}, MoveBy(step) PROVE Lists'
  <2>. DEFINE d == draft[1]
              next == Moved(d.at, Len(d.stations), step)
              moved == [d EXCEPT !.at = next,
                            !.stations = [@ EXCEPT ![d.at] = d.stations[next],
                                                   ![next] = d.stations[d.at]]]
              swapped == [d.stations EXCEPT ![d.at] = d.stations[next],
                                            ![next] = d.stations[d.at]]
  <2>1. /\ draft'[1] = moved /\ manage' = next /\ mode = "move"
        /\ UNCHANGED <<stations, selected, updates, pendingConfig>>
    BY <1>11 DEF MoveBy, selectionVars, configVars
  <2>2. /\ DOMAIN d = {"stations", "at", "origin"} /\ d.stations \in Seq(StationRow)
        /\ Len(d.stations) = Len(stations) /\ pendingConfig = <<>>
        /\ d.at \in 1..Len(stations) /\ d.origin \in 1..Len(stations)
    BY <1>0, <2>1 DEF MoveInv
  <2>3. next \in 1..Len(stations)
    BY <1>0, <2>2, MovedRange
  <2>4. swapped \in Seq(StationRow) /\ Len(swapped) = Len(stations)
    BY <2>2, <2>3
  <2>5. /\ DOMAIN moved = {"stations", "at", "origin"} /\ moved.stations = swapped
        /\ moved.at = next /\ moved.origin = d.origin
    BY <2>2
  <2>. HIDE DEF d, next, moved, swapped
  <2>. QED BY <1>0, <2>1, <2>2, <2>3, <2>4, <2>5 DEF Lists, ListInv, CursorInv, MoveInv
<1>12. ASSUME NEW confirmed \in BOOLEAN, EndMove(confirmed) PROVE Lists'
  <2>. DEFINE d == draft[1]
  <2>1. /\ d.stations \in Seq(StationRow)
        /\ d.at \in 1..Len(stations) /\ d.origin \in 1..Len(stations)
    BY <1>0, <1>12 DEF EndMove, MoveInv
  <2>2. manage' \in 1..Len(stations)
    BY <1>12, <2>1 DEF EndMove
  <2>3. \A u \in updates' : u.stations \in Seq(StationRow)
    <3>1. CASE confirmed
      BY <1>0, <1>12, <2>1, <3>1, BegunUpdates DEF EndMove
    <3>2. CASE ~confirmed
      BY <1>0, <1>12, <3>2 DEF EndMove, configVars
    <3>. QED BY <3>1, <3>2
  <2>4. UNCHANGED <<stations, selected>> /\ mode' = "manage"
    BY <1>12 DEF EndMove, selectionVars
  <2>. QED BY <1>0, <2>2, <2>3, <2>4 DEF Lists, ListInv, CursorInv, MoveInv
<1>13. ASSUME AddResult PROVE Lists'
  <2>1. search.results[search.at] \in StationNames
    <3>1. search.at \in 1..Len(search.results) /\ search.results \in Seq(StationNames)
      BY <1>13, ResultsAreNames DEF AddResult, ResultsInv
    <3>. QED BY <3>1
  <2>. DEFINE name == search.results[search.at]
              i == Position(stations, name)
              list == IF i # 0 THEN [stations EXCEPT ![i].enabled = TRUE]
                      ELSE Append(stations, [name |-> name, enabled |-> TRUE])
  <2>2. BeginUpdate(list, name)
    BY <1>13 DEF AddResult
  <2>3. \A u \in updates' : u.stations \in Seq(StationRow)
    <3>1. list \in Seq(StationRow)
      BY <1>0, <2>1, AddedList
    <3>. HIDE DEF list, name
    <3>. QED BY <1>0, <2>2, <3>1, BegunUpdates
  <2>4. UNCHANGED <<stations, selected, manage>> /\ mode' = "manage"
    BY <1>13 DEF AddResult, selectionVars, manageVars
  <2>. QED BY <2>3, <2>4, SameLists
<1>14. ASSUME NEW ok \in BOOLEAN, NEW e \in updates, ApplyConfig(e, ok) PROVE Lists'
  <2>0. updates' \subseteq updates /\ mode' = mode /\ draft' = draft
    BY <1>14 DEF ApplyConfig
  <2>1. CASE ~(pendingConfig # <<>> /\ pendingConfig[1].token = e.token)
    BY <1>1, <1>14, <2>0, <2>1 DEF ApplyConfig, selectionVars
  <2>2. CASE pendingConfig # <<>> /\ pendingConfig[1].token = e.token
    <3>1. mode' # "move"
      BY <1>0, <2>0, <2>2 DEF MoveInv
    <3>2. CASE ok
      <4>1. /\ stations' = e.stations /\ e.stations \in Seq(StationRow)
            /\ manage' = CursorAfter(e.stations, pendingConfig[1].select, TRUE)
            /\ selected' = ConfigSelection(e.stations, hidden')
        BY <1>0, <1>14, <2>2, <3>2 DEF ApplyConfig, Reselect
      <4>2. selected' \in 0..Len(stations')
        BY <4>1, NormalizeRange DEF ConfigSelection
      <4>3. InRange(manage', stations')
        BY <1>0, <4>1, CursorAfterRange
      <4>. QED BY <1>0, <2>0, <3>1, <4>1, <4>2, <4>3
           DEF Lists, ListInv, CursorInv, MoveInv, InRange
    <3>3. CASE ~ok
      <4>1. /\ UNCHANGED <<stations, selected>>
            /\ manage' = CursorAfter(stations, pendingConfig[1].select, FALSE)
        BY <1>14, <2>2, <3>3 DEF ApplyConfig, selectionVars
      <4>2. InRange(manage', stations)
        BY <1>0, <4>1, CursorAfterRange
      <4>. QED BY <1>0, <2>0, <3>1, <4>1, <4>2
           DEF Lists, ListInv, CursorInv, MoveInv, InRange
    <3>. QED BY <3>2, <3>3
  <2>. QED BY <2>1, <2>2
<1>. QED BY <1>2, <1>3, <1>4, <1>5, <1>6, <1>7, <1>8, <1>9, <1>10, <1>11, <1>12, <1>13, <1>14
     DEF AppStep

----------------------------------------------------------------------------
(* Tui: the loads of the selected station's weather.                       *)

\* The two halves of LoadTracked: the load, and the update of the list.
WeatherTracked ==
    mode # "exited" /\ weatherPending =>
        /\ selected # 0
        /\ [token |-> weatherToken, name |-> NameAt(stations, selected)]
              \in loads \cup Panicked("load")
UpdateTracked ==
    mode # "exited" /\ pendingConfig # <<>> =>
        \E u \in updates \cup Panicked("update") : u.token = pendingConfig[1].token
LoadsInv ==
    /\ weatherToken \in Nat
    /\ \A l \in loads :
          /\ l.token \in 0..weatherToken
          /\ l.token = weatherToken /\ selected # 0 => l.name = NameAt(stations, selected)
    /\ WeatherTracked

LEMMA LoadParts == LoadInv <=> LoadsInv /\ UpdateTracked
BY DEF LoadInv, LoadTracked, LoadsInv, WeatherTracked, UpdateTracked
LEMMA LoadPartsAfter == LoadsInv' /\ UpdateTracked' => LoadInv'
BY DEF LoadInv, LoadTracked, LoadsInv, WeatherTracked, UpdateTracked

\* A step that leaves the selection's name and the tracking of loads alone.
LEMMA SameLoads ==
    ASSUME LoadsInv, UNCHANGED <<stations, selected, weatherToken, loads, panicked>>,
           weatherPending' => weatherPending, mode' # "exited" => mode # "exited"
    PROVE  LoadsInv'
BY DEF LoadsInv, WeatherTracked, Panicked, NameAt

\* request_selected_weather takes a new token for the station selected then.
LEMMA RequestKeepsLoads ==
    ASSUME LoadsInv, NEW list \in Seq(StationRow), NEW at \in 0..Len(list),
           RequestWeather(list, at), stations' = list, selected' = at, UNCHANGED panicked
    PROVE  LoadsInv'
<1>1. CASE at = 0
  BY <1>1 DEF RequestWeather, LoadsInv, WeatherTracked
<1>2. CASE at # 0
  <2>. DEFINE new == [token |-> weatherToken + 1, name |-> list[at].name]
  <2>1. /\ weatherToken' = weatherToken + 1 /\ loads' = loads \cup {new}
        /\ weatherToken' \in Nat
    BY <1>2 DEF RequestWeather, LoadsInv
  <2>2. NameAt(list, at) = list[at].name
    BY <1>2, NameFacts
  <2>3. new.token = weatherToken' /\ new.name = NameAt(stations', selected')
    BY <2>1, <2>2
  <2>4. new = [token |-> weatherToken', name |-> NameAt(stations', selected')]
    BY <2>1, <2>2
  <2>. HIDE DEF new
  <2>5. ASSUME NEW l \in loads' PROVE l.token \in 0..weatherToken'
             /\ (l.token = weatherToken' => l.name = NameAt(stations', selected'))
    BY <2>1, <2>3 DEF LoadsInv
  <2>. QED BY <1>2, <2>1, <2>4, <2>5 DEF LoadsInv, WeatherTracked
<1>. QED BY <1>1, <1>2

LEMMA ReselectKeepsLoads ==
    ASSUME LoadsInv, ListInv, NEW list \in Seq(StationRow), NEW at \in 0..Len(list),
           Reselect(list, at), stations' = list, mode # "exited", UNCHANGED panicked
    PROVE  LoadsInv'
<1>1. CASE NameAt(list, at) # NameAt(stations, selected)
  BY <1>1, RequestKeepsLoads DEF Reselect
<1>2. CASE NameAt(list, at) = NameAt(stations, selected)
  <2>1. UNCHANGED weatherVars /\ selected' = at
    BY <1>2 DEF Reselect
  <2>2. at = 0 <=> selected = 0
    <3>1. /\ stations \in Seq(StationRow) /\ selected \in 0..Len(stations)
          /\ Len(stations) \in Nat /\ Len(list) \in Nat
      BY DEF ListInv
    <3>2. at = 0 \/ at \in 1..Len(list)
      BY <3>1
    <3>3. selected = 0 \/ selected \in 1..Len(stations)
      BY <3>1
    <3>. QED BY <1>2, <3>1, <3>2, <3>3, NameFacts
  <2>. QED BY <1>2, <2>1, <2>2 DEF LoadsInv, WeatherTracked, Panicked, weatherVars
<1>. QED BY <1>1, <1>2

\* Every step but a panic keeps the loads tracked.
LEMMA NextKeepsLoads ==
    ASSUME LoadsInv, Lists, AppStep, UNCHANGED panicked
    PROVE  LoadsInv'
<1>0. /\ ListInv /\ stations \in Seq(StationRow) /\ selected \in 0..Len(stations)
      /\ Len(stations) \in Nat /\ \A u \in updates : u.stations \in Seq(StationRow)
  BY DEF Lists, ListInv
<1>1. CASE UNCHANGED <<stations, selected, weatherVars>> /\ (mode' # "exited" => mode # "exited")
  BY <1>1, SameLoads DEF weatherVars
<1>2. ASSUME RefreshKey \/ Tick PROVE LoadsInv'
  BY <1>0, <1>2, RequestKeepsLoads DEF RefreshKey, Tick, selectionVars
<1>3. ASSUME \/ ManageKey \/ AboutKey \/ ToggleSelected \/ DeleteSelected \/ BeginMove
             \/ \E step \in {"down", "up"} : CursorKey(step) \/ MoveBy(step) \/ SearchCursor(step)
             \/ \E confirmed \in BOOLEAN : EndMove(confirmed)
      PROVE  LoadsInv'
  BY <1>1, <1>3 DEF ManageKey, AboutKey, ToggleSelected, DeleteSelected, BeginMove, CursorKey,
       MoveBy, SearchCursor, EndMove, selectionVars, SearchModes
<1>4. ASSUME \/ ExitSearch \/ SubmitSearch \/ AddResult \/ PreviewResult \/ ApplyPage
             \/ \E kind \in SearchModes : EnterSearch(kind)
             \/ \E q \in Queries : EditQuery(q)
             \/ \E ok \in BOOLEAN : \E e \in previews : ApplyPreview(e, ok)
      PROVE  LoadsInv'
  BY <1>1, <1>4 DEF ExitSearch, SubmitSearch, AddResult, PreviewResult, ApplyPage,
       EnterSearch, EditQuery, ApplyPreview, SearchModes, selectionVars
<1>5. ASSUME IntervalPasses \/ WeatherEvent PROVE LoadsInv'
  BY <1>5, SameLoads DEF IntervalPasses, WeatherEvent, selectionVars
<1>6. ASSUME NEW ok \in BOOLEAN, SearchTaskSends(ok) PROVE LoadsInv'
  BY <1>1, <1>6 DEF SearchTaskSends, selectionVars
<1>7. ASSUME Exit PROVE LoadsInv'
  BY <1>7 DEF Exit, LoadsInv, WeatherTracked, selectionVars
<1>8. ASSUME NEW step \in {"down", "up"}, SelectKey(step) PROVE LoadsInv'
  <2>1. selected \in 1..Len(stations) /\ stations' = stations /\ mode # "exited"
    BY <1>0, <1>8 DEF SelectKey
  <2>. DEFINE at == Neighbour(stations, hidden, selected, step)
  <2>2. Reselect(stations, at)
    BY <1>8 DEF SelectKey
  <2>3. at \in 0..Len(stations)
    BY <1>0, <2>1, NeighbourRange
  <2>. HIDE DEF at
  <2>. QED BY <1>0, <2>1, <2>2, <2>3, ReselectKeepsLoads
<1>9. ASSUME CloseManage PROVE LoadsInv'
  <2>1. Normalize(stations, hidden, selected) \in 0..Len(stations)
    BY <1>0, NormalizeRange
  <2>. QED BY <1>0, <1>9, <2>1, ReselectKeepsLoads DEF CloseManage
<1>10. ASSUME HideSelected PROVE LoadsInv'
  <2>1. Normalize(stations, hidden', selected) \in 0..Len(stations)
    BY <1>0, NormalizeRange
  <2>. QED BY <1>0, <1>10, <2>1, ReselectKeepsLoads DEF HideSelected
<1>11. ASSUME NEW ok \in BOOLEAN, NEW e \in loads, ApplyWeather(e, ok) PROVE LoadsInv'
  <2>0. UNCHANGED <<stations, selected, weatherToken, mode>> /\ loads' = loads \ {e}
    BY <1>11 DEF ApplyWeather, selectionVars
  <2>1. CASE e.token = weatherToken
    BY <1>11, <2>0, <2>1 DEF ApplyWeather, LoadsInv, WeatherTracked
  <2>2. CASE e.token # weatherToken
    <3>1. weatherPending' = weatherPending
      BY <1>11, <2>2 DEF ApplyWeather
    <3>2. [token |-> weatherToken, name |-> NameAt(stations, selected)] # e
      BY <2>2
    <3>. QED BY <2>0, <3>1, <3>2 DEF LoadsInv, WeatherTracked, Panicked
  <2>. QED BY <2>1, <2>2
<1>12. ASSUME NEW ok \in BOOLEAN, NEW e \in updates, ApplyConfig(e, ok) PROVE LoadsInv'
  <2>1. CASE UNCHANGED <<selectionVars, weatherVars>>
    BY <1>1, <1>12, <2>1 DEF ApplyConfig, selectionVars
  <2>2. CASE ~UNCHANGED <<selectionVars, weatherVars>>
    <3>. DEFINE at == ConfigSelection(e.stations, hidden')
    <3>1. /\ Reselect(e.stations, at) /\ stations' = e.stations /\ mode # "exited"
          /\ e.stations \in Seq(StationRow)
      BY <1>0, <1>12, <2>2 DEF ApplyConfig
    <3>2. at \in 0..Len(e.stations)
      BY <3>1, NormalizeRange DEF ConfigSelection
    <3>. HIDE DEF at
    <3>. QED BY <1>0, <3>1, <3>2, ReselectKeepsLoads
  <2>. QED BY <2>1, <2>2
<1>. QED BY <1>2, <1>3, <1>4, <1>5, <1>6, <1>7, <1>8, <1>9, <1>10, <1>11, <1>12 DEF AppStep

\* One update is out at a time, so its result is the one waited for.
LEMMA BegunIsTracked ==
    ASSUME UpdateTracked, NEW list, NEW select, BeginUpdate(list, select), mode # "exited",
           UNCHANGED panicked
    PROVE  UpdateTracked'
<1>1. CASE UNCHANGED configVars
  BY <1>1 DEF UpdateTracked, Panicked, configVars
<1>2. CASE ~UNCHANGED configVars
  <2>. DEFINE u == [token |-> configToken + 1, stations |-> list]
  <2>1. u \in updates' /\ pendingConfig' = <<[token |-> configToken + 1, select |-> select]>>
    BY <1>2 DEF BeginUpdate
  <2>2. u.token = pendingConfig'[1].token
    BY <2>1
  <2>. QED BY <2>1, <2>2 DEF UpdateTracked
<1>. QED BY <1>1, <1>2

\* Every step but a panic keeps the update of the list tracked.
LEMMA NextKeepsUpdates ==
    ASSUME UpdateTracked, AppStep, UNCHANGED panicked
    PROVE  UpdateTracked'
<1>1. CASE UNCHANGED configVars /\ (mode' # "exited" => mode # "exited")
  BY <1>1 DEF UpdateTracked, Panicked, configVars
<1>2. ASSUME \/ RefreshKey \/ ManageKey \/ AboutKey \/ Tick \/ IntervalPasses \/ WeatherEvent
             \/ CloseManage \/ HideSelected \/ BeginMove \/ ExitSearch \/ SubmitSearch
             \/ PreviewResult \/ ApplyPage
      PROVE  UpdateTracked'
  BY <1>1, <1>2 DEF RefreshKey, ManageKey, AboutKey, Tick, IntervalPasses, WeatherEvent,
       CloseManage, HideSelected, BeginMove, ExitSearch, SubmitSearch, PreviewResult, ApplyPage,
       SearchModes
<1>3. ASSUME \/ \E step \in {"down", "up"} :
                   SelectKey(step) \/ CursorKey(step) \/ MoveBy(step) \/ SearchCursor(step)
             \/ \E kind \in SearchModes : EnterSearch(kind)
             \/ \E q \in Queries : EditQuery(q)
             \/ \E ok \in BOOLEAN : SearchTaskSends(ok)
             \/ \E ok \in BOOLEAN : \E e \in loads : ApplyWeather(e, ok)
             \/ \E ok \in BOOLEAN : \E e \in previews : ApplyPreview(e, ok)
      PROVE  UpdateTracked'
  BY <1>1, <1>3 DEF SelectKey, CursorKey, MoveBy, SearchCursor, EnterSearch, EditQuery,
       SearchTaskSends, ApplyWeather, ApplyPreview, SearchModes
<1>4. ASSUME Exit PROVE UpdateTracked'
  BY <1>4 DEF Exit, UpdateTracked
<1>5. ASSUME ToggleSelected \/ DeleteSelected \/ AddResult PROVE UpdateTracked'
  BY <1>5, BegunIsTracked DEF ToggleSelected, DeleteSelected, AddResult
<1>6. ASSUME NEW confirmed \in BOOLEAN, EndMove(confirmed) PROVE UpdateTracked'
  BY <1>1, <1>6, BegunIsTracked DEF EndMove
<1>7. ASSUME NEW ok \in BOOLEAN, NEW e \in updates, ApplyConfig(e, ok) PROVE UpdateTracked'
  <2>1. /\ updates' = updates \ {e} /\ mode # "exited"
        /\ \/ pendingConfig' = <<>>
           \/ /\ pendingConfig' = pendingConfig
              /\ pendingConfig # <<>> => pendingConfig[1].token # e.token
    BY <1>7 DEF ApplyConfig
  <2>. QED BY <2>1 DEF UpdateTracked, Panicked
<1>. QED BY <1>2, <1>3, <1>4, <1>5, <1>6, <1>7 DEF AppStep

----------------------------------------------------------------------------
(* Tui: the search and its pages.                                          *)

SearchInv == PagesInv /\ TaskInv /\ ResultsInv

\* A step that leaves the search alone, unless the renderer is not searching.
LEMMA SameSearch ==
    ASSUME SearchInv, UNCHANGED searchVars,
           mode' = mode \/ mode \notin {"addSearch", "browseSearch", "exited"}
    PROVE  SearchInv'
<1>1. PagesInv'
  BY DEF SearchInv, PagesInv, PageOk, Current, Expected, searchVars
<1>2. TaskInv'
  BY DEF SearchInv, TaskInv, SearchModes, Current, Expected, searchVars
<1>3. ResultsInv'
  BY DEF SearchInv, ResultsInv, SearchComplete, searchVars
<1>. QED BY <1>1, <1>2, <1>3 DEF SearchInv

\* After a reset no page in the channel is of the current search.
LEMMA ResetKeepsSearch ==
    ASSUME SearchInv, NEW status \in {"idle", "loading"}, Reset(status), pages' = pages,
           query' \in Queries, preview' = NoStation,
           \/ searchTask' = <<>>
           \/ /\ searchTask' = <<[token |-> search'.token, query |-> query', offset |-> 0]>>
              /\ mode' \in SearchModes /\ status = "loading"
    PROVE  SearchInv'
<1>1. /\ DOMAIN search' = {"token", "status", "results", "at", "next"}
      /\ search'.token = search.token + 1 /\ search'.status = status
      /\ search'.results = <<>> /\ search'.at = 1 /\ search'.next = 0
      /\ search.token \in Nat
  BY DEF Reset, SearchInv, ResultsInv
<1>2. pages \in Seq(PageRow) /\ \A i \in 1..Len(pages) : pages[i].token <= search.token
  BY DEF SearchInv, PagesInv, PageOk
<1>3. \A i \in 1..Len(pages) : pages[i].token \in Nat
  <2>1. \A i \in 1..Len(pages) : pages[i] \in PageRow
    BY <1>2
  <2>. QED BY <2>1 DEF PageRow
<1>4. \A i : ~Current(i)'
  BY <1>1, <1>2, <1>3 DEF Current
<1>5. PagesInv'
  BY <1>1, <1>2, <1>3, <1>4 DEF PagesInv, PageOk
<1>6. TaskInv'
  BY <1>1, <1>4 DEF TaskInv, Expected
<1>7. ResultsInv'
  <2>1. Found[query'] \in Seq(StationNames)
    BY TuiAssumption
  <2>2. SubSeq(Found[query'], 1, 0) = <<>> /\ 0 \in 0..Len(Found[query'])
    BY <2>1
  <2>. QED BY <1>1, <2>2 DEF ResultsInv, SearchComplete
<1>. QED BY <1>5, <1>6, <1>7 DEF SearchInv

\* What the engine answers is a list of names, and the last page has none after it.
LEMMA PageFacts ==
    ASSUME NEW q \in Queries, NEW offset \in Nat
    PROVE  /\ Page(q, offset) \in Seq(StationNames)
           /\ HasMore(q, offset) \in BOOLEAN
           /\ HasMore(q, offset) => Len(Page(q, offset)) = 1
           /\ HasMore(q, offset) => offset < Len(Found[q])
<1>1. Found[q] \in Seq(StationNames)
  BY TuiAssumption
<1>2. Len(<<Found[q][offset + 1]>>) = 1
  OBVIOUS
<1>. QED BY <1>1, <1>2 DEF Page, HasMore

\* run_search sends the page that is expected next.
LEMMA SendKeepsSearch ==
    ASSUME SearchInv, NEW ok \in BOOLEAN, SearchTaskSends(ok)
    PROVE  SearchInv'
<1>. DEFINE t == searchTask[1]
            more == HasMore(t.query, t.offset)
            p == [token |-> t.token, ok |-> ok, offset |-> t.offset,
                  stations |-> IF ok THEN Page(t.query, t.offset) ELSE <<>>,
                  more |-> ok /\ more]
<1>0. PICK n \in Nat : n = Len(pages)
  BY DEF SearchInv, PagesInv
<1>1. /\ pages' = Append(pages, p) /\ searchTask # <<>>
      /\ searchTask' = IF ok /\ more THEN <<[t EXCEPT !.offset = @ + 1]>> ELSE <<>>
      /\ UNCHANGED <<mode, query, search, preview>>
  BY DEF SearchTaskSends
<1>2. /\ mode \in SearchModes /\ search.status = "loading"
      /\ DOMAIN t = {"token", "query", "offset"}
      /\ t.token = search.token /\ t.query = query /\ t.offset = Expected(n + 1)
      /\ Current(n) => pages[n].more
  BY <1>0, <1>1 DEF SearchInv, TaskInv
<1>3. /\ pages \in Seq(PageRow) /\ n = Len(pages) /\ query \in Queries /\ search.next \in Nat
      /\ search.token \in Nat /\ \A i \in 1..n : pages[i] \in PageRow /\ PageOk(i)
  BY <1>0, TuiAssumption DEF SearchInv, PagesInv, ResultsInv
<1>4. t.offset \in Nat
  <2>1. \A i \in 1..n : pages[i].offset \in Nat
    BY <1>3 DEF PageRow
  <2>. QED BY <1>2, <1>3, <2>1 DEF Expected, Current
<1>5. /\ p.token = search.token /\ p.ok = ok /\ p.offset = t.offset
      /\ p.stations = (IF ok THEN Page(query, t.offset) ELSE <<>>)
      /\ p.more = (ok /\ more) /\ more = HasMore(query, t.offset)
  BY <1>2
<1>6. p \in PageRow
  <2>1. (IF ok THEN Page(t.query, t.offset) ELSE <<>>) \in Seq(StationNames)
    BY <1>2, <1>3, <1>4, PageFacts
  <2>2. (ok /\ more) \in BOOLEAN
    OBVIOUS
  <2>. QED BY <1>2, <1>3, <1>4, <2>1, <2>2 DEF PageRow
<1>. HIDE DEF p, more
<1>7. /\ pages' \in Seq(PageRow) /\ Len(pages') = n + 1 /\ pages'[n + 1] = p
      /\ \A i \in 1..n : pages'[i] = pages[i]
  BY <1>1, <1>3, <1>6
<1>8. /\ \A i \in 1..n : Current(i)' <=> Current(i)
      /\ Current(n + 1)' /\ ~Current(0) /\ ~Current(0)'
  BY <1>1, <1>3, <1>5, <1>7 DEF Current
<1>9. ASSUME NEW i \in 1..n PROVE PageOk(i)'
  <2>1. i - 1 = 0 \/ i - 1 \in 1..n
    BY <1>3
  <2>2. /\ pages'[i] = pages[i] /\ (Current(i)' <=> Current(i))
        /\ (Current(i - 1)' <=> Current(i - 1))
        /\ Current(i - 1) => pages'[i - 1] = pages[i - 1]
    BY <1>7, <1>8, <2>1
  <2>3. Expected(i)' = Expected(i)
    BY <1>1, <2>2 DEF Expected
  <2>4. PageOk(i)
    BY <1>3
  <2>5. \A j \in 1..i : Current(j)' <=> Current(j)
    BY <1>3, <1>8
  <2>. QED BY <1>1, <2>2, <2>3, <2>4, <2>5 DEF PageOk
<1>10. /\ (Current(n)' <=> Current(n)) /\ (Current(n) => pages'[n] = pages[n])
       /\ n + 1 - 1 = n /\ n + 1 + 1 - 1 = n + 1
  <2>1. n = 0 \/ n \in 1..n
    BY <1>3
  <2>. QED BY <1>3, <1>7, <1>8, <2>1
<1>11. Expected(n + 1)' = Expected(n + 1)
  <2>1. /\ Expected(n + 1) = IF Current(n) THEN pages[n].offset + 1 ELSE search.next
        /\ Expected(n + 1)' = IF Current(n)' THEN pages'[n].offset + 1 ELSE search'.next
    BY <1>10 DEF Expected
  <2>2. search' = search
    BY <1>1
  <2>3. CASE Current(n)
    BY <1>10, <2>1, <2>3, Zenon
  <2>4. CASE ~Current(n)
    BY <1>10, <2>1, <2>2, <2>4, Zenon
  <2>. QED BY <2>3, <2>4
<1>12. PageOk(n + 1)'
  BY <1>1, <1>2, <1>3, <1>5, <1>7, <1>8, <1>10, <1>11 DEF PageOk
<1>13. PagesInv'
  <2>1. \A i \in 1..(n + 1) : i \in 1..n \/ i = n + 1
    BY <1>3
  <2>. QED BY <1>7, <1>9, <1>12, <2>1 DEF PagesInv
<1>14. TaskInv'
  <2>1. CASE ok /\ more
    <3>. DEFINE u == [t EXCEPT !.offset = @ + 1]
    <3>1. searchTask'[1] = u
      BY <1>1, <2>1
    <3>2. /\ DOMAIN u = {"token", "query", "offset"}
          /\ u.token = t.token /\ u.query = t.query /\ u.offset = t.offset + 1
      BY <1>2
    <3>. HIDE DEF u, t
    <3>3. Expected(n + 2)' = t.offset + 1
      BY <1>3, <1>5, <1>7, <1>8 DEF Expected
    <3>4. Len(pages') = n + 1 /\ n + 1 + 1 = n + 2
      BY <1>7
    <3>5. pages'[n + 1].more
      BY <1>5, <1>7, <2>1, Zenon
    <3>. QED BY <1>1, <1>2, <3>1, <3>2, <3>3, <3>4, <3>5 DEF TaskInv
  <2>2. CASE ~(ok /\ more)
    BY <1>1, <2>2 DEF TaskInv
  <2>. QED BY <2>1, <2>2
<1>15. ResultsInv'
  BY <1>1 DEF SearchInv, ResultsInv, SearchComplete
<1>. QED BY <1>13, <1>14, <1>15 DEF SearchInv

\* The page after the first is expected where the first one is now.
LEMMA ShiftKeepsPages ==
    ASSUME SearchInv, pages # <<>>, pages' = Tail(pages), search'.token = search.token,
           search'.status = search.status, UNCHANGED <<query, searchTask, mode>>,
           search'.next = IF Current(1) THEN pages[1].offset + 1 ELSE search.next
    PROVE  PagesInv' /\ TaskInv'
<1>0. pages \in Seq(PageRow)
  BY DEF SearchInv, PagesInv
<1>1. PICK n \in Nat : n + 1 = Len(pages)
  <2>1. Len(pages) \in Nat \ {0}
    BY <1>0
  <2>2. Len(pages) - 1 \in Nat /\ (Len(pages) - 1) + 1 = Len(pages)
    BY <2>1
  <2>. QED BY <2>2
<1>2. /\ pages' \in Seq(PageRow) /\ Len(pages') = n
      /\ \A i \in 1..n : pages'[i] = pages[i + 1]
  BY <1>0, <1>1
<1>3. /\ \A i \in 1..n : Current(i)' <=> Current(i + 1)
      /\ ~Current(0) /\ ~Current(0)'
  BY <1>1, <1>2 DEF Current
<1>4. ASSUME NEW i \in 1..(n + 1), Current(1) => Current(i)
      PROVE  Expected(i)' = Expected(i + 1)
  <2>1. i + 1 - 1 = i /\ 1 - 1 = 0 /\ 1 + 1 - 1 = 1
    OBVIOUS
  <2>2. Expected(i + 1) = IF Current(i) THEN pages[i].offset + 1 ELSE search.next
    BY <2>1 DEF Expected
  <2>3. CASE i = 1
    <3>1. Expected(1)' = search'.next
      BY <1>3, <2>1 DEF Expected
    <3>. QED BY <2>2, <2>3, <3>1
  <2>4. CASE i # 1
    <3>1. i - 1 \in 1..n /\ i - 1 + 1 = i
      BY <2>4
    <3>2. (Current(i - 1)' <=> Current(i)) /\ pages'[i - 1] = pages[i]
      BY <1>2, <1>3, <3>1
    <3>3. Expected(i)' = IF Current(i - 1)' THEN pages'[i - 1].offset + 1 ELSE search'.next
      BY DEF Expected
    <3>4. CASE Current(i)
      BY <2>2, <3>2, <3>3, <3>4, Zenon
    <3>5. CASE ~Current(i)
      <4>1. search'.next = search.next
        BY <1>4, <3>5
      <4>. QED BY <2>2, <3>2, <3>3, <3>5, <4>1, Zenon
    <3>. QED BY <3>4, <3>5
  <2>. QED BY <2>3, <2>4
<1>5. ASSUME NEW i \in 1..(n + 1) PROVE PageOk(i) /\ (Current(1) => Current(i))
  <2>1. PageOk(i)
    BY <1>1 DEF SearchInv, PagesInv
  <2>. QED BY <2>1 DEF PageOk
<1>6. ASSUME NEW i \in 1..n PROVE PageOk(i)'
  <2>1. i \in 1..(n + 1) /\ i + 1 \in 1..(n + 1) /\ i + 1 - 1 = i
    OBVIOUS
  <2>2. PageOk(i + 1) /\ Expected(i)' = Expected(i + 1)
    BY <1>4, <1>5, <2>1
  <2>3. pages'[i] = pages[i + 1] /\ (Current(i)' <=> Current(i + 1))
    BY <1>2, <1>3
  <2>4. Current(i - 1)' => Current(i) /\ pages'[i - 1] = pages[i]
    <3>1. i - 1 = 0 \/ (i - 1 \in 1..n /\ i - 1 + 1 = i)
      OBVIOUS
    <3>. QED BY <1>2, <1>3, <3>1
  <2>5. \A j \in 1..i : (Current(j)' <=> Current(j + 1)) /\ j + 1 \in 1..(i + 1)
    BY <1>3
  <2>6. pages'[i].token <= search'.token /\ \A j \in 1..i : Current(j)' => Current(i)'
    BY <2>2, <2>3, <2>5 DEF PageOk
  <2>7. ASSUME Current(i)'
        PROVE  /\ search'.status = "loading"
               /\ pages'[i].offset = Expected(i)'
               /\ Current(i - 1)' => pages'[i - 1].more
               /\ pages'[i].ok => pages'[i].stations = Page(query', pages'[i].offset)
               /\ pages'[i].more = (pages'[i].ok /\ HasMore(query', pages'[i].offset))
    <3>1. /\ search.status = "loading"
          /\ pages[i + 1].offset = Expected(i + 1)
          /\ Current(i) => pages[i].more
          /\ pages[i + 1].ok => pages[i + 1].stations = Page(query, pages[i + 1].offset)
          /\ pages[i + 1].more = (pages[i + 1].ok /\ HasMore(query, pages[i + 1].offset))
      BY <2>1, <2>2, <2>3, <2>7 DEF PageOk
    <3>. QED BY <2>2, <2>3, <2>4, <3>1
  <2>. QED BY <2>6, <2>7 DEF PageOk
<1>7. PagesInv'
  BY <1>2, <1>6 DEF PagesInv
<1>8. TaskInv'
  <2>. SUFFICES ASSUME searchTask # <<>> PROVE TaskInv'
    BY DEF TaskInv
  <2>1. /\ mode \in SearchModes /\ search.status = "loading"
        /\ DOMAIN searchTask[1] = {"token", "query", "offset"}
        /\ searchTask[1].token = search.token /\ searchTask[1].query = query
        /\ searchTask[1].offset = Expected(n + 1 + 1)
        /\ Current(n + 1) => pages[n + 1].more
    BY <1>1 DEF SearchInv, TaskInv
  <2>2. n + 1 \in 1..(n + 1)
    OBVIOUS
  <2>3. Expected(n + 1)' = Expected(n + 1 + 1)
    BY <1>4, <1>5, <2>2
  <2>4. Current(n)' => pages'[n].more
    <3>1. n = 0 \/ n \in 1..n
      OBVIOUS
    <3>. QED BY <1>2, <1>3, <2>1, <3>1
  <2>. QED BY <1>2, <2>1, <2>3, <2>4 DEF TaskInv
<1>. QED BY <1>7, <1>8

LEMMA TailOfOne ==
    ASSUME NEW T, NEW s \in Seq(T), Len(s) = 1
    PROVE  Tail(s) = <<>>
<1>0. s # <<>>
  <2>1. Len(<<>>) = 0 /\ 0 # 1
    OBVIOUS
  <2>. QED BY <2>1, Zenon
<1>1. Tail(s) \in Seq(T) /\ Len(Tail(s)) = Len(s) - 1
  BY <1>0
<1>2. <<>> \in Seq(T) /\ Len(<<>>) = 0
  OBVIOUS
<1>3. Len(Tail(s)) = 0 /\ \A i \in 1..0 : FALSE
  BY <1>1
<1>. QED BY <1>1, <1>2, <1>3, SeqEqual, Zenon

\* Nothing of the current search comes after its last page.
LEMMA LastPage ==
    ASSUME SearchInv, Current(1), pages[1].more = FALSE
    PROVE  Tail(pages) = <<>> /\ searchTask = <<>>
<1>1. pages \in Seq(PageRow) /\ Len(pages) \in Nat \ {0}
  BY DEF SearchInv, PagesInv, Current
<1>2. Len(pages) < 2
  <2>. SUFFICES ASSUME ~(Len(pages) < 2) PROVE FALSE
    OBVIOUS
  <2>0. 2 \in 1..Len(pages)
    BY <1>1
  <2>1. PageOk(2) /\ 1 \in 1..2 /\ 2 - 1 = 1
    BY <2>0 DEF SearchInv, PagesInv
  <2>2. Current(2)
    BY <2>1 DEF PageOk
  <2>. QED BY <2>1, <2>2 DEF PageOk
<1>3. Len(pages) = 1
  <2>1. \A n \in Nat \ {0} : n < 2 => n = 1
    OBVIOUS
  <2>. QED BY <1>1, <1>2, <2>1, Zenon
<1>4. searchTask = <<>>
  BY <1>3 DEF SearchInv, TaskInv
<1>5. Tail(pages) = <<>>
  BY <1>1, <1>3, TailOfOne, Zenon
<1>. QED BY <1>4, <1>5

LEMMA EmptiedChannel ==
    ASSUME pages' = <<>>, searchTask' = <<>>
    PROVE  PagesInv' /\ TaskInv'
<1>1. <<>> \in Seq(PageRow) /\ \A i \in 1..Len(<<>>) : FALSE
  OBVIOUS
<1>. QED BY <1>1 DEF PagesInv, TaskInv

\* append_unique_stations after the next page: the list is what was found so far.
LEMMA PageExtendsResults ==
    ASSUME ResultsInv, NEW page, page = Page(query, search.next)
    PROVE  /\ search.next + Len(page) \in 0..Len(Found[query])
           /\ AppendUnique(search.results, page) =
                 SubSeq(Found[query], 1, search.next + Len(page))
           /\ ~HasMore(query, search.next) => AppendUnique(search.results, page) = Found[query]
           /\ ToSet(search.results) \subseteq ToSet(AppendUnique(search.results, page))
<1>. DEFINE f == Found[query]
            n == search.next
            r == search.results
<1>1. f \in Seq(StationNames) /\ n \in 0..Len(f) /\ query \in Queries
  BY ResultsAreNames DEF ResultsInv
<1>2. r = SubSeq(f, 1, n)
  BY DEF ResultsInv, SearchComplete
<1>3. /\ r \in Seq(StationNames) /\ Len(r) = n /\ DOMAIN r = 1..n
      /\ \A i \in 1..n : r[i] = f[i]
  BY <1>1, <1>2
<1>4. CASE n < Len(f)
  <2>1. page = <<f[n + 1]>> /\ Len(page) = 1
    BY <1>4 DEF Page
  <2>2. ToSet(page) = {f[n + 1]}
    BY <2>1 DEF ToSet
  <2>3. ASSUME f[n + 1] \in ToSet(r) PROVE FALSE
    <3>1. PICK i \in 1..n : f[i] = f[n + 1]
      BY <1>3, <2>3 DEF ToSet
    <3>2. i \in 1..Len(f) /\ n + 1 \in 1..Len(f)
      BY <1>1, <1>4
    <3>3. i = n + 1
      BY <1>1, <3>1, <3>2, TuiAssumption
    <3>. QED BY <1>1, <3>3
  <2>4. AppendUnique(r, page) = r \o page
    BY <2>2, <2>3 DEF AppendUnique
  <2>. DEFINE longer == r \o <<f[n + 1]>>
  <2>5. /\ longer \in Seq(StationNames) /\ Len(longer) = n + 1 
        /\ \A i \in 1..n : longer[i] = r[i]
        /\ longer[n + 1] = f[n + 1]
    <3>1. <<f[n + 1]>> \in Seq(StationNames) /\ Len(<<f[n + 1]>>) = 1 /\ <<f[n + 1]>>[1] = f[n + 1]
      <4>1. f[n + 1] \in StationNames
        BY <1>1, <1>4
      <4>. QED BY <4>1
    <3>2. n \in Nat
      BY <1>1
    <3>. HIDE DEF f, n, r
    <3>. QED BY <1>3, <3>1, <3>2
  <2>6. /\ SubSeq(f, 1, n + 1) \in Seq(StationNames) /\ Len(SubSeq(f, 1, n + 1)) = n + 1
        /\ \A i \in 1..(n + 1) : SubSeq(f, 1, n + 1)[i] = f[i]
    BY <1>1, <1>4
  <2>7. \A i \in 1..(n + 1) : longer[i] = f[i]
    BY <1>1, <1>3, <2>5
  <2>. HIDE DEF longer
  <2>8. longer = SubSeq(f, 1, n + 1)
    BY <2>5, <2>6, <2>7, SeqEqual
  <2>9. ASSUME ~HasMore(query, n) PROVE longer = f
    <3>1. n + 1 = Len(f)
      BY <1>1, <1>4, <2>9 DEF HasMore
    <3>. HIDE DEF f, n
    <3>. QED BY <1>1, <2>5, <2>7, <3>1, SeqEqual
  <2>10. ToSet(r) \subseteq ToSet(longer)
    <3>1. DOMAIN longer = 1..(n + 1)
      BY <2>5
    <3>. QED BY <1>1, <1>3, <2>5, <3>1 DEF ToSet
  <2>11. AppendUnique(r, page) = longer
    BY <2>1, <2>4 DEF longer
  <2>12. n + Len(page) = n + 1 /\ n + 1 \in 0..Len(f)
    BY <1>1, <1>4, <2>1
  <2>. QED BY <2>8, <2>9, <2>10, <2>11, <2>12
<1>5. CASE ~(n < Len(f))
  <2>1. page = <<>> /\ Len(page) = 0 /\ n = Len(f) /\ n + Len(page) = n
    BY <1>1, <1>5 DEF Page
  <2>2. ToSet(page) = {}
    BY <2>1 DEF ToSet
  <2>3. AppendUnique(r, page) = r
    BY <2>2 DEF AppendUnique
  <2>4. r = f
    BY <1>1, <1>3, <2>1
  <2>. QED BY <1>1, <1>2, <2>1, <2>3, <2>4
<1>. QED BY <1>4, <1>5


\* apply_page and apply_error take the page that is expected, or none of this search.
LEMMA ApplyKeepsSearch ==
    ASSUME SearchInv, ApplyPage
    PROVE  SearchInv'
<1>. DEFINE p == pages[1]
            current == p.token = search.token /\ search.status = "loading"
            next == p.offset + Len(p.stations)
            applied == [search EXCEPT !.results = AppendUnique(@, p.stations), !.next = next,
                                      !.status = IF p.more THEN @ ELSE "ready"]
<1>1. /\ pages # <<>> /\ pages' = Tail(pages) /\ mode # "exited"
      /\ UNCHANGED <<mode, query, searchTask, preview>>
      /\ search' = CASE ~current -> search
                     [] current /\ ~p.ok -> [search EXCEPT !.status = "failed"]
                     [] current /\ p.ok /\ p.offset # search.next ->
                          [search EXCEPT !.status = "misordered"]
                     [] OTHER -> applied
  BY DEF ApplyPage
<1>2. /\ pages \in Seq(PageRow) /\ p \in PageRow /\ PageOk(1) /\ 1 \in 1..Len(pages)
      /\ ResultsInv /\ DOMAIN search = {"token", "status", "results", "at", "next"}
      /\ ~Current(0)
  <2>1. pages \in Seq(PageRow) /\ 1 \in 1..Len(pages)
    BY <1>1 DEF SearchInv, PagesInv
  <2>2. ~(0 \in 1..Len(pages))
    BY <2>1
  <2>. QED BY <2>1, <2>2 DEF SearchInv, PagesInv, ResultsInv, Current
<1>3. /\ p.ok \in BOOLEAN /\ p.more \in BOOLEAN /\ p.offset \in Nat
  BY <1>2 DEF PageRow
<1>4. CASE ~Current(1)
  <2>1. search' = search
    BY <1>1, <1>2, <1>4 DEF Current
  <2>2. PagesInv' /\ TaskInv'
    BY <1>1, <1>4, <2>1, ShiftKeepsPages
  <2>. QED BY <1>1, <1>2, <2>1, <2>2 DEF SearchInv, ResultsInv, SearchComplete
<1>5. CASE Current(1)
  <2>1. /\ search.status = "loading" /\ p.offset = search.next
        /\ p.ok => p.stations = Page(query, search.next)
        /\ p.more = (p.ok /\ HasMore(query, search.next))
    <3>1. Expected(1) = search.next
      <4>1. 1 - 1 = 0
        OBVIOUS
      <4>. QED BY <1>2, <4>1 DEF Expected
    <3>. QED BY <1>2, <1>5, <3>1 DEF PageOk
  <2>2. current
    BY <1>5, <2>1 DEF Current
  <2>3. CASE ~p.ok
    <3>1. p.more = FALSE
      BY <2>1, <2>3
    <3>2. Tail(pages) = <<>> /\ searchTask = <<>>
      BY <1>5, <3>1, LastPage
    <3>3. search' = [search EXCEPT !.status = "failed"]
      BY <1>1, <2>2, <2>3
    <3>4. PagesInv' /\ TaskInv'
      BY <1>1, <3>2, EmptiedChannel
    <3>5. ResultsInv'
      BY <1>1, <1>2, <3>3 DEF ResultsInv, SearchComplete
    <3>. QED BY <3>4, <3>5 DEF SearchInv
  <2>4. CASE p.ok
    <3>. DEFINE page == Page(query, search.next)
    <3>1. search' = applied /\ p.stations = page /\ p.offset = search.next
      BY <1>1, <2>1, <2>2, <2>4
    <3>2. /\ DOMAIN search' = {"token", "status", "results", "at", "next"}
          /\ search'.token = search.token /\ search'.at = search.at
          /\ search'.results = AppendUnique(search.results, page)
          /\ search'.next = search.next + Len(page)
          /\ search'.status = IF p.more THEN search.status ELSE "ready"
      BY <1>2, <3>1
    <3>3. /\ search.next + Len(page) \in 0..Len(Found[query])
          /\ AppendUnique(search.results, page) =
                SubSeq(Found[query], 1, search.next + Len(page))
          /\ ~HasMore(query, search.next) => AppendUnique(search.results, page) = Found[query]
          /\ ToSet(search.results) \subseteq ToSet(AppendUnique(search.results, page))
      BY <1>2, PageExtendsResults
    <3>4. search.next \in Nat /\ query \in Queries
      BY TuiAssumption DEF SearchInv, ResultsInv
    <3>5. HasMore(query, search.next) => Len(page) = 1
      BY <3>4, PageFacts
    <3>. HIDE DEF page, applied, next, current
    <3>6. ResultsInv'
      <4>1. search'.status # "misordered" /\ (search'.status = "ready" => ~p.more)
        BY <2>1, <3>2
      <4>2. search'.status = "ready" => search'.results = Found[query]
        BY <2>1, <2>4, <3>2, <3>3, <4>1
      <4>3. preview # NoStation => preview \in ToSet(search'.results)
                                   /\ mode \in {"browseSearch", "exited"}
        BY <1>2, <3>2, <3>3 DEF ResultsInv, SearchComplete
      <4>4. search.token \in Nat /\ search.at \in Nat \ {0}
        BY <1>2 DEF ResultsInv
      <4>. QED BY <1>1, <3>2, <3>3, <3>4, <4>1, <4>2, <4>3, <4>4 DEF ResultsInv, SearchComplete
    <3>7. CASE p.more
      <4>1. search'.next = p.offset + 1 /\ search'.status = search.status
        BY <2>1, <3>1, <3>2, <3>5, <3>7
      <4>2. PagesInv' /\ TaskInv'
        BY <1>1, <1>5, <3>2, <4>1, ShiftKeepsPages
      <4>. QED BY <3>6, <4>2 DEF SearchInv
    <3>8. CASE ~p.more
      <4>1. p.more = FALSE
        BY <1>3, <3>8
      <4>2. Tail(pages) = <<>> /\ searchTask = <<>>
        BY <1>5, <4>1, LastPage
      <4>3. PagesInv' /\ TaskInv'
        BY <1>1, <4>2, EmptiedChannel
      <4>. QED BY <3>6, <4>3 DEF SearchInv
    <3>. QED BY <3>7, <3>8
  <2>. QED BY <2>3, <2>4
<1>. QED BY <1>4, <1>5

\* Every step keeps the search and its pages.
LEMMA NextKeepsSearch ==
    ASSUME SearchInv, AppStep
    PROVE  SearchInv'
<1>0. /\ ResultsInv /\ query \in Queries /\ EmptyQuery \in Queries
      /\ DOMAIN search = {"token", "status", "results", "at", "next"}
  BY TuiAssumption DEF SearchInv, ResultsInv
<1>1. ASSUME \/ RefreshKey \/ Tick \/ ManageKey \/ AboutKey \/ IntervalPasses \/ WeatherEvent
             \/ \E step \in {"down", "up"} : SelectKey(step) \/ CursorKey(step) \/ MoveBy(step)
      PROVE  SearchInv'
  BY <1>1, SameSearch DEF RefreshKey, Tick, ManageKey, AboutKey, IntervalPasses, WeatherEvent,
       SelectKey, CursorKey, MoveBy
<1>2. ASSUME \/ CloseManage \/ ToggleSelected \/ DeleteSelected \/ HideSelected \/ BeginMove
             \/ \E confirmed \in BOOLEAN : EndMove(confirmed)
             \/ \E ok \in BOOLEAN : \E e \in loads : ApplyWeather(e, ok)
             \/ \E ok \in BOOLEAN : \E e \in updates : ApplyConfig(e, ok)
      PROVE  SearchInv'
  BY <1>2, SameSearch DEF CloseManage, ToggleSelected, DeleteSelected, HideSelected, BeginMove,
       EndMove, ApplyWeather, ApplyConfig
<1>3. ASSUME NEW kind \in SearchModes, EnterSearch(kind) PROVE SearchInv'
  <2>1. searchTask = <<>>
    BY <1>3 DEF EnterSearch, SearchInv, TaskInv, SearchModes
  <2>2. /\ Reset("idle") /\ query' = EmptyQuery /\ preview' = NoStation
        /\ UNCHANGED <<searchTask, pages>>
    BY <1>3 DEF EnterSearch
  <2>. QED BY <1>0, <2>1, <2>2, ResetKeepsSearch
<1>4. ASSUME ExitSearch \/ AddResult \/ \E q \in Queries : EditQuery(q) PROVE SearchInv'
  <2>1. /\ Reset("idle") /\ query' \in Queries /\ preview' = NoStation /\ pages' = pages
        /\ searchTask' = <<>>
    BY <1>0, <1>4 DEF ExitSearch, AddResult, EditQuery
  <2>. QED BY <2>1, ResetKeepsSearch
<1>5. ASSUME SubmitSearch PROVE SearchInv'
  <2>1. /\ Reset("loading") /\ query' = query /\ preview' = NoStation /\ pages' = pages
        /\ searchTask' = <<[token |-> search'.token, query |-> query', offset |-> 0]>>
        /\ mode' \in SearchModes
    BY <1>5 DEF SubmitSearch
  <2>. QED BY <1>0, <2>1, ResetKeepsSearch
<1>6. ASSUME NEW step \in {"down", "up"}, SearchCursor(step) PROVE SearchInv'
  <2>. DEFINE at == Moved(search.at, Len(search.results), step)
  <2>1. /\ search' = [search EXCEPT !.at = at]
        /\ UNCHANGED <<mode, query, searchTask, pages, preview>>
    BY <1>6 DEF SearchCursor
  <2>2. at \in Nat \ {0}
    <3>1. search.at \in Nat \ {0} /\ Len(search.results) \in Nat
      BY <1>0, ResultsAreNames DEF ResultsInv
    <3>. QED BY <3>1, MovedRange
  <2>. HIDE DEF at
  <2>3. /\ DOMAIN search' = {"token", "status", "results", "at", "next"} /\ search'.at = at
        /\ search'.token = search.token /\ search'.status = search.status
        /\ search'.results = search.results /\ search'.next = search.next
    BY <1>0, <2>1
  <2>4. PagesInv'
    BY <2>1, <2>3 DEF SearchInv, PagesInv, PageOk, Current, Expected
  <2>5. TaskInv'
    BY <2>1, <2>3 DEF SearchInv, TaskInv, Current, Expected
  <2>6. ResultsInv'
    BY <1>0, <2>1, <2>2, <2>3 DEF ResultsInv, SearchComplete
  <2>. QED BY <2>4, <2>5, <2>6 DEF SearchInv
<1>7. ASSUME \/ PreviewResult
             \/ \E ok \in BOOLEAN : \E e \in previews : ApplyPreview(e, ok)
      PROVE  SearchInv'
  <2>1. /\ UNCHANGED <<mode, query, search, searchTask, pages>>
        /\ preview' # preview => mode = "browseSearch" /\ preview' \in ToSet(search.results)
    <3>1. CASE PreviewResult
      BY <3>1 DEF PreviewResult
    <3>2. ASSUME NEW ok \in BOOLEAN, NEW e \in previews, ApplyPreview(e, ok)
          PROVE  preview' # preview => mode = "browseSearch" /\ preview' \in ToSet(search.results)
      <4>. SUFFICES ASSUME preview' # preview
                    PROVE  mode = "browseSearch" /\ preview' \in ToSet(search.results)
        OBVIOUS
      <4>1. /\ mode = "browseSearch" /\ search.at <= Len(search.results)
            /\ preview' = search.results[search.at]
        BY <3>2 DEF ApplyPreview
      <4>2. search.at \in 1..Len(search.results) /\ DOMAIN search.results = 1..Len(search.results)
        BY <1>0, <4>1, ResultsAreNames DEF ResultsInv
      <4>. QED BY <4>1, <4>2 DEF ToSet
    <3>. QED BY <1>7, <3>1, <3>2 DEF ApplyPreview
  <2>2. PagesInv' /\ TaskInv'
    BY <2>1 DEF SearchInv, PagesInv, TaskInv, PageOk, Current, Expected
  <2>3. ResultsInv'
    BY <1>0, <2>1 DEF ResultsInv, SearchComplete
  <2>. QED BY <2>2, <2>3 DEF SearchInv
<1>8. ASSUME Exit PROVE SearchInv'
  <2>1. PagesInv' /\ TaskInv'
    BY <1>8, EmptiedChannel DEF Exit
  <2>2. ResultsInv'
    BY <1>0, <1>8 DEF Exit, ResultsInv, SearchComplete
  <2>. QED BY <2>1, <2>2 DEF SearchInv
<1>9. ASSUME ApplyPage PROVE SearchInv'
  BY <1>9, ApplyKeepsSearch
<1>10. ASSUME NEW ok \in BOOLEAN, SearchTaskSends(ok) PROVE SearchInv'
  BY <1>10, SendKeepsSearch
<1>. QED BY <1>1, <1>2, <1>3, <1>4, <1>5, <1>6, <1>7, <1>8, <1>9, <1>10 DEF AppStep

----------------------------------------------------------------------------
(* Tui: a task that panics.                                                *)

\* It takes its effect away and leaves everything its request has set.
LEMMA PanicKeeps ==
    ASSUME Lists, LoadInv, SearchInv, EffectPanics
    PROVE  Lists' /\ LoadInv' /\ SearchInv'
<1>0. LoadsInv /\ UpdateTracked
  BY LoadParts
<1>1. UNCHANGED <<selectionVars, snapshot, due, weatherToken, weatherPending, mode, manageVars,
                  configToken, pendingConfig, query, search, pages, preview>>
  BY DEF EffectPanics
<1>2. /\ loads' \subseteq loads /\ updates' \subseteq updates
      /\ searchTask' = searchTask \/ searchTask' = <<>>
  BY DEF EffectPanics
<1>3. /\ \A e \in loads \cup Panicked("load") : e \in loads' \cup Panicked("load")'
      /\ \A e \in updates \cup Panicked("update") : e \in updates' \cup Panicked("update")'
  <2>1. ASSUME NEW kind, NEW x, panicked' = panicked \cup {[kind |-> kind, of |-> x]}
        PROVE  Panicked(kind)' = Panicked(kind) \cup {x}
               /\ \A k : k # kind => Panicked(k)' = Panicked(k)
    <3>. DEFINE n == [kind |-> kind, of |-> x]
    <3>1. n.kind = kind /\ n.of = x /\ panicked' = panicked \cup {n}
      BY <2>1
    <3>. HIDE DEF n
    <3>. QED BY <3>1 DEF Panicked
  <2>2. CASE \E e \in loads : /\ loads' = loads \ {e} /\ updates' = updates
                              /\ panicked' = panicked \cup {[kind |-> "load", of |-> e]}
    <3>1. PICK e \in loads : /\ loads' = loads \ {e} /\ updates' = updates
                             /\ panicked' = panicked \cup {[kind |-> "load", of |-> e]}
      BY <2>2
    <3>2. Panicked("load")' = Panicked("load") \cup {e} /\ Panicked("update")' = Panicked("update")
      BY <2>1, <3>1
    <3>. QED BY <3>1, <3>2
  <2>3. CASE \E e \in updates : /\ updates' = updates \ {e} /\ loads' = loads
                                /\ panicked' = panicked \cup {[kind |-> "update", of |-> e]}
    <3>1. PICK e \in updates : /\ updates' = updates \ {e} /\ loads' = loads
                               /\ panicked' = panicked \cup {[kind |-> "update", of |-> e]}
      BY <2>3
    <3>2. Panicked("update")' = Panicked("update") \cup {e} /\ Panicked("load")' = Panicked("load")
      BY <2>1, <3>1
    <3>. QED BY <3>1, <3>2
  <2>4. CASE UNCHANGED <<loads, updates, panicked>>
    BY <2>4 DEF Panicked
  <2>. QED BY <2>2, <2>3, <2>4 DEF EffectPanics, Loses
<1>4. Lists'
  BY <1>1, <1>2 DEF Lists, ListInv, CursorInv, MoveInv, selectionVars, manageVars
<1>5. LoadsInv'
  <2>1. UNCHANGED <<stations, selected, weatherToken, weatherPending, mode>>
    BY <1>1 DEF selectionVars
  <2>2. NameAt(stations, selected)' = NameAt(stations, selected)
    BY <2>1 DEF NameAt
  <2>. QED BY <1>0, <1>2, <1>3, <2>1, <2>2 DEF LoadsInv, WeatherTracked
<1>6. UpdateTracked'
  BY <1>0, <1>1, <1>3 DEF UpdateTracked
<1>7. SearchInv'
  <2>1. PagesInv'
    BY <1>1 DEF SearchInv, PagesInv, PageOk, Current, Expected
  <2>2. TaskInv'
    BY <1>1, <1>2 DEF SearchInv, TaskInv, SearchModes, Current, Expected
  <2>3. ResultsInv'
    BY <1>1 DEF SearchInv, ResultsInv, SearchComplete
  <2>. QED BY <2>1, <2>2, <2>3 DEF SearchInv
<1>8. LoadInv'
  BY <1>5, <1>6, LoadPartsAfter
<1>. QED BY <1>4, <1>7, <1>8

----------------------------------------------------------------------------
(* Tui: the theorems.                                                      *)

LEMMA TuiParts == TuiInv <=> Lists /\ LoadInv /\ SearchInv
BY DEF TuiInv, Lists, SearchInv

LEMMA TuiInitially == Init => TuiInv
<1>. SUFFICES ASSUME Init PROVE TuiInv
  OBVIOUS
<1>1. stations \in Seq(StationRow) /\ Len(stations) \in Nat
  BY TuiAssumption DEF Init
<1>2. selected \in 0..Len(stations)
  BY <1>1, NormalizeRange DEF Init
<1>3. Lists
  BY <1>1, <1>2 DEF Init, Lists, ListInv, CursorInv, MoveInv
<1>4. LoadInv
  <2>0. UpdateTracked
    BY DEF Init, UpdateTracked
  <2>1. CASE selected = 0
    BY <2>0, <2>1, LoadParts DEF Init, LoadsInv, WeatherTracked
  <2>2. CASE selected # 0
    <3>1. NameAt(stations, selected) = stations[selected].name
      BY <1>1, <1>2, <2>2, NameFacts
    <3>2. weatherToken = 1 /\ loads = {[token |-> 1, name |-> NameAt(stations, selected)]}
      BY <2>2, <3>1 DEF Init
    <3>. QED BY <2>0, <2>2, <3>2, LoadParts DEF LoadsInv, WeatherTracked
  <2>. QED BY <2>1, <2>2
<1>5. SearchInv
  <2>1. pages = <<>> /\ searchTask = <<>> /\ query = EmptyQuery /\ preview = NoStation
        /\ search = [token |-> 0, status |-> "idle", results |-> <<>>, at |-> 1, next |-> 0]
    BY DEF Init
  <2>2. <<>> \in Seq(PageRow) /\ \A i \in 1..Len(<<>>) : FALSE
    OBVIOUS
  <2>3. PagesInv /\ TaskInv
    BY <2>1, <2>2 DEF PagesInv, TaskInv
  <2>4. Found[EmptyQuery] \in Seq(StationNames) /\ EmptyQuery \in Queries
    BY TuiAssumption
  <2>5. SubSeq(Found[EmptyQuery], 1, 0) = <<>> /\ 0 \in 0..Len(Found[EmptyQuery])
    BY <2>4
  <2>6. ResultsInv
    BY <2>1, <2>4, <2>5 DEF ResultsInv, SearchComplete
  <2>. QED BY <2>3, <2>6 DEF SearchInv
<1>. QED BY <1>3, <1>4, <1>5, TuiParts

LEMMA TuiStepKeeps == TuiInv /\ [Next]_vars => TuiInv'
<1>. SUFFICES ASSUME TuiInv, [Next]_vars PROVE TuiInv'
  OBVIOUS
<1>0. Lists /\ LoadInv /\ SearchInv /\ ResultsInv
  BY TuiParts DEF SearchInv
<1>1. CASE AppStep /\ UNCHANGED panicked
  <2>1. Lists'
    BY <1>0, <1>1, NextKeepsLists
  <2>2. LoadInv'
    BY <1>0, <1>1, LoadParts, LoadPartsAfter, NextKeepsLoads, NextKeepsUpdates
  <2>3. SearchInv'
    BY <1>0, <1>1, NextKeepsSearch
  <2>. QED BY <2>1, <2>2, <2>3 DEF TuiInv, Lists, SearchInv
<1>2. CASE EffectPanics
  <2>1. Lists' /\ LoadInv' /\ SearchInv'
    BY <1>0, <1>2, PanicKeeps
  <2>. QED BY <2>1 DEF TuiInv, Lists, SearchInv
<1>3. CASE UNCHANGED vars
  <2>1. Lists'
    BY <1>0, <1>3, SameLists
       DEF vars, appVars, selectionVars, manageVars, configVars, Lists, ListInv
  <2>2. LoadInv'
    <3>1. LoadsInv'
      BY <1>0, <1>3, LoadParts, SameLoads DEF vars, appVars, selectionVars, weatherVars
    <3>2. UpdateTracked'
      BY <1>0, <1>3, LoadParts DEF vars, appVars, configVars, UpdateTracked, Panicked
    <3>. QED BY <3>1, <3>2, LoadPartsAfter
  <2>3. SearchInv'
    BY <1>0, <1>3, SameSearch DEF vars, appVars
  <2>. QED BY <2>1, <2>2, <2>3 DEF TuiInv, Lists, SearchInv
<1>. QED BY <1>1, <1>2, <1>3 DEF Next

(* The invariant of the terminal renderer: its lists and cursors agree,    *)
(* a load with the current token is for the selected station, and the      *)
(* pages in the channel follow one another (tui/state.rs, tui/events.rs).  *)
THEOREM TerminalInvariant == Spec => []TuiInv
BY TuiInitially, TuiStepKeeps, PTL DEF Spec

(* Whatever the engine answered meanwhile, the manage panel's cursor is a  *)
(* valid index whenever a key may act on its station: Vec::remove in       *)
(* delete_selected never panics, and a move in progress stays in its list. *)
THEOREM CursorStaysInTheList ==
    Spec => [](/\ stations # <<>> => manage \in 1..Len(stations)
               /\ mode = "move" => draft[1].at \in 1..Len(draft[1].stations))
<1>1. TuiInv => /\ stations # <<>> => manage \in 1..Len(stations)
                /\ mode = "move" => draft[1].at \in 1..Len(draft[1].stations)
  <2>. SUFFICES ASSUME TuiInv
                PROVE  /\ stations # <<>> => manage \in 1..Len(stations)
                       /\ mode = "move" => draft[1].at \in 1..Len(draft[1].stations)
    OBVIOUS
  <2>1. stations # <<>> => Len(stations) \in Nat \ {0}
    BY DEF TuiInv, ListInv
  <2>. QED BY <2>1 DEF TuiInv, CursorInv, MoveInv
<1>. QED BY <1>1, TerminalInvariant, PTL

(* What is marked pending is still out with the token it has to be         *)
(* answered with, a load for the selected station, unless that very task   *)
(* panicked (request_selected_weather, begin_config_update, TaskFailed),   *)
(* for any lists and any order of keys, results and panics.                *)
THEOREM LoadsAreTracked == Spec => []LoadTracked
<1>1. TuiInv => LoadTracked
  BY DEF TuiInv, LoadInv
<1>. QED BY <1>1, TerminalInvariant, PTL

(* The search lists, in order, what the current text finds as far as its   *)
(* pages have come, never a page of an earlier search nor one out of       *)
(* order, and all of it once it is ready (SearchState::apply_page).        *)
THEOREM SearchListsItsText == Spec => []SearchComplete
<1>1. TuiInv => SearchComplete
  BY DEF TuiInv, ResultsInv
<1>. QED BY <1>1, TerminalInvariant, PTL

\* Only the answer to the current request shows another station.
LEMMA ShownStep ==
    TuiInv /\ [Next]_vars =>
        (snapshot' \notin {snapshot, NoStation} /\ selected' # 0
            => snapshot' = NameAt(stations', selected'))
<1>. SUFFICES ASSUME TuiInv, [Next]_vars, snapshot' \notin {snapshot, NoStation}, selected' # 0
              PROVE  snapshot' = NameAt(stations', selected')
  OBVIOUS
<1>1. ASSUME NEW ok \in BOOLEAN, NEW e \in loads, ApplyWeather(e, ok)
      PROVE  snapshot' = NameAt(stations', selected')
  <2>1. e.token = weatherToken /\ snapshot' = e.name /\ UNCHANGED <<stations, selected>>
    BY <1>1 DEF ApplyWeather, selectionVars
  <2>2. e.name = NameAt(stations, selected)
    BY <2>1 DEF TuiInv, LoadInv
  <2>. QED BY <2>1, <2>2
<1>2. ASSUME NEW list, NEW at, RequestWeather(list, at) \/ Reselect(list, at) PROVE FALSE
  BY <1>2 DEF RequestWeather, Reselect, weatherVars
<1>3. ASSUME UNCHANGED snapshot PROVE FALSE
  BY <1>3
<1>4. ASSUME \/ RefreshKey \/ Tick \/ ManageKey \/ AboutKey \/ IntervalPasses \/ WeatherEvent
             \/ Exit \/ CloseManage \/ HideSelected
             \/ \E step \in {"down", "up"} : SelectKey(step)
      PROVE  FALSE
  BY <1>2, <1>3, <1>4 DEF RefreshKey, Tick, ManageKey, AboutKey, IntervalPasses, WeatherEvent,
       Exit, CloseManage, HideSelected, SelectKey, weatherVars
<1>5. ASSUME \/ ToggleSelected \/ DeleteSelected \/ BeginMove \/ ExitSearch
             \/ SubmitSearch \/ AddResult \/ PreviewResult \/ ApplyPage
             \/ \E step \in {"down", "up"} : CursorKey(step) \/ MoveBy(step) \/ SearchCursor(step)
             \/ \E confirmed \in BOOLEAN : EndMove(confirmed)
             \/ \E kind \in SearchModes : EnterSearch(kind)
             \/ \E q \in Queries : EditQuery(q)
      PROVE  FALSE
  BY <1>3, <1>5 DEF ToggleSelected, DeleteSelected, BeginMove, ExitSearch, SubmitSearch,
       AddResult, PreviewResult, ApplyPage, CursorKey, MoveBy, SearchCursor, EndMove,
       EnterSearch, EditQuery, weatherVars
<1>6. ASSUME NEW ok \in BOOLEAN,
             \/ SearchTaskSends(ok) \/ \E e \in previews : ApplyPreview(e, ok)
      PROVE  FALSE
  BY <1>3, <1>6 DEF SearchTaskSends, ApplyPreview, weatherVars
<1>7. ASSUME NEW ok \in BOOLEAN, NEW e \in updates, ApplyConfig(e, ok) PROVE FALSE
  <2>1. \/ UNCHANGED weatherVars
        \/ Reselect(e.stations, ConfigSelection(e.stations, hidden'))
    BY <1>7 DEF ApplyConfig
  <2>. QED BY <1>2, <1>3, <2>1 DEF weatherVars
<1>8. ASSUME EffectPanics \/ UNCHANGED vars PROVE FALSE
  BY <1>3, <1>8 DEF EffectPanics, vars, appVars, weatherVars
<1>. QED BY <1>1, <1>4, <1>5, <1>6, <1>7, <1>8 DEF AppStep, Next

(* A snapshot that appears is of the station selected then, however many   *)
(* earlier loads are still out (apply_effect_result's token check).        *)
THEOREM ShownSnapshotIsSelected == Spec => ShownIsSelected
BY TerminalInvariant, ShownStep, PTL DEF Spec, ShownIsSelected

----------------------------------------------------------------------------
(* StationCli: the engine's candidates are in ascending order and distinct. *)

Items == [kind : 0..2, rank : Nat, prov : Nat, city : Nat, id : Nat]

\* The fifth entry of an order key: the canonical number of a station's name.
Shown(x) == IF x.kind = 0 THEN NameOf(x.prov, x.city)[2] ELSE 0
Ahead(x, y) ==
    \/ x.kind < y.kind
    \/ x.kind = y.kind /\ x.rank < y.rank
    \/ x.kind = y.kind /\ x.rank = y.rank /\ x.prov < y.prov
    \/ x.kind = y.kind /\ x.rank = y.rank /\ x.prov = y.prov /\ Shown(x) < Shown(y)
    \/ x.kind = y.kind /\ x.rank = y.rank /\ x.prov = y.prov /\ Shown(x) = Shown(y)
       /\ x.city < y.city
    \/ x.kind = y.kind /\ x.rank = y.rank /\ x.prov = y.prov /\ Shown(x) = Shown(y)
       /\ x.city = y.city /\ x.id < y.id

LEMMA ShownIsNatural ==
    ASSUME NEW x \in Items
    PROVE  Shown(x) \in Nat
<1>1. NameOf(x.prov, x.city)[2] = IF x.city <= 1 THEN 0 ELSE x.city
  BY DEF NameOf
<1>2. x.city \in Nat
  BY DEF Items
<1>. QED BY <1>1, <1>2 DEF Shown

LEMMA BeforeIsAhead ==
    ASSUME NEW x \in Items, NEW y \in Items
    PROVE  Before(x, y) <=> Ahead(x, y)
<1>. DEFINE a == OrderKey(x)
            b == OrderKey(y)
<1>1. /\ DOMAIN a = 1..6 /\ a[1] = x.kind /\ a[2] = x.rank /\ a[3] = x.prov
      /\ a[4] = Shown(x) /\ a[5] = x.city /\ a[6] = x.id
  BY DEF OrderKey, Shown
<1>2. /\ b[1] = y.kind /\ b[2] = y.rank /\ b[3] = y.prov
      /\ b[4] = Shown(y) /\ b[5] = y.city /\ b[6] = y.id
  BY DEF OrderKey, Shown
<1>3. Before(x, y) <=> \E i \in 1..6 : a[i] < b[i] /\ \A j \in 1..(i - 1) : a[j] = b[j]
  BY <1>1 DEF Before
<1>. HIDE DEF a, b
<1>4. (\E i \in 1..6 : a[i] < b[i] /\ \A j \in 1..(i - 1) : a[j] = b[j]) <=>
         \/ a[1] < b[1]
         \/ a[1] = b[1] /\ a[2] < b[2]
         \/ a[1] = b[1] /\ a[2] = b[2] /\ a[3] < b[3]
         \/ a[1] = b[1] /\ a[2] = b[2] /\ a[3] = b[3] /\ a[4] < b[4]
         \/ a[1] = b[1] /\ a[2] = b[2] /\ a[3] = b[3] /\ a[4] = b[4] /\ a[5] < b[5]
         \/ a[1] = b[1] /\ a[2] = b[2] /\ a[3] = b[3] /\ a[4] = b[4] /\ a[5] = b[5]
            /\ a[6] < b[6]
  OBVIOUS
<1>. QED BY <1>1, <1>2, <1>3, <1>4 DEF Ahead

\* The ranking compares every field, so it is a strict total order.
LEMMA AheadIsOrder ==
    /\ \A x, y \in Items : Ahead(x, y) \/ Ahead(y, x) \/ x = y
    /\ \A x, y, z \in Items : Ahead(x, y) /\ Ahead(y, z) => Ahead(x, z)
    /\ \A x \in Items : ~Ahead(x, x)
    /\ \A x, y \in Items : Ahead(x, y) => x.kind <= y.kind
<1>1. ASSUME NEW x \in Items
      PROVE  /\ x.kind \in Nat /\ x.rank \in Nat /\ x.prov \in Nat /\ x.city \in Nat
             /\ x.id \in Nat /\ Shown(x) \in Nat
  BY ShownIsNatural DEF Items
<1>2. ASSUME NEW x \in Items, NEW y \in Items
      PROVE  Ahead(x, y) \/ Ahead(y, x) \/ x = y
  <2>1. CASE /\ x.kind = y.kind /\ x.rank = y.rank /\ x.prov = y.prov /\ x.city = y.city
             /\ x.id = y.id
    BY <2>1 DEF Items
  <2>2. CASE ~(/\ x.kind = y.kind /\ x.rank = y.rank /\ x.prov = y.prov /\ x.city = y.city
               /\ x.id = y.id)
    BY <1>1, <2>2 DEF Ahead
  <2>. QED BY <2>1, <2>2
<1>3. ASSUME NEW x \in Items, NEW y \in Items, NEW z \in Items, Ahead(x, y), Ahead(y, z)
      PROVE  Ahead(x, z)
  BY <1>1, <1>3 DEF Ahead
<1>4. ASSUME NEW x \in Items PROVE ~Ahead(x, x)
  BY <1>1 DEF Ahead
<1>5. ASSUME NEW x \in Items, NEW y \in Items, Ahead(x, y) PROVE x.kind <= y.kind
  BY <1>1, <1>5 DEF Ahead
<1>. QED BY <1>2, <1>3, <1>4, <1>5

\* Ranking a finite set of items lists it in order.
Place(S, x) == Cardinality({y \in S : Before(y, x)})
LEMMA PlacesAreExact ==
    ASSUME NEW S \in SUBSET Items, IsFiniteSet(S)
    PROVE  /\ Cardinality(S) \in Nat
           /\ \A x \in S : Place(S, x) \in 0..(Cardinality(S) - 1)
           /\ \A x, y \in S : Ahead(x, y) => Place(S, x) < Place(S, y)
           /\ \A n \in 0..(Cardinality(S) - 1) : \E x \in S : Place(S, x) = n
<1>. DEFINE N == Cardinality(S)
            L(x) == {y \in S : Before(y, x)}
<1>1. N \in Nat
  BY FS_CardinalityType
<1>a. ASSUME NEW x \in S
      PROVE  /\ L(x) \in SUBSET S /\ Place(S, x) = Cardinality(L(x))
             /\ \A y \in S : y \in L(x) <=> Ahead(y, x)
  BY BeforeIsAhead DEF Place
<1>. HIDE DEF L
<1>2. ASSUME NEW x \in S
      PROVE  IsFiniteSet(L(x)) /\ Place(S, x) \in Nat /\ Place(S, x) < N
  <2>1. L(x) \in SUBSET S /\ \A y \in S : y \in L(x) <=> Ahead(y, x)
    BY <1>a
  <2>2. IsFiniteSet(L(x)) /\ Cardinality(L(x)) \in Nat /\ Cardinality(L(x)) <= N
    BY <2>1, FS_Subset, FS_CardinalityType
  <2>3. x \notin L(x) /\ L(x) # S
    BY <2>1, AheadIsOrder
  <2>4. Cardinality(L(x)) # N
    BY <2>1, <2>3, FS_Subset
  <2>. QED BY <1>1, <1>a, <2>2, <2>4
<1>3. ASSUME NEW x \in S, NEW y \in S, Ahead(x, y) PROVE Place(S, x) < Place(S, y)
  <2>1. L(x) \in SUBSET L(y) /\ x \in L(y) /\ x \notin L(x)
    BY <1>a, <1>3, AheadIsOrder
  <2>2. Cardinality(L(x)) <= Cardinality(L(y)) /\ Cardinality(L(x)) # Cardinality(L(y))
    BY <1>2, <2>1, FS_Subset
  <2>. QED BY <1>a, <1>2, <2>2
<1>4. ASSUME NEW n \in 0..(N - 1) PROVE \E x \in S : Place(S, x) = n
  <2>. DEFINE f == [x \in S |-> Place(S, x)]
              R == 0..(N - 1)
  <2>1. f \in [S -> R]
    BY <1>1, <1>2
  <2>2. \A x, y \in S : f[x] = f[y] => x = y
    <3>1. SUFFICES ASSUME NEW x \in S, NEW y \in S, Place(S, x) = Place(S, y) PROVE x = y
      OBVIOUS
    <3>2. ~Ahead(x, y) /\ ~Ahead(y, x)
      BY <1>2, <1>3, <3>1
    <3>. QED BY <3>2, AheadIsOrder
  <2>. HIDE DEF f
  <2>3. f \in Injection(S, R)
    BY <2>1, <2>2 DEF Injection, IsInjective
  <2>4. IsFiniteSet(R) /\ Cardinality(R) = N
    BY <1>1, FS_Interval
  <2>5. f \in Surjection(S, R)
    BY <2>3, <2>4, FS_Injection
  <2>6. PICK x \in S : f[x] = n
    BY <2>5 DEF Surjection
  <2>. QED BY <2>6 DEF f
<1>. QED BY <1>1, <1>2, <1>3, <1>4

\* No key occurs twice in q, and the kinds in q never decrease.
DistinctKeys(q) == \A i, j \in DOMAIN q : i # j => KeyOf(q[i]) # KeyOf(q[j])
Ascending(q) == \A i, j \in DOMAIN q : i < j => q[i].kind <= q[j].kind

LEMMA PickedKeeps ==
    ASSUME NEW q \in Seq(Items), NEW I
    PROVE  /\ Picked(q, I) \in Seq(Items)
           /\ DistinctKeys(q) => DistinctKeys(Picked(q, I))
           /\ Ascending(q) => Ascending(Picked(q, I))
<1>. DEFINE p == Picked(q, I)
<1>1. p \in Seq(Items) /\ \E at : Origins(at, p, q, I, Len(q))
  BY PickedFacts
<1>. HIDE DEF p
<1>2. PICK at : Origins(at, p, q, I, Len(q))
  BY <1>1
<1>3. /\ DOMAIN p = 1..Len(p) /\ Len(p) \in Nat /\ DOMAIN q = 1..Len(q)
      /\ \A a \in DOMAIN p : p[a] = q[at[a]] /\ at[a] \in DOMAIN q
      /\ \A a, b \in DOMAIN p : a < b => at[a] < at[b]
  BY <1>1, <1>2 DEF Origins
<1>4. ASSUME DistinctKeys(q) PROVE DistinctKeys(p)
  <2>1. SUFFICES ASSUME NEW a \in DOMAIN p, NEW b \in DOMAIN p, a # b
                 PROVE  KeyOf(p[a]) # KeyOf(p[b])
    BY DEF DistinctKeys
  <2>2. at[a] # at[b]
    BY <1>3, <2>1
  <2>. QED BY <1>3, <1>4, <2>2 DEF DistinctKeys
<1>5. ASSUME Ascending(q) PROVE Ascending(p)
  <2>1. SUFFICES ASSUME NEW a \in DOMAIN p, NEW b \in DOMAIN p, a < b
                 PROVE  p[a].kind <= p[b].kind
    BY DEF Ascending
  <2>2. at[a] < at[b]
    BY <1>3, <2>1
  <2>. QED BY <1>3, <1>5, <2>2 DEF Ascending
<1>. QED BY <1>1, <1>4, <1>5 DEF p

LEMMA OnlyKeeps ==
    ASSUME NEW q \in Seq(Items), NEW S
    PROVE  /\ Only(q, S) \in Seq(Items)
           /\ DistinctKeys(q) => DistinctKeys(Only(q, S))
           /\ Ascending(q) => Ascending(Only(q, S))
BY PickedKeeps DEF Only

LEMMA DistinctFacts ==
    ASSUME NEW q \in Seq(Items)
    PROVE  /\ Distinct(q) \in Seq(Items) /\ DistinctKeys(Distinct(q))
           /\ Ascending(q) => Ascending(Distinct(q))
           /\ DistinctKeys(q) => Distinct(q) = q
<1>. DEFINE I == {i \in 1..Len(q) : \A j \in 1..(i - 1) : KeyOf(q[j]) # KeyOf(q[i])}
            p == Picked(q, I)
<1>1. Distinct(q) = p /\ DOMAIN q = 1..Len(q)
  BY DEF Distinct
<1>2. ASSUME DistinctKeys(q) PROVE p = q
  <2>1. 1..Len(q) \subseteq I
    BY <1>1, <1>2 DEF DistinctKeys
  <2>. HIDE DEF I
  <2>. QED BY <2>1, PickedAll
<1>3. \A i \in I : i \in 1..Len(q) /\ \A j \in 1..(i - 1) : KeyOf(q[j]) # KeyOf(q[i])
  OBVIOUS
<1>. HIDE DEF I
<1>4. p \in Seq(Items) /\ (Ascending(q) => Ascending(p))
  BY PickedKeeps
<1>5. PICK at : Origins(at, p, q, I, Len(q))
  BY PickedFacts
<1>. HIDE DEF p
<1>6. DistinctKeys(p)
  <2>1. /\ DOMAIN p = 1..Len(p) /\ Len(p) \in Nat
        /\ \A a \in DOMAIN p : p[a] = q[at[a]] /\ at[a] \in I /\ at[a] \in 1..Len(q)
        /\ \A a, b \in DOMAIN p : a < b => at[a] < at[b]
    BY <1>4, <1>5 DEF Origins
  <2>2. ASSUME NEW a \in DOMAIN p, NEW b \in DOMAIN p, a < b
        PROVE  KeyOf(p[a]) # KeyOf(p[b])
    <3>1. at[a] \in 1..(at[b] - 1)
      BY <2>1, <2>2
    <3>2. KeyOf(q[at[a]]) # KeyOf(q[at[b]])
      BY <1>3, <2>1, <3>1
    <3>. QED BY <2>1, <3>2
  <2>3. \A a, b \in DOMAIN p : a # b => a < b \/ b < a
    BY <2>1
  <2>. QED BY <2>2, <2>3 DEF DistinctKeys
<1>. QED BY <1>1, <1>2, <1>4, <1>6

LEMMA ConcatSet ==
    ASSUME NEW E, NEW p \in Seq(E), NEW q \in Seq(E)
    PROVE  ToSet(p \o q) = ToSet(p) \cup ToSet(q)
<1>1. \A r : ToSet(r) = Range(r)
  BY DEF ToSet, Range
<1>2. Range(p \o q) = Range(p) \cup Range(q)
  BY RangeConcatenation
<1>. QED BY <1>1, <1>2

\* A station found hides the city it stands in.
Hidden(s, S, x) ==
    x.kind = 1 /\ \E y \in S : Passes(s, y) /\ y.kind = 0 /\ y.prov = x.prov /\ y.city = x.city
Kept(s, S) == {x \in S : Passes(s, x) /\ ~Hidden(s, S, x)}
FoundIn(s, q) == Only(q, Kept(s, ToSet(q)))

\* What is found in p and q is what is found in p, joined with the matches of q.
LEMMA PageJoins ==
    ASSUME NEW s, NEW p \in Seq(Items), NEW q \in Seq(Items), DistinctKeys(p \o q)
    PROVE  DedupSearch(FoundIn(s, p), Matching(s, q)) = FoundIn(s, p \o q)
<1>. DEFINE P == ToSet(p)
            Q == ToSet(q)
            M == {x \in Q : Passes(s, x)}
            U == Kept(s, P) \cup M
            u == Only(p \o q, U)
<1>1. p \o q \in Seq(Items) /\ ToSet(p \o q) = P \cup Q
  BY ConcatSet, ConcatProperties
<1>2. P \cap Q = {}
  <2>1. SUFFICES ASSUME NEW x \in P, x \in Q PROVE FALSE
    OBVIOUS
  <2>2. PICK i \in 1..Len(p) : x = p[i]
    BY DEF ToSet
  <2>3. PICK j \in 1..Len(q) : x = q[j]
    BY <2>1 DEF ToSet
  <2>4. /\ Len(p) \in Nat /\ Len(q) \in Nat
        /\ i \in 1..(Len(p) + Len(q)) /\ Len(p) + j \in 1..(Len(p) + Len(q))
        /\ i # Len(p) + j
    OBVIOUS
  <2>5. DOMAIN (p \o q) = 1..(Len(p) + Len(q)) /\ (p \o q)[i] = x
    BY <2>2, <2>4, ConcatProperties
  <2>6. (p \o q)[Len(p) + j] = x
    <3>1. (p \o q)[Len(p) + j] = IF Len(p) + j <= Len(p) THEN p[Len(p) + j]
                                 ELSE q[(Len(p) + j) - Len(p)]
      BY <2>4, ConcatProperties
    <3>2. ~(Len(p) + j <= Len(p)) /\ (Len(p) + j) - Len(p) = j
      BY <2>4
    <3>. QED BY <2>3, <3>1, <3>2
  <2>. QED BY <2>4, <2>5, <2>6 DEF DistinctKeys
<1>3. /\ Kept(s, P) \subseteq P /\ M \subseteq Q
      /\ P \cap U = P \cap Kept(s, P) /\ Q \cap U = M /\ (P \cup Q) \cap U = U
  BY <1>2 DEF Kept
<1>a. \A x : x \in U <=> \/ (x \in P /\ Passes(s, x) /\ ~Hidden(s, P, x))
                         \/ (x \in Q /\ Passes(s, x))
  BY DEF Kept
<1>b. \A x : x \in U => x \in P \cup Q
  BY <1>a
<1>. HIDE DEF U
<1>4. FoundIn(s, p) \o Matching(s, q) = u
  <2>1. Only(p, U) = FoundIn(s, p)
    BY <1>3, OnlySame DEF FoundIn
  <2>2. Only(q, U) = Matching(s, q)
    BY <1>3, OnlySame DEF Matching
  <2>3. Only(p \o q, U) = Only(p, U) \o Only(q, U)
    BY OnlyConcat
  <2>. QED BY <2>1, <2>2, <2>3
<1>5. u \in Seq(Items) /\ ToSet(u) = U /\ Distinct(u) = u
  <2>1. u \in Seq(Items) /\ DistinctKeys(u)
    BY <1>1, OnlyKeeps
  <2>2. ToSet(u) = ToSet(p \o q) \cap U
    BY <1>1, OnlyFacts
  <2>. QED BY <1>1, <1>3, <2>1, <2>2, DistinctFacts
<1>6. ToSet(OfKind(u, 0)) = {x \in U : x.kind = 0}
  <2>1. ToSet(OfKind(u, 0)) = ToSet(u) \cap {x \in ToSet(u) : x.kind = 0}
    BY <1>5, OnlyFacts DEF OfKind
  <2>. QED BY <1>5, <2>1
<1>7. \A x : x \in {y \in U : y.kind = 0} <=> x \in P \cup Q /\ Passes(s, x) /\ x.kind = 0
  BY <1>a DEF Hidden
<1>. DEFINE V == {x \in ToSet(u) : ~(x.kind = 1 /\ \E y \in ToSet(OfKind(u, 0)) :
                                        y.prov = x.prov /\ y.city = x.city)}
<1>8. DedupSearch(FoundIn(s, p), Matching(s, q)) = Only(u, V)
  BY <1>4, <1>5 DEF DedupSearch, WithoutCitiesOf
<1>9. \A x : x \in V <=> x \in U /\ ~Hidden(s, P \cup Q, x)
  BY <1>5, <1>6, <1>7 DEF Hidden
<1>10. \A x : x \in U /\ ~Hidden(s, P \cup Q, x) <=> x \in Kept(s, P \cup Q)
  BY <1>a DEF Kept, Hidden
<1>11. U \cap V = Kept(s, P \cup Q)
  BY <1>9, <1>10
<1>. HIDE DEF V, P, Q
<1>12. Only(u, V) = Only(p \o q, U \cap V)
  <2>1. \A r \in Seq(Items) : Only(Only(r, U), V) = Only(r, U \cap V)
    BY OnlyOnly
  <2>. QED BY <1>1, <2>1
<1>. QED BY <1>1, <1>8, <1>11, <1>12 DEF FoundIn

LEMMA NothingFound == \A s : FoundIn(s, << >>) = << >>
BY OnlyEmpty DEF FoundIn

\* A list in the order of the kinds is its stations, its cities, its provinces.
LEMMA ConcatAppend ==
    ASSUME NEW E, NEW p \in Seq(E), NEW q \in Seq(E), NEW x \in E
    PROVE  p \o Append(q, x) = Append(p \o q, x)
<1>1. <<x>> \in Seq(E) /\ p \o q \in Seq(E)
  BY ConcatProperties
<1>2. Append(q, x) = q \o <<x>> /\ Append(p \o q, x) = (p \o q) \o <<x>>
  BY <1>1, AppendIsConcat
<1>3. (p \o q) \o <<x>> = p \o (q \o <<x>>)
  BY <1>1, ConcatAssociative
<1>. QED BY <1>2, <1>3

OfThe(k) == {x \in Items : x.kind = k}
LEMMA OfKindIsOnly ==
    ASSUME NEW q \in Seq(Items), NEW k
    PROVE  OfKind(q, k) = Only(q, OfThe(k))
<1>1. ToSet(q) \cap {x \in ToSet(q) : x.kind = k} = ToSet(q) \cap OfThe(k)
  <2>1. ToSet(q) \subseteq Items
    BY ElementIsIn DEF ToSet
  <2>. QED BY <2>1 DEF OfThe
<1>. QED BY <1>1, OnlySame DEF OfKind

LEMMA KindsCompose ==
    ASSUME NEW q \in Seq(Items), Ascending(q)
    PROVE  OfKind(q, 0) \o OfKind(q, 1) \o OfKind(q, 2) = q
<1>. DEFINE a(r) == Only(r, OfThe(0))
            b(r) == Only(r, OfThe(1))
            c(r) == Only(r, OfThe(2))
            T == {r \in Seq(Items) : Ascending(r) => (a(r) \o b(r)) \o c(r) = r}
<1>1. << >> \in T
  <2>1. a(<< >>) = << >> /\ b(<< >>) = << >> /\ c(<< >>) = << >>
    BY OnlyEmpty
  <2>2. << >> \in Seq(Items) /\ (<< >> \o << >>) \o << >> = << >>
    OBVIOUS
  <2>. QED BY <2>1, <2>2
<1>2. ASSUME NEW r \in Seq(Items), NEW x \in Items, r \in T PROVE Append(r, x) \in T
  <2>1. Append(r, x) \in Seq(Items)
    OBVIOUS
  <2>2. SUFFICES ASSUME Ascending(Append(r, x))
                 PROVE  (a(Append(r, x)) \o b(Append(r, x))) \o c(Append(r, x)) = Append(r, x)
    BY <2>1
  <2>3. Ascending(r) /\ \A y \in ToSet(r) : y.kind <= x.kind
    <3>1. /\ DOMAIN r = 1..Len(r) /\ DOMAIN Append(r, x) = 1..(Len(r) + 1) /\ Len(r) \in Nat
          /\ \A i \in 1..Len(r) : Append(r, x)[i] = r[i]
          /\ Append(r, x)[Len(r) + 1] = x
      OBVIOUS
    <3>2. Ascending(r)
      BY <2>2, <3>1 DEF Ascending
    <3>3. ASSUME NEW y \in ToSet(r) PROVE y.kind <= x.kind
      <4>1. PICK i \in 1..Len(r) : y = r[i]
        BY <3>1 DEF ToSet
      <4>2. /\ i \in DOMAIN Append(r, x) /\ Len(r) + 1 \in DOMAIN Append(r, x)
            /\ i < Len(r) + 1
        BY <3>1
      <4>. QED BY <2>2, <3>1, <4>1, <4>2 DEF Ascending
    <3>. QED BY <3>2, <3>3
  <2>4. /\ a(r) \in Seq(Items) /\ b(r) \in Seq(Items) /\ c(r) \in Seq(Items)
        /\ a(r) \o b(r) \in Seq(Items) /\ (a(r) \o b(r)) \o c(r) = r
    <3>1. a(r) \in Seq(Items) /\ b(r) \in Seq(Items) /\ c(r) \in Seq(Items)
      BY OnlyFacts
    <3>2. (a(r) \o b(r)) \o c(r) = r
      BY <1>2, <2>3
    <3>. HIDE DEF a, b, c
    <3>. QED BY <3>1, <3>2, ConcatProperties
  <2>5. /\ a(Append(r, x)) = IF x \in OfThe(0) THEN Append(a(r), x) ELSE a(r)
        /\ b(Append(r, x)) = IF x \in OfThe(1) THEN Append(b(r), x) ELSE b(r)
        /\ c(Append(r, x)) = IF x \in OfThe(2) THEN Append(c(r), x) ELSE c(r)
    BY OnlyAppend
  <2>6. ToSet(r) \subseteq Items
    BY ElementIsIn DEF ToSet
  <2>7. /\ x.kind < 2 => ToSet(r) \cap OfThe(2) = {}
        /\ x.kind < 1 => ToSet(r) \cap OfThe(1) = {}
        /\ x.kind \in 0..2
    BY <2>3, SMTT(30) DEF OfThe, Items
  <2>8. /\ x.kind < 2 => c(r) = << >>
        /\ x.kind < 1 => b(r) = << >>
    BY <2>7, OnlyNone
  <2>. HIDE DEF a, b, c
  <2>9. CASE x.kind = 2
    <3>1. x \in OfThe(2) /\ x \notin OfThe(1) /\ x \notin OfThe(0)
      BY <2>9 DEF OfThe
    <3>2. (a(r) \o b(r)) \o Append(c(r), x) = Append((a(r) \o b(r)) \o c(r), x)
      BY <2>4, ConcatAppend, SMTT(30)
    <3>. QED BY <2>4, <2>5, <3>1, <3>2
  <2>10. CASE x.kind = 1
    <3>1. x \notin OfThe(2) /\ x \in OfThe(1) /\ x \notin OfThe(0)
      BY <2>10 DEF OfThe
    <3>2. a(r) \o Append(b(r), x) = Append(a(r) \o b(r), x)
      BY <2>4, ConcatAppend, SMTT(30)
    <3>3. c(r) = << >> /\ a(r) \o b(r) = r
      <4>1. c(r) = << >>
        BY <2>8, <2>10
      <4>2. (a(r) \o b(r)) \o << >> = a(r) \o b(r)
        BY <2>4, ConcatEmptySeq
      <4>. QED BY <2>4, <4>1, <4>2
    <3>4. Append(r, x) \o << >> = Append(r, x)
      BY <2>1, ConcatEmptySeq
    <3>. QED BY <2>5, <3>1, <3>2, <3>3, <3>4
  <2>11. CASE x.kind = 0
    <3>1. x \notin OfThe(2) /\ x \notin OfThe(1) /\ x \in OfThe(0)
      BY <2>11 DEF OfThe
    <3>2. c(r) = << >> /\ b(r) = << >> /\ a(r) = r
      BY <2>4, <2>8, <2>11, ConcatEmptySeq
    <3>3. Append(r, x) \o << >> = Append(r, x)
      BY <2>1, ConcatEmptySeq
    <3>. QED BY <2>5, <3>1, <3>2, <3>3
  <2>. QED BY <2>7, <2>9, <2>10, <2>11, SMTT(30)
<1>3. \A r \in Seq(Items) : r \in T
  <2>. HIDE DEF T
  <2>. QED BY <1>1, <1>2, ListInduction
<1>4. OfKind(q, 0) = a(q) /\ OfKind(q, 1) = b(q) /\ OfKind(q, 2) = c(q)
  BY OfKindIsOnly
<1>. QED BY <1>3, <1>4

LEMMA LeastOfTwo ==
    ASSUME NEW m \in Nat, NEW n \in Nat
    PROVE  /\ Min({m, n}) \in {m, n} /\ Min({m, n}) <= m /\ Min({m, n}) <= n
           /\ Min({m, n}) \in Nat /\ Min({m, n}) = IF m <= n THEN m ELSE n
<1>. DEFINE x == IF m <= n THEN m ELSE n
<1>1. x \in {m, n} /\ \A y \in {m, n} : x <= y
  OBVIOUS
<1>2. \A z \in {m, n} : (\A y \in {m, n} : z <= y) => z = x
  OBVIOUS
<1>3. Min({m, n}) = CHOOSE z \in {m, n} : \A y \in {m, n} : z <= y
  BY DEF Min
<1>4. Min({m, n}) = x
  <2>. HIDE DEF x
  <2>. QED BY <1>1, <1>2, <1>3
<1>. QED BY <1>4

LEMMA RankedFacts ==
    ASSUME NEW S \in SUBSET Items, IsFiniteSet(S)
    PROVE  Ranked(S) \in Seq(Items) /\ Ascending(Ranked(S))
<1>. DEFINE N == Cardinality(S)
            q == [i \in 1..N |-> CHOOSE x \in S : Place(S, x) = i - 1]
<1>1. N \in Nat /\ Ranked(S) = q
  BY FS_CardinalityType DEF Ranked, Place
<1>2. ASSUME NEW i \in 1..N PROVE q[i] \in S /\ Place(S, q[i]) = i - 1
  <2>1. i - 1 \in 0..(N - 1)
    BY <1>1
  <2>2. \E x \in S : Place(S, x) = i - 1
    BY <2>1, PlacesAreExact
  <2>. QED BY <2>2
<1>3. q \in [1..N -> Items] /\ DOMAIN q = 1..N
  BY <1>2
<1>. HIDE DEF q
<1>4. q \in Seq(Items)
  BY <1>1, <1>3
<1>5. Ascending(q)
  <2>1. SUFFICES ASSUME NEW i \in 1..N, NEW j \in 1..N, i < j PROVE q[i].kind <= q[j].kind
    BY <1>3 DEF Ascending
  <2>2. q[i] \in S /\ q[j] \in S /\ q[i] \in Items /\ q[j] \in Items
        /\ Place(S, q[i]) < Place(S, q[j]) /\ Place(S, q[i]) \in Nat /\ Place(S, q[j]) \in Nat
    BY <1>1, <1>2, <2>1
  <2>3. ~Ahead(q[j], q[i]) /\ q[i] # q[j]
    BY <2>2, PlacesAreExact
  <2>4. Ahead(q[i], q[j])
    BY <2>2, <2>3, AheadIsOrder
  <2>. QED BY <2>2, <2>4, AheadIsOrder
<1>. QED BY <1>1, <1>4, <1>5

LEMMA ImageIsFinite ==
    ASSUME NEW S, IsFiniteSet(S), NEW f, DOMAIN f = S, NEW T,
           \A y \in T : \E x \in S : f[x] = y
    PROVE  IsFiniteSet(T)
<1>. DEFINE U == {x \in S : f[x] \in T}
            g == [x \in U |-> f[x]]
<1>1. IsFiniteSet(U)
  BY FS_Subset
<1>2. g \in Surjection(U, T)
  BY DEF Surjection
<1>. QED BY <1>1, <1>2, FS_Surjection

\* The candidates of a search of a catalog are finitely many items.
LEMMA CandidatesFacts ==
    ASSUME NEW places \in Catalogs, NEW s \in SearchesMade
    PROVE  Candidates(places, s) \in SUBSET Items /\ IsFiniteSet(Candidates(places, s))
<1>. DEFINE cities == {c \in places : (s.prov = None \/ c.prov = s.prov)
                                       /\ RankOf(s, c.prov, c.city) < 3}
            provs == {p \in {c.prov : c \in places} : (s.prov = None \/ p = s.prov)
                                                       /\ s.provRank[p] < 3}
            itemOf(k, c) == [kind |-> k, rank |-> RankOf(s, c.prov, c.city),
                             prov |-> c.prov, city |-> c.city, id |-> c.id]
            provOf(p) == [kind |-> 2, rank |-> s.provRank[p], prov |-> p, city |-> 0, id |-> 0]
            X == {itemOf(k, c) : k \in {0, 1}, c \in cities}
            Y == {provOf(p) : p \in provs}
<1>1. Candidates(places, s) = X \union Y
  BY DEF Candidates
<1>2. IsFiniteSet(places)
  BY CliAssumption
<1>3. ASSUME NEW c \in places
      PROVE  /\ c.prov \in Nat /\ c.city \in Nat /\ c.id \in Nat
             /\ s.provRank[c.prov] \in Nat /\ RankOf(s, c.prov, c.city) \in Nat
  <2>1. c \in Places
    BY CliAssumption
  <2>2. s.provRank[c.prov] \in Nat /\ s.cityRank[c.city] \in Nat
    BY CliAssumption
  <2>3. RankOf(s, c.prov, c.city) \in Nat
    <3>. DEFINE m == s.provRank[c.prov]
                n == s.cityRank[c.city]
    <3>1. m \in Nat /\ n \in Nat /\ RankOf(s, c.prov, c.city) = Min({m, n})
      BY <2>2 DEF RankOf
    <3>. HIDE DEF m, n
    <3>2. Min({m, n}) \in Nat
      BY <3>1, LeastOfTwo
    <3>. QED BY <3>1, <3>2
  <2>. QED BY <2>1, <2>2, <2>3 DEF Places
<1>4. X \in SUBSET Items
  BY <1>3 DEF Items
<1>5. Y \in SUBSET Items
  BY <1>3 DEF Items
<1>6. IsFiniteSet(X)
  <2>. DEFINE f == [d \in {0, 1} \X places |-> itemOf(d[1], d[2])]
  <2>1. IsFiniteSet({0, 1})
    <3>1. IsFiniteSet({0} \cup {1})
      BY FS_Singleton, FS_AddElement
    <3>2. {0} \cup {1} = {0, 1}
      OBVIOUS
    <3>. QED BY <3>1, <3>2
  <2>2. IsFiniteSet({0, 1} \X places) /\ DOMAIN f = {0, 1} \X places
    BY <1>2, <2>1, FS_Product
  <2>3. ASSUME NEW y \in X PROVE \E x \in {0, 1} \X places : f[x] = y
    <3>1. PICK k \in {0, 1}, c \in cities : y = itemOf(k, c)
      OBVIOUS
    <3>2. <<k, c>> \in {0, 1} \X places /\ f[<<k, c>>] = itemOf(k, c)
      OBVIOUS
    <3>. HIDE DEF f, itemOf
    <3>. QED BY <3>1, <3>2
  <2>. HIDE DEF f, X
  <2>. QED BY <2>2, <2>3, ImageIsFinite
<1>7. IsFiniteSet(Y)
  <2>. DEFINE f == [c \in places |-> provOf(c.prov)]
  <2>1. ASSUME NEW y \in Y PROVE \E x \in places : f[x] = y
    OBVIOUS
  <2>2. DOMAIN f = places
    OBVIOUS
  <2>. HIDE DEF f, Y
  <2>. QED BY <1>2, <2>1, <2>2, ImageIsFinite
<1>. HIDE DEF X, Y
<1>8. IsFiniteSet(X \union Y)
  BY <1>6, <1>7, FS_Union
<1>. QED BY <1>1, <1>4, <1>5, <1>8

LEMMA SearchCandidatesFacts ==
    ASSUME NEW places \in Catalogs, NEW s \in SearchesMade
    PROVE  /\ SearchCandidates[places][s] \in Seq(Items)
           /\ DistinctKeys(SearchCandidates[places][s])
           /\ Ascending(SearchCandidates[places][s])
<1>. DEFINE q == Ranked(Candidates(places, s))
<1>1. q \in Seq(Items) /\ Ascending(q)
  BY CandidatesFacts, RankedFacts
<1>2. SearchCandidates[places][s] = Distinct(q)
  BY DEF SearchCandidates
<1>. HIDE DEF q
<1>. QED BY <1>1, <1>2, DistinctFacts

LEMMA KindsHaveKeys ==
    ASSUME NEW x \in Items, NEW y \in Items, x.kind # y.kind
    PROVE  KeyOf(x) # KeyOf(y)
<1>1. ASSUME NEW z \in Items PROVE KeyOf(z)[1] = z.kind
  BY DEF Items, KeyOf
<1>. QED BY <1>1

LEMMA DistinctConcat ==
    ASSUME NEW p \in Seq(Items), NEW q \in Seq(Items), DistinctKeys(p), DistinctKeys(q),
           \A x \in ToSet(p), y \in ToSet(q) : x.kind # y.kind
    PROVE  p \o q \in Seq(Items) /\ DistinctKeys(p \o q)
<1>1. /\ p \o q \in Seq(Items) /\ DOMAIN (p \o q) = 1..(Len(p) + Len(q))
      /\ Len(p) \in Nat /\ Len(q) \in Nat
      /\ \A i \in 1..(Len(p) + Len(q)) :
            (p \o q)[i] = IF i <= Len(p) THEN p[i] ELSE q[i - Len(p)]
  BY ConcatProperties
<1>. DEFINE r == p \o q
<1>. HIDE DEF r
<1>2. ASSUME NEW i \in 1..(Len(p) + Len(q)), NEW j \in 1..(Len(p) + Len(q)), i < j
      PROVE  KeyOf((p \o q)[i]) # KeyOf((p \o q)[j])
  <2>1. CASE j <= Len(p)
    BY <1>1, <1>2, <2>1 DEF DistinctKeys
  <2>2. CASE i > Len(p)
    <3>1. i - Len(p) \in DOMAIN q /\ j - Len(p) \in DOMAIN q /\ i - Len(p) # j - Len(p)
      BY <1>1, <1>2, <2>2
    <3>2. (p \o q)[i] = q[i - Len(p)] /\ (p \o q)[j] = q[j - Len(p)]
      BY <1>1, <1>2, <2>2
    <3>. QED BY <3>1, <3>2 DEF DistinctKeys
  <2>3. CASE i <= Len(p) /\ j > Len(p)
    <3>1. i \in DOMAIN p /\ j - Len(p) \in DOMAIN q
      BY <1>1, <1>2, <2>3
    <3>2. (p \o q)[i] = p[i] /\ (p \o q)[j] = q[j - Len(p)]
      BY <1>1, <1>2, <2>3
    <3>3. p[i] \in Items /\ q[j - Len(p)] \in Items /\ p[i].kind # q[j - Len(p)].kind
      BY <3>1 DEF ToSet
    <3>. QED BY <3>2, <3>3, KindsHaveKeys
  <2>. QED BY <1>1, <2>1, <2>2, <2>3
<1>3. \A i, j \in DOMAIN (p \o q) : i # j => i < j \/ j < i
  BY <1>1
<1>. QED BY <1>1, <1>2, <1>3 DEF DistinctKeys

\* What is shown of a list of distinct items has no two of one key.
LEMMA FinalizedFacts ==
    ASSUME NEW s, s.sel \in Nat, s.limit \in Nat, NEW q \in Seq(Items), DistinctKeys(q)
    PROVE  Finalized(s, q) \in Seq(Items) /\ DistinctKeys(Finalized(s, q))
<1>. DEFINE a == OfKind(q, 0)
            b == OfKind(q, 1)
            c == OfKind(q, 2)
            all == (a \o b) \o c
<1>1. /\ a \in Seq(Items) /\ DistinctKeys(a) /\ ToSet(a) = ToSet(q) \cap OfThe(0)
      /\ b \in Seq(Items) /\ DistinctKeys(b) /\ ToSet(b) = ToSet(q) \cap OfThe(1)
      /\ c \in Seq(Items) /\ DistinctKeys(c) /\ ToSet(c) = ToSet(q) \cap OfThe(2)
  <2>1. ASSUME NEW k
        PROVE  /\ OfKind(q, k) \in Seq(Items) /\ DistinctKeys(OfKind(q, k))
               /\ ToSet(OfKind(q, k)) = ToSet(q) \cap OfThe(k)
    <3>1. OfKind(q, k) = Only(q, OfThe(k))
      BY OfKindIsOnly
    <3>. QED BY <3>1, OnlyKeeps, OnlyFacts
  <2>. QED BY <2>1
<1>. HIDE DEF a, b, c
<1>2. a \o b \in Seq(Items) /\ DistinctKeys(a \o b) /\ ToSet(a \o b) = ToSet(a) \cup ToSet(b)
  <2>1. \A x \in ToSet(a), y \in ToSet(b) : x.kind # y.kind
    BY <1>1 DEF OfThe
  <2>. QED BY <1>1, <2>1, DistinctConcat, ConcatSet
<1>3. all \in Seq(Items) /\ DistinctKeys(all)
  <2>1. \A x \in ToSet(a \o b), y \in ToSet(c) : x.kind # y.kind
    BY <1>1, <1>2 DEF OfThe
  <2>. QED BY <1>1, <1>2, <2>1, DistinctConcat
<1>. HIDE DEF all
<1>4. CASE s.sel # 0 /\ s.sel <= Len(a)
  <2>1. s.sel \in 1..Len(a) /\ a[s.sel] \in Items
    BY <1>1, <1>4
  <2>2. Finalized(s, q) = <<a[s.sel]>>
    BY <1>4 DEF Finalized, a
  <2>3. <<a[s.sel]>> \in Seq(Items) /\ DOMAIN <<a[s.sel]>> = {1}
    BY <2>1
  <2>. QED BY <2>2, <2>3 DEF DistinctKeys
<1>5. CASE ~(s.sel # 0 /\ s.sel <= Len(a))
  <2>. DEFINE m == Min({Len(all), s.limit})
  <2>1. Len(all) \in Nat /\ m \in Nat /\ m <= Len(all)
    BY <1>3, LeastOfTwo
  <2>2. Finalized(s, q) = SubSeq(all, 1, m)
    BY <1>5 DEF Finalized, a, b, c, all
  <2>. HIDE DEF m
  <2>3. /\ SubSeq(all, 1, m) \in Seq(Items) /\ DOMAIN SubSeq(all, 1, m) = 1..m
        /\ \A i \in 1..m : SubSeq(all, 1, m)[i] = all[i] /\ i \in DOMAIN all
    BY <1>3, <2>1
  <2>. QED BY <1>3, <2>2, <2>3 DEF DistinctKeys
<1>. QED BY <1>4, <1>5

\* Once the target is reached, further pages change nothing that is shown.
LEMMA LaterPagesChangeNothing ==
    ASSUME NEW s, s.sel \in Nat, s.limit \in Nat,
           NEW p \in Seq(Items), NEW q \in Seq(Items), Ascending(p \o q),
           TargetReached(s, FoundIn(s, p))
    PROVE  Finalized(s, FoundIn(s, p)) = Finalized(s, FoundIn(s, p \o q))
<1>. DEFINE P == ToSet(p)
            Q == ToSet(q)
            f == FoundIn(s, p)
            g == FoundIn(s, p \o q)
            M == {x \in P \cup Q : Passes(s, x) /\ x.kind = 0}
<1>1. /\ p \o q \in Seq(Items) /\ ToSet(p \o q) = P \cup Q /\ f \in Seq(Items) /\ g \in Seq(Items)
      /\ P \subseteq Items /\ Q \subseteq Items /\ Len(f) \in Nat
  <2>1. p \o q \in Seq(Items) /\ ToSet(p \o q) = P \cup Q
    BY ConcatProperties, ConcatSet
  <2>2. f \in Seq(Items) /\ g \in Seq(Items)
    BY <2>1, OnlyFacts DEF FoundIn
  <2>3. P \subseteq Items /\ Q \subseteq Items
    BY ElementIsIn DEF ToSet
  <2>. HIDE DEF f
  <2>4. Len(f) \in Nat
    BY <2>2
  <2>. QED BY <2>1, <2>2, <2>3, <2>4 DEF f
<1>2. \A x \in P, y \in Q : x.kind <= y.kind
  <2>1. SUFFICES ASSUME NEW x \in P, NEW y \in Q PROVE x.kind <= y.kind
    OBVIOUS
  <2>2. PICK i \in 1..Len(p) : x = p[i]
    BY <2>1 DEF ToSet
  <2>3. PICK j \in 1..Len(q) : y = q[j]
    BY <2>1 DEF ToSet
  <2>4. /\ Len(p) \in Nat /\ Len(q) \in Nat
        /\ i \in 1..(Len(p) + Len(q)) /\ Len(p) + j \in 1..(Len(p) + Len(q))
        /\ i < Len(p) + j
    OBVIOUS
  <2>5. DOMAIN (p \o q) = 1..(Len(p) + Len(q)) /\ (p \o q)[i] = x
    BY <2>2, <2>4, ConcatProperties
  <2>6. (p \o q)[Len(p) + j] = y
    <3>1. (p \o q)[Len(p) + j] = IF Len(p) + j <= Len(p) THEN p[Len(p) + j]
                                 ELSE q[(Len(p) + j) - Len(p)]
      BY <2>4, ConcatProperties
    <3>2. ~(Len(p) + j <= Len(p)) /\ (Len(p) + j) - Len(p) = j
      BY <2>4
    <3>. QED BY <2>3, <3>1, <3>2
  <2>. QED BY <2>4, <2>5, <2>6 DEF Ascending
<1>3. OfKind(f, 0) = Only(p, M) /\ OfKind(g, 0) = Only(p, M) \o Only(q, M)
  <2>1. OfKind(f, 0) = Only(p, Kept(s, P) \cap OfThe(0))
    <3>1. OfKind(f, 0) = Only(Only(p, Kept(s, P)), OfThe(0))
      BY <1>1, OfKindIsOnly DEF FoundIn
    <3>. QED BY <3>1, OnlyOnly
  <2>2. OfKind(g, 0) = Only(p \o q, Kept(s, P \cup Q) \cap OfThe(0))
    <3>1. OfKind(g, 0) = Only(Only(p \o q, Kept(s, P \cup Q)), OfThe(0))
      BY <1>1, OfKindIsOnly DEF FoundIn
    <3>2. \A S, e, k : e \in Seq(Items) => Only(Only(e, S), OfThe(k)) = Only(e, S \cap OfThe(k))
      BY OnlyOnly
    <3>. QED BY <1>1, <3>1, <3>2
  <2>3. P \cap (Kept(s, P) \cap OfThe(0)) = P \cap M
    BY <1>1 DEF Kept, Hidden, OfThe
  <2>4. (P \cup Q) \cap (Kept(s, P \cup Q) \cap OfThe(0)) = (P \cup Q) \cap M
    BY <1>1 DEF Kept, Hidden, OfThe
  <2>. HIDE DEF M
  <2>5. Only(p, Kept(s, P) \cap OfThe(0)) = Only(p, M)
    BY <2>3, OnlySame
  <2>6. Only(p \o q, Kept(s, P \cup Q) \cap OfThe(0)) = Only(p \o q, M)
    BY <1>1, <2>4, OnlySame
  <2>. QED BY <2>1, <2>2, <2>5, <2>6, OnlyConcat
<1>4. CASE s.sel # 0
  <2>. DEFINE a == Only(p, M)
              b == Only(q, M)
  <2>1. a \in Seq(Items) /\ b \in Seq(Items)
    BY OnlyFacts
  <2>2. s.sel <= Len(a)
    BY <1>3, <1>4 DEF TargetReached, TargetOf
  <2>. HIDE DEF a, b, f, g
  <2>3. s.sel <= Len(a \o b) /\ (a \o b)[s.sel] = a[s.sel]
    BY <1>4, <2>1, <2>2, ConcatProperties
  <2>4. OfKind(f, 0) = a /\ OfKind(g, 0) = a \o b
    BY <1>3 DEF a, b
  <2>5. Finalized(s, f) = <<a[s.sel]>> /\ Finalized(s, g) = <<(a \o b)[s.sel]>>
    BY <1>4, <2>2, <2>3, <2>4 DEF Finalized
  <2>. QED BY <2>3, <2>5 DEF f, g
<1>5. CASE s.sel = 0
  <2>. DEFINE r == Only(q, Kept(s, P \cup Q))
  <2>1. g = f \o r
    <3>1. P \cap Kept(s, P \cup Q) = P \cap Kept(s, P)
      <4>1. ASSUME NEW x \in P, Hidden(s, P \cup Q, x) PROVE Hidden(s, P, x)
        <5>1. PICK y \in P \cup Q : /\ Passes(s, y) /\ y.kind = 0
                                    /\ y.prov = x.prov /\ y.city = x.city
          BY <4>1 DEF Hidden
        <5>2. x.kind = 1
          BY <4>1 DEF Hidden
        <5>3. y \in P
          BY <1>2, <5>1, <5>2
        <5>. QED BY <5>1, <5>2, <5>3 DEF Hidden
      <4>2. \A x \in P : Hidden(s, P, x) => Hidden(s, P \cup Q, x)
        BY DEF Hidden
      <4>. QED BY <4>1, <4>2 DEF Kept
    <3>2. Only(p, Kept(s, P \cup Q)) = f
      BY <3>1, OnlySame DEF FoundIn
    <3>3. g = Only(p \o q, Kept(s, P \cup Q))
      BY <1>1 DEF FoundIn
    <3>4. Only(p \o q, Kept(s, P \cup Q)) = Only(p, Kept(s, P \cup Q)) \o r
      BY OnlyConcat
    <3>. QED BY <3>2, <3>3, <3>4
  <2>2. r \in Seq(Items)
    BY OnlyFacts
  <2>3. Ascending(g) /\ Ascending(p)
    <3>1. Ascending(g)
      BY <1>1, OnlyKeeps DEF FoundIn
    <3>2. Ascending(p)
      <4>1. \A i \in DOMAIN p : i \in DOMAIN (p \o q) /\ (p \o q)[i] = p[i]
        BY ConcatProperties
      <4>2. \A i, j \in DOMAIN p : i < j => (p \o q)[i].kind <= (p \o q)[j].kind
        BY <4>1 DEF Ascending
      <4>. QED BY <4>1, <4>2 DEF Ascending
    <3>. QED BY <3>1, <3>2
  <2>4. Ascending(f)
    BY <2>3, OnlyKeeps DEF FoundIn
  <2>5. s.limit <= Len(f)
    BY <1>5 DEF TargetReached, TargetOf
  <2>. HIDE DEF f, g, r
  <2>6. /\ (OfKind(f, 0) \o OfKind(f, 1)) \o OfKind(f, 2) = f
        /\ (OfKind(g, 0) \o OfKind(g, 1)) \o OfKind(g, 2) = g
    BY <1>1, <2>3, <2>4, KindsCompose
  <2>7. /\ Finalized(s, f) = SubSeq(f, 1, Min({Len(f), s.limit}))
        /\ Finalized(s, g) = SubSeq(g, 1, Min({Len(g), s.limit}))
    BY <1>5, <2>6 DEF Finalized
  <2>8. /\ Len(g) = Len(f) + Len(r) /\ Len(g) \in Nat /\ Len(r) \in Nat /\ s.limit <= Len(g)
        /\ \A i \in 1..s.limit : f[i] = g[i]
    BY <1>1, <2>1, <2>2, <2>5, ConcatProperties
  <2>9. Min({Len(f), s.limit}) = s.limit /\ Min({Len(g), s.limit}) = s.limit
    <3>1. \A n \in Nat : s.limit <= n => Min({n, s.limit}) = s.limit
      BY LeastOfTwo
    <3>. QED BY <1>1, <2>5, <2>8, <3>1
  <2>10. SubSeq(f, 1, s.limit) = SubSeq(g, 1, s.limit)
    <3>1. /\ SubSeq(f, 1, s.limit) \in Seq(Items) /\ Len(SubSeq(f, 1, s.limit)) = s.limit
          /\ \A i \in 1..s.limit : SubSeq(f, 1, s.limit)[i] = f[i]
      BY <1>1, <2>5
    <3>2. /\ SubSeq(g, 1, s.limit) \in Seq(Items) /\ Len(SubSeq(g, 1, s.limit)) = s.limit
          /\ \A i \in 1..s.limit : SubSeq(g, 1, s.limit)[i] = g[i]
      BY <1>1, <2>8
    <3>. QED BY <2>8, <3>1, <3>2
  <2>. QED BY <2>7, <2>9, <2>10 DEF f, g
<1>. QED BY <1>4, <1>5

----------------------------------------------------------------------------
(* StationCli: the lists of stations that commands send back.              *)

LEMMA RemovedAt ==
    ASSUME NEW E, NEW q \in Seq(E), NEW i \in 1..Len(q)
    PROVE  /\ RemoveAt(q, i) \in Seq(E) /\ Len(RemoveAt(q, i)) = Len(q) - 1 /\ Len(q) \in Nat
           /\ \A k \in 1..(Len(q) - 1) : RemoveAt(q, i)[k] = IF k < i THEN q[k] ELSE q[k + 1]
<1>. DEFINE a == SubSeq(q, 1, i - 1)
            b == SubSeq(q, i + 1, Len(q))
<1>1. /\ a \in Seq(E) /\ Len(a) = i - 1 /\ \A k \in 1..(i - 1) : a[k] = q[k]
      /\ b \in Seq(E) /\ Len(b) = Len(q) - i /\ \A k \in 1..(Len(q) - i) : b[k] = q[i + k]
      /\ Len(q) \in Nat /\ i \in Nat /\ i <= Len(q)
  OBVIOUS
<1>2. RemoveAt(q, i) = a \o b
  BY DEF RemoveAt
<1>. HIDE DEF a, b
<1>3. a \o b \in Seq(E) /\ Len(a \o b) = Len(q) - 1
  <2>1. a \o b \in Seq(E) /\ Len(a \o b) = Len(a) + Len(b)
    BY <1>1, ConcatProperties
  <2>. QED BY <1>1, <2>1
<1>4. ASSUME NEW k \in 1..(Len(q) - 1)
      PROVE  (a \o b)[k] = IF k < i THEN q[k] ELSE q[k + 1]
  <2>1. k \in 1..(Len(a) + Len(b))
    BY <1>1
  <2>2. (a \o b)[k] = IF k <= Len(a) THEN a[k] ELSE b[k - Len(a)]
    BY <1>1, <2>1, ConcatProperties
  <2>3. CASE k < i
    BY <1>1, <2>2, <2>3
  <2>4. CASE ~(k < i)
    <3>1. k - Len(a) \in 1..(Len(q) - i) /\ i + (k - Len(a)) = k + 1 /\ ~(k <= Len(a))
      BY <1>1, <2>4
    <3>2. b[k - Len(a)] = q[i + (k - Len(a))]
      BY <1>1, <3>1
    <3>. QED BY <2>2, <2>4, <3>1, <3>2
  <2>. QED BY <2>3, <2>4
<1>. QED BY <1>1, <1>2, <1>3, <1>4

LEMMA InsertedAt ==
    ASSUME NEW E, NEW q \in Seq(E), NEW i \in 1..(Len(q) + 1), NEW e \in E
    PROVE  /\ InsertAt(q, i, e) \in Seq(E) /\ Len(InsertAt(q, i, e)) = Len(q) + 1
           /\ Len(q) \in Nat
           /\ \A k \in 1..(Len(q) + 1) :
                 InsertAt(q, i, e)[k] = IF k < i THEN q[k] ELSE IF k = i THEN e ELSE q[k - 1]
<1>. DEFINE a == SubSeq(q, 1, i - 1)
            b == SubSeq(q, i, Len(q))
            c == <<e>>
<1>1. /\ a \in Seq(E) /\ Len(a) = i - 1 /\ \A k \in 1..(i - 1) : a[k] = q[k]
      /\ b \in Seq(E) /\ Len(b) = (Len(q) + 1) - i
      /\ \A k \in 1..((Len(q) + 1) - i) : b[k] = q[(i + k) - 1]
      /\ c \in Seq(E) /\ Len(c) = 1 /\ c[1] = e
      /\ Len(q) \in Nat /\ i \in Nat /\ i <= Len(q) + 1
  OBVIOUS
<1>2. InsertAt(q, i, e) = (a \o c) \o b
  BY DEF InsertAt
<1>. HIDE DEF a, b, c
<1>3. /\ a \o c \in Seq(E) /\ Len(a \o c) = i
      /\ \A k \in 1..i : (a \o c)[k] = IF k < i THEN q[k] ELSE e
  <2>0. a \o c \in Seq(E) /\ Len(a \o c) = Len(a) + Len(c)
    BY <1>1, ConcatProperties
  <2>1. a \o c \in Seq(E) /\ Len(a \o c) = i
    BY <1>1, <2>0
  <2>2. ASSUME NEW k \in 1..i PROVE (a \o c)[k] = IF k < i THEN q[k] ELSE e
    <3>1. k \in 1..(Len(a) + Len(c))
      BY <1>1
    <3>2. (a \o c)[k] = IF k <= Len(a) THEN a[k] ELSE c[k - Len(a)]
      BY <1>1, <3>1, ConcatProperties
    <3>. QED BY <1>1, <3>2
  <2>. QED BY <2>1, <2>2
<1>4. (a \o c) \o b \in Seq(E) /\ Len((a \o c) \o b) = Len(q) + 1
  <2>1. (a \o c) \o b \in Seq(E) /\ Len((a \o c) \o b) = Len(a \o c) + Len(b)
    BY <1>1, <1>3, ConcatProperties
  <2>. QED BY <1>1, <1>3, <2>1
<1>5. ASSUME NEW k \in 1..(Len(q) + 1)
      PROVE  ((a \o c) \o b)[k] = IF k < i THEN q[k] ELSE IF k = i THEN e ELSE q[k - 1]
  <2>1. k \in 1..(Len(a \o c) + Len(b))
    BY <1>1, <1>3
  <2>2. ((a \o c) \o b)[k] = IF k <= Len(a \o c) THEN (a \o c)[k] ELSE b[k - Len(a \o c)]
    BY <1>1, <1>3, <2>1, ConcatProperties
  <2>3. CASE k <= i
    BY <1>1, <1>3, <2>2, <2>3
  <2>4. CASE ~(k <= i)
    <3>1. k - i \in 1..((Len(q) + 1) - i) /\ (i + (k - i)) - 1 = k - 1
      BY <1>1, <2>4
    <3>2. b[k - i] = q[(i + (k - i)) - 1]
      BY <1>1, <3>1
    <3>. QED BY <1>1, <1>3, <2>2, <2>4, <3>1, <3>2
  <2>. QED BY <2>3, <2>4
<1>. QED BY <1>1, <1>2, <1>4, <1>5

\* A list of stations, none of them twice.
Listed(list) == list \in Seq(StationRows) /\ NamesUnique(list)

LEMMA RemovalKeepsNames ==
    ASSUME NEW list, Listed(list), NEW i \in DOMAIN list
    PROVE  /\ Listed(RemoveAt(list, i))
           /\ \A k \in DOMAIN RemoveAt(list, i) : RemoveAt(list, i)[k].name # list[i].name
           /\ Len(RemoveAt(list, i)) + 1 = Len(list)
<1>. DEFINE r == RemoveAt(list, i)
<1>1. list \in Seq(StationRows) /\ NamesUnique(list) /\ i \in 1..Len(list)
  BY DEF Listed
<1>2. /\ r \in Seq(StationRows) /\ Len(r) = Len(list) - 1 /\ Len(list) \in Nat
      /\ \A k \in 1..(Len(list) - 1) : r[k] = IF k < i THEN list[k] ELSE list[k + 1]
  BY <1>1, RemovedAt
<1>. HIDE DEF r
<1>3. DOMAIN r = 1..(Len(list) - 1) /\ DOMAIN list = 1..Len(list)
  BY <1>1, <1>2
<1>4. ASSUME NEW k \in DOMAIN r
      PROVE  \E m \in DOMAIN list : r[k] = list[m] /\ m = (IF k < i THEN k ELSE k + 1)
  BY <1>1, <1>2, <1>3
<1>5. NamesUnique(r)
  <2>1. SUFFICES ASSUME NEW j \in DOMAIN r, NEW k \in DOMAIN r, r[j].name = r[k].name
                 PROVE  j = k
    BY DEF NamesUnique
  <2>2. PICK m \in DOMAIN list : r[j] = list[m] /\ m = (IF j < i THEN j ELSE j + 1)
    BY <1>4
  <2>3. PICK n \in DOMAIN list : r[k] = list[n] /\ n = (IF k < i THEN k ELSE k + 1)
    BY <1>4
  <2>4. m = n
    BY <1>1, <2>1, <2>2, <2>3 DEF NamesUnique
  <2>. QED BY <1>1, <1>3, <2>2, <2>3, <2>4
<1>6. ASSUME NEW k \in DOMAIN r PROVE r[k].name # list[i].name
  <2>1. PICK m \in DOMAIN list : r[k] = list[m] /\ m = (IF k < i THEN k ELSE k + 1)
    BY <1>4
  <2>2. m # i
    BY <1>1, <1>3, <2>1
  <2>. QED BY <1>1, <2>1, <2>2 DEF NamesUnique
<1>. QED BY <1>2, <1>5, <1>6 DEF Listed, r

LEMMA InsertionKeepsNames ==
    ASSUME NEW list, Listed(list), NEW i \in 1..(Len(list) + 1), NEW e \in StationRows,
           \A k \in DOMAIN list : list[k].name # e.name
    PROVE  Listed(InsertAt(list, i, e))
<1>. DEFINE r == InsertAt(list, i, e)
<1>1. list \in Seq(StationRows) /\ NamesUnique(list)
  BY DEF Listed
<1>2. /\ r \in Seq(StationRows) /\ Len(r) = Len(list) + 1 /\ Len(list) \in Nat
      /\ \A k \in 1..(Len(list) + 1) :
            r[k] = IF k < i THEN list[k] ELSE IF k = i THEN e ELSE list[k - 1]
  <2>1. \A E : list \in Seq(E) /\ e \in E =>
           /\ InsertAt(list, i, e) \in Seq(E) /\ Len(InsertAt(list, i, e)) = Len(list) + 1
           /\ Len(list) \in Nat
           /\ \A k \in 1..(Len(list) + 1) : InsertAt(list, i, e)[k]
                 = IF k < i THEN list[k] ELSE IF k = i THEN e ELSE list[k - 1]
    BY InsertedAt
  <2>. QED BY <1>1, <2>1
<1>. HIDE DEF r
<1>3. DOMAIN r = 1..(Len(list) + 1) /\ DOMAIN list = 1..Len(list)
  BY <1>1, <1>2
<1>4. ASSUME NEW k \in DOMAIN r, k # i
      PROVE  \E m \in DOMAIN list : r[k] = list[m] /\ m = (IF k < i THEN k ELSE k - 1)
  BY <1>2, <1>3, <1>4
<1>5. r[i] = e
  BY <1>2
<1>6. ASSUME NEW j \in DOMAIN r, NEW k \in DOMAIN r, j # k PROVE r[j].name # r[k].name
  <2>1. CASE j = i
    BY <1>4, <1>5, <1>6, <2>1
  <2>2. CASE k = i
    BY <1>4, <1>5, <1>6, <2>2
  <2>3. CASE j # i /\ k # i
    <3>1. PICK m \in DOMAIN list : r[j] = list[m] /\ m = (IF j < i THEN j ELSE j - 1)
      BY <1>4, <2>3
    <3>2. PICK n \in DOMAIN list : r[k] = list[n] /\ n = (IF k < i THEN k ELSE k - 1)
      BY <1>4, <2>3
    <3>3. m # n
      BY <1>3, <1>6, <2>3, <3>1, <3>2
    <3>. QED BY <1>1, <3>1, <3>2, <3>3 DEF NamesUnique
  <2>. QED BY <2>1, <2>2, <2>3
<1>. QED BY <1>2, <1>6 DEF Listed, NamesUnique, r

\* Enabling or disabling a row, wherever it is, leaves the names alone.
LEMMA EnablingKeepsNames ==
    ASSUME NEW list, Listed(list), NEW i, NEW b \in BOOLEAN
    PROVE  Listed([list EXCEPT ![i].enabled = b])
<1>. DEFINE r == [list EXCEPT ![i].enabled = b]
<1>1. list \in Seq(StationRows) /\ NamesUnique(list) /\ Len(list) \in Nat
  BY DEF Listed
<1>2. DOMAIN r = 1..Len(list) /\ DOMAIN list = 1..Len(list)
  BY <1>1
<1>3. ASSUME NEW k \in 1..Len(list) PROVE r[k] \in StationRows /\ r[k].name = list[k].name
  <2>1. list[k] \in StationRows
    BY <1>1
  <2>2. r[k] = IF k = i THEN [list[k] EXCEPT !.enabled = b] ELSE list[k]
    BY <1>1
  <2>. QED BY <2>1, <2>2 DEF StationRows
<1>4. r \in [1..Len(list) -> StationRows]
  <2>1. r = [k \in 1..Len(list) |-> r[k]]
    BY <1>2
  <2>. QED BY <1>3, <2>1
<1>. HIDE DEF r
<1>5. r \in Seq(StationRows)
  BY <1>1, <1>4
<1>. QED BY <1>1, <1>2, <1>3, <1>5 DEF Listed, NamesUnique, r

----------------------------------------------------------------------------
(* StationCli: the commands.                                               *)

\* The pages asked for so far: the first is one item or more, the others full.
PagedTo(requests, offset) ==
    IF requests = 0 THEN offset = 0 ELSE offset >= 1 + (requests - 1) * MaxPage

Processes ==
    [pc : {"idle", "paging", "found", "read", "write", "done", "failed"},
     cmd : Commands \cup {None}, offset : 0..MaxOffset, requests : 0..MaxPaginated,
     found : Seq(Items), list : Seq(StationRows), disturbed : BOOLEAN]

\* What a process knows of its own command.
CommandOk(c) ==
    /\ c \in Processes
    /\ c.pc # "idle" => c.cmd \in Commands
    /\ c.pc \in {"paging", "found"} => c.cmd.op \in Searching \cup {"list"}
    /\ c.pc = "paging" =>
          /\ c.requests < MaxPaginated /\ PagedTo(c.requests, c.offset)
          /\ c.cmd.op \in Searching => TargetOf(c.cmd.search) > 0
    /\ c.pc \in {"read", "write"} =>
          /\ c.cmd.op \in Changing
          /\ c.cmd.op = "add" => Len(OfKind(c.found, 0)) = 1
    /\ c.pc = "write" => NamesUnique(c.list)
    /\ DistinctKeys(c.found)

\* What it has gathered of the candidates all and of the stations configured, if
\* neither changed since it began.
GatheredFound(c, all) ==
    /\ c.pc = "paging" => /\ c.offset <= Len(all)
                          /\ c.found = FoundIn(c.cmd.search, SubSeq(all, 1, c.offset))
    /\ c.pc = "found" =>
          \E e \in 0..Len(all) :
             /\ c.found = FoundIn(c.cmd.search, SubSeq(all, 1, e))
             /\ e = Len(all) \/ TargetReached(c.cmd.search, c.found)
GatheredList(c, configured) ==
    /\ c.pc = "paging" => c.offset <= Len(configured) /\ c.list = SubSeq(configured, 1, c.offset)
    /\ c.pc = "found" => c.list = configured
Gathered(c, places, configured) ==
    c.pc \in {"paging", "found"} /\ ~c.disturbed =>
       /\ c.cmd.op \in Searching => GatheredFound(c, SearchCandidates[places][c.cmd.search])
       /\ c.cmd.op = "list" => GatheredList(c, configured)

CliInv ==
    /\ catalog \in Catalogs /\ reloads \in 0..MaxReloads
    /\ Listed(stationList)
    /\ DOMAIN cli = Clis
    /\ \A p \in Clis : CommandOk(cli[p]) /\ Gathered(cli[p], catalog, stationList)

LEMMA CommandFacts ==
    ASSUME NEW cmd \in Commands
    PROVE  /\ cmd.op \in Searching \cup Changing \cup {"list"}
           /\ cmd.op \in Searching => /\ cmd.search \in SearchesMade
                                      /\ cmd.search.sel \in Nat /\ cmd.search.limit \in Nat
                                      /\ TargetOf(cmd.search) \in Nat
<1>1. cmd.op \in Searching \cup Changing \cup {"list"}
  BY CliAssumption
<1>2. ASSUME cmd.op \in Searching
      PROVE  /\ cmd.search \in SearchesMade
             /\ cmd.search.sel \in Nat /\ cmd.search.limit \in Nat
  <2>1. cmd.search \in SearchesMade
    BY <1>2 DEF SearchesMade
  <2>. QED BY <2>1, CliAssumption
<1>. QED BY <1>1, <1>2 DEF TargetOf

\* Dividing the largest offset by the page size.
LEMMA PagesCover ==
    ASSUME NEW k \in Nat, NEW size \in Nat \ {0}, NEW max \in Nat
    PROVE  /\ max \div size \in Nat
           /\ k >= max \div size + 1 => k * size > max
<1>. DEFINE d == max \div size
<1>1. d \in Nat /\ max = d * size + (max % size) /\ max % size \in 0..(size - 1)
  OBVIOUS
<1>. HIDE DEF d
<1>2. ASSUME k >= d + 1 PROVE k * size > max
  <2>1. PICK j \in Nat : k = (d + 1) + j
    <3>1. k - (d + 1) \in Nat /\ k = (d + 1) + (k - (d + 1))
      BY <1>1, <1>2
    <3>. QED BY <3>1
  <2>2. k * size = (d * size + size) + j * size /\ d * size \in Nat /\ j * size \in Nat
    BY <1>1, <2>1
  <2>. QED BY <1>1, <2>2
<1>. QED BY <1>1, <1>2 DEF d

LEMMA MaxPaginatedIs ==
    MaxPaginated \in Nat /\ MaxPaginated >= 2 /\ MaxPaginated = MaxOffset \div MaxPage + 2
<1>1. MaxOffset \div MaxPage \in Nat
  BY PagesCover, CliAssumption
<1>. QED BY <1>1 DEF MaxPaginated

\* A slice of a list, and where the next one starts.
SliceOf(page, all, offset, size, E) ==
    /\ page.items \in Seq(E) /\ page.next \in 0..Len(all)
    /\ page.more <=> page.next < Len(all)
    /\ page.more => page.next = offset + size
    /\ offset <= Len(all) =>
          SubSeq(all, 1, offset) \o page.items = SubSeq(all, 1, page.next)

LEMMA SliceFacts ==
    ASSUME NEW E, NEW all \in Seq(E), NEW offset \in Nat, NEW size \in Nat,
           NEW page, page = Paginate(all, offset, size)
    PROVE  SliceOf(page, all, offset, size, E)
<1>. DEFINE start == Min({Len(all), offset})
            end == Min({Len(all), start + size})
<1>1. Len(all) \in Nat
  OBVIOUS
<1>2. start \in Nat /\ start <= Len(all) /\ start = IF Len(all) <= offset THEN Len(all) ELSE offset
  BY <1>1, LeastOfTwo
<1>3. page = [items |-> SubSeq(all, start + 1, end), more |-> end < Len(all), next |-> end]
  BY DEF Paginate
<1>8. /\ page.items = SubSeq(all, start + 1, end) /\ page.next = end
      /\ page.more <=> end < Len(all)
  BY DEF Paginate
<1>. HIDE DEF start
<1>4. end \in Nat /\ end = (IF Len(all) <= start + size THEN Len(all) ELSE start + size)
  BY <1>1, <1>2, LeastOfTwo
<1>. HIDE DEF end
<1>5. end <= Len(all) /\ start <= end /\ (end < Len(all) => end = offset + size)
  BY <1>1, <1>2, <1>4
<1>6. SubSeq(all, start + 1, end) \in Seq(E)
  BY <1>1, <1>2, <1>4, <1>5
<1>7. ASSUME offset <= Len(all)
      PROVE  SubSeq(all, 1, offset) \o SubSeq(all, start + 1, end) = SubSeq(all, 1, end)
  <2>1. start = offset
    BY <1>1, <1>2, <1>7
  <2>2. 1 \in 1..(Len(all) + 1) /\ offset \in (1 - 1)..Len(all) /\ end \in offset..Len(all)
    BY <1>1, <1>4, <1>5, <1>7, <2>1
  <2>. QED BY <2>1, <2>2, ConcatAdjacentSubSeq
<1>9. page.next \in 0..Len(all)
  BY <1>1, <1>4, <1>5, <1>8
<1>. QED BY <1>5, <1>6, <1>7, <1>8, <1>9 DEF SliceOf

\* A page taken: the engine refused nothing, and the bound on requests is not met.
PageTaken(c, size, page, stop) ==
    /\ size \in 1..MaxPage
    /\ c.requests > 0 => size = MaxPage
    /\ page.next \in Nat /\ stop \in BOOLEAN
    /\ page.more => page.next = c.offset + size
Advanced(c, found, list, page, stop, d) ==
    /\ CommandOk(d) /\ d.cmd = c.cmd /\ d.found = found /\ d.list = list
    /\ d.disturbed = c.disturbed /\ d.pc \in {"paging", "found", "failed"}
    /\ d.pc = "found" => ~page.more \/ stop
    /\ d.pc = "paging" => page.more /\ d.offset = page.next

LEMMA AdvanceFacts ==
    ASSUME NEW c, c.pc = "paging", CommandOk(c),
           NEW size, NEW page, NEW stop, PageTaken(c, size, page, stop),
           NEW found \in Seq(Items), DistinctKeys(found), NEW list \in Seq(StationRows),
           NEW b, b = [c EXCEPT !.found = found, !.list = list],
           NEW d, d = AdvanceTo(b, page, stop)
    PROVE  Advanced(c, found, list, page, stop, d)
<1>. DEFINE refused == page.more /\ (page.next <= c.offset \/ page.next > MaxOffset)
            pc == CASE refused -> "failed"
                    [] ~refused /\ (~page.more \/ stop) -> "found"
                    [] OTHER -> IF c.requests + 1 < MaxPaginated THEN "paging" ELSE "exhausted"
            offset == IF page.more /\ ~refused THEN page.next ELSE c.offset
<1>1. /\ c \in Processes /\ c.cmd \in Commands /\ c.cmd.op \in Searching \cup {"list"}
      /\ c.requests < MaxPaginated /\ PagedTo(c.requests, c.offset)
      /\ c.cmd.op \in Searching => TargetOf(c.cmd.search) > 0
  BY DEF CommandOk
<1>2. c.requests \in Nat /\ c.offset \in Nat /\ c.offset <= MaxOffset /\ c.disturbed \in BOOLEAN
  BY <1>1, MaxPaginatedIs, CliAssumption DEF Processes
<1>0. /\ size \in 1..MaxPage
      /\ c.requests > 0 => size = MaxPage
      /\ page.next \in Nat /\ stop \in BOOLEAN
      /\ page.more => page.next = c.offset + size
  BY DEF PageTaken
<1>3. d = [pc |-> pc, cmd |-> c.cmd, offset |-> offset, requests |-> c.requests + 1,
           found |-> found, list |-> list, disturbed |-> c.disturbed]
  BY <1>1, <1>2 DEF AdvanceTo, Processes
<1>4. MaxPage \in Nat \ {0} /\ MaxOffset \in Nat /\ MaxPaginated \in Nat
  BY CliAssumption, MaxPaginatedIs
<1>5. ASSUME page.more, ~refused
      PROVE  PagedTo(c.requests + 1, page.next) /\ c.requests + 1 < MaxPaginated
  <2>1. page.next = c.offset + size /\ page.next <= MaxOffset
    BY <1>0, <1>2, <1>4, <1>5
  <2>2. CASE c.requests = 0
    BY <1>0, <1>2, <1>4, <2>1, <2>2, MaxPaginatedIs DEF PagedTo
  <2>3. CASE c.requests > 0
    <3>. DEFINE k == c.requests
                m == (k - 1) * MaxPage
                n == k * MaxPage
    <3>1. k \in Nat /\ k - 1 \in Nat /\ size = MaxPage /\ c.offset >= 1 + m
      BY <1>0, <1>1, <1>2, <2>3 DEF PagedTo
    <3>2. m \in Nat /\ n = m + MaxPage
      <4>1. \A i, k0 \in Nat : i * k0 \in Nat /\ (i + 1) * k0 = i * k0 + k0
        OBVIOUS
      <4>2. k = (k - 1) + 1
        BY <3>1
      <4>3. m \in Nat /\ ((k - 1) + 1) * MaxPage = m + MaxPage
        BY <1>4, <3>1, <4>1
      <4>. QED BY <4>2, <4>3
    <3>. HIDE DEF m, n
    <3>3. page.next >= 1 + n /\ n < MaxOffset
      BY <1>0, <1>2, <1>4, <2>1, <3>1, <3>2
    <3>4. ~(k >= MaxOffset \div MaxPage + 1) /\ MaxOffset \div MaxPage \in Nat
      <4>1. k >= MaxOffset \div MaxPage + 1 => n > MaxOffset
        BY <1>4, <3>1, PagesCover DEF n
      <4>2. MaxOffset \div MaxPage \in Nat
        BY <1>4, PagesCover
      <4>. QED BY <1>4, <3>2, <3>3, <4>1, <4>2
    <3>5. k + 1 < MaxPaginated
      BY <3>1, <3>4, MaxPaginatedIs
    <3>6. (k + 1) - 1 = k /\ k + 1 # 0
      BY <3>1
    <3>. QED BY <3>3, <3>5, <3>6 DEF PagedTo, n
  <2>. QED BY <1>2, <2>2, <2>3
<1>6. /\ pc \in {"paging", "found", "failed"}
      /\ pc = "found" => ~page.more \/ stop
      /\ pc = "paging" => page.more /\ ~refused
  BY <1>5
<1>7. offset \in 0..MaxOffset /\ c.requests + 1 \in 0..MaxPaginated
  BY <1>0, <1>1, <1>2, <1>4
<1>8. pc = "paging" => /\ offset = page.next /\ c.requests + 1 < MaxPaginated
                       /\ PagedTo(c.requests + 1, offset)
  BY <1>5, <1>6
<1>. HIDE DEF pc, offset
<1>9. d \in Processes
  BY <1>1, <1>2, <1>3, <1>6, <1>7 DEF Processes
<1>10. CommandOk(d)
  BY <1>1, <1>3, <1>6, <1>8, <1>9 DEF CommandOk
<1>. QED BY <1>3, <1>6, <1>8, <1>10 DEF Advanced

LEMMA DedupFacts ==
    ASSUME NEW p \in Seq(Items), NEW q \in Seq(Items), NEW s
    PROVE  /\ DedupSearch(p, q) \in Seq(Items) /\ DistinctKeys(DedupSearch(p, q))
           /\ Matching(s, q) \in Seq(Items)
<1>1. p \o q \in Seq(Items)
  BY ConcatProperties
<1>2. Distinct(p \o q) \in Seq(Items) /\ DistinctKeys(Distinct(p \o q))
  BY <1>1, DistinctFacts
<1>3. \A S : /\ Only(Distinct(p \o q), S) \in Seq(Items)
             /\ DistinctKeys(Only(Distinct(p \o q), S))
  BY <1>2, OnlyKeeps
<1>4. Matching(s, q) \in Seq(Items)
  BY OnlyFacts DEF Matching
<1>. QED BY <1>3, <1>4 DEF DedupSearch, WithoutCitiesOf

\* One process moves; the catalog and the stations stay.
LEMMA OneCommandMoves ==
    ASSUME CliInv, NEW p \in Clis, NEW c, SetCli(p, c), CommandOk(c),
           Gathered(c, catalog, stationList), UNCHANGED <<catalog, reloads, stationList>>
    PROVE  CliInv'
<1>1. cli' = [cli EXCEPT ![p] = c] /\ DOMAIN cli = Clis
  BY DEF SetCli, CliInv
<1>2. /\ DOMAIN cli' = Clis /\ cli'[p] = c
      /\ \A r \in Clis : r # p => cli'[r] = cli[r]
  BY <1>1
<1>. QED BY <1>2 DEF CliInv

LEMMA CommandBegun ==
    ASSUME NEW cmd, NEW pc, NEW c, c = [CliIdle EXCEPT !.cmd = cmd, !.pc = pc]
    PROVE  c = [pc |-> pc, cmd |-> cmd, offset |-> 0, requests |-> 0, found |-> << >>,
                list |-> << >>, disturbed |-> FALSE]
  BY DEF CliIdle

LEMMA BeginKeepsCommands ==
    ASSUME CliInv, NEW p \in Clis, NEW cmd \in Commands, BeginCommand(p, cmd)
    PROVE  CliInv'
<1>. DEFINE pc == CASE cmd.op = "list" -> "paging"
                    [] cmd.op \in Searching ->
                          IF TargetOf(cmd.search) = 0 THEN "found" ELSE "paging"
                    [] OTHER -> "read"
            c == [CliIdle EXCEPT !.cmd = cmd, !.pc = pc]
<1>1. SetCli(p, c) /\ UNCHANGED <<catalog, reloads, stationList>>
  BY DEF BeginCommand
<1>. HIDE DEF pc
<1>. HIDE DEF c
<1>2. c = [pc |-> pc, cmd |-> cmd, offset |-> 0, requests |-> 0, found |-> << >>,
           list |-> << >>, disturbed |-> FALSE]
  BY CommandBegun DEF c
<1>3. /\ cmd.op \in Searching \cup Changing \cup {"list"}
      /\ cmd.op \in Searching => /\ cmd.search \in SearchesMade
                                 /\ cmd.search.sel \in Nat /\ cmd.search.limit \in Nat
                                 /\ TargetOf(cmd.search) \in Nat
  BY CommandFacts
<1>4. /\ pc \in {"paging", "found", "read"}
      /\ pc = "paging" => /\ cmd.op \in Searching \cup {"list"}
                          /\ cmd.op \in Searching => TargetOf(cmd.search) > 0
      /\ pc = "found" => cmd.op \in Searching /\ TargetOf(cmd.search) = 0
      /\ pc = "read" => cmd.op \in Changing /\ cmd.op # "add"
  BY <1>3 DEF Searching, Changing, pc
<1>5. CommandOk(c)
  <2>1. << >> \in Seq(Items) /\ << >> \in Seq(StationRows) /\ DistinctKeys(<< >>)
    BY DEF DistinctKeys
  <2>2. c \in Processes
    BY <1>2, <1>4, <2>1, MaxPaginatedIs, CliAssumption DEF Processes
  <2>. QED BY <1>2, <1>4, <2>1, <2>2, MaxPaginatedIs DEF CommandOk, PagedTo
<1>6. ASSUME cmd.op \in Searching
      PROVE  GatheredFound(c, SearchCandidates[catalog][cmd.search])
  <2>. DEFINE all == SearchCandidates[catalog][cmd.search]
  <2>1. all \in Seq(Items)
    BY <1>3, <1>6, SearchCandidatesFacts DEF CliInv
  <2>. HIDE DEF all
  <2>2. Len(all) \in Nat /\ SubSeq(all, 1, 0) = << >>
    BY <2>1
  <2>3. FoundIn(cmd.search, SubSeq(all, 1, 0)) = << >>
    BY <2>2, NothingFound
  <2>4. TargetOf(cmd.search) = 0 => TargetReached(cmd.search, << >>)
    <3>1. ASSUME TargetOf(cmd.search) = 0 PROVE cmd.search.sel = 0
      BY <1>3, <1>6, <3>1 DEF TargetOf
    <3>. QED BY <3>1 DEF TargetReached
  <2>. QED BY <1>2, <1>4, <2>2, <2>3, <2>4 DEF GatheredFound, all
<1>7. ASSUME cmd.op = "list" PROVE GatheredList(c, stationList)
  <2>1. stationList \in Seq(StationRows)
    BY DEF CliInv, Listed
  <2>2. Len(stationList) \in Nat /\ SubSeq(stationList, 1, 0) = << >>
    BY <2>1
  <2>. QED BY <1>2, <1>4, <1>7, <2>2 DEF GatheredList, Searching
<1>8. Gathered(c, catalog, stationList)
  BY <1>2, <1>6, <1>7 DEF Gathered
<1>. QED BY <1>1, <1>5, <1>8, OneCommandMoves

\* The size of the page asked for.
LEMMA PageSize ==
    ASSUME NEW c, CommandOk(c), c.pc = "paging"
    PROVE  /\ SizeOfPage(c) \in 1..MaxPage /\ SizeOfPage(c) \in Nat
           /\ c.requests > 0 => SizeOfPage(c) = MaxPage
           /\ EngineAccepts(c.offset, SizeOfPage(c))
<1>1. /\ c \in Processes /\ c.cmd \in Commands /\ c.cmd.op \in Searching \cup {"list"}
      /\ c.cmd.op \in Searching => TargetOf(c.cmd.search) > 0
  BY DEF CommandOk
<1>2. MaxPage \in Nat \ {0} /\ c.offset \in 0..MaxOffset /\ MaxOffset \in Nat
  BY <1>1, CliAssumption DEF Processes
<1>3. /\ SizeOfPage(c) \in 1..MaxPage
      /\ c.requests > 0 => SizeOfPage(c) = MaxPage
  <2>1. CASE c.requests > 0 \/ c.cmd.op = "list"
    BY <1>2, <2>1 DEF SizeOfPage
  <2>2. CASE ~(c.requests > 0 \/ c.cmd.op = "list")
    <3>1. TargetOf(c.cmd.search) \in Nat /\ TargetOf(c.cmd.search) > 0
      BY <1>1, <2>2, CommandFacts
    <3>2. SizeOfPage(c) = Min({TargetOf(c.cmd.search), MaxPage})
      BY <2>2 DEF SizeOfPage
    <3>3. Min({TargetOf(c.cmd.search), MaxPage}) \in 1..MaxPage
      BY <1>2, <3>1, LeastOfTwo
    <3>. QED BY <2>2, <3>2, <3>3
  <2>. QED BY <2>1, <2>2
<1>. QED BY <1>2, <1>3 DEF EngineAccepts

\* A command that has failed keeps what it has.
LEMMA FailedCommand ==
    ASSUME NEW c, CommandOk(c), NEW d, d = [c EXCEPT !.pc = "failed"], c.pc # "idle"
    PROVE  CommandOk(d) /\ \A places, configured : Gathered(d, places, configured)
<1>1. c \in Processes
  BY DEF CommandOk
<1>2. d \in Processes /\ d.pc = "failed" /\ d.cmd = c.cmd /\ d.found = c.found
  BY <1>1 DEF Processes
<1>. QED BY <1>2 DEF CommandOk, Gathered

LEMMA SearchPageKeepsCommands ==
    ASSUME CliInv, NEW p \in Clis, SearchPage(p)
    PROVE  CliInv'
<1>. DEFINE c == cli[p]
            s == c.cmd.search
            all == SearchCandidates[catalog][s]
            size == SizeOfPage(c)
            page == Paginate(all, c.offset, size)
            found == DedupSearch(c.found, Matching(s, page.items))
            stop == TargetReached(s, found)
            b == [c EXCEPT !.found = found]
            d == AdvanceTo(b, page, stop)
<1>1. /\ c.pc = "paging" /\ c.cmd.op \in Searching
      /\ SetCli(p, IF ~EngineAccepts(c.offset, size) THEN [c EXCEPT !.pc = "refused"]
                   ELSE IF s.prov # None /\ \A e \in catalog : e.prov # s.prov
                   THEN [c EXCEPT !.pc = "failed"] ELSE d)
      /\ UNCHANGED <<catalog, reloads, stationList>>
  BY DEF SearchPage
<1>2. CommandOk(c) /\ Gathered(c, catalog, stationList) /\ catalog \in Catalogs
  BY DEF CliInv
<1>. HIDE DEF c
<1>3. /\ c \in Processes /\ c.cmd \in Commands /\ c.found \in Seq(Items)
      /\ c.list \in Seq(StationRows) /\ c.offset \in Nat
  <2>1. c \in Processes /\ c.cmd \in Commands
    BY <1>1, <1>2 DEF CommandOk
  <2>. QED BY <2>1, CliAssumption DEF Processes
<1>4. s \in SearchesMade /\ s.sel \in Nat /\ s.limit \in Nat
  BY <1>1, <1>3, CommandFacts
<1>5. all \in Seq(Items) /\ DistinctKeys(all) /\ Ascending(all)
  BY <1>2, <1>4, SearchCandidatesFacts
<1>6. /\ size \in 1..MaxPage /\ size \in Nat /\ EngineAccepts(c.offset, size)
      /\ c.requests > 0 => size = MaxPage
  BY <1>1, <1>2, PageSize
<1>. HIDE DEF size, all, s
<1>7. /\ page.items \in Seq(Items) /\ page.next \in 0..Len(all) /\ page.next \in Nat
      /\ page.more <=> page.next < Len(all)
      /\ page.more => page.next = c.offset + size
      /\ c.offset <= Len(all) =>
            SubSeq(all, 1, c.offset) \o page.items = SubSeq(all, 1, page.next)
  <2>1. page = Paginate(all, c.offset, size)
    OBVIOUS
  <2>. HIDE DEF page
  <2>2. SliceOf(page, all, c.offset, size, Items)
    BY <1>3, <1>5, <1>6, <2>1, SliceFacts
  <2>3. page.next \in 0..Len(all)
    BY <2>2 DEF SliceOf
  <2>4. page.next \in Nat
    BY <1>5, <2>3
  <2>. QED BY <2>2, <2>4 DEF SliceOf
<1>. HIDE DEF page
<1>8. found \in Seq(Items) /\ DistinctKeys(found) /\ Matching(s, page.items) \in Seq(Items)
  <2>1. Matching(s, page.items) \in Seq(Items)
    BY <1>7, DedupFacts
  <2>. QED BY <1>3, <2>1, DedupFacts
<1>. HIDE DEF found
<1>9. b = [c EXCEPT !.found = found, !.list = c.list]
  BY <1>3 DEF Processes
<1>10. stop \in BOOLEAN
  BY DEF TargetReached
<1>. HIDE DEF stop
<1>11. /\ CommandOk(d) /\ d.cmd = c.cmd /\ d.found = found /\ d.disturbed = c.disturbed
       /\ d.pc \in {"paging", "found", "failed"}
       /\ d.pc = "found" => ~page.more \/ stop
       /\ d.pc = "paging" => page.more /\ d.offset = page.next
  <2>1. d = AdvanceTo(b, page, stop)
    OBVIOUS
  <2>. HIDE DEF d, b
  <2>2. PageTaken(c, size, page, stop)
    BY <1>6, <1>7, <1>10 DEF PageTaken
  <2>3. Advanced(c, found, c.list, page, stop, d)
    BY <1>1, <1>2, <1>3, <1>8, <1>9, <2>1, <2>2, AdvanceFacts
  <2>. QED BY <2>3 DEF Advanced
<1>. HIDE DEF d
<1>12. ASSUME ~c.disturbed PROVE found = FoundIn(s, SubSeq(all, 1, page.next))
  <2>. DEFINE q == SubSeq(all, 1, c.offset)
  <2>1. c.offset <= Len(all) /\ c.found = FoundIn(s, q)
    BY <1>1, <1>2, <1>12 DEF Gathered, GatheredFound, s, all
  <2>2. q \in Seq(Items) /\ q \o page.items = SubSeq(all, 1, page.next)
    <3>1. c.offset \in 0..Len(all)
      BY <1>3, <1>5, <2>1
    <3>2. q \in Seq(Items)
      BY <1>5, <3>1
    <3>. QED BY <1>7, <2>1, <3>2
  <2>3. DistinctKeys(SubSeq(all, 1, page.next))
    <3>1. /\ DOMAIN SubSeq(all, 1, page.next) = 1..page.next
          /\ \A i \in 1..page.next : SubSeq(all, 1, page.next)[i] = all[i] /\ i \in DOMAIN all
      BY <1>5, <1>7
    <3>. QED BY <1>5, <3>1 DEF DistinctKeys
  <2>. HIDE DEF q
  <2>4. DedupSearch(FoundIn(s, q), Matching(s, page.items)) = FoundIn(s, q \o page.items)
    BY <1>7, <2>2, <2>3, PageJoins
  <2>. QED BY <2>1, <2>2, <2>4 DEF found
<1>13. ASSUME ~c.disturbed PROVE GatheredFound(d, all)
  <2>1. d.found = FoundIn(s, SubSeq(all, 1, page.next)) /\ d.cmd.search = s
    BY <1>11, <1>12, <1>13 DEF s
  <2>2. Len(all) \in Nat
    BY <1>5
  <2>3. ASSUME d.pc = "paging"
        PROVE  d.offset <= Len(all) /\ d.found = FoundIn(d.cmd.search, SubSeq(all, 1, d.offset))
    BY <1>7, <1>11, <2>1, <2>2, <2>3
  <2>4. ASSUME d.pc = "found"
        PROVE  \E e \in 0..Len(all) :
                  /\ d.found = FoundIn(d.cmd.search, SubSeq(all, 1, e))
                  /\ e = Len(all) \/ TargetReached(d.cmd.search, d.found)
    <3>1. page.next = Len(all) \/ TargetReached(s, d.found)
      BY <1>7, <1>11, <2>2, <2>4 DEF stop
    <3>. QED BY <1>7, <2>1, <3>1
  <2>. QED BY <2>3, <2>4 DEF GatheredFound
<1>14. Gathered(d, catalog, stationList)
  <2>1. d.cmd.op # "list"
    BY <1>1, <1>11 DEF Searching
  <2>. QED BY <1>11, <1>13, <2>1 DEF Gathered, all, s
<1>15. CASE SetCli(p, d)
  BY <1>1, <1>11, <1>14, <1>15, OneCommandMoves
<1>16. CASE SetCli(p, [c EXCEPT !.pc = "failed"])
  <2>1. /\ CommandOk([c EXCEPT !.pc = "failed"])
        /\ Gathered([c EXCEPT !.pc = "failed"], catalog, stationList)
    BY <1>1, <1>2, FailedCommand
  <2>. QED BY <1>1, <1>16, <2>1, OneCommandMoves
<1>. QED BY <1>1, <1>6, <1>15, <1>16

LEMMA ListPageKeepsCommands ==
    ASSUME CliInv, NEW p \in Clis, ListPage(p)
    PROVE  CliInv'
<1>. DEFINE c == cli[p]
            size == SizeOfPage(c)
            page == Paginate(stationList, c.offset, size)
            list == c.list \o page.items
            b == [c EXCEPT !.list = list]
            d == AdvanceTo(b, page, FALSE)
<1>1. /\ c.pc = "paging" /\ c.cmd.op = "list"
      /\ SetCli(p, IF ~EngineAccepts(c.offset, size) THEN [c EXCEPT !.pc = "refused"] ELSE d)
      /\ UNCHANGED <<catalog, reloads, stationList>>
  BY DEF ListPage, ConfiguredPage
<1>2. /\ CommandOk(c) /\ Gathered(c, catalog, stationList)
      /\ stationList \in Seq(StationRows)
  BY DEF CliInv, Listed
<1>. HIDE DEF c
<1>3. /\ c \in Processes /\ c.cmd \in Commands /\ c.found \in Seq(Items) /\ DistinctKeys(c.found)
      /\ c.list \in Seq(StationRows) /\ c.offset \in Nat
  <2>1. c \in Processes /\ c.cmd \in Commands /\ DistinctKeys(c.found)
    BY <1>1, <1>2 DEF CommandOk
  <2>. QED BY <2>1, CliAssumption DEF Processes
<1>4. /\ size \in 1..MaxPage /\ size \in Nat /\ EngineAccepts(c.offset, size)
      /\ c.requests > 0 => size = MaxPage
  BY <1>1, <1>2, PageSize
<1>. HIDE DEF size
<1>5. /\ page.items \in Seq(StationRows) /\ page.next \in 0..Len(stationList)
      /\ page.next \in Nat
      /\ page.more <=> page.next < Len(stationList)
      /\ page.more => page.next = c.offset + size
      /\ c.offset <= Len(stationList) =>
            SubSeq(stationList, 1, c.offset) \o page.items = SubSeq(stationList, 1, page.next)
  <2>1. page = Paginate(stationList, c.offset, size)
    OBVIOUS
  <2>. HIDE DEF page
  <2>2. SliceOf(page, stationList, c.offset, size, StationRows)
    BY <1>2, <1>3, <1>4, <2>1, SliceFacts
  <2>3. page.next \in 0..Len(stationList)
    BY <2>2 DEF SliceOf
  <2>4. page.next \in Nat
    BY <1>2, <2>3
  <2>. QED BY <2>2, <2>4 DEF SliceOf
<1>. HIDE DEF page
<1>6. list \in Seq(StationRows)
  BY <1>3, <1>5, ConcatProperties
<1>. HIDE DEF list
<1>7. b = [c EXCEPT !.found = c.found, !.list = list]
  BY <1>3 DEF Processes
<1>8. /\ CommandOk(d) /\ d.cmd = c.cmd /\ d.list = list /\ d.disturbed = c.disturbed
      /\ d.pc \in {"paging", "found", "failed"}
      /\ d.pc = "found" => ~page.more
      /\ d.pc = "paging" => page.more /\ d.offset = page.next
  <2>1. d = AdvanceTo(b, page, FALSE) /\ FALSE \in BOOLEAN
    OBVIOUS
  <2>. HIDE DEF d, b
  <2>2. PageTaken(c, size, page, FALSE)
    BY <1>4, <1>5, <2>1 DEF PageTaken
  <2>3. Advanced(c, c.found, list, page, FALSE, d)
    BY <1>1, <1>2, <1>3, <1>6, <1>7, <2>1, <2>2, AdvanceFacts
  <2>. QED BY <2>3 DEF Advanced
<1>. HIDE DEF d
<1>9. ASSUME ~c.disturbed PROVE GatheredList(d, stationList)
  <2>1. c.offset <= Len(stationList) /\ c.list = SubSeq(stationList, 1, c.offset)
    BY <1>1, <1>2, <1>9 DEF Gathered, GatheredList
  <2>2. d.list = SubSeq(stationList, 1, page.next)
    BY <1>5, <1>8, <2>1 DEF list
  <2>3. Len(stationList) \in Nat /\ SubSeq(stationList, 1, Len(stationList)) = stationList
    BY <1>2
  <2>4. d.pc = "found" => page.next = Len(stationList)
    BY <1>5, <1>8, <2>3
  <2>. QED BY <1>5, <1>8, <2>2, <2>3, <2>4 DEF GatheredList
<1>10. Gathered(d, catalog, stationList)
  <2>1. d.cmd.op \notin Searching
    BY <1>1, <1>8 DEF Searching
  <2>. QED BY <1>8, <1>9, <2>1 DEF Gathered
<1>. QED BY <1>1, <1>4, <1>8, <1>10, OneCommandMoves

\* The fields of a process after a step that keeps its command.
Become(c, pc, found, list) ==
    [pc |-> pc, cmd |-> c.cmd, offset |-> c.offset, requests |-> c.requests,
     found |-> found, list |-> list, disturbed |-> c.disturbed]

LEMMA CommandGoesOn ==
    ASSUME NEW c, CommandOk(c), c.pc # "idle", NEW pc \in {"read", "write", "done", "failed"},
           NEW found \in Seq(Items), DistinctKeys(found), NEW list \in Seq(StationRows),
           pc \in {"read", "write"} => /\ c.cmd.op \in Changing
                                       /\ c.cmd.op = "add" => Len(OfKind(found, 0)) = 1,
           pc = "write" => NamesUnique(list),
           NEW d, d = Become(c, pc, found, list)
    PROVE  CommandOk(d) /\ \A places, configured : Gathered(d, places, configured)
<1>1. c \in Processes /\ c.cmd \in Commands
  BY DEF CommandOk
<1>2. /\ d.pc = pc /\ d.cmd = c.cmd /\ d.found = found /\ d.list = list
      /\ d \in Processes
  BY <1>1 DEF Become, Processes
<1>. QED BY <1>1, <1>2 DEF CommandOk, Gathered

LEMMA ProcessFields ==
    ASSUME NEW c, CommandOk(c), c.pc # "idle"
    PROVE  /\ c \in Processes /\ c.cmd \in Commands /\ c.found \in Seq(Items)
           /\ DistinctKeys(c.found) /\ c.list \in Seq(StationRows)
<1>1. c \in Processes
  BY DEF CommandOk
<1>. QED BY <1>1 DEF CommandOk, Processes

\* The ways a command goes on, as the actions write them.
LEMMA BecomingFound ==
    ASSUME NEW c \in Processes, NEW pc, NEW found, NEW d,
           d = [c EXCEPT !.found = found, !.pc = pc]
    PROVE  d = Become(c, pc, found, c.list)
  BY DEF Become, Processes
LEMMA BecomingList ==
    ASSUME NEW c \in Processes, NEW pc, NEW list, NEW d,
           d = [c EXCEPT !.pc = pc, !.list = list]
    PROVE  d = Become(c, pc, c.found, list)
  BY DEF Become, Processes

\* The result of a search, and the step that takes it.
LEMMA ResultTaken ==
    ASSUME NEW c, CommandOk(c), c.pc = "found", c.cmd.op \in Searching,
           NEW result, result = Finalized(c.cmd.search, c.found),
           NEW pc \in {"read", "done", "failed"},
           pc = "read" => c.cmd.op = "add" /\ Len(OfKind(result, 0)) = 1,
           NEW d, d = [c EXCEPT !.found = result, !.pc = pc]
    PROVE  CommandOk(d) /\ \A places, configured : Gathered(d, places, configured)
<1>1. /\ c \in Processes /\ c.cmd \in Commands /\ c.found \in Seq(Items)
      /\ DistinctKeys(c.found) /\ c.list \in Seq(StationRows)
  BY ProcessFields
<1>2. c.cmd.search.sel \in Nat /\ c.cmd.search.limit \in Nat
  BY <1>1, CommandFacts
<1>3. result \in Seq(Items) /\ DistinctKeys(result)
  BY <1>1, <1>2, FinalizedFacts
<1>4. d = Become(c, pc, result, c.list)
  BY <1>1, BecomingFound
<1>. QED BY <1>1, <1>3, <1>4, CommandGoesOn DEF Changing

LEMMA ShowResultKeepsCommands ==
    ASSUME CliInv, NEW p \in Clis, ShowResult(p)
    PROVE  CliInv'
<1>. DEFINE c == cli[p]
            result == IF c.cmd.op = "list" THEN << >> ELSE Finalized(c.cmd.search, c.found)
            d == [c EXCEPT !.found = result, !.pc = "done"]
<1>1. /\ c.pc = "found" /\ c.cmd.op \in {"search", "list"} /\ SetCli(p, d)
      /\ UNCHANGED <<catalog, reloads, stationList>>
  BY DEF ShowResult
<1>2. CommandOk(c)
  BY DEF CliInv
<1>. HIDE DEF c
<1>3. /\ c \in Processes /\ c.cmd \in Commands /\ c.list \in Seq(StationRows)
  BY <1>1, <1>2, ProcessFields
<1>4. CommandOk(d) /\ \A places, configured : Gathered(d, places, configured)
  <2>1. CASE c.cmd.op = "list"
    <3>1. result = << >> /\ << >> \in Seq(Items) /\ DistinctKeys(<< >>)
      BY <2>1 DEF DistinctKeys
    <3>2. d = Become(c, "done", << >>, c.list)
      <4>1. d = [c EXCEPT !.found = << >>, !.pc = "done"]
        BY <3>1
      <4>. HIDE DEF d
      <4>. QED BY <1>3, <4>1, BecomingFound
    <3>. HIDE DEF d
    <3>. QED BY <1>1, <1>2, <1>3, <3>1, <3>2, CommandGoesOn
  <2>2. CASE c.cmd.op = "search"
    <3>1. result = Finalized(c.cmd.search, c.found) /\ c.cmd.op \in Searching
      BY <2>2 DEF Searching
    <3>2. d = [c EXCEPT !.found = result, !.pc = "done"]
      OBVIOUS
    <3>. HIDE DEF d, result
    <3>. QED BY <1>1, <1>2, <3>1, <3>2, ResultTaken
  <2>. QED BY <1>1, <2>1, <2>2
<1>. HIDE DEF d
<1>. QED BY <1>1, <1>4, OneCommandMoves

LEMMA ChooseToAddKeepsCommands ==
    ASSUME CliInv, NEW p \in Clis, ChooseToAdd(p)
    PROVE  CliInv'
<1>. DEFINE c == cli[p]
            result == Finalized(c.cmd.search, c.found)
            pc == IF Len(OfKind(result, 0)) = 1 THEN "read" ELSE "failed"
            d == [c EXCEPT !.found = result, !.pc = pc]
<1>1. /\ c.pc = "found" /\ c.cmd.op = "add" /\ SetCli(p, d)
      /\ UNCHANGED <<catalog, reloads, stationList>>
  BY DEF ChooseToAdd
<1>2. CommandOk(c)
  BY DEF CliInv
<1>. HIDE DEF c
<1>3. result = Finalized(c.cmd.search, c.found) /\ c.cmd.op \in Searching
  BY <1>1 DEF Searching
<1>. HIDE DEF result
<1>4. /\ pc \in {"read", "done", "failed"}
      /\ pc = "read" => c.cmd.op = "add" /\ Len(OfKind(result, 0)) = 1
  BY <1>1
<1>. HIDE DEF pc
<1>5. d = [c EXCEPT !.found = result, !.pc = pc]
  OBVIOUS
<1>. HIDE DEF d
<1>6. CommandOk(d) /\ \A places, configured : Gathered(d, places, configured)
  BY <1>1, <1>2, <1>3, <1>4, <1>5, ResultTaken
<1>. QED BY <1>1, <1>6, OneCommandMoves

LEMMA ResolveAddressKeepsCommands ==
    ASSUME CliInv, NEW p \in Clis, ResolveAddress(p)
    PROVE  CliInv'
<1>. DEFINE c == cli[p]
            result == Finalized(c.cmd.search, c.found)
            pc == IF Len(OfKind(result, 0)) = 1 THEN "done" ELSE "failed"
            d == [c EXCEPT !.found = result, !.pc = pc]
<1>1. /\ c.pc = "found" /\ c.cmd.op = "once" /\ SetCli(p, d)
      /\ UNCHANGED <<catalog, reloads, stationList>>
  BY DEF ResolveAddress
<1>2. CommandOk(c)
  BY DEF CliInv
<1>. HIDE DEF c
<1>3. result = Finalized(c.cmd.search, c.found) /\ c.cmd.op \in Searching
  BY <1>1 DEF Searching
<1>. HIDE DEF result
<1>4. pc \in {"done", "failed"}
  OBVIOUS
<1>. HIDE DEF pc
<1>5. d = [c EXCEPT !.found = result, !.pc = pc]
  OBVIOUS
<1>. HIDE DEF d
<1>6. CommandOk(d) /\ \A places, configured : Gathered(d, places, configured)
  BY <1>1, <1>2, <1>3, <1>4, <1>5, ResultTaken
<1>. QED BY <1>1, <1>6, OneCommandMoves

LEMMA ReadConfigKeepsCommands ==
    ASSUME CliInv, NEW p \in Clis, ReadConfig(p)
    PROVE  CliInv'
<1>. DEFINE c == cli[p]
            d == [c EXCEPT !.pc = "write", !.list = stationList]
<1>1. /\ c.pc = "read" /\ SetCli(p, d) /\ UNCHANGED <<catalog, reloads, stationList>>
  BY DEF ReadConfig
<1>2. /\ CommandOk(c) /\ stationList \in Seq(StationRows) /\ NamesUnique(stationList)
  BY DEF CliInv, Listed
<1>. HIDE DEF c
<1>3. /\ c \in Processes /\ c.found \in Seq(Items) /\ DistinctKeys(c.found)
      /\ c.cmd.op \in Changing
      /\ c.cmd.op = "add" => Len(OfKind(c.found, 0)) = 1
  BY <1>1, <1>2, ProcessFields DEF CommandOk
<1>4. d = Become(c, "write", c.found, stationList)
  <2>1. d = [c EXCEPT !.pc = "write", !.list = stationList]
    OBVIOUS
  <2>. HIDE DEF d
  <2>. QED BY <1>3, <2>1, BecomingList
<1>. HIDE DEF d
<1>5. CommandOk(d) /\ \A places, configured : Gathered(d, places, configured)
  BY <1>1, <1>2, <1>3, <1>4, CommandGoesOn
<1>. QED BY <1>1, <1>5, OneCommandMoves

LEMMA FailureKeepsCommands ==
    ASSUME CliInv, NEW p \in Clis, SelectorFails(p) \/ RpcFails(p)
    PROVE  CliInv'
<1>. DEFINE c == cli[p]
            d == [c EXCEPT !.pc = "failed"]
<1>1. c.pc # "idle" /\ SetCli(p, d) /\ UNCHANGED <<catalog, reloads, stationList>>
  BY DEF SelectorFails, RpcFails
<1>2. CommandOk(c)
  BY DEF CliInv
<1>. HIDE DEF c
<1>3. d = [c EXCEPT !.pc = "failed"]
  OBVIOUS
<1>. HIDE DEF d
<1>4. CommandOk(d) /\ \A places, configured : Gathered(d, places, configured)
  BY <1>1, <1>2, <1>3, FailedCommand
<1>. QED BY <1>1, <1>4, OneCommandMoves

\* A command that works on the list of stations it has read.
LEMMA ChangedIsListed ==
    ASSUME NEW c, CommandOk(c), c.pc = "write", NEW configured \in Changed(c)
    PROVE  Listed(configured)
<1>. DEFINE one(sel) == {i \in Selected(c.list, sel) : Cardinality(Selected(c.list, sel)) = 1}
<1>1. /\ Listed(c.list) /\ c.found \in Seq(Items) /\ c.cmd.op \in Changing
      /\ c.cmd.op = "add" => Len(OfKind(c.found, 0)) = 1
  BY ProcessFields DEF CommandOk, Listed
<1>2. ASSUME NEW sel, NEW i \in one(sel) PROVE i \in DOMAIN c.list
  BY <1>2 DEF Selected
<1>3. ASSUME NEW i \in DOMAIN c.list, NEW b \in BOOLEAN
      PROVE  Listed([c.list EXCEPT ![i].enabled = b])
  BY <1>1, EnablingKeepsNames
<1>4. CASE c.cmd.op = "add"
  <2>. DEFINE x == OfKind(c.found, 0)[1]
              name == NameOf(x.prov, x.city)
              i == CHOOSE i \in DOMAIN c.list : c.list[i].name = name
  <2>1. OfKind(c.found, 0) \in Seq(Items) /\ Len(OfKind(c.found, 0)) = 1
    BY <1>1, <1>4, OnlyFacts DEF OfKind
  <2>2. x \in Items
    BY <2>1
  <2>. HIDE DEF x
  <2>3. name \in Nat \X Nat
    BY <2>2 DEF NameOf, Items
  <2>4. configured = Upserted(c.list, name)
    BY <1>4 DEF Changed, x
  <2>. HIDE DEF name
  <2>5. CASE \E k \in DOMAIN c.list : c.list[k].name = name
    <3>1. i \in DOMAIN c.list
      BY <2>5
    <3>2. configured = [c.list EXCEPT ![i].enabled = TRUE]
      BY <2>4, <2>5 DEF Upserted
    <3>. HIDE DEF i
    <3>. QED BY <1>3, <3>1, <3>2
  <2>6. CASE ~\E k \in DOMAIN c.list : c.list[k].name = name
    <3>. DEFINE e == [name |-> name, enabled |-> TRUE]
                q == c.list
    <3>1. configured = Append(q, e)
      BY <2>4, <2>6 DEF Upserted
    <3>2. e \in StationRows /\ e.name = name
      BY <2>3 DEF StationRows
    <3>3. q \in Seq(StationRows) /\ NamesUnique(q)
      BY <1>1 DEF Listed
    <3>4. \A k \in DOMAIN q : q[k].name # name
      BY <2>6
    <3>. HIDE DEF e, q
    <3>5. configured \in Seq(StationRows) /\ Len(configured) = Len(q) + 1 /\ Len(q) \in Nat
      BY <3>1, <3>2, <3>3
    <3>6. \A k \in 1..(Len(q) + 1) : configured[k] = IF k <= Len(q) THEN q[k] ELSE e
      BY <3>1, <3>2, <3>3, <3>5
    <3>7. DOMAIN configured = 1..(Len(q) + 1) /\ DOMAIN q = 1..Len(q)
      BY <3>3, <3>5
    <3>8. ASSUME NEW k \in DOMAIN configured, NEW j \in DOMAIN configured,
                 configured[k].name = configured[j].name
          PROVE  k = j
      <4>1. CASE k <= Len(q) /\ j <= Len(q)
        <5>1. k \in DOMAIN q /\ j \in DOMAIN q /\ configured[k] = q[k] /\ configured[j] = q[j]
          BY <3>5, <3>6, <3>7, <4>1
        <5>. QED BY <3>3, <3>8, <5>1 DEF NamesUnique
      <4>2. CASE k <= Len(q) /\ ~(j <= Len(q))
        <5>1. k \in DOMAIN q /\ configured[k] = q[k] /\ configured[j] = e
          BY <3>5, <3>6, <3>7, <4>2
        <5>. QED BY <3>2, <3>4, <3>8, <5>1
      <4>3. CASE ~(k <= Len(q)) /\ j <= Len(q)
        <5>1. j \in DOMAIN q /\ configured[j] = q[j] /\ configured[k] = e
          BY <3>5, <3>6, <3>7, <4>3
        <5>. QED BY <3>2, <3>4, <3>8, <5>1
      <4>4. CASE ~(k <= Len(q)) /\ ~(j <= Len(q))
        BY <3>5, <3>7, <4>4
      <4>. QED BY <4>1, <4>2, <4>3, <4>4
    <3>. QED BY <3>5, <3>8 DEF Listed, NamesUnique
  <2>. QED BY <2>5, <2>6
<1>5. CASE c.cmd.op = "remove"
  <2>1. PICK i \in one(c.cmd.sel) : configured = RemoveAt(c.list, i)
    BY <1>5 DEF Changed
  <2>. QED BY <1>1, <1>2, <2>1, RemovalKeepsNames
<1>6. CASE c.cmd.op = "enable"
  <2>1. PICK i \in one(c.cmd.sel) : configured = [c.list EXCEPT ![i].enabled = TRUE]
    BY <1>6 DEF Changed
  <2>. QED BY <1>2, <1>3, <2>1
<1>7. CASE c.cmd.op = "disable"
  <2>1. PICK i \in one(c.cmd.sel) : configured = [c.list EXCEPT ![i].enabled = FALSE]
    BY <1>7 DEF Changed
  <2>. QED BY <1>2, <1>3, <2>1
<1>8. CASE c.cmd.op = "move"
  <2>1. PICK i \in one(c.cmd.sel), j \in one(c.cmd.to) : configured = MovedStation(c.list, i, j)
    BY <1>8 DEF Changed
  <2>. DEFINE q == RemoveAt(c.list, i)
              e == c.list[i]
  <2>2. i \in DOMAIN c.list /\ j \in DOMAIN c.list
    BY <1>2, <2>1
  <2>. HIDE DEF one
  <2>3. Listed(q) /\ Len(q) + 1 = Len(c.list) /\ \A k \in DOMAIN q : q[k].name # e.name
    BY <1>1, <2>2, RemovalKeepsNames
  <2>4. c.list \in Seq(StationRows)
    BY <1>1 DEF Listed
  <2>5. e \in StationRows /\ j \in 1..(Len(q) + 1)
    BY <2>2, <2>3, <2>4
  <2>6. configured = InsertAt(q, j, e)
    BY <2>1 DEF MovedStation
  <2>. HIDE DEF q, e
  <2>. QED BY <2>3, <2>5, <2>6, InsertionKeepsNames
<1>. QED BY <1>1, <1>4, <1>5, <1>6, <1>7, <1>8 DEF Changing

\* The processes whose output the change disturbs, and the others.
LEMMA DisturbFacts ==
    ASSUME NEW procs, NEW ops, NEW r \in Clis, CommandOk(cli[r]), r \notin procs
    PROVE  /\ CommandOk(Disturb(procs, ops)[r])
           /\ \A places, configured :
                 Gathered(cli[r], places, configured) =>
                    Gathered(Disturb(procs, ops)[r], places, configured)
           /\ cli[r].cmd.op \in ops =>
                 \A places, configured : Gathered(Disturb(procs, ops)[r], places, configured)
<1>. DEFINE c == cli[r]
            d == Disturb(procs, ops)[r]
<1>1. d = IF c.pc \in {"paging", "found"} /\ c.cmd.op \in ops
          THEN [c EXCEPT !.disturbed = TRUE] ELSE c
  BY DEF Disturb
<1>2. CommandOk(c) /\ c \in Processes
  BY DEF CommandOk
<1>. HIDE DEF c, d
<1>3. CASE d = c /\ ~(c.pc \in {"paging", "found"} /\ c.cmd.op \in ops)
  BY <1>2, <1>3 DEF Gathered, c, d
<1>4. CASE d = [c EXCEPT !.disturbed = TRUE]
  <2>1. /\ d \in Processes /\ d.disturbed /\ d.pc = c.pc /\ d.cmd = c.cmd /\ d.offset = c.offset
        /\ d.requests = c.requests /\ d.found = c.found /\ d.list = c.list
    BY <1>2, <1>4 DEF Processes
  <2>2. CommandOk(d)
    BY <1>2, <2>1 DEF CommandOk
  <2>. QED BY <2>1, <2>2 DEF Gathered, d
<1>. QED BY <1>1, <1>3, <1>4

LEMMA WriteConfigKeepsCommands ==
    ASSUME CliInv, NEW p \in Clis, WriteConfig(p)
    PROVE  CliInv'
<1>. DEFINE c == cli[p]
            D == Disturb({p}, {"list"})
<1>1. /\ c.pc = "write" /\ stationList' \in Changed(c)
      /\ cli' = [D EXCEPT ![p].pc = "done"] /\ UNCHANGED <<catalog, reloads>>
  BY DEF WriteConfig
<1>2. CommandOk(c) /\ c \in Processes
  BY DEF CliInv, CommandOk
<1>3. Listed(stationList')
  BY <1>1, <1>2, ChangedIsListed
<1>4. DOMAIN D = Clis /\ D[p] = c
  BY DEF Disturb
<1>. HIDE DEF c, D
<1>5. /\ DOMAIN cli' = Clis /\ cli'[p] = [c EXCEPT !.pc = "done"]
      /\ \A r \in Clis : r # p => cli'[r] = D[r]
  BY <1>1, <1>4
<1>6. CommandOk(cli'[p]) /\ Gathered(cli'[p], catalog', stationList')
  <2>. DEFINE d == cli'[p]
  <2>1. d \in Processes /\ d.pc = "done" /\ d.cmd = c.cmd /\ d.found = c.found
    BY <1>2, <1>5 DEF Processes
  <2>. HIDE DEF d
  <2>2. CommandOk(d) /\ Gathered(d, catalog', stationList')
    BY <1>1, <1>2, <2>1 DEF CommandOk, Gathered
  <2>. QED BY <2>2 DEF d
<1>7. ASSUME NEW r \in Clis, r # p
      PROVE  CommandOk(cli'[r]) /\ Gathered(cli'[r], catalog', stationList')
  <2>1. CommandOk(cli[r]) /\ Gathered(cli[r], catalog, stationList)
    BY DEF CliInv
  <2>2. /\ CommandOk(D[r])
        /\ Gathered(D[r], catalog, stationList)
        /\ cli[r].cmd.op = "list" => Gathered(D[r], catalog, stationList')
    BY <1>7, <2>1, DisturbFacts DEF D
  <2>3. D[r].cmd = cli[r].cmd
    <3>1. D[r] = cli[r] \/ D[r] = [cli[r] EXCEPT !.disturbed = TRUE]
      BY DEF D, Disturb
    <3>2. cli[r] \in Processes
      BY <2>1 DEF CommandOk
    <3>. QED BY <3>1, <3>2 DEF Processes
  <2>4. Gathered(D[r], catalog, stationList')
    BY <2>2, <2>3 DEF Gathered
  <2>. QED BY <1>1, <1>5, <1>7, <2>2, <2>4
<1>. QED BY <1>1, <1>3, <1>5, <1>6, <1>7 DEF CliInv

LEMMA CatalogReloadsKeepsCommands ==
    ASSUME CliInv, CatalogReloads
    PROVE  CliInv'
<1>. DEFINE D == Disturb({}, Searching)
<1>1. /\ reloads < MaxReloads /\ reloads' = reloads + 1 /\ catalog' \in Catalogs
      /\ cli' = D /\ stationList' = stationList
  BY DEF CatalogReloads
<1>2. reloads' \in 0..MaxReloads
  BY <1>1, CliAssumption DEF CliInv
<1>3. DOMAIN D = Clis
  BY DEF Disturb
<1>. HIDE DEF D
<1>4. ASSUME NEW r \in Clis
      PROVE  CommandOk(D[r]) /\ Gathered(D[r], catalog', stationList)
  <2>1. CommandOk(cli[r]) /\ Gathered(cli[r], catalog, stationList)
    BY DEF CliInv
  <2>2. /\ CommandOk(D[r])
        /\ Gathered(D[r], catalog, stationList)
        /\ cli[r].cmd.op \in Searching => Gathered(D[r], catalog', stationList)
    BY <2>1, DisturbFacts DEF D
  <2>3. D[r].cmd = cli[r].cmd
    <3>1. D[r] = cli[r] \/ D[r] = [cli[r] EXCEPT !.disturbed = TRUE]
      BY DEF D, Disturb
    <3>2. cli[r] \in Processes
      BY <2>1 DEF CommandOk
    <3>. QED BY <3>1, <3>2 DEF Processes
  <2>4. Gathered(D[r], catalog', stationList)
    BY <2>2, <2>3 DEF Gathered
  <2>. QED BY <2>2, <2>4
<1>. QED BY <1>1, <1>2, <1>3, <1>4 DEF CliInv

LEMMA FirstCommandsOk == CliInit => CliInv
<1>. SUFFICES ASSUME CliInit PROVE CliInv
  OBVIOUS
<1>1. catalog \in Catalogs /\ reloads \in 0..MaxReloads /\ Listed(stationList)
  BY CliAssumption DEF CliInit, Listed
<1>2. DOMAIN cli = Clis /\ \A p \in Clis : cli[p] = CliIdle
  BY DEF CliInit
<1>3. CommandOk(CliIdle) /\ Gathered(CliIdle, catalog, stationList)
  <2>1. << >> \in Seq(Items) /\ << >> \in Seq(StationRows) /\ DistinctKeys(<< >>)
    BY DEF DistinctKeys
  <2>2. CliIdle \in Processes
    BY <2>1, MaxPaginatedIs, CliAssumption DEF CliIdle, Processes
  <2>3. CliIdle.pc = "idle" /\ CliIdle.found = << >>
    BY DEF CliIdle
  <2>. QED BY <2>1, <2>2, <2>3 DEF CommandOk, Gathered
<1>. QED BY <1>1, <1>2, <1>3 DEF CliInv

\* What is found when all pages are taken is what one request finds.
LEMMA AllPagesFind ==
    ASSUME CliInv, NEW p \in Clis, cli[p].pc = "found", ~cli[p].disturbed,
           cli[p].cmd.op # "list"
    PROVE  Finalized(cli[p].cmd.search, cli[p].found) = Unpaged(cli[p].cmd.search)
<1>. DEFINE c == cli[p]
            s == c.cmd.search
            all == SearchCandidates[catalog][s]
<1>1. /\ CommandOk(c) /\ Gathered(c, catalog, stationList) /\ catalog \in Catalogs
      /\ c.cmd \in Commands /\ c.cmd.op \in Searching
  BY DEF CliInv, CommandOk
<1>2. s \in SearchesMade /\ s.sel \in Nat /\ s.limit \in Nat
  BY <1>1, CommandFacts
<1>3. PICK e \in 0..Len(all) : /\ c.found = FoundIn(s, SubSeq(all, 1, e))
                               /\ e = Len(all) \/ TargetReached(s, c.found)
  BY <1>1 DEF Gathered, GatheredFound
<1>4. all \in Seq(Items) /\ DistinctKeys(all) /\ Ascending(all)
  BY <1>1, <1>2, SearchCandidatesFacts
<1>5. Unpaged(s) = Finalized(s, FoundIn(s, all))
  <2>1. << >> \o all = all /\ << >> \in Seq(Items)
    BY <1>4
  <2>2. DedupSearch(FoundIn(s, << >>), Matching(s, all)) = FoundIn(s, << >> \o all)
    BY <1>4, <2>1, PageJoins
  <2>3. FoundIn(s, << >>) = << >>
    BY NothingFound
  <2>. QED BY <2>1, <2>2, <2>3 DEF Unpaged
<1>. HIDE DEF s, all
<1>6. CASE e = Len(all)
  <2>1. SubSeq(all, 1, Len(all)) = all
    BY <1>4
  <2>. QED BY <1>3, <1>5, <1>6, <2>1 DEF s
<1>7. CASE TargetReached(s, c.found)
  <2>. DEFINE u == SubSeq(all, 1, e)
              v == SubSeq(all, e + 1, Len(all))
  <2>1. Len(all) \in Nat /\ e \in Nat /\ e <= Len(all)
    BY <1>4
  <2>2. u \in Seq(Items) /\ v \in Seq(Items)
    BY <1>4, <2>1
  <2>3. 1 \in 1..(Len(all) + 1) /\ e \in (1 - 1)..Len(all) /\ Len(all) \in e..Len(all)
    BY <2>1
  <2>4. u \o v = all
    <3>1. SubSeq(all, 1, Len(all)) = all
      BY <1>4
    <3>2. u \o v = SubSeq(all, 1, Len(all))
      BY <1>4, <2>3, ConcatAdjacentSubSeq
    <3>. QED BY <3>1, <3>2
  <2>5. c.found = FoundIn(s, u)
    BY <1>3
  <2>. HIDE DEF u, v
  <2>6. Finalized(s, FoundIn(s, u)) = Finalized(s, FoundIn(s, u \o v))
    <3>1. Ascending(u \o v) /\ TargetReached(s, FoundIn(s, u))
      BY <1>4, <1>7, <2>4, <2>5
    <3>. QED BY <1>2, <2>2, <3>1, LaterPagesChangeNothing
  <2>. QED BY <1>5, <2>4, <2>5, <2>6 DEF s
<1>. QED BY <1>3, <1>6, <1>7

LEMMA CommandsCompose == CliInv => PagesCompose
<1>. SUFFICES ASSUME CliInv PROVE PagesCompose
  OBVIOUS
<1>1. ASSUME NEW p \in Clis
      PROVE  /\ cli[p].pc \notin {"exhausted", "refused"} /\ DistinctKeys(cli[p].found)
             /\ CommandOk(cli[p]) /\ Gathered(cli[p], catalog, stationList)
  BY DEF CliInv, CommandOk, Processes
<1>2. ASSUME NEW p \in Clis, cli[p].pc = "found", ~cli[p].disturbed, cli[p].cmd.op = "list"
      PROVE  cli[p].list = stationList
  BY <1>1, <1>2 DEF Gathered, GatheredList, CliInv, Listed
<1>. QED BY <1>1, <1>2, AllPagesFind DEF PagesCompose, DistinctKeys

LEMMA CommandsKeepInv == CliSpec => []CliInv
<1>1. CliInit => CliInv
  BY FirstCommandsOk
<1>2. CliInv /\ [CliNext]_cliVars => CliInv'
  <2>. SUFFICES ASSUME CliInv, [CliNext]_cliVars PROVE CliInv'
    OBVIOUS
  <2>1. ASSUME NEW p \in Clis, NEW cmd \in Commands, BeginCommand(p, cmd) PROVE CliInv'
    BY <2>1, BeginKeepsCommands
  <2>2. ASSUME NEW p \in Clis, SearchPage(p) PROVE CliInv'
    BY <2>2, SearchPageKeepsCommands
  <2>3. ASSUME NEW p \in Clis, ListPage(p) PROVE CliInv'
    BY <2>3, ListPageKeepsCommands
  <2>4. ASSUME NEW p \in Clis, ShowResult(p) PROVE CliInv'
    BY <2>4, ShowResultKeepsCommands
  <2>5. ASSUME NEW p \in Clis, ChooseToAdd(p) PROVE CliInv'
    BY <2>5, ChooseToAddKeepsCommands
  <2>6. ASSUME NEW p \in Clis, ResolveAddress(p) PROVE CliInv'
    BY <2>6, ResolveAddressKeepsCommands
  <2>7. ASSUME NEW p \in Clis, ReadConfig(p) PROVE CliInv'
    BY <2>7, ReadConfigKeepsCommands
  <2>8. ASSUME NEW p \in Clis, WriteConfig(p) PROVE CliInv'
    BY <2>8, WriteConfigKeepsCommands
  <2>9. ASSUME NEW p \in Clis, SelectorFails(p) \/ RpcFails(p) PROVE CliInv'
    BY <2>9, FailureKeepsCommands
  <2>10. CASE CatalogReloads
    BY <2>10, CatalogReloadsKeepsCommands
  <2>11. CASE UNCHANGED cliVars
    <3>1. catalog' = catalog /\ reloads' = reloads /\ stationList' = stationList /\ cli' = cli
      BY <2>11 DEF cliVars
    <3>. QED BY <3>1 DEF CliInv
  <2>. QED BY <2>1, <2>2, <2>3, <2>4, <2>5, <2>6, <2>7, <2>8, <2>9, <2>10, <2>11 DEF CliNext
<1>. QED BY <1>1, <1>2, PTL DEF CliSpec

\* As long as nothing it reads changes, a search or listing put together from pages
\* is what one unpaged request gives, for any catalog, page size and limits
\* (tui/src/search.rs, common/src/pagination.rs): the candidates are in ascending
\* order of kind and have distinct keys, so that what is gathered is always what
\* the candidates before the offset alone would give.  Whatever changes, a search
\* finds nothing twice and no request is refused or one too many.
THEOREM PagesAlwaysCompose == CliSpec => []PagesCompose
BY CommandsKeepInv, CommandsCompose, PTL

\* The commands' offsets and requests stay within the bounds of pagination.rs.
THEOREM CommandsAreWellTyped == CliSpec => []CliTypeOK
<1>1. CliInv => CliTypeOK
  BY DEF CliInv, CommandOk, Processes, CliTypeOK
<1>. QED BY <1>1, CommandsKeepInv, PTL
=============================================================================
