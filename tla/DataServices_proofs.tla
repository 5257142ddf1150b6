------------------------ MODULE DataServices_proofs ------------------------
(***************************************************************************)
(* Proofs about the services that keep data of the provider: Catalog's     *)
(* scopes stay readable, WeatherService reports every refresh and keeps    *)
(* the newest snapshot, what TemperatureHistory's snapshots hold is what   *)
(* upstream sent and comes whole to a client that pages through it, and    *)
(* what NmcProvider maps is what upstream filled, for any number of        *)
(* requests, fetches, provinces, cities, timezones and days and for        *)
(* documents of any values.                                                *)
(***************************************************************************)
EXTENDS Catalog, WeatherService, TemperatureHistory, NmcProvider, FiniteLists_proofs

----------------------------------------------------------------------------
(* Catalog: the replacements of cache rows.                                *)

\* provider_cities and its cache states change together in replace_provider_provinces.
LEMMA ProvincesKeepReadable ==
    ASSUME ScopesReadable, WriteInv, NEW S, ReplaceProvinces(S)
    PROVE  ScopesReadable' /\ DOMAIN cityOf' = Cities /\ DOMAIN scope' = Provinces
           /\ \A p \in Provinces : DOMAIN scope'[p] = {"state", "count"}
<1>1. ASSUME NEW p \in Provinces, p \in S
      PROVE  CitiesIn(p)' = CitiesIn(p) /\ scope'[p] = scope[p]
  BY <1>1, CatalogAssumption DEF ReplaceProvinces, CitiesIn
<1>2. ASSUME NEW p \in Provinces, p \notin S
      PROVE  CitiesIn(p)' = {} /\ scope'[p] = NoScope
  BY <1>2, CatalogAssumption DEF ReplaceProvinces, CitiesIn
<1>3. NoScope.count = Cardinality({}) /\ DOMAIN NoScope = {"state", "count"}
  BY FS_EmptySet DEF NoScope
<1>4. ASSUME NEW p \in Provinces
      PROVE  ScopeReadable(p)' /\ DOMAIN scope'[p] = {"state", "count"}
  <2>1. CASE p \in S
    BY <1>1, <2>1 DEF ScopesReadable, ScopeReadable, WriteInv
  <2>2. CASE p \notin S
    BY <1>2, <1>3, <2>2 DEF ScopeReadable
  <2>. QED BY <2>1, <2>2
<1>. QED BY <1>4 DEF ScopesReadable, ReplaceProvinces

\* replace_provider_cities: the primary key keeps the other scopes' rows in place.
LEMMA CitiesKeepReadable ==
    ASSUME ScopesReadable, WriteInv, NEW p \in Provinces, NEW S, S \subseteq Cities,
           ReplaceCities(p, S)
    PROVE  ScopesReadable' /\ DOMAIN cityOf' = Cities /\ DOMAIN scope' = Provinces
           /\ \A q \in Provinces : DOMAIN scope'[q] = {"state", "count"}
<1>1. CitiesIn(p)' = S
  BY CatalogAssumption DEF ReplaceCities, CitiesIn
<1>2. ASSUME NEW q \in Provinces, q # p PROVE CitiesIn(q)' = CitiesIn(q)
  BY <1>2, CatalogAssumption DEF ReplaceCities, CitiesIn, Conflicts
<1>3. /\ DOMAIN scope' = Provinces
      /\ scope'[p] = [state |-> "fresh", count |-> Cardinality(S)]
      /\ \A q \in Provinces : q # p => scope'[q] = scope[q]
  BY DEF ReplaceCities, WriteInv
<1>4. scope'[p].count = Cardinality(S) /\ DOMAIN scope'[p] = {"state", "count"}
  BY <1>3
<1>5. ASSUME NEW q \in Provinces
      PROVE  ScopeReadable(q)' /\ DOMAIN scope'[q] = {"state", "count"}
  <2>1. CASE q = p
    BY <1>1, <1>4, <2>1 DEF ScopeReadable
  <2>2. CASE q # p
    BY <1>2, <1>3, <2>2 DEF ScopesReadable, ScopeReadable, WriteInv
  <2>. QED BY <2>1, <2>2
<1>. QED BY <1>3, <1>5 DEF ScopesReadable, ReplaceCities

\* What WriteInv says of the jobs.
JobOk(k, j) ==
    /\ DOMAIN j = {"st", "data", "stale"}
    /\ j.st = "write" /\ k # ProvKey => j.data \subseteq Cities
JobsOk ==
    /\ DOMAIN job = Requests /\ \A r \in Requests : DOMAIN job[r] = Keys
    /\ \A r \in Requests, k \in Keys : JobOk(k, job[r][k])
TablesOk ==
    /\ DOMAIN cityOf = Cities /\ DOMAIN scope = Provinces
    /\ \A p \in Provinces : DOMAIN scope[p] = {"state", "count"}

LEMMA WriteParts == WriteInv <=> JobsOk /\ TablesOk
BY DEF WriteInv, JobsOk, JobOk, TablesOk

LEMMA SimpleJobs ==
    ASSUME NEW k, NEW data
    PROVE  JobOk(k, NoJob) /\ JobOk(k, Done(data)) /\ JobOk(k, Failed)
           /\ JobOk(k, [NoJob EXCEPT !.st = "wait"])
BY DEF JobOk, NoJob, Done, Failed

LEMMA SetJobKeeps ==
    ASSUME JobsOk, NEW r \in Requests, NEW k \in Keys, NEW j, JobOk(k, j), SetJob(r, k, j)
    PROVE  JobsOk'
<1>1. /\ DOMAIN job' = Requests
      /\ \A q \in Requests : q # r => job'[q] = job[q]
      /\ DOMAIN job'[r] = Keys /\ job'[r][k] = j
      /\ \A i \in Keys : i # k => job'[r][i] = job[r][i]
  BY DEF SetJob, JobsOk
<1>2. ASSUME NEW q \in Requests, NEW i \in Keys PROVE DOMAIN job'[q] = Keys /\ JobOk(i, job'[q][i])
  BY <1>1 DEF JobsOk
<1>. QED BY <1>1, <1>2 DEF JobsOk, JobOk

LEMMA FinishKeeps ==
    ASSUME JobsOk, NEW k \in Keys, NEW j, JobOk(k, j), Finish(k, j)
    PROVE  JobsOk'
<1>1. ASSUME NEW q \in Requests, NEW i \in Keys PROVE DOMAIN job'[q] = Keys /\ JobOk(i, job'[q][i])
  <2>1. job'[q] = job[q] \/ job'[q] = [job[q] EXCEPT ![k] = j]
    BY DEF Finish
  <2>. QED BY <2>1 DEF JobsOk
<1>. QED BY <1>1 DEF JobsOk, JobOk, Finish

\* A request's jobs all replaced, as a request's end or the population does.
LEMMA ReplaceJobsKeeps ==
    ASSUME JobsOk, NEW r \in Requests, NEW js, job' = [job EXCEPT ![r] = js],
           DOMAIN js = Keys, \A k \in Keys : JobOk(k, js[k])
    PROVE  JobsOk'
<1>1. ASSUME NEW q \in Requests, NEW i \in Keys PROVE DOMAIN job'[q] = Keys /\ JobOk(i, job'[q][i])
  BY DEF JobsOk
<1>. QED BY <1>1 DEF JobsOk, JobOk

LEMMA NoJobsKeep ==
    ASSUME JobsOk, NEW r \in Requests, job' = [job EXCEPT ![r] = NoJobs]
    PROVE  JobsOk'
<1>1. DOMAIN NoJobs = Keys /\ \A k \in Keys : JobOk(k, NoJobs[k])
  BY SimpleJobs DEF NoJobs
<1>. QED BY <1>1, ReplaceJobsKeeps

\* The tables are left alone.
LEMMA TablesKeep ==
    ASSUME TablesOk, ScopesReadable, UNCHANGED <<cityOf, scope>>
    PROVE  TablesOk' /\ ScopesReadable'
BY DEF TablesOk, ScopesReadable, ScopeReadable, CitiesIn

CatalogInv == ScopesReadable /\ JobsOk /\ TablesOk

\* The work on one catalog keeps the invariant.
LEMMA JobKeepsCatalogInv ==
    ASSUME CatalogInv, NEW r \in Requests, NEW k \in Keys, JobStep(r, k)
    PROVE  CatalogInv'
<1>. USE DEF CatalogInv
<1>0. JobOk(k, job[r][k])
  BY DEF JobsOk
<1>1. ASSUME UNCHANGED db, JobsOk' PROVE CatalogInv'
  BY <1>1, TablesKeep DEF db
<1>2. CASE CheckCache(r, k)
  <2>1. PICK j : SetJob(r, k, j) /\ JobOk(k, j)
    <3>1. CASE ~Readable(k)
      BY <1>2, <3>1, SimpleJobs DEF CheckCache
    <3>2. CASE Readable(k) /\ CacheState(k) = "fresh"
      BY <1>2, <3>2, SimpleJobs DEF CheckCache
    <3>3. CASE Readable(k) /\ CacheState(k) # "fresh"
      BY <1>2, <3>3, SimpleJobs DEF CheckCache
    <3>. QED BY <3>1, <3>2, <3>3
  <2>. QED BY <1>1, <1>2, <2>1, SetJobKeeps DEF CheckCache
<1>3. CASE Lead(r, k)
  <2>. DEFINE j == [st |-> "permit", data |-> Rows(k), stale |-> CacheState(k) # "none"]
  <2>1. JobOk(k, j)
    BY DEF JobOk
  <2>2. Finish(k, Failed) \/ Finish(k, Done(Rows(k))) \/ SetJob(r, k, j)
    BY <1>3 DEF Lead
  <2>3. JobsOk'
    <3>. HIDE DEF j
    <3>. QED BY <2>1, <2>2, SimpleJobs, FinishKeeps, SetJobKeeps
  <2>. QED BY <1>1, <1>3, <2>3 DEF Lead
<1>4. CASE AcquirePermit(r, k)
  <2>1. JobOk(k, [job[r][k] EXCEPT !.st = "fetch"])
    BY <1>0 DEF JobOk
  <2>. QED BY <1>1, <1>4, <2>1, SetJobKeeps DEF AcquirePermit
<1>5. CASE FetchSucceeds(r, k)
  <2>. DEFINE data == IF k = ProvKey THEN upProvinces ELSE {c \in Cities : upCity[c] = k}
              j == [st |-> "write", stale |-> FALSE, data |-> data]
  <2>1. JobOk(k, j)
    BY DEF JobOk
  <2>2. SetJob(r, k, j)
    BY <1>5 DEF FetchSucceeds
  <2>. HIDE DEF j
  <2>. QED BY <1>1, <1>5, <2>1, <2>2, SetJobKeeps DEF FetchSucceeds
<1>6. CASE FetchFails(r, k)
  <2>1. Finish(k, Failed) \/ Finish(k, Done(job[r][k].data))
    BY <1>6 DEF FetchFails
  <2>. QED BY <1>1, <1>6, <2>1, SimpleJobs, FinishKeeps DEF FetchFails
<1>7. CASE Replace(r, k)
  <2>1. JobOk(k, [job[r][k] EXCEPT !.st = "reread"])
    BY <1>0 DEF JobOk
  <2>2. JobsOk'
    BY <1>7, <2>1, SetJobKeeps DEF Replace
  <2>3. CASE k = ProvKey
    <3>1. ReplaceProvinces(job[r][k].data)
      BY <1>7, <2>3 DEF Replace
    <3>. QED BY <2>2, <3>1, ProvincesKeepReadable, WriteParts DEF TablesOk
  <2>4. CASE k # ProvKey
    <3>1. ReplaceCities(k, job[r][k].data) /\ job[r][k].data \subseteq Cities /\ k \in Provinces
      BY <1>0, <1>7, <2>4 DEF Replace, JobOk, Keys
    <3>. QED BY <2>2, <3>1, CitiesKeepReadable, WriteParts DEF TablesOk
  <2>. QED BY <2>3, <2>4
<1>8. CASE ReplaceFails(r, k)
  BY <1>1, <1>8, SimpleJobs, FinishKeeps DEF ReplaceFails
<1>9. CASE Reread(r, k)
  <2>1. PICK data : Finish(k, Done(data))
    BY <1>9 DEF Reread
  <2>. QED BY <1>1, <1>9, <2>1, SimpleJobs, FinishKeeps DEF Reread
<1>. QED BY <1>2, <1>3, <1>4, <1>5, <1>6, <1>7, <1>8, <1>9 DEF JobStep

\* So do the steps of a request.
LEMMA RequestKeepsCatalogInv ==
    ASSUME CatalogInv, NEW r \in Requests,
           RequestStep(r) \/ Cancel(r) \/ \E kind \in Kinds : Begin(r, kind)
    PROVE  CatalogInv'
<1>. USE DEF CatalogInv
<1>1. ASSUME UNCHANGED <<cityOf, scope>>, JobsOk' PROVE CatalogInv'
  BY <1>1, TablesKeep
<1>2. ASSUME UNCHANGED job PROVE JobsOk'
  BY <1>2 DEF JobsOk
<1>3. ASSUME job' = [job EXCEPT ![r] = NoJobs] PROVE JobsOk'
  BY <1>3, NoJobsKeep
<1>4. ASSUME NEW kind \in Kinds, Begin(r, kind) PROVE CatalogInv'
  BY <1>1, <1>2, <1>4 DEF Begin, db
<1>5. CASE Lookup(r)
  BY <1>1, <1>2, <1>3, <1>5 DEF Lookup, End, db
<1>6. CASE LeadPopulation(r)
  BY <1>1, <1>2, <1>6 DEF LeadPopulation, db
<1>7. CASE ProvincesReady(r)
  <2>1. CASE SetJob(r, ProvKey, NoJob)
    BY <1>1, <1>7, <2>1, SimpleJobs, SetJobKeeps DEF ProvincesReady, db, Keys
  <2>2. CASE job' = [job EXCEPT ![r] = NoJobs]
    BY <1>1, <1>3, <1>7, <2>2 DEF ProvincesReady, db
  <2>3. SetJob(r, ProvKey, NoJob) \/ job' = [job EXCEPT ![r] = NoJobs]
    BY <1>7 DEF ProvincesReady, End, Fail
  <2>. QED BY <2>1, <2>2, <2>3
<1>8. CASE ProvincesFail(r)
  BY <1>1, <1>3, <1>8 DEF ProvincesFail, Fail, db
<1>9. CASE Populate(r)
  <2>. DEFINE js == [k \in Keys |-> IF k \in req[r].provs /\ CacheState(k) = "fresh"
                                    THEN Done(Rows(k)) ELSE NoJob]
  <2>1. DOMAIN js = Keys /\ \A k \in Keys : JobOk(k, js[k])
    BY SimpleJobs
  <2>2. job' = [job EXCEPT ![r] = js] \/ job' = [job EXCEPT ![r] = NoJobs]
    BY <1>9 DEF Populate, Fail
  <2>. HIDE DEF js
  <2>3. JobsOk'
    BY <1>3, <2>1, <2>2, ReplaceJobsKeeps
  <2>. QED BY <1>1, <1>9, <2>3 DEF Populate, db
<1>10. CASE ScopesReady(r)
  <2>1. job' = [job EXCEPT ![r] = NoJobs]
    BY <1>10 DEF ScopesReady, Fail, End
  <2>. QED BY <1>1, <1>3, <1>10, <2>1 DEF ScopesReady, db
<1>11. CASE ScopeFails(r)
  BY <1>1, <1>3, <1>11 DEF ScopeFails, Fail, db
<1>12. CASE CacheMapping(r)
  <2>1. UNCHANGED <<cityOf, scope>> /\ (UNCHANGED job \/ job' = [job EXCEPT ![r] = NoJobs])
    BY <1>12 DEF CacheMapping, End, db
  <2>. QED BY <1>1, <1>2, <1>3, <2>1
<1>13. CASE Cancel(r)
  BY <1>1, <1>3, <1>13 DEF Cancel, End, db
<1>. QED
  BY <1>4, <1>5, <1>6, <1>7, <1>8, <1>9, <1>10, <1>11, <1>12, <1>13 DEF RequestStep

\* An expired TTL changes a cache state and not its count.
LEMMA ExpiryKeepsCatalogInv ==
    ASSUME CatalogInv, NEW k \in Keys, Expire(k)
    PROVE  CatalogInv'
<1>. USE DEF CatalogInv
<1>1. JobsOk'
  BY DEF Expire, JobsOk
<1>2. CASE UNCHANGED scope
  BY <1>1, <1>2, TablesKeep DEF Expire
<1>3. CASE k \in Provinces /\ scope' = [scope EXCEPT ![k].state = "stale"]
  <2>1. /\ DOMAIN scope' = Provinces
        /\ \A p \in Provinces : scope'[p].count = scope[p].count
                                /\ DOMAIN scope'[p] = {"state", "count"}
    BY <1>3 DEF TablesOk
  <2>. QED BY <1>1, <2>1 DEF Expire, TablesOk, ScopesReadable, ScopeReadable, CitiesIn
<1>. QED BY <1>2, <1>3 DEF Expire, Keys

\* replace_provider_cities and replace_provider_provinces keep every scope's count
\* equal to its rows, so no read of the catalog ever finds it inconsistent.
THEOREM ScopesStayReadable == Spec => []ScopesReadable
<1>1. Init => CatalogInv
  <2>. SUFFICES ASSUME Init PROVE CatalogInv
    OBVIOUS
  <2>1. JobsOk
    BY SimpleJobs DEF Init, JobsOk
  <2>2. TablesOk
    BY DEF Init, TablesOk, NoScope
  <2>3. ScopesReadable
    <3>1. CASE cityOf = [c \in Cities |-> None] /\ scope = [p \in Provinces |-> NoScope]
      <4>1. \A p \in Provinces : CitiesIn(p) = {}
        BY <3>1, CatalogAssumption DEF CitiesIn
      <4>. QED BY <3>1, <4>1, FS_EmptySet DEF ScopesReadable, ScopeReadable, NoScope
    <3>2. CASE /\ cityOf = upCity
               /\ scope = [p \in Provinces |->
                    [state |-> "stale", count |-> Cardinality({c \in Cities : upCity[c] = p})]]
      BY <3>2 DEF ScopesReadable, ScopeReadable, CitiesIn
    <3>. QED BY <3>1, <3>2 DEF Init
  <2>. QED BY <2>1, <2>2, <2>3 DEF CatalogInv
<1>2. CatalogInv /\ [Next]_catalogVars => CatalogInv'
  <2>. SUFFICES ASSUME CatalogInv, [Next]_catalogVars PROVE CatalogInv'
    OBVIOUS
  <2>1. CASE Change \/ UNCHANGED catalogVars
    BY <2>1, TablesKeep DEF Change, catalogVars, db, CatalogInv, JobsOk
  <2>. QED BY <2>1, JobKeepsCatalogInv, RequestKeepsCatalogInv, ExpiryKeepsCatalogInv DEF Next
<1>3. CatalogInv => ScopesReadable
  BY DEF CatalogInv
<1>. QED BY <1>1, <1>2, <1>3, PTL DEF Spec

----------------------------------------------------------------------------
(* WeatherService: the events of a refresh.                                *)

\* What EventInv says of one request: w is its record, ev its events.
EventOk(w, ev) ==
    /\ DOMAIN w = WxFields /\ DOMAIN ev = {"started", "terminal"}
    /\ w.pc \in WxEnded => ev.terminal = ev.started
    /\ w.pc = "idle" => ev.terminal = 0 /\ ev.started = 0
    /\ w.pc \notin WxEnded => ev.terminal = 0
    /\ w.pc \notin WxEnded \union {"idle"} => ev.started = IF w.armed THEN 1 ELSE 0

LEMMA EventParts ==
    EventInv <=> /\ DOMAIN wx = WxRequests /\ DOMAIN events = WxRequests
                 /\ \A r \in WxRequests : EventOk(wx[r], events[r])
BY DEF EventInv, EventOk

\* A request that goes on owes what it owed.
LEMMA GoingOnKeepsEvents ==
    ASSUME EventInv, NEW r \in WxRequests, NEW w, Set(r, w), UNCHANGED events,
           wx[r].pc \notin WxEnded \union {"idle"}, DOMAIN w = WxFields,
           w.pc \notin WxEnded \union {"idle"}, w.armed = wx[r].armed
    PROVE  EventInv'
<1>1. /\ DOMAIN wx' = WxRequests /\ wx'[r] = w
      /\ \A q \in WxRequests : q # r => wx'[q] = wx[q]
  BY DEF Set, EventInv
<1>2. EventOk(w, events[r])
  BY EventParts DEF EventOk
<1>3. \A q \in WxRequests : EventOk(wx'[q], events[q])
  BY <1>1, <1>2, EventParts
<1>. QED BY <1>1, <1>3 DEF EventInv, EventOk

LEMMA GotoKeepsEvents ==
    ASSUME EventInv, NEW r \in WxRequests, NEW pc, Goto(r, pc), UNCHANGED events,
           wx[r].pc \notin WxEnded \union {"idle"}, pc \notin WxEnded \union {"idle"}
    PROVE  EventInv'
<1>. DEFINE w == [wx[r] EXCEPT !.pc = pc]
<1>1. DOMAIN w = WxFields /\ w.pc = pc /\ w.armed = wx[r].armed
  BY DEF EventInv, WxFields
<1>2. Set(r, w)
  BY DEF Goto
<1>. HIDE DEF w
<1>. QED BY <1>1, <1>2, GoingOnKeepsEvents

\* RefreshCompletionGuard: whoever ends publishes what is owed.
LEMMA EndKeepsEvents ==
    ASSUME EventInv, NEW S, NEW pc \in WxEnded, EndAll(S, pc),
           \A q \in S : wx[q].pc \notin WxEnded \union {"idle"}
    PROVE  EventInv'
<1>0. DOMAIN wx' = WxRequests /\ DOMAIN events' = WxRequests
  BY DEF EndAll
<1>1. ASSUME NEW q \in WxRequests PROVE EventOk(wx'[q], events'[q])
  <2>0. EventOk(wx[q], events[q])
    BY EventParts
  <2>1. CASE q \notin S
    BY <2>0, <2>1 DEF EndAll
  <2>2. CASE q \in S
    <3>1. wx'[q] = [WxIdle EXCEPT !.pc = pc]
      BY <2>2 DEF EndAll
    <3>2. DOMAIN wx'[q] = WxFields /\ wx'[q].pc = pc
      BY <3>1 DEF WxIdle, WxFields
    <3>3. /\ DOMAIN events[q] = {"started", "terminal"} /\ events[q].terminal = 0
          /\ events[q].started = IF wx[q].armed THEN 1 ELSE 0
      BY <2>0, <2>2 DEF EventOk
    <3>4. CASE wx[q].armed
      <4>1. events'[q] = [events[q] EXCEPT !.terminal = @ + 1]
        BY <2>2, <3>4 DEF EndAll
      <4>2. DOMAIN events'[q] = {"started", "terminal"} /\ events'[q].terminal = 1
            /\ events'[q].started = 1
        BY <3>3, <3>4, <4>1
      <4>. QED BY <3>2, <4>2 DEF EventOk, WxEnded
    <3>5. CASE ~wx[q].armed
      <4>1. events'[q] = events[q]
        BY <2>2, <3>5 DEF EndAll
      <4>. QED BY <3>2, <3>3, <3>5, <4>1 DEF EventOk, WxEnded
    <3>. QED BY <3>4, <3>5
  <2>. QED BY <2>1, <2>2
<1>. QED BY <1>0, <1>1 DEF EventInv, EventOk

\* Every step keeps EventInv.
LEMMA StepKeepsEvents == EventInv /\ [WxNext]_weatherVars => EventInv'
<1>. SUFFICES ASSUME EventInv, [WxNext]_weatherVars PROVE EventInv'
  OBVIOUS
<1>1. ASSUME UNCHANGED <<wx, events>> PROVE EventInv'
  BY <1>1 DEF EventInv
<1>2. CASE UNCHANGED weatherVars \/ Tick \/ \E offset \in Offsets : MigrateTimezone(offset)
  BY <1>1, <1>2 DEF weatherVars, Tick, MigrateTimezone
<1>3. ASSUME NEW r \in WxRequests,
             \/ \E refresh, debug \in BOOLEAN : BeginWeather(r, refresh, debug)
             \/ ResolveStation(r) \/ CacheLookup(r) \/ LeadFetch(r) \/ UpstreamAnswers(r)
             \/ Stamp(r) \/ Put(r) \/ MergeParent(r) \/ Fallback(r) \/ DropRequest(r)
      PROVE  EventInv'
  <2>0. DOMAIN wx[r] = WxFields
    BY DEF EventInv
  <2>. DEFINE Busy == {"resolve", "lookup", "wait", "fetch", "stamp", "put", "merge", "fallback"}
  <2>1. \A pc \in Busy : pc \notin WxEnded \union {"idle"}
    BY DEF WxEnded
  <2>2. {"answered", "stale", "failed"} = WxEnded
    BY DEF WxEnded
  <2>3. ASSUME NEW refresh \in BOOLEAN, NEW debug \in BOOLEAN, BeginWeather(r, refresh, debug)
        PROVE  EventInv'
    <3>. DEFINE w == [WxIdle EXCEPT !.pc = "resolve", !.refresh = refresh, !.debug = debug,
                                    !.armed = refresh]
                ev == [events[r] EXCEPT !.started = IF refresh THEN 1 ELSE 0]
    <3>1. wx' = [wx EXCEPT ![r] = w] /\ events' = [events EXCEPT ![r] = ev] /\ wx[r].pc = "idle"
      BY <2>3 DEF BeginWeather, Set
    <3>2. DOMAIN w = WxFields /\ w.pc = "resolve" /\ w.armed = refresh
      BY DEF WxIdle, WxFields
    <3>3. DOMAIN events[r] = {"started", "terminal"} /\ events[r].terminal = 0
      BY <3>1 DEF EventInv
    <3>4. /\ DOMAIN ev = {"started", "terminal"} /\ ev.terminal = 0
          /\ ev.started = IF refresh THEN 1 ELSE 0
      BY <3>3
    <3>. HIDE DEF w, ev
    <3>5. EventOk(w, ev)
      BY <3>2, <3>4 DEF EventOk, WxEnded
    <3>6. /\ DOMAIN wx' = WxRequests /\ DOMAIN events' = WxRequests
          /\ \A q \in WxRequests : EventOk(wx'[q], events'[q])
      BY <3>1, <3>5, EventParts
    <3>. QED BY <3>6 DEF EventInv, EventOk
  <2>4. CASE ResolveStation(r)
    <3>1. wx[r].pc = "resolve"
      BY <2>4 DEF ResolveStation
    <3>2. \/ Goto(r, "wait") /\ UNCHANGED events
          \/ Goto(r, "lookup") /\ UNCHANGED events
          \/ EndAll({r}, "failed")
      BY <2>4 DEF ResolveStation
    <3>. QED BY <2>1, <2>2, <3>1, <3>2, GotoKeepsEvents, EndKeepsEvents
  <2>5. CASE CacheLookup(r)
    <3>1. wx[r].pc = "lookup"
      BY <2>5 DEF CacheLookup
    <3>2. \/ Goto(r, "wait") /\ UNCHANGED events
          \/ EndAll({r}, "answered") \/ EndAll({r}, "failed")
      BY <2>5 DEF CacheLookup
    <3>. QED BY <2>1, <2>2, <3>1, <3>2, GotoKeepsEvents, EndKeepsEvents
  <2>6. CASE LeadFetch(r)
    BY <2>1, <2>6, GotoKeepsEvents DEF LeadFetch
  <2>7. CASE UpstreamAnswers(r)
    BY <2>1, <2>7, GotoKeepsEvents DEF UpstreamAnswers
  <2>8. CASE Stamp(r)
    <3>. DEFINE w == [wx[r] EXCEPT !.pc = "put", !.at = now]
    <3>1. DOMAIN w = WxFields /\ w.pc = "put" /\ w.armed = wx[r].armed
      BY <2>0 DEF WxFields
    <3>2. Set(r, w) /\ wx[r].pc = "stamp" /\ UNCHANGED events
      BY <2>8 DEF Stamp
    <3>. HIDE DEF w
    <3>. QED BY <2>1, <3>1, <3>2, GoingOnKeepsEvents
  <2>9. CASE Put(r)
    BY <2>1, <2>9, GotoKeepsEvents DEF Put
  <2>10. \A q \in Sharing(r) : wx[q].pc \notin WxEnded \union {"idle"}
    BY DEF Sharing, Running, WxEnded
  <2>11. CASE MergeParent(r)
    BY <2>2, <2>10, <2>11, EndKeepsEvents DEF MergeParent
  <2>12. CASE Fallback(r)
    <3>1. EndAll(Sharing(r), "stale") \/ EndAll(Sharing(r), "failed")
      BY <2>12 DEF Fallback
    <3>. QED BY <2>2, <2>10, <3>1, EndKeepsEvents
  <2>13. CASE DropRequest(r)
    BY <2>2, <2>13, EndKeepsEvents DEF DropRequest
  <2>. QED
    BY <1>3, <2>3, <2>4, <2>5, <2>6, <2>7, <2>8, <2>9, <2>11, <2>12, <2>13
<1>. QED BY <1>2, <1>3 DEF WxNext

LEMMA EventsInitially == WxInit => EventInv
BY DEF WxInit, EventInv, WxIdle, WxFields, WxEnded

\* RefreshCompletionGuard: a refresh that was announced is reported once when the
\* request ends, by its own flight, by another's, by an error or by the timeout.
THEOREM RefreshesAreReported == WxSpec => []RefreshReported
<1>1. EventInv => RefreshReported
  BY DEF EventInv, RefreshReported
<1>. QED BY <1>1, EventsInitially, StepKeepsEvents, PTL DEF WxSpec

----------------------------------------------------------------------------
(* WeatherService: the rows of the station.                                *)

\* The dates of the model's times are its days.
LEMMA DivisionIsMonotone ==
    ASSUME NEW a \in Nat, NEW b \in Nat, NEW m \in Nat \ {0}, a <= b
    PROVE  a \div m \in Nat /\ a \div m <= b \div m
OBVIOUS

LEMMA DatesAreDays ==
    ASSUME NEW t \in Times, NEW offset \in Offsets
    PROVE  DateOf(t, offset) \in Days
<1>1. /\ offset \in Nat /\ t \in Nat /\ DayLength \in Nat \ {0} /\ MaxNow \in Nat
      /\ t + offset <= MaxNow + DayLength
  BY WeatherAssumption DEF Times
<1>2. (t + offset) \in Nat /\ (MaxNow + DayLength) \in Nat
  BY <1>1
<1>3. /\ (t + offset) \div DayLength \in Nat
      /\ (t + offset) \div DayLength <= (MaxNow + DayLength) \div DayLength
      /\ (MaxNow + DayLength) \div DayLength \in Nat
  BY <1>1, <1>2, DivisionIsMonotone
<1>. QED BY <1>3 DEF DateOf, Days

LEMMA TimeBounds ==
    /\ Times \subseteq Nat /\ Days \subseteq Nat /\ Never = -1 /\ RowTimes \subseteq Int
    /\ \A t \in RowTimes : t >= -1
    /\ \A t \in RowTimes : t = Never \/ t \in Times
BY WeatherAssumption DEF Times, RowTimes, Never, Days

\* put_history_snapshot keeps the newest row and puts each row under its date.
LEMMA PutKeepsRows ==
    ASSUME RowInv, NEW at \in Times, PutHistory(at),
           newest' = IF at > newest THEN at ELSE newest,
           UNCHANGED tz
    PROVE  /\ rows' \in [Days -> RowTimes] /\ newest' \in RowTimes
           /\ \A d \in Days : rows'[d] <= newest'
           /\ newest' # Never => \E d \in Days : rows'[d] = newest'
           /\ \A d \in Days : rows'[d] # Never => DateOf(rows'[d], tz') = d
<1>. DEFINE day == DateOf(at, tz)
            row == IF at >= rows[day] THEN at ELSE rows[day]
<1>1. day \in Days
  BY DatesAreDays DEF RowInv
<1>2. rows \in [Days -> RowTimes] /\ newest \in RowTimes /\ \A d \in Days : rows[d] <= newest
  BY DEF RowInv
<1>3. newest # Never => \E d \in Days : rows[d] = newest
  BY DEF RowInv
<1>4. \A d \in Days : rows[d] # Never => DateOf(rows[d], tz) = d
  BY DEF RowInv, Dates
<1>5. /\ rows[day] \in Int /\ newest \in Int /\ at \in Int /\ at >= 0
      /\ rows[day] <= newest /\ newest >= -1
  <2>. HIDE DEF day
  <2>1. rows[day] \in Int /\ newest \in Int /\ newest >= -1 /\ rows[day] <= newest
    BY <1>1, <1>2, TimeBounds
  <2>2. at \in Nat
    BY TimeBounds
  <2>. QED BY <2>1, <2>2
<1>6. rows' = [rows EXCEPT ![day] = row]
  BY DEF PutHistory
<1>7. /\ row \in Int /\ row >= at /\ row >= rows[day] /\ row \in {at, rows[day]}
  BY <1>5
<1>8. row \in RowTimes /\ DateOf(row, tz) = day
  <2>1. CASE row = at
    BY <2>1 DEF RowTimes
  <2>2. CASE row = rows[day]
    <3>1. rows[day] # Never
      BY <1>5, <1>7, <2>2 DEF Never
    <3>. QED BY <1>1, <1>2, <1>4, <2>2, <3>1
  <2>. QED BY <1>7, <2>1, <2>2
<1>. HIDE DEF row, day
<1>9. /\ rows' \in [Days -> RowTimes] /\ rows'[day] = row
      /\ \A d \in Days : d # day => rows'[d] = rows[d]
  BY <1>1, <1>2, <1>6, <1>8
<1>10. \A d \in Days : rows'[d] # Never => DateOf(rows'[d], tz') = d
  BY <1>4, <1>8, <1>9
<1>11. CASE at > newest
  <2>1. newest' = at /\ row = at
    BY <1>5, <1>7, <1>11
  <2>2. \A d \in Days : rows'[d] <= newest'
    <3>1. ASSUME NEW d \in Days, d # day PROVE rows[d] <= at
      <4>1. rows[d] \in Int /\ rows[d] <= newest
        BY <1>2, TimeBounds
      <4>. QED BY <1>5, <1>11, <4>1
    <3>. QED BY <1>5, <1>9, <2>1, <3>1
  <2>. QED BY <1>1, <1>9, <1>10, <2>1, <2>2 DEF RowTimes
<1>12. CASE ~(at > newest)
  <2>1. newest' = newest /\ row <= newest
    BY <1>5, <1>7, <1>12
  <2>2. \A d \in Days : rows'[d] <= newest'
    BY <1>2, <1>9, <2>1
  <2>3. PICK d \in Days : rows[d] = newest
    BY <1>3, <1>5, <1>12 DEF Never
  <2>4. rows'[d] = newest
    BY <1>5, <1>7, <1>9, <2>1, <2>3
  <2>. QED BY <1>2, <1>9, <1>10, <2>1, <2>2, <2>4
<1>. QED BY <1>11, <1>12

\* Of the rows that fall on one date migrate_timezone finds one to keep.
LEMMA KeptRow ==
    ASSUME RowInv, NEW moved, moved \subseteq Dates, moved # {}
    PROVE  \E e \in moved : \A f \in moved : rows[f] < rows[e] \/ (rows[f] = rows[e] /\ f <= e)
<1>. DEFINE T == {rows[e] : e \in moved}
<1>0. \A e \in moved : e \in Days /\ rows[e] \in 0..MaxNow
  BY TimeBounds DEF RowInv, Dates, Times
<1>1. T \subseteq 0..MaxNow /\ T # {}
  BY <1>0
<1>2. PICK t \in T : \A u \in T : u <= t
  BY <1>1, GreatestNatural, WeatherAssumption
<1>. DEFINE E == {e \in moved : rows[e] = t}
<1>3. E # {} /\ E \subseteq 0..((MaxNow + DayLength) \div DayLength)
  BY <1>0, <1>2 DEF Days
<1>4. ((MaxNow + DayLength) \div DayLength) \in Nat
  BY WeatherAssumption, DivisionIsMonotone
<1>5. PICK e \in E : \A f \in E : f <= e
  BY <1>3, <1>4, GreatestNatural
<1>6. ASSUME NEW f \in moved PROVE rows[f] < rows[e] \/ (rows[f] = rows[e] /\ f <= e)
  <2>1. rows[f] <= t /\ rows[e] = t /\ rows[f] \in Int /\ t \in Int
    BY <1>0, <1>2
  <2>2. CASE rows[f] = t
    BY <1>5, <2>1, <2>2
  <2>. QED BY <2>1, <2>2
<1>. QED BY <1>6

\* migrate_timezone keeps the newest row and puts each row under its new date.
LEMMA MigrationKeepsRows ==
    ASSUME RowInv, NEW offset \in Offsets, rows' = Remapped(offset), tz' = offset,
           UNCHANGED newest
    PROVE  /\ rows' \in [Days -> RowTimes]
           /\ \A d \in Days : rows'[d] <= newest'
           /\ newest' # Never => \E d \in Days : rows'[d] = newest'
           /\ \A d \in Days : rows'[d] # Never => DateOf(rows'[d], tz') = d
<1>. DEFINE Moved(d) == {e \in Dates : DateOf(rows[e], offset) = d}
            Best(d, e) == \A f \in Moved(d) : \/ rows[f] < rows[e]
                                              \/ rows[f] = rows[e] /\ f <= e
<1>1. /\ rows \in [Days -> RowTimes] /\ newest \in RowTimes
      /\ \A d \in Days : rows[d] <= newest
      /\ newest # Never => \E d \in Days : rows[d] = newest
  BY DEF RowInv
<1>2. ASSUME NEW d \in Days, Moved(d) = {} PROVE rows'[d] = Never
  BY <1>2 DEF Remapped
<1>3. ASSUME NEW d \in Days, Moved(d) # {}
      PROVE  \E e \in Moved(d) : rows'[d] = rows[e] /\ Best(d, e)
  <2>1. \E e \in Moved(d) : Best(d, e)
    BY <1>3, KeptRow
  <2>. DEFINE e == CHOOSE x \in Moved(d) : Best(d, x)
  <2>2. e \in Moved(d) /\ Best(d, e)
    <3>. HIDE DEF Moved, Best
    <3>. QED BY <2>1
  <2>3. rows'[d] = rows[e]
    BY <1>3 DEF Remapped
  <2>. QED BY <2>2, <2>3
<1>. HIDE DEF Best
<1>4. ASSUME NEW d \in Days
      PROVE  /\ rows'[d] \in RowTimes /\ rows'[d] <= newest
             /\ rows'[d] # Never => DateOf(rows'[d], offset) = d
  <2>1. CASE Moved(d) = {}
    BY <1>1, <1>2, <2>1, TimeBounds, WeatherAssumption DEF RowTimes, Never, Times
  <2>2. CASE Moved(d) # {}
    <3>1. PICK e \in Moved(d) : rows'[d] = rows[e]
      BY <1>3, <2>2
    <3>2. e \in Days
      BY <3>1 DEF Dates
    <3>. QED BY <1>1, <3>1, <3>2
  <2>. QED BY <2>1, <2>2
<1>5. DOMAIN rows' = Days
  BY DEF Remapped
<1>6. rows' \in [Days -> RowTimes]
  <2>1. rows' = [d \in Days |-> rows'[d]]
    BY DEF Remapped
  <2>. QED BY <1>4, <2>1
<1>7. ASSUME newest # Never PROVE \E d \in Days : rows'[d] = newest
  <2>1. PICK x \in Days : rows[x] = newest
    BY <1>1, <1>7
  <2>2. x \in Dates /\ rows[x] \in Times
    BY <1>7, <2>1, <1>1, TimeBounds DEF Dates
  <2>. DEFINE d == DateOf(rows[x], offset)
  <2>3. d \in Days /\ x \in Moved(d)
    BY <2>2, DatesAreDays
  <2>4. PICK e \in Moved(d) : rows'[d] = rows[e] /\ Best(d, e)
    BY <1>3, <2>3
  <2>5. rows[e] \in Int /\ rows[e] <= newest /\ newest \in Int
    BY <1>1, <2>4, TimeBounds DEF Dates
  <2>6. rows[x] < rows[e] \/ rows[x] = rows[e]
    BY <2>3, <2>4 DEF Best
  <2>7. rows[e] = newest
    BY <2>1, <2>5, <2>6
  <2>. QED BY <2>3, <2>4, <2>7
<1>. QED BY <1>4, <1>6, <1>7

\* A request's record may change as long as a time about to be written is one.
LEMMA RequestsKeepRows ==
    ASSUME RowInv, UNCHANGED <<now, tz, rows, newest>>,
           \A r \in WxRequests : wx'[r].pc = "put" => wx'[r].at \in Times
    PROVE  RowInv'
BY DEF RowInv, Dates

\* The steps that leave the rows alone keep RowInv.
LEMMA StepKeepsTimes ==
    ASSUME RowInv, EventInv, NEW r \in WxRequests,
           \/ \E refresh, debug \in BOOLEAN : BeginWeather(r, refresh, debug)
           \/ ResolveStation(r) \/ CacheLookup(r) \/ LeadFetch(r) \/ UpstreamAnswers(r)
           \/ Stamp(r) \/ Put(r) \/ MergeParent(r) \/ Fallback(r) \/ DropRequest(r)
    PROVE  \A q \in WxRequests : wx'[q].pc = "put" => wx'[q].at \in Times
<1>0. /\ DOMAIN wx = WxRequests /\ \A q \in WxRequests : DOMAIN wx[q] = WxFields
      /\ \A q \in WxRequests : wx[q].pc = "put" => wx[q].at \in Times
      /\ now \in Times
  BY DEF RowInv, EventInv
<1>1. ASSUME NEW w, Set(r, w), w.pc = "put" => w.at \in Times
      PROVE  \A q \in WxRequests : wx'[q].pc = "put" => wx'[q].at \in Times
  BY <1>0, <1>1 DEF Set
<1>2. ASSUME NEW pc, Goto(r, pc), pc # "put"
      PROVE  \A q \in WxRequests : wx'[q].pc = "put" => wx'[q].at \in Times
  <2>1. Set(r, [wx[r] EXCEPT !.pc = pc]) /\ [wx[r] EXCEPT !.pc = pc].pc = pc
    BY <1>0, <1>2 DEF Goto, WxFields
  <2>. QED BY <1>1, <1>2, <2>1
<1>3. ASSUME NEW S, NEW pc \in WxEnded, EndAll(S, pc)
      PROVE  \A q \in WxRequests : wx'[q].pc = "put" => wx'[q].at \in Times
  <2>1. [WxIdle EXCEPT !.pc = pc].pc = pc /\ pc # "put"
    BY <1>3 DEF WxIdle, WxEnded
  <2>. QED BY <1>0, <1>3, <2>1 DEF EndAll
<1>4. CASE \E refresh, debug \in BOOLEAN : BeginWeather(r, refresh, debug)
  <2>1. PICK refresh, debug \in BOOLEAN : BeginWeather(r, refresh, debug)
    BY <1>4
  <2>. DEFINE w == [WxIdle EXCEPT !.pc = "resolve", !.refresh = refresh, !.debug = debug,
                                  !.armed = refresh]
  <2>2. Set(r, w) /\ w.pc = "resolve"
    BY <2>1 DEF BeginWeather, WxIdle
  <2>. HIDE DEF w
  <2>. QED BY <1>1, <2>2
<1>5. CASE Stamp(r)
  <2>. DEFINE w == [wx[r] EXCEPT !.pc = "put", !.at = now]
  <2>1. Set(r, w) /\ w.at = now
    BY <1>0, <1>5 DEF Stamp, WxFields
  <2>. HIDE DEF w
  <2>. QED BY <1>0, <1>1, <2>1
<1>6. ASSUME \E pc \in {"wait", "lookup", "fetch", "stamp", "fallback", "merge"} : Goto(r, pc)
      PROVE  \A q \in WxRequests : wx'[q].pc = "put" => wx'[q].at \in Times
  BY <1>2, <1>6
<1>7. ASSUME \E S, pc : pc \in WxEnded /\ EndAll(S, pc)
      PROVE  \A q \in WxRequests : wx'[q].pc = "put" => wx'[q].at \in Times
  BY <1>3, <1>7
<1>8. {"answered", "stale", "failed"} = WxEnded
  BY DEF WxEnded
<1>9. CASE ResolveStation(r)
  BY <1>6, <1>7, <1>8, <1>9 DEF ResolveStation
<1>10. CASE CacheLookup(r)
  BY <1>6, <1>7, <1>8, <1>10 DEF CacheLookup
<1>11. CASE LeadFetch(r)
  BY <1>6, <1>11 DEF LeadFetch
<1>12. CASE UpstreamAnswers(r)
  BY <1>6, <1>12 DEF UpstreamAnswers
<1>13. CASE Put(r)
  BY <1>6, <1>13 DEF Put
<1>14. CASE MergeParent(r)
  BY <1>7, <1>8, <1>14 DEF MergeParent
<1>15. CASE Fallback(r)
  BY <1>7, <1>8, <1>15 DEF Fallback
<1>16. CASE DropRequest(r)
  BY <1>7, <1>8, <1>16 DEF DropRequest
<1>. QED
  BY <1>4, <1>5, <1>9, <1>10, <1>11, <1>12, <1>13, <1>14, <1>15, <1>16

\* Every step keeps RowInv.
LEMMA StepKeepsRows == RowInv /\ EventInv /\ [WxNext]_weatherVars => RowInv'
<1>. SUFFICES ASSUME RowInv, EventInv, [WxNext]_weatherVars PROVE RowInv'
  OBVIOUS
<1>1. CASE UNCHANGED weatherVars
  BY <1>1, RequestsKeepRows DEF weatherVars, RowInv
<1>2. CASE Tick
  <2>1. now' \in Times /\ UNCHANGED <<tz, rows, newest, wx>>
    BY <1>2, WeatherAssumption DEF Tick, RowInv, Times
  <2>. QED BY <2>1 DEF RowInv, Dates
<1>3. ASSUME NEW offset \in Offsets, MigrateTimezone(offset) PROVE RowInv'
  <2>1. rows' = Remapped(offset) /\ tz' = offset /\ UNCHANGED <<now, wx, newest>>
    BY <1>3 DEF MigrateTimezone
  <2>2. /\ rows' \in [Days -> RowTimes] /\ \A d \in Days : rows'[d] <= newest'
        /\ newest' # Never => \E d \in Days : rows'[d] = newest'
        /\ \A d \in Days : rows'[d] # Never => DateOf(rows'[d], tz') = d
    BY <2>1, MigrationKeepsRows
  <2>. QED BY <2>1, <2>2 DEF RowInv, Dates
<1>4. ASSUME NEW r \in WxRequests, Put(r) PROVE RowInv'
  <2>1. \A q \in WxRequests : wx'[q].pc = "put" => wx'[q].at \in Times
    BY <1>4, StepKeepsTimes
  <2>2. CASE UNCHANGED <<rows, newest>>
    BY <1>4, <2>1, <2>2, RequestsKeepRows DEF Put
  <2>3. CASE PutHistory(wx[r].at) /\ newest' = IF wx[r].at > newest THEN wx[r].at ELSE newest
    <3>1. wx[r].at \in Times /\ UNCHANGED <<now, tz>>
      BY <1>4 DEF Put, RowInv
    <3>2. /\ rows' \in [Days -> RowTimes] /\ newest' \in RowTimes
          /\ \A d \in Days : rows'[d] <= newest'
          /\ newest' # Never => \E d \in Days : rows'[d] = newest'
          /\ \A d \in Days : rows'[d] # Never => DateOf(rows'[d], tz') = d
      BY <2>3, <3>1, PutKeepsRows
    <3>. QED BY <2>1, <3>1, <3>2 DEF RowInv, Dates
  <2>. QED BY <1>4, <2>2, <2>3 DEF Put
<1>5. ASSUME NEW r \in WxRequests,
             \/ \E refresh, debug \in BOOLEAN : BeginWeather(r, refresh, debug)
             \/ ResolveStation(r) \/ CacheLookup(r) \/ LeadFetch(r) \/ UpstreamAnswers(r)
             \/ Stamp(r) \/ MergeParent(r) \/ Fallback(r) \/ DropRequest(r)
      PROVE  RowInv'
  <2>1. UNCHANGED <<now, tz, rows, newest>>
    BY <1>5 DEF BeginWeather, ResolveStation, CacheLookup, LeadFetch, UpstreamAnswers, Stamp,
                MergeParent, Fallback, DropRequest
  <2>. QED BY <1>5, <2>1, StepKeepsTimes, RequestsKeepRows
<1>. QED BY <1>1, <1>2, <1>3, <1>4, <1>5 DEF WxNext

LEMMA RowsInitially == WxInit => RowInv
<1>. SUFFICES ASSUME WxInit PROVE RowInv
  OBVIOUS
<1>1. 0 \in Times /\ now \in Times /\ tz \in Offsets /\ newest \in {Never, 0}
  BY WeatherAssumption DEF WxInit, Times
<1>2. DateOf(0, 0) = 0 /\ 0 \in Days
  <2>1. DateOf(0, 0) = 0
    BY WeatherAssumption DEF DateOf
  <2>. QED BY <1>1, <2>1, DatesAreDays, WeatherAssumption
<1>3. /\ newest \in RowTimes /\ rows \in [Days -> RowTimes] /\ rows[0] = newest
      /\ \A d \in Days : d # 0 => rows[d] = Never
  BY <1>1, <1>2 DEF WxInit, RowTimes
<1>4. newest >= -1 /\ newest \in Int /\ Never = -1
  BY <1>3, TimeBounds
<1>5. \A d \in Days : rows[d] <= newest
  BY <1>3, <1>4
<1>6. \A d \in Dates : DateOf(rows[d], tz) = d
  BY <1>1, <1>2, <1>3 DEF Dates, WxInit
<1>7. \A r \in WxRequests : wx[r].pc = "put" => wx[r].at \in Times
  BY DEF WxInit, WxIdle
<1>. QED BY <1>1, <1>2, <1>3, <1>5, <1>6, <1>7 DEF RowInv

\* RowInv determines what get_latest_snapshot returns.
LEMMA RowsGiveLatest == RowInv => LatestKept
<1>. SUFFICES ASSUME RowInv PROVE Latest = newest
  BY DEF LatestKept, RowInv
<1>1. /\ rows \in [Days -> RowTimes] /\ newest \in RowTimes
      /\ \A d \in Days : rows[d] <= newest
      /\ newest # Never => \E d \in Days : rows[d] = newest
  BY DEF RowInv
<1>2. CASE newest = Never
  <2>1. \A d \in Days : rows[d] = Never
    BY <1>1, <1>2, TimeBounds
  <2>. QED BY <1>2, <2>1 DEF Latest, Dates
<1>3. CASE newest # Never
  <2>1. PICK x \in Days : rows[x] = newest
    BY <1>1, <1>3
  <2>2. x \in Dates /\ \A e \in Dates : rows[e] <= rows[x]
    BY <1>1, <1>3, <2>1 DEF Dates
  <2>. DEFINE Newest(d) == \A e \in Dates : rows[e] <= rows[d]
              d == CHOOSE y \in Dates : Newest(y)
  <2>3. d \in Dates /\ Newest(d)
    <3>1. Newest(x)
      BY <2>2
    <3>. HIDE DEF Newest
    <3>. QED BY <2>2, <3>1
  <2>4. rows[d] = newest
    <3>1. d \in Days /\ rows[d] \in Int /\ newest \in Int
      BY <1>1, <2>3, TimeBounds DEF Dates
    <3>. HIDE DEF d
    <3>. QED BY <1>1, <2>1, <2>2, <2>3, <3>1
  <2>5. Latest = rows[d]
    BY <2>2 DEF Latest
  <2>. QED BY <2>4, <2>5
<1>. QED BY <1>2, <1>3

\* put_history_snapshot and migrate_timezone: get_latest_snapshot returns the newest
\* snapshot ever stored and every row stands under its local date, in whatever
\* order overlapping fetches write and however often the timezone changes.
THEOREM NewestSnapshotIsKept == WxSpec => []LatestKept
BY RowsInitially, EventsInitially, StepKeepsEvents, StepKeepsRows, RowsGiveLatest, PTL DEF WxSpec

----------------------------------------------------------------------------
(* TemperatureHistory: the pages of the history.                           *)

\* The days of the history are natural numbers.
LEMMA HistoryDaysAreDays ==
    HistoryDays \subseteq 0..LastDay /\ HistoryDays \subseteq Int /\ FirstDay \in Nat /\ LastDay \in Nat /\ LastDay + 1 \in Int
BY HistoryAssumption DEF HistoryDays

\* The first and the last of some days.
LEMMA EndsOfDays ==
    ASSUME NEW T, T \subseteq HistoryDays, T # {}
    PROVE  /\ Max(T) \in T /\ \A d \in T : d <= Max(T)
           /\ Min(T) \in T /\ \A d \in T : Min(T) <= d
           /\ Max(T \union {Blank}) = Max(T)
<1>1. /\ T \subseteq 0..LastDay /\ LastDay \in Nat /\ T \subseteq Nat
  BY HistoryDaysAreDays
<1>2. PICK l \in T : \A d \in T : l <= d
  BY <1>1, LeastNatural
<1>3. PICK g \in T : \A d \in T : d <= g
  BY <1>1, GreatestNatural
<1>4. Min(T) \in T /\ \A d \in T : Min(T) <= d
  BY <1>2 DEF Min
<1>5. Max(T) \in T /\ \A d \in T : Max(T) >= d
  <2>1. \E x \in T : \A d \in T : x >= d
    BY <1>1, <1>3
  <2>. QED BY <2>1 DEF Max
<1>6. Max(T \union {Blank}) = Max(T)
  <2>. DEFINE U == T \union {Blank}
              m == Max(T)
  <2>1. m \in Nat /\ m \in U /\ \A d \in T : d \in Nat /\ m >= d
    BY <1>1, <1>5
  <2>. HIDE DEF m
  <2>2. \A d \in U : m >= d /\ (d >= m => d = m)
    BY <2>1 DEF Blank
  <2>. HIDE DEF U
  <2>3. Max(U) \in U /\ \A d \in U : Max(U) >= d
    BY <2>1, <2>2 DEF Max
  <2>4. Max(U) = m
    BY <2>1, <2>2, <2>3
  <2>. QED BY <2>4 DEF U, m
<1>7. \A d \in T : d <= Max(T)
  BY <1>1, <1>5
<1>. QED BY <1>4, <1>5, <1>6, <1>7

\* get_history_snapshot_page skips no row: what it leaves out is older than all of it,
\* and it leaves nothing out when it says so.
LEMMA PageFacts ==
    ASSUME DOMAIN daily = HistoryDays, NEW before \in Int
    PROVE  LET page == PageOf(before)
           IN  /\ page.dates \subseteq {d \in StoredDates : d < before}
               /\ page.more \in BOOLEAN
               /\ page.more => page.dates # {}
               /\ \A d \in StoredDates :
                     d < before /\ (page.more => Min(page.dates) <= d) => d \in page.dates
<1>. DEFINE found == {d \in StoredDates : d < before}
            newer(d) == {e \in found : e > d}
            dates == {d \in found : Cardinality(newer(d)) < PageSize}
            more == Cardinality(found) > PageSize
<1>1. PageOf(before) = [dates |-> dates, more |-> more]
  BY DEF PageOf
<1>2. /\ found \subseteq HistoryDays /\ found \subseteq 0..LastDay /\ LastDay \in Nat
      /\ PageSize \in Nat \ {0}
  BY HistoryDaysAreDays, HistoryAssumption DEF StoredDates
<1>3. IsFiniteSet(found) /\ Cardinality(found) \in Nat
  <2>1. IsFiniteSet(0..LastDay)
    BY <1>2, FS_Interval
  <2>. QED BY <1>2, <2>1, FS_Subset, FS_CardinalityType
<1>4. /\ \A d \in found : d \in Nat
      /\ \A d \in found : newer(d) \subseteq found /\ d \in found \ newer(d)
  BY <1>2
<1>. HIDE DEF found
<1>5. ASSUME NEW d \in found
      PROVE  IsFiniteSet(newer(d)) /\ Cardinality(newer(d)) \in Nat
             /\ Cardinality(newer(d)) < Cardinality(found)
  <2>1. newer(d) \subseteq found /\ newer(d) # found
    BY <1>4
  <2>2. IsFiniteSet(newer(d)) /\ Cardinality(newer(d)) \in Nat
    BY <1>3, <2>1, FS_Subset, FS_CardinalityType
  <2>3. Cardinality(newer(d)) < Cardinality(found)
    BY <1>3, <2>1, <2>2, FS_Subset
  <2>. QED BY <2>2, <2>3
<1>6. ASSUME NEW d \in found, NEW e \in dates, e <= d
      PROVE  d \in dates
  <2>1. e \in found /\ Cardinality(newer(e)) < PageSize
    BY <1>6
  <2>2. newer(d) \subseteq newer(e)
    BY <1>4, <1>6, <2>1
  <2>3. Cardinality(newer(d)) <= Cardinality(newer(e))
    BY <1>5, <2>1, <2>2, FS_Subset
  <2>. HIDE DEF newer
  <2>4. Cardinality(newer(d)) < PageSize
    BY <1>2, <1>5, <2>1, <2>3
  <2>. QED BY <2>4
<1>7. ASSUME Cardinality(found) > PageSize PROVE dates # {}
  <2>1. found # {}
    BY <1>2, <1>7, FS_EmptySet
  <2>2. PICK g \in found : \A d \in found : d <= g
    BY <1>2, <2>1, GreatestNatural
  <2>3. newer(g) = {}
    BY <1>4, <2>2
  <2>4. Cardinality(newer(g)) = 0
    BY <2>3, FS_EmptySet
  <2>. QED BY <1>2, <2>4
<1>8. ASSUME NEW d \in StoredDates, d < before, Cardinality(found) > PageSize => Min(dates) <= d
      PROVE  d \in dates
  <2>1. d \in found
    BY <1>8 DEF found
  <2>2. CASE Cardinality(found) > PageSize
    <3>1. Min(dates) \in dates
      BY <1>2, <1>7, <2>2, EndsOfDays
    <3>. QED BY <1>6, <1>8, <2>1, <2>2, <3>1
  <2>3. CASE ~(Cardinality(found) > PageSize)
    BY <1>2, <1>3, <1>5, <2>1, <2>3
  <2>. QED BY <2>2, <2>3
<1>9. dates \subseteq {d \in StoredDates : d < before}
  BY DEF found
<1>. HIDE DEF dates
<1>10. more \in BOOLEAN /\ (more => dates # {})
       /\ \A d \in StoredDates : d < before /\ (more => Min(dates) <= d) => d \in dates
  BY <1>7, <1>8
<1>. HIDE DEF more
<1>. DEFINE page == PageOf(before)
<1>11. page.dates = dates /\ page.more = more
  BY <1>1
<1>. HIDE DEF page
<1>12. /\ page.dates \subseteq {d \in StoredDates : d < before}
       /\ page.more \in BOOLEAN
       /\ page.more => page.dates # {}
       /\ \A d \in StoredDates :
             d < before /\ (page.more => Min(page.dates) <= d) => d \in page.dates
  BY <1>9, <1>10, <1>11, Zenon
<1>. QED BY <1>12 DEF page

\* The forecast touches no date before the latest row's.
LEMMA ForecastFacts ==
    ASSUME NEW points, NEW snap, NEW base \in Int
    PROVE  /\ DOMAIN points \subseteq DOMAIN WithForecast(points, snap, base)
           /\ \A x \in Int : x < base /\ x \in DOMAIN WithForecast(points, snap, base) =>
                 x \in DOMAIN points /\ WithForecast(points, snap, base)[x] = points[x]
<1>. DEFINE entries == snap.predict \o snap.chart
            dated == {i \in DOMAIN entries : entries[i].md # Blank /\ Usable(entries[i])}
            of(d) == {i \in dated : RelativeDate(entries[i].md, base) = d}
            ahead == {d \in {RelativeDate(entries[i].md, base) : i \in dated} : d >= base}
            old(d) == IF d \in DOMAIN points THEN points[d] ELSE [max |-> NoTemp, min |-> NoTemp]
            mixed(d) == [max |-> LastKnown([i \in of(d) |-> entries[i].max], old(d).max),
                         min |-> LastKnown([i \in of(d) |-> entries[i].min], old(d).min),
                         forecast |-> TRUE]
<1>1. WithForecast(points, snap, base) =
        [d \in DOMAIN points \union ahead |-> IF d \in ahead THEN mixed(d) ELSE points[d]]
  BY DEF WithForecast
<1>. HIDE DEF entries, dated
<1>2. \A x \in Int : x < base => x \notin ahead
  <2>1. \A x \in ahead : x >= base
    OBVIOUS
  <2>. HIDE DEF ahead
  <2>. QED BY <2>1
<1>. HIDE DEF ahead, mixed
<1>. QED BY <1>1, <1>2

\* build_temperature_history: a point of each usable row, and before the latest row
\* (or without forecast) nothing else.
LEMMA HistoryFacts ==
    ASSUME NEW dates, dates \subseteq HistoryDays, NEW wf \in BOOLEAN
    PROVE  LET points == BuildHistory(dates, wf)
           IN  /\ \A d \in dates : Usable(HistoricalRange(daily[d][1], d)) => d \in DOMAIN points
               /\ \A x \in Int : x \in DOMAIN points /\ (wf => dates = {} \/ x < Max(dates)) =>
                     /\ x \in dates
                     /\ points[x] = Point(HistoricalRange(daily[x][1], x), FALSE)
<1>3. dates # {} => Max(dates) \in Int
  <2>1. SUFFICES ASSUME dates # {} PROVE Max(dates) \in Int
    OBVIOUS
  <2>2. Max(dates) \in HistoryDays
    BY <2>1, EndsOfDays
  <2>. QED BY <2>2, HistoryDaysAreDays
<1>. DEFINE usable == {d \in dates : Usable(HistoricalRange(daily[d][1], d))}
            past == [d \in usable |-> Point(HistoricalRange(daily[d][1], d), FALSE)]
            points == BuildHistory(dates, wf)
<1>1. /\ DOMAIN past = usable
      /\ \A d \in usable : past[d] = Point(HistoricalRange(daily[d][1], d), FALSE)
      /\ usable \subseteq dates
      /\ \A d \in dates : Usable(HistoricalRange(daily[d][1], d)) => d \in usable
  OBVIOUS
<1>2. points = IF wf /\ dates # {} THEN WithForecast(past, daily[Max(dates)][1], Max(dates))
               ELSE past
  BY DEF BuildHistory
<1>. HIDE DEF usable, past, points
<1>4. /\ DOMAIN past \subseteq DOMAIN points
      /\ \A x \in Int : x \in DOMAIN points /\ (wf => dates = {} \/ x < Max(dates)) =>
            x \in DOMAIN past /\ points[x] = past[x]
  <2>1. CASE wf /\ dates # {}
    BY <1>2, <1>3, <2>1, ForecastFacts
  <2>2. CASE ~(wf /\ dates # {})
    BY <1>2, <2>2
  <2>. QED BY <2>1, <2>2
<1>5. \A d \in dates : Usable(HistoricalRange(daily[d][1], d)) => d \in DOMAIN points
  BY <1>1, <1>4
<1>6. \A x \in Int : x \in DOMAIN points /\ (wf => dates = {} \/ x < Max(dates)) =>
         x \in dates /\ points[x] = Point(HistoricalRange(daily[x][1], x), FALSE)
  BY <1>1, <1>4
<1>. QED BY <1>5, <1>6 DEF points

\* The other steps write no row that is wanted.
LEMMA RowsKeepPaging ==
    ASSUME PagingInv, today' \in HistoryDays, today <= today', UNCHANGED reading,
           \/ UNCHANGED daily
           \/ \E row : daily' = [daily EXCEPT ![today] = row]
    PROVE  PagingInv'
<1>1. /\ today \in HistoryDays /\ today \in Int /\ today' \in Int /\ DOMAIN daily = HistoryDays
      /\ HistoryDays \subseteq Int
      /\ \A d \in StoredDates : d <= today
  BY HistoryDaysAreDays DEF PagingInv
<1>2. /\ DOMAIN daily' = HistoryDays
      /\ \A d \in HistoryDays : d # today => daily'[d] = daily[d]
  BY <1>1
<1>3. ASSUME NEW d \in StoredDates' PROVE d <= today'
  <2>1. d \in HistoryDays /\ d \in Int
    BY <1>1 DEF StoredDates
  <2>2. d # today => d \in StoredDates
    BY <1>2, <2>1 DEF StoredDates
  <2>. QED BY <1>1, <2>1, <2>2
<1>4. ASSUME NEW d \in reading.wanted
      PROVE  /\ d \in StoredDates' /\ d < today'
             /\ IF d < reading.before /\ ~reading.done THEN d \notin DOMAIN reading.points
                ELSE PointKept(d)'
  <2>1. /\ d \in StoredDates /\ d < today /\ d \in HistoryDays /\ d \in Int
        /\ IF d < reading.before /\ ~reading.done THEN d \notin DOMAIN reading.points
           ELSE PointKept(d)
    BY <1>1 DEF PagingInv, StoredDates
  <2>2. d # today /\ daily'[d] = daily[d]
    BY <1>1, <1>2, <2>1
  <2>3. d \in StoredDates' /\ d < today'
    BY <1>1, <2>1, <2>2 DEF StoredDates
  <2>4. PointKept(d) => PointKept(d)'
    BY <2>2 DEF PointKept
  <2>. QED BY <2>1, <2>3, <2>4
<1>. QED BY <1>2, <1>3, <1>4 DEF PagingInv

\* The reading before a page is read, whether it is the first or not.
LEMMA BeforeThePage ==
    ASSUME PagingInv, ~reading.done
    PROVE  LET wanted == IF reading.started THEN reading.wanted ELSE StoredDates \ {today}
           IN  /\ \A d \in wanted :
                     /\ d \in StoredDates /\ d < today /\ d \in Int
                     /\ d < reading.before => d \notin DOMAIN reading.points
                     /\ ~(d < reading.before) => reading.started /\ PointKept(d)
               /\ reading.before \in Int /\ reading.base \in Int
<1>1. /\ HistoryDays \subseteq Int /\ StoredDates \subseteq HistoryDays
      /\ today \in HistoryDays /\ \A d \in StoredDates : d <= today
      /\ HistoryDays \subseteq 0..LastDay /\ LastDay \in Nat
  BY HistoryDaysAreDays DEF PagingInv, StoredDates
<1>2. CASE reading.started
  BY <1>1, <1>2 DEF PagingInv
<1>3. CASE ~reading.started
  <2>1. reading.before = LastDay + 1 /\ DOMAIN reading.points = {}
    BY <1>3 DEF PagingInv, Unread
  <2>2. ASSUME NEW d \in StoredDates \ {today}
        PROVE  d \in Int /\ d < today /\ d < reading.before
    BY <1>1, <2>1, <2>2
  <2>. QED BY <1>3, <2>1, <2>2 DEF PagingInv
<1>. QED BY <1>2, <1>3

LEMMA ReadPageKeepsPaging ==
    ASSUME PagingInv, ReadPage
    PROVE  PagingInv'
<1>. DEFINE page == PageOf(reading.before)
            points == BuildHistory(page.dates, ~reading.started)
            wanted == IF reading.started THEN reading.wanted ELSE StoredDates \ {today}
            base == IF reading.started THEN reading.base ELSE Max(page.dates \union {Blank})
            before == IF page.more THEN Min(page.dates) ELSE reading.before
            both == [d \in DOMAIN points \union DOMAIN reading.points |->
                        IF d \in DOMAIN reading.points THEN reading.points[d] ELSE points[d]]
<1>1. /\ ~reading.done
      /\ reading' = [before |-> before, started |-> TRUE, done |-> ~page.more,
                     wanted |-> wanted, base |-> base, points |-> both]
      /\ UNCHANGED <<today, daily>>
  BY DEF ReadPage
<1>2. /\ \A d \in wanted :
            /\ d \in StoredDates /\ d < today /\ d \in Int
            /\ d < reading.before => d \notin DOMAIN reading.points
            /\ ~(d < reading.before) => reading.started /\ PointKept(d)
      /\ reading.before \in Int /\ reading.base \in Int
  BY <1>1, BeforeThePage
<1>3. /\ page.dates \subseteq {d \in StoredDates : d < reading.before}
      /\ page.more \in BOOLEAN
      /\ page.more => page.dates # {}
      /\ \A d \in StoredDates :
            d < reading.before /\ (page.more => Min(page.dates) <= d) => d \in page.dates
  BY <1>2, PageFacts DEF PagingInv
<1>4. page.dates \subseteq HistoryDays /\ HistoryDays \subseteq Int
  BY <1>3, HistoryDaysAreDays DEF StoredDates
<1>5. /\ \A d \in page.dates : Usable(HistoricalRange(daily[d][1], d)) => d \in DOMAIN points
      /\ \A x \in Int :
            x \in DOMAIN points /\ (reading.started \/ page.dates = {} \/ x < Max(page.dates)) =>
               x \in page.dates /\ points[x] = Point(HistoricalRange(daily[x][1], x), FALSE)
  BY <1>4, HistoryFacts
<1>6. page.dates # {} => /\ Min(page.dates) \in page.dates /\ Max(page.dates) \in page.dates
                         /\ Min(page.dates) <= Max(page.dates)
                         /\ Max(page.dates \union {Blank}) = Max(page.dates)
  BY <1>4, EndsOfDays
<1>7. page.dates = {} => Max(page.dates \union {Blank}) = Blank
  <2>1. Max({Blank}) = Blank
    BY DEF Max, Blank
  <2>. QED BY <2>1
<1>9. /\ DOMAIN both = DOMAIN points \union DOMAIN reading.points
      /\ \A d \in DOMAIN both :
            both[d] = IF d \in DOMAIN reading.points THEN reading.points[d] ELSE points[d]
  OBVIOUS
<1>10. base = IF reading.started THEN reading.base
              ELSE IF page.dates = {} THEN Blank ELSE Max(page.dates)
  BY <1>6, <1>7
<1>11. before = IF page.more THEN Min(page.dates) ELSE reading.before
  OBVIOUS
<1>12. reading.started => wanted = reading.wanted
  OBVIOUS
<1>. HIDE DEF page, points, wanted, base, before, both
<1>8. before \in Int /\ base \in Int
  <2>1. page.dates # {} => Min(page.dates) \in Int /\ Max(page.dates) \in Int
    BY <1>4, <1>6
  <2>2. Blank \in Int
    BY DEF Blank
  <2>. QED BY <1>2, <1>3, <1>10, <1>11, <2>1, <2>2
<1>13. /\ reading'.before = before /\ reading'.started = TRUE /\ reading'.wanted = wanted
       /\ reading'.base = base /\ reading'.points = both /\ (reading'.done <=> ~page.more)
  BY <1>1
<1>14. ASSUME NEW d \in wanted, d < reading.before, d \in page.dates
       PROVE  PointKept(d)'
  <2>1. d \notin DOMAIN reading.points /\ d \in Int
    BY <1>2, <1>14
  <2>2. d < base => reading.started \/ page.dates = {} \/ d < Max(page.dates)
    BY <1>10
  <2>3. d \in DOMAIN both <=> d \in DOMAIN points
    BY <1>9, <2>1
  <2>4. d \in DOMAIN both => both[d] = points[d]
    BY <1>9, <2>1
  <2>5. Usable(HistoricalRange(daily[d][1], d)) => d \in DOMAIN both
    BY <1>5, <1>14, <2>3
  <2>6. d < base /\ d \in DOMAIN both =>
            both[d] = Point(HistoricalRange(daily[d][1], d), FALSE)
    <3>1. SUFFICES ASSUME d < base, d \in DOMAIN both
                   PROVE  both[d] = Point(HistoricalRange(daily[d][1], d), FALSE)
      OBVIOUS
    <3>2. /\ d \in DOMAIN points
          /\ reading.started \/ page.dates = {} \/ d < Max(page.dates)
      BY <2>2, <2>3, <3>1
    <3>3. points[d] = Point(HistoricalRange(daily[d][1], d), FALSE)
      BY <1>5, <2>1, <3>2
    <3>. QED BY <2>4, <3>1, <3>3
  <2>. QED BY <1>1, <1>13, <2>5, <2>6 DEF PointKept
<1>15. ASSUME NEW d \in wanted, d < reading.before, d \notin page.dates
       PROVE  page.more /\ d < before /\ d \notin DOMAIN both
  <2>1. page.more /\ ~(Min(page.dates) <= d)
    BY <1>2, <1>3, <1>15
  <2>2. d \in Int /\ Min(page.dates) \in Int /\ Max(page.dates) \in Int /\ page.dates # {}
    BY <1>2, <1>3, <1>4, <1>6, <2>1
  <2>3. d < before /\ d < Max(page.dates)
    BY <1>6, <1>11, <2>1, <2>2
  <2>4. d \notin DOMAIN points
    BY <1>5, <1>15, <2>2, <2>3
  <2>. QED BY <1>2, <1>9, <1>15, <2>1, <2>3, <2>4
<1>16. ASSUME NEW d \in wanted, ~(d < reading.before)
       PROVE  PointKept(d)' /\ ~(d < before)
  <2>1. reading.started /\ PointKept(d) /\ d \in Int /\ base = reading.base
    BY <1>2, <1>10, <1>16
  <2>2. d \notin page.dates
    BY <1>3, <1>16
  <2>3. d \notin DOMAIN points
    BY <1>5, <2>1, <2>2
  <2>4. /\ d \in DOMAIN both <=> d \in DOMAIN reading.points
        /\ d \in DOMAIN both => both[d] = reading.points[d]
    BY <1>9, <2>3
  <2>5. ~(d < before)
    <3>1. CASE page.more
      <4>1. Min(page.dates) < reading.before /\ Min(page.dates) \in Int
        BY <1>3, <1>4, <1>6, <3>1
      <4>. QED BY <1>2, <1>11, <1>16, <2>1, <3>1, <4>1
    <3>2. CASE ~page.more
      BY <1>11, <1>16, <3>2
    <3>. QED BY <3>1, <3>2
  <2>6. PointKept(d)'
    BY <1>1, <1>13, <2>1, <2>4 DEF PointKept
  <2>. QED BY <2>5, <2>6
<1>17. ASSUME NEW d \in wanted
       PROVE  /\ d \in StoredDates' /\ d < today'
              /\ IF d < before /\ page.more THEN d \notin DOMAIN both ELSE PointKept(d)'
  <2>1. d \in StoredDates' /\ d < today'
    BY <1>1, <1>2 DEF StoredDates
  <2>2. CASE ~(d < reading.before)
    BY <1>16, <2>1, <2>2
  <2>3. CASE d < reading.before /\ d \notin page.dates
    BY <1>15, <2>1, <2>3
  <2>4. CASE d < reading.before /\ d \in page.dates
    <3>1. ~(d < before /\ page.more)
      <4>1. SUFFICES ASSUME page.more PROVE ~(d < before)
        OBVIOUS
      <4>2. before = Min(page.dates) /\ Min(page.dates) <= d /\ d \in Int
        BY <1>2, <1>4, <1>11, <2>4, <4>1, EndsOfDays
      <4>. QED BY <1>8, <4>2
    <3>. QED BY <1>14, <2>1, <2>4, <3>1
  <2>. QED BY <2>2, <2>3, <2>4
<1>18. /\ today' \in HistoryDays /\ DOMAIN daily' = HistoryDays
       /\ \A d \in StoredDates' : d <= today'
  BY <1>1 DEF PagingInv, StoredDates
<1>. QED BY <1>8, <1>13, <1>17, <1>18 DEF PagingInv

\* handle_get_temperature_history: however the snapshots of today change while a
\* client pages, whatever the page size and whatever the days hold, no stored date
\* is skipped and no past point is the forecast's.
THEOREM PagesSkipNothing == HistorySpec => []HistoryPaged
<1>1. HistoryInit => PagingInv
  <2>. SUFFICES ASSUME HistoryInit PROVE PagingInv
    OBVIOUS
  <2>1. today \in HistoryDays /\ DOMAIN daily = HistoryDays /\ StoredDates = {}
    BY HistoryAssumption DEF HistoryInit, HistoryDays, StoredDates
  <2>2. /\ reading = Unread /\ Unread.wanted = {} /\ Unread.before = LastDay + 1
        /\ Unread.base = Blank /\ Blank \in Int /\ LastDay + 1 \in Int
    BY HistoryDaysAreDays DEF HistoryInit, Unread, Blank
  <2>. QED BY <2>1, <2>2 DEF PagingInv
<1>2. ASSUME PagingInv, [HistoryNext]_historyVars
      PROVE  PagingInv'
  <2>1. today \in HistoryDays /\ today \in Int /\ today <= today
    BY <1>2, HistoryDaysAreDays DEF PagingInv
  <2>2. CASE ReadPage
    BY <1>2, <2>2, ReadPageKeepsPaging
  <2>3. CASE Midnight
    <3>1. today' \in HistoryDays /\ today <= today'
      BY <2>1, <2>3, HistoryAssumption DEF Midnight, HistoryDays
    <3>. QED BY <1>2, <2>3, <3>1, RowsKeepPaging DEF Midnight
  <2>4. ASSUME NEW f \in Fetches, PutAndAnswer(f)
        PROVE  PagingInv'
    BY <1>2, <2>1, <2>4, RowsKeepPaging DEF PutAndAnswer
  <2>5. CASE UNCHANGED <<today, daily, reading>>
    BY <1>2, <2>1, <2>5, RowsKeepPaging
  <2>6. ASSUME \/ AnswerCached \/ UNCHANGED historyVars
               \/ \E p \in ParentStates : ParentChanges(p)
               \/ \E f \in Fetches, snap \in Reports(today) : FetchAndMerge(f, snap)
        PROVE  UNCHANGED <<today, daily, reading>>
    BY <2>6 DEF AnswerCached, historyVars, ParentChanges, FetchAndMerge
  <2>. QED BY <1>2, <2>2, <2>3, <2>4, <2>5, <2>6 DEF HistoryNext
<1>3. PagingInv => HistoryPaged
  BY DEF PagingInv, HistoryPaged
<1>. QED BY <1>1, <1>2, <1>3, PTL DEF HistorySpec

----------------------------------------------------------------------
(* TemperatureHistory: the rows.                                           *)

\* The first of some places in a sequence.
LEMMA LeastPlace ==
    ASSUME NEW n \in Nat, NEW I, I \subseteq 1..n, I # {}
    PROVE  Min(I) \in I
<1>1. I \subseteq Nat
  OBVIOUS
<1>2. \E x \in I : \A y \in I : x <= y
  BY <1>1, LeastNatural
<1>. QED BY <1>2 DEF Min

\* The place of the day in a table, if it has one.
ForecastPlaces(snap, day) ==
    {i \in 1..Len(snap.predict) : RelativeDate(snap.predict[i].md, day) = day}
ChartPlaces(snap, day) ==
    {i \in 1..Len(snap.chart) : /\ snap.chart[i].md # Blank
                                /\ RelativeDate(snap.chart[i].md, day) = day}

\* current_forecast_index and current_temperature_chart_index by these places.
LEMMA IndexByPlaces ==
    ASSUME NEW snap, NEW day
    PROVE  /\ ForecastIndex(snap, day) =
                 IF ForecastPlaces(snap, day) # {} THEN Min(ForecastPlaces(snap, day)) ELSE 0
           /\ ChartIndex(snap, day) =
                 LET dated == IF ChartPlaces(snap, day) # {} THEN Min(ChartPlaces(snap, day)) ELSE 0
                 IN  IF dated = 0 /\ Len(snap.chart) = 1 /\ snap.chart[1].md = Blank
                     THEN 1 ELSE dated
BY DEF ForecastIndex, ChartIndex, SelectInSeq, ForecastPlaces, ChartPlaces

\* The entry an index names is one of the day.
LEMMA IndexFacts ==
    ASSUME NEW snap \in Snapshot, NEW day
    PROVE  /\ \/ ForecastIndex(snap, day) = 0
              \/ /\ ForecastIndex(snap, day) \in 1..Len(snap.predict)
                 /\ EntryDate(snap.predict[ForecastIndex(snap, day)], day) = day
           /\ \/ ChartIndex(snap, day) = 0
              \/ /\ ChartIndex(snap, day) \in 1..Len(snap.chart)
                 /\ EntryDate(snap.chart[ChartIndex(snap, day)], day) = day
<1>. DEFINE F == ForecastPlaces(snap, day)
            C == ChartPlaces(snap, day)
<1>1. /\ snap.predict \in Seq(Forecast) /\ snap.chart \in Seq(Chart)
      /\ Len(snap.predict) \in Nat /\ Len(snap.chart) \in Nat
      /\ F \subseteq 1..Len(snap.predict) /\ C \subseteq 1..Len(snap.chart)
  BY DEF Snapshot, ForecastPlaces, ChartPlaces
<1>2. /\ \A i \in F : RelativeDate(snap.predict[i].md, day) = day
      /\ \A i \in C : EntryDate(snap.chart[i], day) = day
  BY DEF ForecastPlaces, ChartPlaces, EntryDate
<1>3. F # {} => Min(F) \in F
  BY <1>1, LeastPlace
<1>4. C # {} => Min(C) \in C
  BY <1>1, LeastPlace
<1>5. /\ ForecastIndex(snap, day) = IF F # {} THEN Min(F) ELSE 0
      /\ ChartIndex(snap, day) =
           LET dated == IF C # {} THEN Min(C) ELSE 0
           IN  IF dated = 0 /\ Len(snap.chart) = 1 /\ snap.chart[1].md = Blank THEN 1 ELSE dated
  BY IndexByPlaces
<1>. HIDE DEF F, C
<1>6. \A i \in 1..Len(snap.predict) : snap.predict[i].md # Blank
  <2>1. ASSUME NEW i \in 1..Len(snap.predict) PROVE snap.predict[i].md \in MonthDays
    <3>1. snap.predict[i] \in Forecast
      BY <1>1, ElementIsIn
    <3>. QED BY <3>1 DEF Forecast
  <2>. QED BY <2>1, HistoryAssumption DEF MonthDays, Blank
<1>7. \/ ForecastIndex(snap, day) = 0
      \/ /\ ForecastIndex(snap, day) \in 1..Len(snap.predict)
         /\ EntryDate(snap.predict[ForecastIndex(snap, day)], day) = day
  BY <1>1, <1>2, <1>3, <1>5, <1>6 DEF EntryDate
<1>8. CASE ChartIndex(snap, day) # 0 /\ ~(C # {})
  <2>1. ChartIndex(snap, day) = 1 /\ Len(snap.chart) = 1 /\ snap.chart[1].md = Blank
    BY <1>5, <1>8
  <2>. QED BY <1>7, <2>1 DEF EntryDate
<1>9. CASE ChartIndex(snap, day) # 0 /\ C # {}
  <2>1. Min(C) \in 1..Len(snap.chart)
    BY <1>1, <1>4, <1>9
  <2>2. ChartIndex(snap, day) = Min(C)
    BY <1>5, <1>9, <2>1
  <2>. QED BY <1>2, <1>4, <1>7, <1>9, <2>1, <2>2
<1>. QED BY <1>7, <1>8, <1>9

\* snapshot_daily_high is the temperature of an entry of the day.
LEMMA HighIsAnEntry ==
    ASSUME NEW snap \in Snapshot, NEW day, DailyHigh(snap, day) # NoTemp
    PROVE  \E e \in TableEntries(snap) : EntryDate(e, day) = day /\ e.max = DailyHigh(snap, day)
<1>. DEFINE f == ForecastIndex(snap, day)
            c == ChartIndex(snap, day)
<1>1. /\ f = 0 \/ (f \in 1..Len(snap.predict) /\ EntryDate(snap.predict[f], day) = day)
      /\ c = 0 \/ (c \in 1..Len(snap.chart) /\ EntryDate(snap.chart[c], day) = day)
  BY IndexFacts
<1>2. DailyHigh(snap, day) = First(MaxAt(snap.predict, f), MaxAt(snap.chart, c))
  BY DEF DailyHigh
<1>3. /\ snap.predict \in Seq(Forecast) /\ snap.chart \in Seq(Chart)
      /\ \A i \in 1..Len(snap.predict) : snap.predict[i] \in TableEntries(snap)
      /\ \A i \in 1..Len(snap.chart) : snap.chart[i] \in TableEntries(snap)
  BY DEF Snapshot, TableEntries, ToSet
<1>. HIDE DEF f, c
<1>4. \/ f # 0 /\ DailyHigh(snap, day) = snap.predict[f].max
      \/ c # 0 /\ DailyHigh(snap, day) = snap.chart[c].max
  BY <1>2 DEF First, MaxAt
<1>. QED BY <1>1, <1>3, <1>4

\* Setting the temperature of an entry of a table gives an entry of its kind.
FilledEntry(E, x, t) ==
    LET r == [x EXCEPT !.max = t] IN r \in E /\ r.md = x.md /\ r.max = t

LEMMA RefilledEntries ==
    /\ \A x \in Forecast, t \in Int : FilledEntry(Forecast, x, t)
    /\ \A x \in Chart, t \in Int : FilledEntry(Chart, x, t)
<1>1. ASSUME NEW x \in Forecast, NEW t \in Int PROVE FilledEntry(Forecast, x, t)
  BY DEF FilledEntry, Forecast
<1>2. ASSUME NEW x \in Chart, NEW t \in Int PROVE FilledEntry(Chart, x, t)
  BY DEF FilledEntry, Chart
<1>. QED BY <1>1, <1>2

\* A filled table differs from the snapshot's in at most the one temperature.
LEMMA FilledFacts ==
    ASSUME NEW E, \A x \in E, t \in Int : FilledEntry(E, x, t),
           NEW entries \in Seq(E), NEW i, NEW high \in Int
    PROVE  /\ Filled(entries, i, high) \in Seq(E)
           /\ Len(Filled(entries, i, high)) = Len(entries)
           /\ \A k \in 1..Len(entries) :
                 /\ Filled(entries, i, high)[k].md = entries[k].md
                 /\ Filled(entries, i, high)[k].max =
                       IF k = i /\ entries[k].max = NoTemp THEN high ELSE entries[k].max
<1>. DEFINE new == Filled(entries, i, high)
            n == Len(entries)
<1>1. /\ n \in Nat /\ DOMAIN entries = 1..n /\ \A k \in 1..n : entries[k] \in E
  OBVIOUS
<1>2. new = [k \in 1..n |-> IF k = i /\ entries[k].max = NoTemp
                            THEN [entries[k] EXCEPT !.max = high] ELSE entries[k]]
  BY <1>1 DEF Filled
<1>. HIDE DEF n
<1>3. ASSUME NEW k \in 1..n
      PROVE  /\ new[k] \in E /\ new[k].md = entries[k].md
             /\ new[k].max = IF k = i /\ entries[k].max = NoTemp THEN high ELSE entries[k].max
  <2>1. entries[k] \in E
    BY <1>1
  <2>2. new[k] = IF k = i /\ entries[k].max = NoTemp
                 THEN [entries[k] EXCEPT !.max = high] ELSE entries[k]
    BY <1>2
  <2>. QED BY <2>1, <2>2 DEF FilledEntry
<1>4. /\ DOMAIN new = 1..n /\ new = [k \in 1..n |-> new[k]]
  BY <1>2
<1>. HIDE DEF new
<1>5. new \in Seq(E) /\ Len(new) = n
  <2>1. new \in [1..n -> E]
    BY <1>3, <1>4
  <2>2. new \in Seq(E)
    BY <1>1, <2>1
  <2>3. Len(new) = n
    BY <1>1, <1>4, <2>2
  <2>. QED BY <2>2, <2>3
<1>. QED BY <1>3, <1>5 DEF new, n

\* The entries of the tables are those at their places.
LEMMA EntryTypes ==
    ASSUME NEW snap \in Snapshot
    PROVE  /\ \A i \in 1..Len(snap.predict) : snap.predict[i] \in TableEntries(snap)
           /\ \A i \in 1..Len(snap.chart) : snap.chart[i] \in TableEntries(snap)
           /\ \A e \in TableEntries(snap) :
                 /\ e.max \in Int
                 /\ \/ \E i \in 1..Len(snap.predict) : e = snap.predict[i]
                    \/ \E i \in 1..Len(snap.chart) : e = snap.chart[i]
<1>1. snap.predict \in Seq(Forecast) /\ snap.chart \in Seq(Chart)
  BY DEF Snapshot
<1>2. /\ \A i \in 1..Len(snap.predict) : snap.predict[i] \in Forecast
      /\ \A i \in 1..Len(snap.chart) : snap.chart[i] \in Chart
  BY <1>1, ElementIsIn
<1>3. /\ \A i \in 1..Len(snap.predict) : snap.predict[i].max \in Int
      /\ \A i \in 1..Len(snap.chart) : snap.chart[i].max \in Int
  BY <1>2 DEF Forecast, Chart
<1>4. /\ ToSet(snap.predict) = {snap.predict[i] : i \in 1..Len(snap.predict)}
      /\ ToSet(snap.chart) = {snap.chart[i] : i \in 1..Len(snap.chart)}
  BY <1>1 DEF ToSet
<1>. QED BY <1>3, <1>4 DEF TableEntries

\* snapshot_daily_high is a temperature or NoTemp.
LEMMA HighIsTemperature ==
    ASSUME NEW snap \in Snapshot, NEW day
    PROVE  DailyHigh(snap, day) \in Int
<1>1. NoTemp \in Int
  BY DEF NoTemp
<1>2. CASE DailyHigh(snap, day) # NoTemp
  <2>1. PICK e \in TableEntries(snap) : e.max = DailyHigh(snap, day)
    BY <1>2, HighIsAnEntry
  <2>. QED BY <2>1, EntryTypes
<1>. QED BY <1>1, <1>2

\* merge_cached_daily_high fills in the day's high where it is missing, and changes
\* nothing else.
LEMMA MergeFacts ==
    ASSUME NEW snap \in Snapshot, NEW cached \in Snapshot, NEW day
    PROVE  LET new  == MergeCachedDailyHigh(snap, day, cached, day)
               high == First(DailyHigh(snap, day), DailyHigh(cached, day))
           IN  /\ new \in Snapshot /\ new.alerts = snap.alerts
               /\ \A e \in TableEntries(new) : \E o \in TableEntries(snap) :
                     /\ e.md = o.md
                     /\ \/ e.max = o.max
                        \/ EntryDate(e, day) = day /\ e.max = high /\ o.max = NoTemp
               /\ HasEntry(new, day) /\ high # NoTemp => DailyHigh(new, day) # NoTemp
<1>. DEFINE new == MergeCachedDailyHigh(snap, day, cached, day)
            high == First(DailyHigh(snap, day), DailyHigh(cached, day))
            f == ForecastIndex(snap, day)
            c == ChartIndex(snap, day)
            predict == Filled(snap.predict, f, high)
            chart == Filled(snap.chart, c, high)
<1>1. high \in Int
  BY HighIsTemperature DEF First
<1>2. new = [snap EXCEPT !.predict = predict, !.chart = chart]
  BY DEF MergeCachedDailyHigh
<1>3. snap.predict \in Seq(Forecast) /\ snap.chart \in Seq(Chart)
      /\ Len(snap.predict) \in Nat /\ Len(snap.chart) \in Nat
  BY DEF Snapshot
<1>6. /\ f = 0 \/ (f \in 1..Len(snap.predict) /\ EntryDate(snap.predict[f], day) = day)
      /\ c = 0 \/ (c \in 1..Len(snap.chart) /\ EntryDate(snap.chart[c], day) = day)
  BY IndexFacts
<1>. HIDE DEF high, f, c
<1>4. /\ predict \in Seq(Forecast) /\ Len(predict) = Len(snap.predict)
      /\ \A k \in 1..Len(snap.predict) :
            /\ predict[k].md = snap.predict[k].md
            /\ predict[k].max = IF k = f /\ snap.predict[k].max = NoTemp THEN high
                                ELSE snap.predict[k].max
  <2>1. \A x \in Forecast, t \in Int : FilledEntry(Forecast, x, t)
    BY RefilledEntries
  <2>. QED BY <1>1, <1>3, <2>1, FilledFacts
<1>5. /\ chart \in Seq(Chart) /\ Len(chart) = Len(snap.chart)
      /\ \A k \in 1..Len(snap.chart) :
            /\ chart[k].md = snap.chart[k].md
            /\ chart[k].max = IF k = c /\ snap.chart[k].max = NoTemp THEN high
                              ELSE snap.chart[k].max
  <2>1. \A x \in Chart, t \in Int : FilledEntry(Chart, x, t)
    BY RefilledEntries
  <2>. QED BY <1>1, <1>3, <2>1, FilledFacts
<1>. HIDE DEF new, predict, chart
<1>7. /\ new \in Snapshot /\ new.alerts = snap.alerts
      /\ new.predict = predict /\ new.chart = chart
  BY <1>2, <1>4, <1>5 DEF Snapshot
<1>8. ForecastIndex(new, day) = f /\ ChartIndex(new, day) = c
  <2>1. ForecastPlaces(new, day) = ForecastPlaces(snap, day)
    BY <1>4, <1>7 DEF ForecastPlaces
  <2>2. ChartPlaces(new, day) = ChartPlaces(snap, day)
    BY <1>5, <1>7 DEF ChartPlaces
  <2>3. Len(snap.chart) = 1 => (new.chart[1].md = Blank <=> snap.chart[1].md = Blank)
    BY <1>5, <1>7
  <2>. QED BY <1>5, <1>7, <2>1, <2>2, <2>3, IndexByPlaces DEF f, c
<1>9. ASSUME NEW e \in TableEntries(new)
      PROVE  \E o \in TableEntries(snap) :
                /\ e.md = o.md
                /\ \/ e.max = o.max
                   \/ EntryDate(e, day) = day /\ e.max = high /\ o.max = NoTemp
  <2>1. CASE \E i \in 1..Len(new.predict) : e = new.predict[i]
    <3>1. PICK i \in 1..Len(snap.predict) : e = predict[i]
      BY <1>4, <1>7, <2>1
    <3>2. /\ e.md = snap.predict[i].md /\ snap.predict[i] \in TableEntries(snap)
          /\ EntryDate(e, day) = EntryDate(snap.predict[i], day)
      BY <1>4, <3>1, EntryTypes DEF EntryDate
    <3>3. \/ e.max = snap.predict[i].max
          \/ i = f /\ e.max = high /\ snap.predict[i].max = NoTemp
      BY <1>4, <3>1
    <3>4. i = f => EntryDate(snap.predict[i], day) = day
      BY <1>6
    <3>. QED BY <3>2, <3>3, <3>4
  <2>2. CASE \E i \in 1..Len(new.chart) : e = new.chart[i]
    <3>1. PICK i \in 1..Len(snap.chart) : e = chart[i]
      BY <1>5, <1>7, <2>2
    <3>2. /\ e.md = snap.chart[i].md /\ snap.chart[i] \in TableEntries(snap)
          /\ EntryDate(e, day) = EntryDate(snap.chart[i], day)
      BY <1>5, <3>1, EntryTypes DEF EntryDate
    <3>3. \/ e.max = snap.chart[i].max
          \/ i = c /\ e.max = high /\ snap.chart[i].max = NoTemp
      BY <1>5, <3>1
    <3>4. i = c => EntryDate(snap.chart[i], day) = day
      BY <1>6
    <3>. QED BY <3>2, <3>3, <3>4
  <2>. QED BY <1>7, <2>1, <2>2, EntryTypes
<1>10. ASSUME HasEntry(new, day), high # NoTemp
       PROVE  DailyHigh(new, day) # NoTemp
  <2>1. f # 0 \/ c # 0
    BY <1>8, <1>10 DEF HasEntry
  <2>2. DailyHigh(new, day) = First(MaxAt(predict, f), MaxAt(chart, c))
    BY <1>7, <1>8 DEF DailyHigh
  <2>3. f # 0 => MaxAt(predict, f) # NoTemp
    BY <1>4, <1>6, <1>10 DEF MaxAt
  <2>4. c # 0 => MaxAt(chart, c) # NoTemp
    BY <1>5, <1>6, <1>10 DEF MaxAt
  <2>. QED BY <2>1, <2>2, <2>3, <2>4 DEF First
<1>. QED BY <1>7, <1>9, <1>10 DEF new, high

\* The lists that show no alert twice.
AlertLists ==
    {l \in Seq(Alert) : \A i, j \in DOMAIN l : l[i].alert = l[j].alert => i = j}

\* An inherited alert is added only if it is new.
LEMMA InheritedIsNew ==
    ASSUME NEW kept \in AlertLists, NEW a \in Alert
    PROVE  WithInherited(kept, a) \in AlertLists
<1>. DEFINE b == [a EXCEPT !.inherited = TRUE]
            n == Len(kept)
<1>1. b \in Alert /\ b.alert = a.alert
  BY DEF Alert
<1>2. kept \in Seq(Alert) /\ n \in Nat /\ DOMAIN kept = 1..n
  BY DEF AlertLists
<1>. HIDE DEF b
<1>3. CASE \E i \in DOMAIN kept : kept[i].alert = a.alert
  BY <1>3 DEF WithInherited
<1>4. CASE ~\E i \in DOMAIN kept : kept[i].alert = a.alert
  <2>. DEFINE new == Append(kept, b)
  <2>1. /\ new \in Seq(Alert) /\ DOMAIN new = 1..(n + 1)
        /\ \A i \in 1..n : new[i] = kept[i]
        /\ new[n + 1] = b
    BY <1>1, <1>2
  <2>2. WithInherited(kept, a) = new
    BY <1>4 DEF WithInherited, b
  <2>. HIDE DEF new, n
  <2>3. ASSUME NEW i \in 1..(n + 1), NEW j \in 1..(n + 1), new[i].alert = new[j].alert
        PROVE  i = j
    <3>1. \A k \in 1..n : kept[k].alert # b.alert
      BY <1>1, <1>2, <1>4
    <3>2. CASE i = n + 1 \/ j = n + 1
      BY <1>2, <2>1, <2>3, <3>1, <3>2
    <3>3. CASE i # n + 1 /\ j # n + 1
      <4>1. i \in 1..n /\ j \in 1..n
        BY <1>2, <3>3
      <4>. QED BY <1>2, <2>1, <2>3, <4>1 DEF AlertLists
    <3>. QED BY <3>2, <3>3
  <2>. QED BY <2>1, <2>2, <2>3 DEF AlertLists
<1>. QED BY <1>3, <1>4

\* f is the recursion of MergeParentAlerts over the first n of the parent's alerts.
IsMerge(own, inherited, f, n) ==
    /\ f = [i \in 0..n |-> f[i]]
    /\ f[0] = own
    /\ \A i \in 1..n : f[i] = WithInherited(f[i - 1], inherited[i])

\* It has a solution: by the least length for which it would have none.
LEMMA MergeExists ==
    ASSUME NEW own, NEW inherited, NEW n \in Nat
    PROVE  \E f : IsMerge(own, inherited, f, n)
<1>. DEFINE Bad == {m \in 0..n : ~\E f : IsMerge(own, inherited, f, m)}
<1>1. SUFFICES ASSUME Bad # {} PROVE FALSE
  OBVIOUS
<1>2. PICK m \in Bad : \A k \in Bad : m <= k
  <2>1. Bad \subseteq Nat
    OBVIOUS
  <2>. HIDE DEF Bad
  <2>. QED BY <1>1, <2>1, LeastNatural
<1>3. m # 0
  <2>1. IsMerge(own, inherited, [i \in 0..0 |-> own], 0)
    BY DEF IsMerge
  <2>. QED BY <1>2, <2>1
<1>4. m \in 1..n /\ m - 1 \in 0..n /\ m - 1 < m
  BY <1>2, <1>3
<1>5. PICK f : IsMerge(own, inherited, f, m - 1)
  BY <1>2, <1>4
<1>. DEFINE g == [i \in 0..m |-> IF i = m THEN WithInherited(f[m - 1], inherited[m]) ELSE f[i]]
<1>6. /\ g[0] = own /\ g = [i \in 0..m |-> g[i]]
      /\ \A i \in 1..m : g[i] = WithInherited(g[i - 1], inherited[i])
  <2>1. g[0] = own
    BY <1>4, <1>5 DEF IsMerge
  <2>2. ASSUME NEW i \in 1..m PROVE g[i] = WithInherited(g[i - 1], inherited[i])
    <3>1. CASE i = m
      <4>1. g[i] = WithInherited(f[m - 1], inherited[m]) /\ g[i - 1] = f[m - 1]
        BY <1>4, <3>1
      <4>. QED BY <3>1, <4>1
    <3>2. CASE i # m
      <4>1. i \in 1..(m - 1) /\ g[i] = f[i] /\ g[i - 1] = f[i - 1]
        BY <1>4, <2>2, <3>2
      <4>. QED BY <1>5, <4>1 DEF IsMerge
    <3>. QED BY <3>1, <3>2
  <2>3. g = [i \in 0..m |-> g[i]]
    OBVIOUS
  <2>. QED BY <2>1, <2>2, <2>3
<1>. HIDE DEF g
<1>7. IsMerge(own, inherited, g, m)
  BY <1>6 DEF IsMerge
<1>. QED BY <1>2, <1>7

\* merge_parent_alerts shows no alert twice, if the station has none twice.
LEMMA MergedAlerts ==
    ASSUME NEW own \in AlertLists, NEW inherited \in Seq(Alert)
    PROVE  MergeParentAlerts(own, inherited) \in AlertLists
<1>. DEFINE n == Len(inherited)
            F(f) == [i \in 0..n |->
                       IF i = 0 THEN own ELSE WithInherited(f[i - 1], inherited[i])]
            upTo == CHOOSE f : f = F(f)
<1>1. n \in Nat
  OBVIOUS
<1>2. \E f : f = F(f)
  <2>1. PICK f : IsMerge(own, inherited, f, n)
    BY <1>1, MergeExists
  <2>2. ASSUME NEW i \in 0..n
        PROVE  f[i] = F(f)[i]
    <3>1. CASE i = 0
      BY <2>1, <2>2, <3>1 DEF IsMerge
    <3>2. CASE i # 0
      <4>1. i \in 1..n
        BY <1>1, <2>2, <3>2
      <4>. QED BY <2>1, <2>2, <3>2, <4>1 DEF IsMerge
    <3>. QED BY <3>1, <3>2
  <2>3. f = F(f)
    BY <2>1, <2>2 DEF IsMerge
  <2>. QED BY <2>3
<1>3. upTo = F(upTo)
  BY <1>2
<1>4. MergeParentAlerts(own, inherited) = upTo[n]
  BY DEF MergeParentAlerts
<1>. HIDE DEF upTo
<1>. DEFINE Bad == {i \in 0..n : upTo[i] \notin AlertLists}
<1>5. \A i \in 0..n :
         upTo[i] = IF i = 0 THEN own ELSE WithInherited(upTo[i - 1], inherited[i])
  BY <1>3, Zenon
<1>6. \A i \in 1..n : inherited[i] \in Alert
  BY ElementIsIn
<1>. HIDE DEF n, F
<1>7. Bad = {}
  <2>1. SUFFICES ASSUME Bad # {} PROVE FALSE
    OBVIOUS
  <2>2. PICK m \in Bad : \A k \in Bad : m <= k
    <3>1. Bad \subseteq Nat
      BY <1>1
    <3>. HIDE DEF Bad
    <3>. QED BY <2>1, <3>1, LeastNatural
  <2>3. m # 0
    BY <1>5, <2>2
  <2>4. m \in 1..n /\ m - 1 \in 0..n /\ m - 1 < m
    BY <1>1, <2>2, <2>3
  <2>5. upTo[m - 1] \in AlertLists
    BY <2>2, <2>4
  <2>6. upTo[m] = WithInherited(upTo[m - 1], inherited[m])
    BY <1>5, <2>3, <2>4
  <2>7. upTo[m] \in AlertLists
    BY <1>6, <2>4, <2>5, <2>6, InheritedIsNew
  <2>. QED BY <2>2, <2>7
<1>. QED BY <1>1, <1>4, <1>7

\* What an answer shows, whoever the alerts are from.
LEMMA AnswerShowsEachOnce ==
    ASSUME parent \in ParentStates, NEW snap \in Snapshot, Len(snap.alerts) <= 1
    PROVE  AlertsOf(snap) \in AlertLists
<1>1. snap.alerts \in AlertLists
  <2>1. snap.alerts \in Seq(Alert) /\ DOMAIN snap.alerts \subseteq {1}
    BY DEF Snapshot
  <2>. QED BY <2>1 DEF AlertLists
<1>2. parent.alerts \in Seq(Alert)
  BY HistoryAssumption
<1>3. MergeParentAlerts(snap.alerts, parent.alerts) \in AlertLists
  BY <1>1, <1>2, MergedAlerts
<1>. QED BY <1>1, <1>3 DEF AlertsOf

\* The latest row is of today, or there is none of today.
LEMMA LatestRow ==
    ASSUME SnapshotInv, StoredDates # {}
    PROVE  /\ LatestDate \in StoredDates
           /\ today \in StoredDates => LatestDate = today
<1>1. StoredDates \subseteq 0..LastDay /\ LastDay \in Nat
  BY HistoryDaysAreDays DEF StoredDates
<1>2. \E d \in StoredDates : \A e \in StoredDates : e <= d
  BY <1>1, GreatestNatural
<1>3. LatestDate \in StoredDates /\ \A e \in StoredDates : e <= LatestDate
  BY <1>2 DEF LatestDate
<1>4. \A d \in StoredDates : d <= today /\ d \in Int /\ today \in Int
  BY HistoryDaysAreDays DEF SnapshotInv, StoredDates
<1>5. ASSUME today \in StoredDates PROVE LatestDate = today
  <2>1. today <= LatestDate /\ LatestDate <= today /\ today \in Int /\ LatestDate \in Int
    BY <1>3, <1>4, <1>5
  <2>. QED BY <2>1
<1>. QED BY <1>3, <1>5

\* A snapshot on its way stays genuine while upstream reports more and other
\* fetches write, and the day it is stored on is one with a race if it is not the
\* day it was fetched or another fetch is under way.
LEMMA StaysOnItsWay ==
    ASSUME SnapshotInv, NEW f \in Fetches, fetching[f].pc = "put", fetching'[f] = fetching[f],
           reported \subseteq reported', raced \subseteq raced',
           today' \in today..LastDay, today' # today => today' \in raced',
           \/ today' \in raced'
           \/ /\ owed' = owed
              /\ \A g \in Fetches : fetching'[g].pc = "put" => fetching[g].pc = "put"
    PROVE  OnItsWay(f)'
<1>. DEFINE snap == fetching[f].snap
<1>1. OnItsWay(f) /\ today \in Int
  BY HistoryDaysAreDays DEF SnapshotInv
<1>2. fetching'[f].snap = snap
  OBVIOUS
<1>. HIDE DEF snap
<1>3. /\ snap \in Snapshot /\ Len(snap.alerts) <= 1
      /\ \A a \in ToSet(snap.alerts) : <<Blank, a>> \in reported'
      /\ \A e \in TableEntries(snap) :
            EntryDate(e, today) \notin raced => <<EntryDate(e, today), e.max>> \in reported
      /\ \A e \in TableEntries(snap), t \in today..LastDay :
            e.md # Blank /\ EntryDate(e, t) \notin raced => <<EntryDate(e, t), e.max>> \in reported
      /\ today \notin raced =>
            /\ \A g \in Fetches : fetching[g].pc = "put" => g = f
            /\ today \in owed /\ HasEntry(snap, today) => DailyHigh(snap, today) # NoTemp
  BY <1>1 DEF OnItsWay, Genuine, snap
<1>4. ASSUME NEW e \in TableEntries(snap), EntryDate(e, today') \notin raced'
      PROVE  <<EntryDate(e, today'), e.max>> \in reported'
  <2>1. CASE today' = today
    BY <1>3, <1>4, <2>1
  <2>2. CASE today' # today
    <3>1. e.md # Blank
      BY <1>4, <2>2 DEF EntryDate
    <3>. QED BY <1>3, <1>4, <3>1
  <2>. QED BY <2>1, <2>2
<1>5. Genuine(snap, today)'
  BY <1>2, <1>3, <1>4 DEF Genuine, snap
<1>6. ASSUME NEW e \in TableEntries(snap), NEW t \in today'..LastDay,
             e.md # Blank, EntryDate(e, t) \notin raced'
      PROVE  <<EntryDate(e, t), e.max>> \in reported'
  <2>1. t \in today..LastDay
    BY <1>1
  <2>. QED BY <1>3, <1>6, <2>1
<1>7. ASSUME today' \notin raced'
      PROVE  /\ \A g \in Fetches : fetching'[g].pc = "put" => g = f
             /\ today \in owed' /\ HasEntry(snap, today) => DailyHigh(snap, today) # NoTemp
  BY <1>3, <1>7
<1>8. OnItsWay(f)' <=>
         /\ snap \in Snapshot /\ Len(snap.alerts) <= 1 /\ Genuine(snap, today)'
         /\ \A e \in TableEntries(snap), t \in today'..LastDay :
               e.md # Blank /\ EntryDate(e, t) \notin raced' => <<EntryDate(e, t), e.max>> \in reported'
         /\ today' \notin raced' =>
               /\ \A g \in Fetches : fetching'[g].pc = "put" => g = f
               /\ today' \in owed' /\ HasEntry(snap, today') => DailyHigh(snap, today') # NoTemp
  BY <1>2 DEF OnItsWay, snap
<1>9. today' \notin raced' => today' = today
  OBVIOUS
<1>. QED BY <1>3, <1>5, <1>6, <1>7, <1>8, <1>9

\* The high that merge_cached_daily_high fills in was sent for today, in this answer
\* or in one that is stored.
LEMMA HighWasSent ==
    ASSUME SnapshotInv, NEW snap \in Snapshot, NEW R, reported \subseteq R, today \notin raced,
           today \in StoredDates,
           \A e \in TableEntries(snap) : <<EntryDate(e, today), e.max>> \in R,
           NEW high, high = First(DailyHigh(snap, today), DailyHigh(daily[today][1], today)),
           high # NoTemp
    PROVE  <<today, high>> \in R
<1>. DEFINE cached == daily[today][1]
<1>1. cached \in Snapshot /\ Genuine(cached, today)
  BY DEF SnapshotInv, RowsGenuine
<1>. HIDE DEF cached
<1>2. CASE DailyHigh(snap, today) # NoTemp
  <2>1. high = DailyHigh(snap, today)
    BY <1>2 DEF First
  <2>2. PICK e \in TableEntries(snap) : EntryDate(e, today) = today /\ e.max = high
    BY <1>2, <2>1, HighIsAnEntry
  <2>. QED BY <2>2
<1>3. CASE DailyHigh(snap, today) = NoTemp
  <2>1. high = DailyHigh(cached, today) /\ DailyHigh(cached, today) # NoTemp
    BY <1>3 DEF First, cached
  <2>2. PICK e \in TableEntries(cached) : EntryDate(e, today) = today /\ e.max = high
    BY <1>1, <2>1, HighIsAnEntry
  <2>3. <<EntryDate(e, today), e.max>> \in reported
    BY <1>1, <2>2 DEF Genuine
  <2>. QED BY <2>2, <2>3
<1>. QED BY <1>2, <1>3

\* What the engine makes of an answer: its alerts, and its entries up to today's
\* high, which is there if the row of today has it.
LEMMA MergedWithTheRow ==
    ASSUME SnapshotInv, NEW snap \in Snapshot, NEW R, reported \subseteq R,
           \A e \in TableEntries(snap) : <<EntryDate(e, today), e.max>> \in R
    PROVE  LET new == IF StoredDates = {} THEN snap
                      ELSE MergeCachedDailyHigh(snap, LatestDate, daily[LatestDate][1], today)
           IN  /\ new \in Snapshot /\ new.alerts = snap.alerts
               /\ \A e \in TableEntries(new) : \E o \in TableEntries(snap) :
                     /\ e.md = o.md
                     /\ \/ e.max = o.max
                        \/ EntryDate(e, today) = today /\ (today \notin raced => <<today, e.max>> \in R)
               /\ today \in owed \ raced /\ HasEntry(new, today) => DailyHigh(new, today) # NoTemp
<1>. DEFINE new == IF StoredDates = {} THEN snap
                   ELSE MergeCachedDailyHigh(snap, LatestDate, daily[LatestDate][1], today)
<1>1. CASE today \notin StoredDates
  <2>1. new = snap
    BY <1>1, LatestRow DEF MergeCachedDailyHigh
  <2>2. today \notin owed
    BY <1>1 DEF SnapshotInv
  <2>. HIDE DEF new
  <2>3. \A e \in TableEntries(new) : e \in TableEntries(snap) /\ e.md = e.md /\ e.max = e.max
    BY <2>1
  <2>. QED BY <2>1, <2>2, <2>3 DEF new
<1>2. CASE today \in StoredDates
  <2>. DEFINE cached == daily[today][1]
              high == First(DailyHigh(snap, today), DailyHigh(cached, today))
  <2>1. new = MergeCachedDailyHigh(snap, today, cached, today)
    BY <1>2, LatestRow
  <2>2. cached \in Snapshot /\ (today \in owed \ raced => DailyHigh(cached, today) # NoTemp)
    BY <1>2 DEF SnapshotInv, RowsGenuine
  <2>. HIDE DEF new, cached
  <2>3. /\ new \in Snapshot /\ new.alerts = snap.alerts
        /\ \A e \in TableEntries(new) : \E o \in TableEntries(snap) :
              /\ e.md = o.md
              /\ \/ e.max = o.max
                 \/ EntryDate(e, today) = today /\ e.max = high /\ o.max = NoTemp
        /\ HasEntry(new, today) /\ high # NoTemp => DailyHigh(new, today) # NoTemp
    BY <2>1, <2>2, MergeFacts
  <2>4. high # NoTemp /\ today \notin raced => <<today, high>> \in R
    BY <1>2, HighWasSent DEF cached
  <2>5. today \in owed \ raced => high # NoTemp
    BY <2>2 DEF First
  <2>. HIDE DEF high
  <2>6. ASSUME NEW e \in TableEntries(new)
        PROVE  \E o \in TableEntries(snap) :
                  /\ e.md = o.md
                  /\ \/ e.max = o.max
                     \/ EntryDate(e, today) = today /\ (today \notin raced => <<today, e.max>> \in R)
    <3>1. PICK o \in TableEntries(snap) :
              /\ e.md = o.md
              /\ \/ e.max = o.max
                 \/ EntryDate(e, today) = today /\ e.max = high /\ o.max = NoTemp
      BY <2>3
    <3>2. CASE e.max = o.max
      BY <3>1, <3>2
    <3>3. CASE e.max # o.max
      <4>1. EntryDate(e, today) = today /\ e.max = high /\ high # NoTemp
        BY <3>1, <3>3
      <4>. QED BY <2>4, <3>1, <4>1
    <3>. QED BY <3>2, <3>3
  <2>. QED BY <2>3, <2>5, <2>6 DEF new
<1>. QED BY <1>1, <1>2

\* apply_cached_daily_high: the merged answer may be stored.
LEMMA FetchedIsOnItsWay ==
    ASSUME SnapshotInv, NEW f \in Fetches, NEW snap \in Reports(today), FetchAndMerge(f, snap)
    PROVE  OnItsWay(f)'
<1>. DEFINE new == IF StoredDates = {} THEN snap
                   ELSE MergeCachedDailyHigh(snap, LatestDate, daily[LatestDate][1], today)
<1>1. /\ today \in HistoryDays /\ today \in Int
      /\ snap \in Snapshot /\ Len(snap.alerts) <= 1
      /\ \A e \in TableEntries(snap) : e.md # Blank =>
            \A t \in today..LastDay : RelativeDate(e.md, t) = RelativeDate(e.md, today)
  BY HistoryDaysAreDays, ReportsAssumption DEF SnapshotInv
<1>2. /\ fetching' = [fetching EXCEPT ![f] = [pc |-> "put", snap |-> new]]
      /\ reported \subseteq reported' /\ raced \subseteq raced'
      /\ \A e \in TableEntries(snap) : <<EntryDate(e, today), e.max>> \in reported'
      /\ \A a \in ToSet(snap.alerts) : <<Blank, a>> \in reported'
      /\ today' = today /\ owed' = owed
      /\ today \notin raced' => \A g \in Fetches : fetching[g].pc # "put"
  BY DEF FetchAndMerge
<1>3. /\ new \in Snapshot /\ new.alerts = snap.alerts
      /\ \A e \in TableEntries(new) : \E o \in TableEntries(snap) :
            /\ e.md = o.md
            /\ \/ e.max = o.max
               \/ EntryDate(e, today) = today /\ (today \notin raced => <<today, e.max>> \in reported')
      /\ today \in owed \ raced /\ HasEntry(new, today) => DailyHigh(new, today) # NoTemp
  BY <1>1, <1>2, MergedWithTheRow
<1>. HIDE DEF new
<1>4. fetching'[f] = [pc |-> "put", snap |-> new]
      /\ \A g \in Fetches : g # f => fetching'[g] = fetching[g]
  BY <1>2 DEF SnapshotInv
<1>5. ASSUME NEW e \in TableEntries(new), EntryDate(e, today) \notin raced'
      PROVE  <<EntryDate(e, today), e.max>> \in reported'
  <2>1. PICK o \in TableEntries(snap) :
            /\ e.md = o.md
            /\ \/ e.max = o.max
               \/ EntryDate(e, today) = today /\ (today \notin raced => <<today, e.max>> \in reported')
    BY <1>3
  <2>2. EntryDate(e, today) = EntryDate(o, today)
    BY <2>1 DEF EntryDate
  <2>. QED BY <1>2, <1>5, <2>1, <2>2
<1>6. ASSUME NEW e \in TableEntries(new), NEW t \in today..LastDay,
             e.md # Blank, EntryDate(e, t) \notin raced'
      PROVE  <<EntryDate(e, t), e.max>> \in reported'
  <2>1. PICK o \in TableEntries(snap) : e.md = o.md
    BY <1>3
  <2>2. EntryDate(e, t) = EntryDate(e, today)
    BY <1>1, <1>6, <2>1 DEF EntryDate
  <2>. QED BY <1>5, <1>6, <2>2
<1>7. \A a \in ToSet(new.alerts) : <<Blank, a>> \in reported'
  BY <1>2, <1>3
<1>8. today \notin raced' => \A g \in Fetches : fetching'[g].pc = "put" => g = f
  BY <1>2, <1>4
<1>9. fetching'[f].snap = new
  BY <1>4
<1>10. OnItsWay(f)' <=>
         /\ new \in Snapshot /\ Len(new.alerts) <= 1
         /\ \A e \in TableEntries(new) :
               EntryDate(e, today) \notin raced' => <<EntryDate(e, today), e.max>> \in reported'
         /\ \A a \in ToSet(new.alerts) : <<Blank, a>> \in reported'
         /\ \A e \in TableEntries(new), t \in today..LastDay :
               e.md # Blank /\ EntryDate(e, t) \notin raced' => <<EntryDate(e, t), e.max>> \in reported'
         /\ today \notin raced' =>
               /\ \A g \in Fetches : fetching'[g].pc = "put" => g = f
               /\ today \in owed /\ HasEntry(new, today) => DailyHigh(new, today) # NoTemp
  BY <1>2, <1>9 DEF OnItsWay, Genuine
<1>. QED BY <1>1, <1>2, <1>3, <1>5, <1>6, <1>7, <1>8, <1>10

\* The rows that a step leaves as they are stay genuine.
LEMMA RowsStay ==
    ASSUME SnapshotInv, NEW d \in StoredDates, daily'[d] = daily[d],
           reported \subseteq reported', raced \subseteq raced', d \in owed' => d \in owed
    PROVE  /\ Genuine(daily[d][1], d)'
           /\ (d \in owed \ raced => DailyHigh(daily[d][1], d) # NoTemp)'
<1>. DEFINE row == daily[d][1]
<1>1. /\ \A e \in TableEntries(row) :
            EntryDate(e, d) \notin raced => <<EntryDate(e, d), e.max>> \in reported
      /\ \A a \in ToSet(row.alerts) : <<Blank, a>> \in reported
      /\ d \in owed \ raced => DailyHigh(row, d) # NoTemp
  BY DEF SnapshotInv, RowsGenuine, Genuine
<1>2. daily'[d][1] = row
  OBVIOUS
<1>. HIDE DEF row
<1>3. /\ \A e \in TableEntries(row) :
            EntryDate(e, d) \notin raced' => <<EntryDate(e, d), e.max>> \in reported'
      /\ \A a \in ToSet(row.alerts) : <<Blank, a>> \in reported'
      /\ d \in owed' \ raced' => DailyHigh(row, d) # NoTemp
  BY <1>1
<1>. QED BY <1>2, <1>3 DEF Genuine

\* The steps that write no row.
LEMMA RowsUnwritten ==
    ASSUME SnapshotInv, daily' = daily, owed' = owed, parent' \in ParentStates,
           reported \subseteq reported', raced \subseteq raced',
           today' \in HistoryDays, today <= today', DOMAIN fetching' = Fetches,
           \A f \in Fetches : fetching'[f].pc = "put" => OnItsWay(f)',
           answer'.alerts \in AlertLists \/ answer' = answer
    PROVE  SnapshotInv'
<1>1. StoredDates' = StoredDates /\ StoredDates \subseteq Int /\ today \in Int /\ today' \in Int
  BY HistoryDaysAreDays DEF StoredDates, SnapshotInv
<1>2. ASSUME NEW d \in StoredDates
      PROVE  /\ Genuine(daily[d][1], d)'
             /\ (d \in owed \ raced => DailyHigh(daily[d][1], d) # NoTemp)'
  BY <1>2, RowsStay
<1>3. \A i, j \in DOMAIN answer'.alerts : answer'.alerts[i].alert = answer'.alerts[j].alert => i = j
  BY DEF AlertLists, SnapshotInv, RowsGenuine
<1>4. RowsGenuine'
  BY <1>1, <1>2, <1>3 DEF RowsGenuine
<1>5. \A d \in StoredDates : d <= today'
  BY <1>1 DEF SnapshotInv
<1>. QED BY <1>1, <1>4, <1>5 DEF SnapshotInv

\* The actions keep the invariant.
LEMMA FetchKeepsSnapshots ==
    ASSUME SnapshotInv, NEW f \in Fetches, NEW snap \in Reports(today), FetchAndMerge(f, snap)
    PROVE  SnapshotInv'
<1>1. /\ daily' = daily /\ owed' = owed /\ parent' = parent /\ today' = today /\ answer' = answer
      /\ reported \subseteq reported' /\ raced \subseteq raced'
      /\ DOMAIN fetching' = Fetches
      /\ \A g \in Fetches : g # f => fetching'[g] = fetching[g]
      /\ (\E g \in Fetches : fetching[g].pc = "put") => today \in raced'
  BY DEF FetchAndMerge, SnapshotInv
<1>2. today \in HistoryDays /\ today \in Int /\ today <= today /\ parent \in ParentStates
      /\ today \in today..LastDay
  BY HistoryDaysAreDays DEF SnapshotInv, HistoryDays
<1>3. ASSUME NEW g \in Fetches, fetching'[g].pc = "put"
      PROVE  OnItsWay(g)'
  <2>1. CASE g = f
    BY <2>1, FetchedIsOnItsWay
  <2>2. CASE g # f
    <3>1. fetching'[g] = fetching[g] /\ fetching[g].pc = "put" /\ today' \in raced'
      BY <1>1, <1>3, <2>2
    <3>. QED BY <1>1, <1>2, <3>1, StaysOnItsWay
  <2>. QED BY <2>1, <2>2
<1>. QED BY <1>1, <1>2, <1>3, RowsUnwritten

LEMMA MidnightKeepsSnapshots ==
    ASSUME SnapshotInv, Midnight
    PROVE  SnapshotInv'
<1>1. /\ daily' = daily /\ owed' = owed /\ parent' = parent /\ today' = today + 1 /\ answer' = answer
      /\ reported' = reported /\ raced \subseteq raced' /\ fetching' = fetching
      /\ (\E g \in Fetches : fetching[g].pc = "put") => today' \in raced'
      /\ today < LastDay
  BY DEF Midnight
<1>2. /\ today' \in HistoryDays /\ today <= today' /\ today' \in today..LastDay
      /\ parent \in ParentStates /\ DOMAIN fetching = Fetches
  BY <1>1, HistoryAssumption DEF SnapshotInv, HistoryDays
<1>3. ASSUME NEW g \in Fetches, fetching'[g].pc = "put"
      PROVE  OnItsWay(g)'
  BY <1>1, <1>2, <1>3, StaysOnItsWay
<1>. QED BY <1>1, <1>2, <1>3, RowsUnwritten

LEMMA AnswerKeepsSnapshots ==
    ASSUME SnapshotInv,
           \/ AnswerCached \/ ReadPage \/ UNCHANGED historyVars
           \/ \E p \in ParentStates : ParentChanges(p)
    PROVE  SnapshotInv'
<1>1. UNCHANGED <<today, daily, fetching, reported, raced, owed>>
  BY DEF AnswerCached, ReadPage, historyVars, ParentChanges
<1>2. parent' \in ParentStates
  BY DEF AnswerCached, ReadPage, historyVars, ParentChanges, SnapshotInv
<1>3. answer'.alerts \in AlertLists \/ answer' = answer
  <2>1. CASE AnswerCached
    <3>1. StoredDates # {} /\ answer'.alerts = AlertsOf(daily[LatestDate][1])
      BY <2>1 DEF AnswerCached, Answered
    <3>2. LatestDate \in StoredDates
      BY <3>1, LatestRow
    <3>. QED BY <3>1, <3>2, AnswerShowsEachOnce DEF SnapshotInv
  <2>2. CASE ~AnswerCached
    BY <2>2 DEF ReadPage, historyVars, ParentChanges
  <2>. QED BY <2>1, <2>2
<1>4. today \in HistoryDays /\ today <= today /\ today \in today..LastDay /\ DOMAIN fetching = Fetches
  BY HistoryDaysAreDays DEF SnapshotInv, HistoryDays
<1>5. ASSUME NEW g \in Fetches, fetching'[g].pc = "put"
      PROVE  OnItsWay(g)'
  BY <1>1, <1>4, <1>5, StaysOnItsWay
<1>. QED BY <1>1, <1>2, <1>3, <1>4, <1>5, RowsUnwritten

\* The answer is stored: on a day without a race it is the only one on its way, and
\* an entry of the day has its high.
LEMMA PutKeepsSnapshots ==
    ASSUME SnapshotInv, NEW f \in Fetches, PutAndAnswer(f)
    PROVE  SnapshotInv'
<1>. DEFINE snap == fetching[f].snap
            kept == {d \in owed : d # today \/ HasEntry(snap, today)}
            high == IF DailyHigh(snap, today) # NoTemp THEN {today} ELSE {}
<1>1. /\ fetching[f].pc = "put"
      /\ UNCHANGED <<today, parent, reported, raced>>
      /\ daily' = [daily EXCEPT ![today] = <<snap>>]
      /\ fetching' = [fetching EXCEPT ![f] = NotFetching]
      /\ owed' = kept \union high
      /\ answer'.alerts = AlertsOf(snap)
  BY DEF PutAndAnswer, Answered
<1>2. today \in HistoryDays /\ today \in Int /\ today \in today..LastDay
  BY HistoryDaysAreDays DEF SnapshotInv, HistoryDays
<1>3. OnItsWay(f)
  BY <1>1 DEF SnapshotInv
<1>4. /\ snap \in Snapshot /\ Len(snap.alerts) <= 1 /\ Genuine(snap, today)
      /\ today \notin raced =>
            /\ \A g \in Fetches : fetching[g].pc = "put" => g = f
            /\ today \in owed /\ HasEntry(snap, today) => DailyHigh(snap, today) # NoTemp
  BY <1>3 DEF OnItsWay
<1>5. /\ today \in owed' => (today \in owed /\ HasEntry(snap, today)) \/ DailyHigh(snap, today) # NoTemp
      /\ \A d \in owed' : d \in owed \/ d = today
      /\ \A d \in owed' : d # today => d \in owed
  BY <1>1
<1>6. answer'.alerts \in AlertLists
  BY <1>1, <1>4, AnswerShowsEachOnce DEF SnapshotInv
<1>. HIDE DEF snap, kept, high
<1>7. /\ DOMAIN daily' = HistoryDays /\ daily'[today] = <<snap>> /\ daily'[today][1] = snap
      /\ \A d \in HistoryDays : d # today => daily'[d] = daily[d]
      /\ StoredDates' = StoredDates \union {today}
  BY <1>1, <1>2 DEF SnapshotInv, StoredDates
<1>8. /\ DOMAIN fetching' = Fetches /\ fetching'[f].pc = "idle"
      /\ \A g \in Fetches : g # f => fetching'[g] = fetching[g]
  BY <1>1 DEF SnapshotInv, NotFetching
<1>9. ASSUME NEW g \in Fetches, fetching'[g].pc = "put"
      PROVE  OnItsWay(g)'
  <2>1. g # f /\ fetching'[g] = fetching[g] /\ fetching[g].pc = "put"
    BY <1>8, <1>9
  <2>2. today' \in raced'
    BY <1>1, <1>4, <2>1
  <2>. QED BY <1>1, <1>2, <2>1, <2>2, StaysOnItsWay
<1>10. ASSUME NEW d \in StoredDates'
       PROVE  /\ d <= today /\ daily'[d][1] \in Snapshot /\ Len(daily'[d][1].alerts) <= 1
              /\ Genuine(daily[d][1], d)'
              /\ (d \in owed \ raced => DailyHigh(daily[d][1], d) # NoTemp)'
  <2>1. CASE d = today
    <3>1. Genuine(daily[d][1], d)'
      BY <1>1, <1>4, <1>7, <2>1 DEF Genuine
    <3>2. d \in owed' \ raced' => DailyHigh(snap, today) # NoTemp
      BY <1>1, <1>4, <1>5, <2>1
    <3>. QED BY <1>2, <1>4, <1>7, <2>1, <3>1, <3>2
  <2>2. CASE d # today
    <3>1. d \in StoredDates /\ daily'[d] = daily[d]
      BY <1>7, <2>2 DEF StoredDates
    <3>2. /\ Genuine(daily[d][1], d)'
          /\ (d \in owed \ raced => DailyHigh(daily[d][1], d) # NoTemp)'
      BY <1>1, <1>5, <2>2, <3>1, RowsStay
    <3>. QED BY <3>1, <3>2 DEF SnapshotInv
  <2>. QED BY <2>1, <2>2
<1>11. RowsGenuine'
  BY <1>6, <1>10 DEF RowsGenuine, AlertLists
<1>12. owed' \subseteq StoredDates'
  BY <1>5, <1>7 DEF SnapshotInv
<1>. QED BY <1>1, <1>7, <1>8, <1>9, <1>10, <1>11, <1>12 DEF SnapshotInv

\* apply_cached_daily_high and merge_parent_alerts: for every upstream whose answers
\* are as assumed, any number of fetches and any parent, the rows hold what upstream
\* sent, the day's high stays and an answer shows no alert twice.
THEOREM RowsStayGenuine == HistorySpec => []RowsGenuine
<1>1. HistoryInit => SnapshotInv
  <2>. SUFFICES ASSUME HistoryInit PROVE SnapshotInv
    OBVIOUS
  <2>1. StoredDates = {} /\ owed = {} /\ DOMAIN daily = HistoryDays /\ DOMAIN fetching = Fetches
    BY DEF HistoryInit, StoredDates
  <2>2. today \in HistoryDays /\ parent \in ParentStates
    BY HistoryAssumption DEF HistoryInit, HistoryDays
  <2>3. \A f \in Fetches : fetching[f].pc # "put"
    BY DEF HistoryInit, NotFetching
  <2>4. RowsGenuine
    BY <2>1 DEF HistoryInit, RowsGenuine
  <2>. QED BY <2>1, <2>2, <2>3, <2>4 DEF SnapshotInv
<1>2. ASSUME SnapshotInv, [HistoryNext]_historyVars
      PROVE  SnapshotInv'
  <2>1. ASSUME NEW f \in Fetches, NEW snap \in Reports(today), FetchAndMerge(f, snap)
        PROVE  SnapshotInv'
    BY <1>2, <2>1, FetchKeepsSnapshots
  <2>2. ASSUME NEW f \in Fetches, PutAndAnswer(f)
        PROVE  SnapshotInv'
    BY <1>2, <2>2, PutKeepsSnapshots
  <2>3. CASE Midnight
    BY <1>2, <2>3, MidnightKeepsSnapshots
  <2>4. CASE \/ AnswerCached \/ ReadPage \/ UNCHANGED historyVars
             \/ \E p \in ParentStates : ParentChanges(p)
    BY <1>2, <2>4, AnswerKeepsSnapshots
  <2>. QED BY <1>2, <2>1, <2>2, <2>3, <2>4 DEF HistoryNext
<1>3. SnapshotInv => RowsGenuine
  BY DEF SnapshotInv
<1>. QED BY <1>1, <1>2, <1>3, PTL DEF HistorySpec

----------------------------------------------------------------------------
(* NmcProvider: what counts as missing.                                    *)

\* IsMissing at v, if missing says it of the parts of v.
MissingBy(missing, v) ==
    \/ v.kind = "null"
    \/ v.kind \in {"text", "number"} /\ IsSentinel(v)
    \/ v.kind \in {"object", "array"} /\ \A part \in PartsOf(v) : missing[part]

LEMMA PartsAreValues ==
    ASSUME NEW v \in Values, NEW part \in PartsOf(v)
    PROVE  part \in Values /\ Depth[part] \in 0..MaxDepth /\ Depth[part] < Depth[v]
<1>1. part \in UNION {PartsOf(w) : w \in Values}
  OBVIOUS
<1>2. part \in Values /\ Depth[part] < Depth[v]
  BY <1>1, JsonAssumption
<1>. QED BY <1>2, JsonAssumption

\* The recursion has a solution: the values of depth less than m after m rounds.
LEMMA MissingExists ==
    \E missing \in [Values -> BOOLEAN] : missing = [v \in Values |-> MissingBy(missing, v)]
<1>. DEFINE n == MaxDepth + 1
            T == [Values -> BOOLEAN]
            base == [v \in Values |-> FALSE]
            Round(h) == [v \in Values |-> MissingBy(h, v)]
            step == [pair \in (1..n) \X T |-> Round(pair[2])]
<1>1. n \in Nat /\ n = MaxDepth + 1
  BY JsonAssumption
<1>2. base \in T
  OBVIOUS
<1>3. \A h \in T : Round(h) \in T
  BY DEF MissingBy
<1>4. step \in [(1..n) \X T -> T]
  <2>. HIDE DEF T, Round
  <2>. QED BY <1>3
<1>5. \A i \in 1..n, h \in T : step[<<i, h>>] = Round(h)
  <2>. HIDE DEF T, Round
  <2>. QED OBVIOUS
<1>. HIDE DEF n, base, step
<1>6. PICK g \in [0..n -> T] : Recursion(g, n, base, step)
  <2>. HIDE DEF T
  <2>. QED BY <1>1, <1>2, <1>4, RecursionExists
<1>7. \A i \in 1..n : g[i] = Round(g[i - 1]) /\ g[i - 1] \in T
  <2>1. ASSUME NEW i \in 1..n PROVE g[i] = Round(g[i - 1]) /\ g[i - 1] \in T
    <3>1. i - 1 \in 0..n
      BY <1>1
    <3>2. g[i - 1] \in T
      <4>. HIDE DEF T
      <4>. QED BY <1>6, <3>1
    <3>3. g[i] = step[<<i, g[i - 1]>>]
      BY <1>6 DEF Recursion
    <3>. HIDE DEF T, Round
    <3>. QED BY <1>5, <3>2, <3>3
  <2>. QED BY <2>1
<1>. DEFINE f == [v \in Values |-> g[Depth[v] + 1][v]]
            Settled(m) == \A v \in Values : Depth[v] < m => g[m][v] = f[v]
            S == {m \in 0..n : \A k \in 0..m : Settled(k)}
<1>8. \A i \in 1..n, v \in Values : g[i][v] = MissingBy(g[i - 1], v)
  BY <1>7
<1>9. \A v \in Values : Depth[v] \in 0..MaxDepth /\ Depth[v] + 1 \in 1..n /\ (Depth[v] + 1) - 1 = Depth[v]
  <2>1. ASSUME NEW v \in Values
        PROVE  Depth[v] \in 0..MaxDepth /\ Depth[v] + 1 \in 1..n /\ (Depth[v] + 1) - 1 = Depth[v]
    <3>1. Depth[v] \in 0..MaxDepth /\ MaxDepth \in Nat
      BY JsonAssumption
    <3>2. Depth[v] \in Nat /\ Depth[v] <= MaxDepth
      BY <3>1
    <3>. QED BY <1>1, <3>1, <3>2
  <2>. QED BY <2>1
<1>10. ASSUME NEW m \in 0..n, Settled(m), NEW v \in Values, Depth[v] <= m
       PROVE  MissingBy(g[m], v) <=> MissingBy(f, v)
  <2>1. ASSUME NEW part \in PartsOf(v) PROVE g[m][part] = f[part]
    <3>1. part \in Values /\ Depth[part] \in 0..MaxDepth /\ Depth[part] < Depth[v]
      BY PartsAreValues
    <3>2. Depth[part] < m
      BY <1>1, <1>9, <1>10, <3>1
    <3>. QED BY <1>10, <3>1, <3>2
  <2>. HIDE DEF f
  <2>. QED BY <2>1 DEF MissingBy
<1>11. ASSUME NEW m \in 0..n, Settled(m), NEW v \in Values, Depth[v] = m
       PROVE  f[v] = MissingBy(f, v)
  <2>1. f[v] = g[Depth[v] + 1][v]
    OBVIOUS
  <2>2. g[Depth[v] + 1][v] = MissingBy(g[Depth[v]], v)
    BY <1>8, <1>9
  <2>3. MissingBy(g[m], v) <=> MissingBy(f, v)
    <3>. HIDE DEF f
    <3>. QED BY <1>1, <1>10, <1>11
  <2>. HIDE DEF f
  <2>4. MissingBy(g[Depth[v]], v) = MissingBy(f, v)
    BY <1>11, <2>3 DEF MissingBy
  <2>. QED BY <2>1, <2>2, <2>4
<1>12. \A m \in 0..n : m \in S
  <2>1. 0 \in S
    <3>1. Settled(0)
      BY <1>9
    <3>. QED BY <1>1, <3>1
  <2>2. ASSUME NEW m \in 1..n, m - 1 \in S PROVE m \in S
    <3>1. \A k \in 0..(m - 1) : Settled(k)
      BY <2>2
    <3>2. Settled(m)
      <4>1. SUFFICES ASSUME NEW v \in Values, Depth[v] < m PROVE g[m][v] = f[v]
        BY <1>1
      <4>2. Depth[v] \in 0..(m - 1) /\ m - 1 \in 0..n /\ Depth[v] \in 0..n /\ Depth[v] <= m - 1
        BY <1>1, <1>9, <4>1
      <4>3. Settled(Depth[v]) /\ Settled(m - 1)
        <5>1. m - 1 \in 0..(m - 1)
          BY <1>1
        <5>. HIDE DEF Settled
        <5>. QED BY <3>1, <4>2, <5>1
      <4>. HIDE DEF Settled, f
      <4>4. f[v] = MissingBy(f, v)
        BY <1>11, <4>2, <4>3
      <4>5. MissingBy(g[m - 1], v) <=> MissingBy(f, v)
        BY <1>10, <4>2, <4>3
      <4>6. g[m][v] = MissingBy(g[m - 1], v)
        BY <1>8
      <4>7. MissingBy(g[m - 1], v) = MissingBy(f, v)
        BY <4>5 DEF MissingBy
      <4>. QED BY <4>4, <4>6, <4>7
    <3>3. \A k \in 0..m : k \in 0..(m - 1) \/ k = m
      BY <1>1
    <3>4. \A k \in 0..m : Settled(k)
      <4>. HIDE DEF Settled
      <4>. QED BY <3>1, <3>2, <3>3
    <3>. HIDE DEF Settled
    <3>5. m \in 0..n
      BY <1>1
    <3>. QED BY <3>4, <3>5
  <2>. HIDE DEF S
  <2>. QED BY <1>1, <2>1, <2>2, CountUp
<1>13. \A m \in 0..n : Settled(m)
  <2>1. \A m \in 0..n : m \in 0..m
    BY <1>1
  <2>. HIDE DEF Settled
  <2>. QED BY <1>12, <2>1
<1>14. \A v \in Values : f[v] = MissingBy(f, v)
  <2>1. ASSUME NEW v \in Values PROVE f[v] = MissingBy(f, v)
    <3>1. Depth[v] \in 0..n
      BY <1>1, <1>9
    <3>. HIDE DEF Settled, f
    <3>. QED BY <1>11, <1>13, <3>1
  <2>. HIDE DEF f
  <2>. QED BY <2>1
<1>15. f = [v \in Values |-> f[v]] /\ \A v \in Values : f[v] \in BOOLEAN
  <2>1. ASSUME NEW v \in Values PROVE f[v] \in BOOLEAN
    <3>. HIDE DEF f
    <3>1. f[v] = MissingBy(f, v)
      BY <1>14
    <3>. QED BY <3>1 DEF MissingBy
  <2>2. f = [v \in Values |-> f[v]]
    OBVIOUS
  <2>. HIDE DEF f
  <2>. QED BY <2>1, <2>2
<1>. HIDE DEF f
<1>16. f = [v \in Values |-> MissingBy(f, v)]
  BY <1>14, <1>15
<1>17. f \in [Values -> BOOLEAN]
  BY <1>15
<1>. QED BY <1>16, <1>17

LEMMA MissingIs ==
    \A v \in Values : IsMissing[v] \in BOOLEAN /\ (IsMissing[v] <=> MissingBy(IsMissing, v))
<1>. DEFINE F(f) == [v \in Values |-> MissingBy(f, v)]
            missing == CHOOSE f : f = F(f)
<1>1. \E f : f = F(f)
  BY MissingExists
<1>. HIDE DEF F
<1>2. missing = F(missing)
  BY <1>1
<1>. HIDE DEF missing
<1>3. IsMissing = missing
  BY DEF IsMissing, MissingBy, missing, F
<1>4. \A v \in Values : missing[v] = MissingBy(missing, v)
  BY <1>2 DEF F
<1>. QED BY <1>3, <1>4 DEF MissingBy

----------------------------------------------------------------------------
(* NmcProvider: the fields of an object.                                   *)

\* An optional value, and fields that hold values.
OptOk(opt) == opt = <<>> \/ \E v \in Values : opt = <<v>>
FieldsOk(fields) == \A f \in DOMAIN fields : fields[f] \in Values
\* All of them are missing.
Vacant(fields) == \A f \in DOMAIN fields : IsMissing[fields[f]]

\* An outcome is a value if there is one, and warns when it loses one.
Tells(outcome, held) ==
    (outcome.val # <<>> => held) /\ (held => outcome.val # <<>> \/ outcome.warn # {})

LEMMA GivenIsThere ==
    ASSUME NEW v \in Values, Given(v)
    PROVE  ~IsMissing[v]
BY MissingIs DEF Given, MissingBy, IsSentinel

LEMMA ScalarsGiven ==
    ASSUME NEW v \in Values, v.kind \in {"text", "number"}, ~IsMissing[v]
    PROVE  Given(v)
BY MissingIs DEF Given, MissingBy, IsSentinel

\* A conversion succeeds only on what is given, and it never takes what is given
\* for missing.
LEMMA Conversions ==
    ASSUME NEW v \in Values, NEW type \in {"string", "f64", "u32", "url"}
    PROVE  /\ As(type, v) = "value" => Given(v)
           /\ Given(v) => As(type, v) \in {"value", "invalid"}
<1>1. ~IsMissing[v] /\ v.kind \in {"text", "number"} => Given(v)
  BY ScalarsGiven
<1>2. Given(v) => ~IsMissing[v]
  BY GivenIsThere
<1>3. CASE type = "string"
  <2>1. As(type, v) = StringCandidate(v)
    BY <1>3 DEF As
  <2>. QED BY <1>1, <1>2, <2>1 DEF StringCandidate, Candidate, Given
<1>4. CASE type = "f64"
  <2>1. As(type, v) = F64Candidate(v)
    BY <1>4 DEF As
  <2>. QED BY <1>1, <1>2, <2>1 DEF F64Candidate, Candidate, IsScalar, Given
<1>5. CASE type = "u32"
  <2>1. As(type, v) = U32Candidate(v)
    BY <1>5 DEF As
  <2>. QED BY <1>1, <1>2, <2>1 DEF U32Candidate, Candidate, IsScalar, Given
<1>6. CASE type = "url"
  <2>1. As(type, v) = UrlCandidate(v)
    BY <1>6 DEF As
  <2>. QED BY <1>1, <1>2, <2>1 DEF UrlCandidate, Candidate, IsReference, Given
<1>. QED BY <1>3, <1>4, <1>5, <1>6

LEMMA AliasTells ==
    ASSUME NEW fields, FieldsOk(fields), NEW names, NEW type \in {"string", "f64", "u32", "url"},
           DOMAIN names \subseteq Nat, NEW path
    PROVE  /\ Tells(Alias(fields, names, type, path), Holds(fields, {names[i] : i \in DOMAIN names}))
           /\ Alias(fields, names, type, path).warn \in {{}, {path}}
<1>. DEFINE there == {i \in DOMAIN names : names[i] \in DOMAIN fields}
            usable == {i \in there : As(type, fields[names[i]]) = "value"}
            held == Holds(fields, {names[i] : i \in DOMAIN names})
<1>1. \A i \in there : fields[names[i]] \in Values
  BY DEF FieldsOk
<1>2. held <=> \E i \in there : Given(fields[names[i]])
  BY DEF Holds
<1>3. CASE usable # {}
  <2>1. Alias(fields, names, type, path) = Kept(fields[names[Min(usable)]].is, {})
    BY <1>3 DEF Alias
  <2>2. held
    BY <1>1, <1>2, <1>3, Conversions
  <2>. QED BY <2>1, <2>2 DEF Tells, Kept
<1>4. CASE usable = {} /\ \E i \in there : As(type, fields[names[i]]) = "invalid"
  <2>1. Alias(fields, names, type, path) = Dropped({path})
    BY <1>4 DEF Alias
  <2>. QED BY <2>1 DEF Tells, Dropped
<1>5. CASE usable = {} /\ ~ \E i \in there : As(type, fields[names[i]]) = "invalid"
  <2>1. Alias(fields, names, type, path) = Dropped({})
    BY <1>5 DEF Alias
  <2>2. ~held
    BY <1>1, <1>2, <1>5, Conversions
  <2>. QED BY <2>1, <2>2 DEF Tells, Dropped
<1>. QED BY <1>3, <1>4, <1>5

LEMMA OneName ==
    ASSUME NEW fields, FieldsOk(fields), NEW a, NEW type \in {"string", "f64", "u32", "url"}, NEW path
    PROVE  /\ Tells(Fixed(fields, a, type, path), Holds(fields, {a}))
           /\ Fixed(fields, a, type, path).warn \in {{}, {path}}
<1>. DEFINE names == <<a>>
<1>1. DOMAIN names \subseteq Nat /\ {names[i] : i \in DOMAIN names} = {a}
  OBVIOUS
<1>2. Fixed(fields, a, type, path) = Alias(fields, names, type, path)
  BY DEF Fixed
<1>. HIDE DEF names
<1>3. /\ Tells(Alias(fields, names, type, path), Holds(fields, {names[i] : i \in DOMAIN names}))
      /\ Alias(fields, names, type, path).warn \in {{}, {path}}
  BY <1>1, AliasTells
<1>. QED BY <1>1, <1>2, <1>3

LEMMA TwoNames ==
    ASSUME NEW fields, FieldsOk(fields), NEW a, NEW b,
           NEW type \in {"string", "f64", "u32", "url"}, NEW path
    PROVE  /\ Tells(Alias(fields, <<a, b>>, type, path), Holds(fields, {a, b}))
           /\ Alias(fields, <<a, b>>, type, path).warn \in {{}, {path}}
<1>. DEFINE names == <<a, b>>
<1>1. DOMAIN names \subseteq Nat /\ {names[i] : i \in DOMAIN names} = {a, b}
  OBVIOUS
<1>. HIDE DEF names
<1>2. /\ Tells(Alias(fields, names, type, path), Holds(fields, {names[i] : i \in DOMAIN names}))
      /\ Alias(fields, names, type, path).warn \in {{}, {path}}
  BY <1>1, AliasTells
<1>3. /\ Tells(Alias(fields, names, type, path), Holds(fields, {a, b}))
      /\ Alias(fields, names, type, path).warn \in {{}, {path}}
  BY <1>1, <1>2
<1>. QED BY <1>3 DEF names

\* A text is always usable as a string.
LEMMA StringsAreKept ==
    ASSUME NEW fields, FieldsOk(fields), NEW a, NEW path, Holds(fields, {a})
    PROVE  Fixed(fields, a, "string", path).val # <<>>
<1>1. a \in DOMAIN fields /\ Given(fields[a]) /\ fields[a] \in Values
  BY DEF Holds, FieldsOk
<1>2. As("string", fields[a]) = "value"
  BY <1>1, GivenIsThere DEF As, StringCandidate, Candidate, Given
<1>. DEFINE names == <<a>>
            there == {i \in DOMAIN names : names[i] \in DOMAIN fields}
            usable == {i \in there : As("string", fields[names[i]]) = "value"}
<1>3. 1 \in usable
  BY <1>1, <1>2
<1>4. Alias(fields, names, "string", path) = Kept(fields[names[Min(usable)]].is, {})
  BY <1>3 DEF Alias
<1>. QED BY <1>4 DEF Fixed, Kept

LEMMA VacantHoldsNothing ==
    ASSUME NEW fields, FieldsOk(fields), Vacant(fields), NEW names
    PROVE  ~Holds(fields, names)
BY GivenIsThere DEF FieldsOk, Vacant, Holds

LEMMA FieldIsOk ==
    ASSUME NEW fields, FieldsOk(fields), NEW name
    PROVE  OptOk(Get(fields, name))
BY DEF FieldsOk, OptOk, Get

\* What an optional value has for fields.
LEMMA ObjectFields ==
    ASSUME NEW opt, OptOk(opt)
    PROVE  /\ FieldsOk(ObjectAt(opt))
           /\ opt # <<>> /\ IsMissing[opt[1]] => Vacant(ObjectAt(opt))
           /\ opt = <<>> => Vacant(ObjectAt(opt))
           /\ opt # <<>> /\ opt[1].kind # "object" => Vacant(ObjectAt(opt))
<1>1. CASE opt = <<>>
  BY <1>1 DEF ObjectAt, NoFields, FieldsOk, Vacant
<1>2. ASSUME NEW v \in Values, opt = <<v>>
      PROVE  /\ FieldsOk(ObjectAt(opt))
             /\ IsMissing[v] => Vacant(ObjectAt(opt))
             /\ v.kind # "object" => Vacant(ObjectAt(opt))
  <2>1. CASE v.kind = "object"
    <3>1. ObjectAt(opt) = v.fields
      BY <1>2, <2>1 DEF ObjectAt
    <3>2. \A f \in DOMAIN v.fields : v.fields[f] \in PartsOf(v)
      BY <2>1 DEF PartsOf
    <3>3. FieldsOk(v.fields)
      BY <3>2, PartsAreValues DEF FieldsOk
    <3>4. IsMissing[v] => Vacant(v.fields)
      BY <2>1, <3>2, MissingIs DEF MissingBy, Vacant
    <3>. QED BY <2>1, <3>1, <3>3, <3>4
  <2>2. CASE v.kind # "object"
    BY <1>2, <2>2 DEF ObjectAt, NoFields, FieldsOk, Vacant
  <2>. QED BY <2>1, <2>2
<1>3. opt = <<>> \/ opt # <<>>
  OBVIOUS
<1>4. CASE opt # <<>>
  <2>1. PICK v \in Values : opt = <<v>>
    BY <1>4 DEF OptOk
  <2>2. opt[1] = v
    BY <2>1
  <2>. QED BY <1>2, <1>4, <2>1, <2>2
<1>. QED BY <1>1, <1>4

\* The fields of a section: those of the object, unless they are all missing.
LEMMA SectionFields ==
    ASSUME NEW opt, OptOk(opt), NEW path
    PROVE  /\ FieldsOk(FieldsOf(SectionObject(opt, path)))
           /\ \/ /\ SectionObject(opt, path) = Kept(ObjectAt(opt), {})
                 /\ FieldsOf(SectionObject(opt, path)) = ObjectAt(opt)
              \/ /\ SectionObject(opt, path).val = <<>>
                 /\ FieldsOf(SectionObject(opt, path)) = NoFields
                 /\ Vacant(ObjectAt(opt))
<1>1. FieldsOk(ObjectAt(opt)) /\ FieldsOk(NoFields)
  BY ObjectFields DEF FieldsOk, NoFields
<1>2. CASE opt = <<>> \/ IsMissing[opt[1]] \/ opt[1].kind # "object"
  <2>1. Vacant(ObjectAt(opt))
    BY <1>2, ObjectFields
  <2>2. SectionObject(opt, path).val = <<>>
    BY <1>2 DEF SectionObject, Dropped
  <2>. QED BY <1>1, <2>1, <2>2 DEF FieldsOf
<1>3. CASE opt # <<>> /\ ~IsMissing[opt[1]] /\ opt[1].kind = "object"
  <2>1. SectionObject(opt, path) = Kept(ObjectAt(opt), {})
    BY <1>3 DEF SectionObject, ObjectAt
  <2>2. SectionObject(opt, path).val = <<ObjectAt(opt)>>
    BY <2>1 DEF Kept
  <2>3. FieldsOf(SectionObject(opt, path)) = ObjectAt(opt)
    BY <2>2 DEF FieldsOf
  <2>. QED BY <1>1, <2>1, <2>3
<1>. QED BY <1>2, <1>3

\* Where all fields are missing, so are those below them.
LEMMA VacantBelow ==
    ASSUME NEW fields, FieldsOk(fields), Vacant(fields), NEW name
    PROVE  Vacant(Under(fields, name))
<1>1. OptOk(Get(fields, name))
  BY FieldIsOk
<1>2. Get(fields, name) = <<>> \/ (Get(fields, name) # <<>> /\ IsMissing[Get(fields, name)[1]])
  BY DEF Get, Vacant
<1>3. Vacant(ObjectAt(Get(fields, name)))
  BY <1>1, <1>2, ObjectFields
<1>. QED BY <1>3 DEF Under

\* Fields below a section, by way of the section or of the document itself.
LEMMA FieldsBelow ==
    ASSUME NEW opt, OptOk(opt), NEW path, NEW name
    PROVE  LET fields == FieldsOf(SectionObject(opt, path))
           IN /\ OptOk(Get(fields, name)) /\ FieldsOk(Under(ObjectAt(opt), name))
              /\ \/ ObjectAt(Get(fields, name)) = Under(ObjectAt(opt), name)
                 \/ /\ SectionObject(opt, path).val = <<>>
                    /\ Vacant(Under(ObjectAt(opt), name))
<1>. DEFINE section == SectionObject(opt, path)
            fields == FieldsOf(section)
<1>1. FieldsOk(fields) /\ FieldsOk(ObjectAt(opt))
  BY SectionFields, ObjectFields
<1>2. OptOk(Get(fields, name)) /\ OptOk(Get(ObjectAt(opt), name))
  <2>. HIDE DEF fields
  <2>. QED BY <1>1, FieldIsOk
<1>3. FieldsOk(Under(ObjectAt(opt), name))
  BY <1>2, ObjectFields DEF Under
<1>4. CASE fields = ObjectAt(opt)
  BY <1>2, <1>3, <1>4 DEF Under
<1>5. CASE section.val = <<>> /\ Vacant(ObjectAt(opt))
  BY <1>1, <1>2, <1>3, <1>5, VacantBelow
<1>. QED BY <1>4, <1>5, SectionFields

----------------------------------------------------------------------------
(* NmcProvider: lists.                                                     *)

LEMMA ListedValues ==
    ASSUME NEW opt, OptOk(opt)
    PROVE  Listed(opt) \in Seq(Values)
<1>1. CASE opt = <<>>
  BY <1>1 DEF Listed
<1>2. ASSUME NEW v \in Values, opt = <<v>> PROVE Listed(opt) \in Seq(Values)
  <2>1. CASE v.kind = "array"
    <3>1. Listed(opt) = v.items
      BY <1>2, <2>1 DEF Listed
    <3>2. v.items \in Seq(PartsOf(v))
      BY <2>1, JsonAssumption
    <3>3. PartsOf(v) \subseteq Values
      BY PartsAreValues
    <3>. HIDE DEF PartsOf
    <3>. QED BY <3>1, <3>2, <3>3
  <2>2. CASE v.kind = "object"
    BY <1>2, <2>2 DEF Listed
  <2>3. CASE v.kind \notin {"array", "object"}
    BY <1>2, <2>3 DEF Listed
  <2>. QED BY <2>1, <2>2, <2>3
<1>. QED BY <1>1, <1>2 DEF OptOk

LEMMA MissingListsNothing ==
    ASSUME NEW v \in Values, IsMissing[v], NEW opt, opt = <<v>>
    PROVE  ToSet(Listed(opt)) \cap Present = {}
<1>1. CASE v.kind = "array"
  <2>1. \A w \in PartsOf(v) : w \notin Present
    BY <1>1, MissingIs DEF MissingBy, Present
  <2>2. Listed(opt) = v.items
    BY <1>1 DEF Listed
  <2>3. ToSet(Listed(opt)) = PartsOf(v)
    BY <1>1, <2>2 DEF PartsOf
  <2>. QED BY <2>1, <2>3
<1>2. CASE v.kind = "object"
  <2>1. Listed(opt) = <<v>>
    BY <1>2 DEF Listed
  <2>2. ToSet(<<v>>) = {v}
    BY DEF ToSet
  <2>. QED BY <2>1, <2>2 DEF Present
<1>3. CASE v.kind \notin {"array", "object"}
  <2>1. Listed(opt) = << >>
    BY <1>3 DEF Listed
  <2>. QED BY <2>1, EmptySet
<1>. QED BY <1>1, <1>2, <1>3

\* What a list is read as: what is there of what it lists.
LEMMA SequenceReads ==
    ASSUME NEW opt, OptOk(opt), NEW path
    PROVE  Sequence(opt, path).val = <<Only(Listed(opt), Present)>>
<1>0. Listed(opt) \in Seq(Values)
  BY ListedValues
<1>1. CASE opt = <<>>
  <2>1. Only(<< >>, Present) = << >>
    BY OnlyEmpty
  <2>. QED BY <1>1, <2>1 DEF Sequence, Kept, Listed
<1>2. ASSUME NEW v \in Values, opt = <<v>>
      PROVE  Sequence(opt, path).val = <<Only(Listed(opt), Present)>>
  <2>1. Sequence(opt, path) = Items(v, path)
    BY <1>2 DEF Sequence
  <2>2. v.kind = "array" => Listed(opt) = v.items
    BY <1>2 DEF Listed
  <2>3. v.kind = "object" => Listed(opt) = <<v>>
    BY <1>2 DEF Listed
  <2>4. v.kind \notin {"array", "object"} => Listed(opt) = << >>
    BY <1>2 DEF Listed
  <2>5. CASE IsMissing[v]
    <3>1. ToSet(Listed(opt)) \cap Present = {}
      BY <1>2, <2>5, MissingListsNothing
    <3>2. Only(Listed(opt), Present) = << >>
      BY <1>0, <3>1, OnlyNone
    <3>. QED BY <2>1, <2>5, <3>2 DEF Items, Kept
  <2>6. CASE ~IsMissing[v] /\ v.kind = "array"
    <3>1. Items(v, path) = Kept(Only(v.items, Present), {})
      BY <2>6 DEF Items
    <3>. QED BY <2>1, <2>2, <2>6, <3>1 DEF Kept
  <2>7. CASE ~IsMissing[v] /\ v.kind = "object"
    <3>1. Items(v, path) = Kept(<<v>>, {})
      BY <2>7 DEF Items
    <3>2. ToSet(<<v>>) \subseteq Present /\ <<v>> \in Seq(Values)
      BY <2>7 DEF ToSet, Present
    <3>3. Only(<<v>>, Present) = <<v>>
      BY <3>2, OnlyAll
    <3>. QED BY <2>1, <2>3, <2>7, <3>1, <3>3 DEF Kept
  <2>8. CASE ~IsMissing[v] /\ v.kind \notin {"array", "object"}
    <3>1. Items(v, path) = Kept(<< >>, {path})
      BY <2>8 DEF Items
    <3>2. Only(<< >>, Present) = << >>
      BY OnlyEmpty
    <3>. QED BY <2>1, <2>4, <2>8, <3>1, <3>2 DEF Kept
  <2>. QED BY <2>5, <2>6, <2>7, <2>8
<1>. QED BY <1>1, <1>2 DEF OptOk

\* An entry that holds something is there.
LEMMA HoldingIsPresent ==
    ASSUME NEW v \in Values, NEW names, Holds(ObjectAt(<<v>>), names)
    PROVE  v \in Present
<1>. DEFINE opt == <<v>>
<1>1. OptOk(opt) /\ opt # <<>> /\ opt[1] = v
  BY DEF OptOk
<1>. HIDE DEF opt
<1>2. FieldsOk(ObjectAt(opt)) /\ (IsMissing[v] => Vacant(ObjectAt(opt)))
  BY <1>1, ObjectFields
<1>3. ~Vacant(ObjectAt(opt))
  BY <1>2, VacantHoldsNothing DEF opt
<1>. QED BY <1>2, <1>3 DEF Present

LEMMA VacantHoldsNoEntry ==
    ASSUME NEW fields, FieldsOk(fields), Vacant(fields), NEW name, NEW names
    PROVE  Holding(Get(fields, name), names) = 0
<1>. DEFINE opt == Get(fields, name)
            q == Listed(opt)
<1>1. CASE name \notin DOMAIN fields
  <2>1. q = << >>
    BY <1>1 DEF Get, Listed
  <2>2. {i \in DOMAIN q : Holds(ObjectAt(<<q[i]>>), names)} = {}
    BY <2>1
  <2>. QED BY <2>2, FS_EmptySet DEF Holding
<1>2. CASE name \in DOMAIN fields
  <2>1. opt = <<fields[name]>> /\ fields[name] \in Values /\ IsMissing[fields[name]]
    BY <1>2 DEF Get, FieldsOk, Vacant
  <2>. HIDE DEF opt
  <2>2. ToSet(q) \cap Present = {}
    BY <2>1, MissingListsNothing
  <2>3. OptOk(opt)
    BY <2>1 DEF OptOk
  <2>4. q \in Seq(Values)
    BY <2>3, ListedValues
  <2>. HIDE DEF q
  <2>5. \A i \in DOMAIN q : q[i] \in Values /\ q[i] \in ToSet(q)
    BY <2>4 DEF ToSet
  <2>6. {i \in DOMAIN q : Holds(ObjectAt(<<q[i]>>), names)} = {}
    BY <2>2, <2>5, HoldingIsPresent
  <2>. QED BY <2>6, FS_EmptySet DEF Holding, q, opt
<1>. QED BY <1>1, <1>2

\* As many entries as hold something, unless there is a warning.
LEMMA EntriesCount ==
    ASSUME NEW opt, OptOk(opt), NEW path, NEW names, NEW mapped,
           DOMAIN mapped = ToSet(Sequence(opt, path).val[1]),
           \A v \in DOMAIN mapped : Tells(mapped[v], Holds(ObjectAt(<<v>>), names))
    PROVE  LET entries == Entries(Sequence(opt, path), mapped)
           IN /\ Len(entries.val[1]) \in Nat /\ Holding(opt, names) \in Nat
              /\ Len(entries.val[1]) <= Holding(opt, names)
              /\ entries.warn = {} => Len(entries.val[1]) = Holding(opt, names)
<1>. DEFINE q == Listed(opt)
            S == {v \in DOMAIN mapped : mapped[v].val # <<>>}
            U == Present \cap S
            kept == Only(Only(q, Present), S)
            entries == Entries(Sequence(opt, path), mapped)
            Taken == {i \in DOMAIN q : q[i] \in U}
            Held == {i \in DOMAIN q : Holds(ObjectAt(<<q[i]>>), names)}
<1>1. q \in Seq(Values) /\ Sequence(opt, path).val = <<Only(q, Present)>>
  BY ListedValues, SequenceReads
<1>2. Sequence(opt, path).val[1] = Only(q, Present)
  BY <1>1
<1>3. DOMAIN mapped = ToSet(q) \cap Present
  <2>. HIDE DEF q
  <2>. QED BY <1>1, <1>2, OnlyFacts
<1>4. entries.val[1] = [i \in DOMAIN kept |-> mapped[kept[i]].val[1]]
      /\ WarningsOf(mapped) \subseteq entries.warn
  <2>. HIDE DEF q
  <2>. QED BY <1>2 DEF Entries, Kept
<1>5. kept = Only(q, U)
  <2>. HIDE DEF q, S
  <2>. QED BY <1>1, OnlyOnly
<1>6. kept \in Seq(Values) /\ Len(kept) = Cardinality(Taken) /\ Len(kept) \in Nat
  <2>. HIDE DEF q, U, kept
  <2>1. Len(Only(q, U)) = Cardinality(Taken)
    BY <1>1, OnlyCounts
  <2>2. Only(q, U) \in Seq(Values) /\ Len(Only(q, U)) \in Nat
    BY <1>1, OnlyFacts
  <2>. HIDE DEF Taken
  <2>. QED BY <1>5, <2>1, <2>2
<1>7. Len(entries.val[1]) = Len(kept)
  <2>. DEFINE n == Len(kept)
              value(i) == mapped[kept[i]].val[1]
  <2>. HIDE DEF kept, entries
  <2>1. DOMAIN kept = 1..n /\ n \in Nat
    BY <1>6
  <2>2. entries.val[1] = [i \in 1..n |-> value(i)]
    BY <1>4, <2>1
  <2>. HIDE DEF n, value
  <2>3. Len([i \in 1..n |-> value(i)]) = n
    BY <2>1
  <2>. QED BY <2>2, <2>3 DEF n
<1>8. Holding(opt, names) = Cardinality(Held)
  BY DEF Holding
<1>9. \A i \in DOMAIN q : q[i] \in Values /\ q[i] \in ToSet(q)
  BY <1>1 DEF ToSet
<1>10. Taken \subseteq Held
  <2>. HIDE DEF q
  <2>. QED BY <1>9 DEF Tells
<1>11. ASSUME WarningsOf(mapped) = {} PROVE Held \subseteq Taken
  <2>1. ASSUME NEW i \in Held PROVE q[i] \in Present \cap S
    <3>. HIDE DEF q
    <3>1. q[i] \in Present
      BY <1>9, HoldingIsPresent
    <3>2. q[i] \in DOMAIN mapped
      BY <1>3, <1>9, <3>1
    <3>3. mapped[q[i]].warn \subseteq WarningsOf(mapped)
      BY <3>2 DEF WarningsOf
    <3>4. mapped[q[i]].val # <<>>
      BY <1>11, <3>2, <3>3 DEF Tells
    <3>. QED BY <3>1, <3>2, <3>4
  <2>. HIDE DEF q, S
  <2>. QED BY <2>1
<1>12. IsFiniteSet(Held)
  <2>1. IsFiniteSet(DOMAIN q)
    <3>1. DOMAIN q = 1..Len(q) /\ Len(q) \in Nat
      BY <1>1
    <3>. HIDE DEF q
    <3>. QED BY <3>1, FS_Interval
  <2>. HIDE DEF q
  <2>2. Held \subseteq DOMAIN q
    OBVIOUS
  <2>. HIDE DEF Held
  <2>. QED BY <2>1, <2>2, FS_Subset
<1>. HIDE DEF q, S, kept, entries, Taken, Held
<1>13. Cardinality(Held) \in Nat /\ Cardinality(Taken) <= Cardinality(Held)
  BY <1>10, <1>12, FS_CardinalityType, FS_Subset
<1>14. entries.warn = {} => Cardinality(Taken) = Cardinality(Held)
  BY <1>4, <1>10, <1>11
<1>15. /\ Len(entries.val[1]) \in Nat /\ Holding(opt, names) \in Nat
       /\ Len(entries.val[1]) <= Holding(opt, names)
       /\ entries.warn = {} => Len(entries.val[1]) = Holding(opt, names)
  BY <1>6, <1>7, <1>8, <1>13, <1>14
<1>. QED BY <1>15 DEF entries

----------------------------------------------------------------------------
(* NmcProvider: sections.                                                  *)

\* A section has a field if there is one, and warns when it loses one.
FieldTells(section, field, held) ==
    (Has(section.val, field) => held) /\ (held => Has(section.val, field) \/ section.warn # {})

LEMMA CollectedFacts ==
    ASSUME NEW fields, NEW outcomes, NEW path
    PROVE  LET section == Collected(fields, outcomes, path)
           IN /\ section.val # <<>> <=> \E f \in DOMAIN outcomes : outcomes[f].val # <<>>
              /\ \A f \in DOMAIN outcomes :
                    /\ Has(section.val, f) <=> outcomes[f].val # <<>>
                    /\ outcomes[f].warn # {} => section.warn # {}
<1>. DEFINE section == Collected(fields, outcomes, path)
            warn == WarningsOf(outcomes)
            kept == [f \in DOMAIN outcomes |-> outcomes[f].val]
<1>1. \A f \in DOMAIN outcomes : outcomes[f].warn \subseteq warn
  BY DEF WarningsOf
<1>2. CASE \E f \in DOMAIN outcomes : outcomes[f].val # <<>>
  <2>1. section = Kept(kept, warn)
    BY <1>2 DEF Collected
  <2>2. section.val = <<kept>> /\ section.val # <<>> /\ section.warn = warn /\ section.val[1] = kept
    BY <2>1 DEF Kept
  <2>3. \A f \in DOMAIN outcomes : kept[f] = outcomes[f].val
    OBVIOUS
  <2>. HIDE DEF section, kept, warn
  <2>4. \A f \in DOMAIN outcomes : Has(section.val, f) <=> outcomes[f].val # <<>>
    BY <2>2, <2>3 DEF Has
  <2>. QED BY <1>1, <1>2, <2>2, <2>4 DEF section
<1>3. CASE ~ \E f \in DOMAIN outcomes : outcomes[f].val # <<>>
  <2>1. section.val = <<>> /\ (warn # {} => section.warn = warn)
    BY <1>3 DEF Collected, Dropped
  <2>. HIDE DEF section, warn
  <2>. QED BY <1>1, <1>3, <2>1 DEF Has, section
<1>. QED BY <1>2, <1>3

\* What a section makes of the fields of an object, when they are not all missing.
LEMMA SectionCases ==
    ASSUME NEW opt, OptOk(opt), NEW path, NEW outcome
    PROVE  \/ /\ FieldsOf(SectionObject(opt, path)) = ObjectAt(opt)
              /\ InSection(SectionObject(opt, path), outcome) = outcome
           \/ /\ InSection(SectionObject(opt, path), outcome).val = <<>>
              /\ Vacant(ObjectAt(opt))
BY SectionFields DEF InSection, Kept

LEMMA AirLevelTells ==
    ASSUME NEW fields, FieldsOk(fields)
    PROVE  Tells(MapAirLevel(fields), Holds(fields, {"level", "aqi_level", "aq"}))
<1>. DEFINE level == Alias(fields, <<"level", "aqi_level">>, "string", "air.level")
            grade == Alias(fields, <<"aq">>, "u32", "air.level")
<1>1. Tells(level, Holds(fields, {"level", "aqi_level"}))
  BY TwoNames
<1>2. Tells(grade, Holds(fields, {"aq"}))
  <2>1. Tells(Fixed(fields, "aq", "u32", "air.level"), Holds(fields, {"aq"}))
    BY OneName
  <2>. QED BY <2>1 DEF Fixed
<1>3. /\ Holds(fields, {"level", "aqi_level"}) => Holds(fields, {"level", "aqi_level", "aq"})
      /\ Holds(fields, {"aq"}) => Holds(fields, {"level", "aqi_level", "aq"})
      /\ Holds(fields, {"level", "aqi_level", "aq"})
         => Holds(fields, {"level", "aqi_level"}) \/ Holds(fields, {"aq"})
  BY DEF Holds
<1>4. CASE level.val # <<>>
  <2>1. MapAirLevel(fields) = level
    BY <1>4 DEF MapAirLevel
  <2>. HIDE DEF level
  <2>. QED BY <1>1, <1>3, <1>4, <2>1 DEF Tells
<1>5. CASE level.val = <<>> /\ grade.val = <<"count">>
  <2>1. MapAirLevel(fields) = Dropped(level.warn \union {"air.level"})
    BY <1>5 DEF MapAirLevel
  <2>. QED BY <2>1 DEF Tells, Dropped
<1>6. CASE level.val = <<>> /\ grade.val # <<"count">>
  <2>1. MapAirLevel(fields) = [grade EXCEPT !.warn = @ \union level.warn]
    BY <1>6 DEF MapAirLevel
  <2>2. \E x, w : grade = [val |-> x, warn |-> w]
    BY DEF Alias, Kept, Dropped
  <2>. HIDE DEF grade, level
  <2>3. PICK x, w : grade = [val |-> x, warn |-> w]
    BY <2>2
  <2>4. MapAirLevel(fields) = [val |-> x, warn |-> w \union level.warn]
    BY <2>1, <2>3
  <2>. QED BY <1>1, <1>2, <1>3, <1>6, <2>3, <2>4 DEF Tells
<1>. QED BY <1>4, <1>5, <1>6

LEMMA AirTells ==
    ASSUME NEW opt, OptOk(opt)
    PROVE  /\ FieldTells(MapAirQuality(opt), "aqi", Holds(ObjectAt(opt), {"aqi", "AQI"}))
           /\ FieldTells(MapAirQuality(opt), "level", Holds(ObjectAt(opt), {"level", "aqi_level", "aq"}))
<1>. DEFINE section == SectionObject(opt, "air")
            fields == FieldsOf(section)
            outcomes == [aqi |-> Alias(fields, <<"aqi", "AQI">>, "f64", "air.aqi"),
                         level |-> MapAirLevel(fields)]
            outcome == Collected(fields, outcomes, "air")
<1>1. MapAirQuality(opt) = InSection(section, outcome)
  BY DEF MapAirQuality
<1>2. FieldsOk(ObjectAt(opt))
  BY ObjectFields
<1>3. \/ fields = ObjectAt(opt) /\ InSection(section, outcome) = outcome
      \/ InSection(section, outcome).val = <<>> /\ Vacant(ObjectAt(opt))
  <2>. HIDE DEF outcome
  <2>. QED BY SectionCases
<1>4. CASE fields = ObjectAt(opt) /\ InSection(section, outcome) = outcome
  <2>1. /\ Tells(outcomes["aqi"], Holds(ObjectAt(opt), {"aqi", "AQI"}))
        /\ Tells(outcomes["level"], Holds(ObjectAt(opt), {"level", "aqi_level", "aq"}))
    <3>. HIDE DEF fields
    <3>. QED BY <1>2, <1>4, TwoNames, AirLevelTells
  <2>2. DOMAIN outcomes = {"aqi", "level"}
    OBVIOUS
  <2>. HIDE DEF outcomes, fields, section
  <2>3. \A f \in DOMAIN outcomes :
           /\ Has(outcome.val, f) <=> outcomes[f].val # <<>>
           /\ outcomes[f].warn # {} => outcome.warn # {}
    BY CollectedFacts
  <2>. HIDE DEF outcome
  <2>4. /\ Has(outcome.val, "aqi") <=> outcomes["aqi"].val # <<>>
        /\ outcomes["aqi"].warn # {} => outcome.warn # {}
    BY <2>2, <2>3
  <2>5. /\ Has(outcome.val, "level") <=> outcomes["level"].val # <<>>
        /\ outcomes["level"].warn # {} => outcome.warn # {}
    BY <2>2, <2>3
  <2>6. MapAirQuality(opt) = outcome
    BY <1>1, <1>4
  <2>. QED BY <2>1, <2>4, <2>5, <2>6 DEF FieldTells, Tells
<1>5. CASE InSection(section, outcome).val = <<>> /\ Vacant(ObjectAt(opt))
  <2>1. MapAirQuality(opt).val = <<>>
    BY <1>1, <1>5
  <2>. QED BY <1>2, <1>5, <2>1, VacantHoldsNothing DEF FieldTells, Has
<1>. QED BY <1>3, <1>4, <1>5

LEMMA RadarTells ==
    ASSUME NEW opt, OptOk(opt)
    PROVE  FieldTells(MapRadar(opt), "image", Holds(ObjectAt(opt), {"image", "img"}))
<1>. DEFINE section == SectionObject(opt, "radar")
            fields == FieldsOf(section)
            outcomes == [title |-> Alias(fields, <<"title", "name">>, "string", "radar.title"),
                         image |-> Alias(fields, <<"image", "img">>, "url", "radar.image_url")]
            outcome == Collected(fields, outcomes, "radar")
<1>1. MapRadar(opt) = InSection(section, outcome)
  BY DEF MapRadar
<1>2. FieldsOk(ObjectAt(opt))
  BY ObjectFields
<1>3. \/ fields = ObjectAt(opt) /\ InSection(section, outcome) = outcome
      \/ InSection(section, outcome).val = <<>> /\ Vacant(ObjectAt(opt))
  <2>. HIDE DEF outcome
  <2>. QED BY SectionCases
<1>4. CASE fields = ObjectAt(opt) /\ InSection(section, outcome) = outcome
  <2>1. Tells(outcomes["image"], Holds(ObjectAt(opt), {"image", "img"}))
    <3>. HIDE DEF fields
    <3>. QED BY <1>2, <1>4, TwoNames
  <2>2. "image" \in DOMAIN outcomes
    OBVIOUS
  <2>. HIDE DEF outcomes, fields, section
  <2>3. \A f \in DOMAIN outcomes :
           /\ Has(outcome.val, f) <=> outcomes[f].val # <<>>
           /\ outcomes[f].warn # {} => outcome.warn # {}
    BY CollectedFacts
  <2>. HIDE DEF outcome
  <2>4. /\ Has(outcome.val, "image") <=> outcomes["image"].val # <<>>
        /\ outcomes["image"].warn # {} => outcome.warn # {}
    BY <2>2, <2>3
  <2>5. MapRadar(opt) = outcome
    BY <1>1, <1>4
  <2>. QED BY <2>1, <2>4, <2>5 DEF FieldTells, Tells
<1>5. CASE InSection(section, outcome).val = <<>> /\ Vacant(ObjectAt(opt))
  <2>1. MapRadar(opt).val = <<>>
    BY <1>1, <1>5
  <2>. QED BY <1>2, <1>5, <2>1, VacantHoldsNothing DEF FieldTells, Has
<1>. QED BY <1>3, <1>4, <1>5

----------------------------------------------------------------------------
(* NmcProvider: charts, forecasts and observations.                        *)

\* A list has an entry for each that holds something, unless there is a warning.
Counts(outcome, kept, held) == kept <= held /\ (outcome.warn = {} => kept = held)

LEMMA EntriesAreValues ==
    ASSUME NEW opt, OptOk(opt), NEW path
    PROVE  \A v \in ToSet(Sequence(opt, path).val[1]) : v \in Values
<1>1. Sequence(opt, path).val[1] = Only(Listed(opt), Present)
  BY SequenceReads
<1>2. Listed(opt) \in Seq(Values)
  BY ListedValues
<1>3. ToSet(Only(Listed(opt), Present)) = ToSet(Listed(opt)) \cap Present
  BY <1>2, OnlyFacts
<1>. QED BY <1>1, <1>3 DEF Present

LEMMA TemperatureChartTells ==
    ASSUME NEW v \in Values
    PROVE  Tells(MapTemperatureChart(v),
                 Holds(ObjectAt(<<v>>), {"date", "time", "max_temperature", "max", "min_temperature", "min"}))
<1>. DEFINE opt == <<v>>
            section == SectionObject(opt, "tempchart")
            fields == FieldsOf(section)
            date == Alias(fields, <<"date", "time">>, "string", "tempchart.date")
            high == Alias(fields, <<"max_temperature", "max">>, "f64", "tempchart.max")
            low == Alias(fields, <<"min_temperature", "min">>, "f64", "tempchart.min")
            outcomes == [date |-> date, max |-> high, min |-> low]
            outcome == Collected(fields, outcomes, "tempchart")
            names == {"date", "time", "max_temperature", "max", "min_temperature", "min"}
<1>1. MapTemperatureChart(v) = InSection(section, outcome)
  BY DEF MapTemperatureChart
<1>2. OptOk(opt)
  BY DEF OptOk
<1>. HIDE DEF opt
<1>3. FieldsOk(ObjectAt(opt))
  BY <1>2, ObjectFields
<1>4. \/ fields = ObjectAt(opt) /\ InSection(section, outcome) = outcome
      \/ InSection(section, outcome).val = <<>> /\ Vacant(ObjectAt(opt))
  <2>. HIDE DEF outcome
  <2>. QED BY <1>2, SectionCases
<1>5. CASE fields = ObjectAt(opt) /\ InSection(section, outcome) = outcome
  <2>1. /\ Tells(date, Holds(ObjectAt(opt), {"date", "time"}))
        /\ Tells(high, Holds(ObjectAt(opt), {"max_temperature", "max"}))
        /\ Tells(low, Holds(ObjectAt(opt), {"min_temperature", "min"}))
    <3>. HIDE DEF fields
    <3>. QED BY <1>3, <1>5, TwoNames
  <2>2. Holds(ObjectAt(opt), names)
        <=> \/ Holds(ObjectAt(opt), {"date", "time"})
            \/ Holds(ObjectAt(opt), {"max_temperature", "max"})
            \/ Holds(ObjectAt(opt), {"min_temperature", "min"})
    BY DEF Holds
  <2>3. /\ DOMAIN outcomes = {"date", "max", "min"}
        /\ outcomes["date"] = date /\ outcomes["max"] = high /\ outcomes["min"] = low
    OBVIOUS
  <2>. HIDE DEF outcomes, date, high, low, fields, section, names
  <2>4. /\ outcome.val # <<>> <=> \E f \in DOMAIN outcomes : outcomes[f].val # <<>>
        /\ \A f \in DOMAIN outcomes : outcomes[f].warn # {} => outcome.warn # {}
    BY CollectedFacts
  <2>. HIDE DEF outcome
  <2>5. outcome.val # <<>> <=> date.val # <<>> \/ high.val # <<>> \/ low.val # <<>>
    BY <2>3, <2>4
  <2>6. date.warn # {} \/ high.warn # {} \/ low.warn # {} => outcome.warn # {}
    BY <2>3, <2>4
  <2>7. Tells(outcome, Holds(ObjectAt(opt), names))
    BY <2>1, <2>2, <2>5, <2>6 DEF Tells
  <2>. QED BY <1>1, <1>5, <2>7 DEF opt, names
<1>6. CASE InSection(section, outcome).val = <<>> /\ Vacant(ObjectAt(opt))
  <2>. HIDE DEF names
  <2>1. ~Holds(ObjectAt(opt), names)
    BY <1>3, <1>6, VacantHoldsNothing
  <2>2. Tells(MapTemperatureChart(v), Holds(ObjectAt(opt), names))
    BY <1>1, <1>6, <2>1 DEF Tells
  <2>. QED BY <2>2 DEF opt, names
<1>. QED BY <1>4, <1>5, <1>6

LEMMA PassedChartTells ==
    ASSUME NEW v \in Values
    PROVE  Tells(MapPassedChart(v),
                 Holds(ObjectAt(<<v>>), {"time", "publish_time", "temperature", "temp"}))
<1>. DEFINE opt == <<v>>
            section == SectionObject(opt, "passedchart")
            fields == FieldsOf(section)
            time == Alias(fields, <<"time", "publish_time">>, "string", "passedchart.time")
            temp == Alias(fields, <<"temperature", "temp">>, "f64", "passedchart.temperature")
            outcomes == [time |-> time, temperature |-> temp]
            outcome == Collected(fields, outcomes, "passedchart")
            names == {"time", "publish_time", "temperature", "temp"}
<1>1. MapPassedChart(v) = InSection(section, outcome)
  BY DEF MapPassedChart
<1>2. OptOk(opt)
  BY DEF OptOk
<1>. HIDE DEF opt
<1>3. FieldsOk(ObjectAt(opt))
  BY <1>2, ObjectFields
<1>4. \/ fields = ObjectAt(opt) /\ InSection(section, outcome) = outcome
      \/ InSection(section, outcome).val = <<>> /\ Vacant(ObjectAt(opt))
  <2>. HIDE DEF outcome
  <2>. QED BY <1>2, SectionCases
<1>5. CASE fields = ObjectAt(opt) /\ InSection(section, outcome) = outcome
  <2>1. /\ Tells(time, Holds(ObjectAt(opt), {"time", "publish_time"}))
        /\ Tells(temp, Holds(ObjectAt(opt), {"temperature", "temp"}))
    <3>. HIDE DEF fields
    <3>. QED BY <1>3, <1>5, TwoNames
  <2>2. Holds(ObjectAt(opt), names)
        <=> \/ Holds(ObjectAt(opt), {"time", "publish_time"})
            \/ Holds(ObjectAt(opt), {"temperature", "temp"})
    BY DEF Holds
  <2>3. /\ DOMAIN outcomes = {"time", "temperature"}
        /\ outcomes["time"] = time /\ outcomes["temperature"] = temp
    OBVIOUS
  <2>. HIDE DEF outcomes, time, temp, fields, section, names
  <2>4. /\ outcome.val # <<>> <=> \E f \in DOMAIN outcomes : outcomes[f].val # <<>>
        /\ \A f \in DOMAIN outcomes : outcomes[f].warn # {} => outcome.warn # {}
    BY CollectedFacts
  <2>. HIDE DEF outcome
  <2>5. outcome.val # <<>> <=> time.val # <<>> \/ temp.val # <<>>
    BY <2>3, <2>4
  <2>6. time.warn # {} \/ temp.warn # {} => outcome.warn # {}
    BY <2>3, <2>4
  <2>7. Tells(outcome, Holds(ObjectAt(opt), names))
    BY <2>1, <2>2, <2>5, <2>6 DEF Tells
  <2>. QED BY <1>1, <1>5, <2>7 DEF opt, names
<1>6. CASE InSection(section, outcome).val = <<>> /\ Vacant(ObjectAt(opt))
  <2>. HIDE DEF names
  <2>1. ~Holds(ObjectAt(opt), names)
    BY <1>3, <1>6, VacantHoldsNothing
  <2>2. Tells(MapPassedChart(v), Holds(ObjectAt(opt), names))
    BY <1>1, <1>6, <2>1 DEF Tells
  <2>. QED BY <2>2 DEF opt, names
<1>. QED BY <1>4, <1>5, <1>6

LEMMA ChartsCount ==
    ASSUME NEW opt, OptOk(opt)
    PROVE  /\ Counts(MapTemperatureCharts(opt), Len(MapTemperatureCharts(opt).val[1]),
                     Holding(opt, {"date", "time", "max_temperature", "max", "min_temperature", "min"}))
           /\ Counts(MapPassedCharts(opt), Len(MapPassedCharts(opt).val[1]),
                     Holding(opt, {"time", "publish_time", "temperature", "temp"}))
<1>1. \A path : \A v \in ToSet(Sequence(opt, path).val[1]) : v \in Values
  BY EntriesAreValues
<1>2. Counts(MapTemperatureCharts(opt), Len(MapTemperatureCharts(opt).val[1]),
             Holding(opt, {"date", "time", "max_temperature", "max", "min_temperature", "min"}))
  <2>. DEFINE names == {"date", "time", "max_temperature", "max", "min_temperature", "min"}
              list == Sequence(opt, "tempchart")
              mapped == [v \in ToSet(list.val[1]) |-> MapTemperatureChart(v)]
  <2>1. DOMAIN mapped = ToSet(list.val[1])
    OBVIOUS
  <2>2. \A v \in DOMAIN mapped : Tells(mapped[v], Holds(ObjectAt(<<v>>), names))
    BY <1>1, <2>1, TemperatureChartTells
  <2>3. MapTemperatureCharts(opt) = Entries(list, mapped)
    BY DEF MapTemperatureCharts
  <2>. HIDE DEF names, mapped
  <2>4. LET entries == Entries(list, mapped)
        IN /\ Len(entries.val[1]) <= Holding(opt, names)
           /\ entries.warn = {} => Len(entries.val[1]) = Holding(opt, names)
    BY <2>1, <2>2, EntriesCount
  <2>. QED BY <2>3, <2>4 DEF Counts, names
<1>3. Counts(MapPassedCharts(opt), Len(MapPassedCharts(opt).val[1]),
             Holding(opt, {"time", "publish_time", "temperature", "temp"}))
  <2>. DEFINE names == {"time", "publish_time", "temperature", "temp"}
              list == Sequence(opt, "passedchart")
              mapped == [v \in ToSet(list.val[1]) |-> MapPassedChart(v)]
  <2>1. DOMAIN mapped = ToSet(list.val[1])
    OBVIOUS
  <2>2. \A v \in DOMAIN mapped : Tells(mapped[v], Holds(ObjectAt(<<v>>), names))
    BY <1>1, <2>1, PassedChartTells
  <2>3. MapPassedCharts(opt) = Entries(list, mapped)
    BY DEF MapPassedCharts
  <2>. HIDE DEF names, mapped
  <2>4. LET entries == Entries(list, mapped)
        IN /\ Len(entries.val[1]) <= Holding(opt, names)
           /\ entries.warn = {} => Len(entries.val[1]) = Holding(opt, names)
    BY <2>1, <2>2, EntriesCount
  <2>. QED BY <2>3, <2>4 DEF Counts, names
<1>. QED BY <1>2, <1>3

\* A field of a section that is optional itself.
LEMMA SectionFieldTells ==
    ASSUME NEW opt, OptOk(opt), NEW path, NEW name, NEW type \in {"string", "f64", "u32", "url"},
           NEW warning
    PROVE  Tells(Fixed(FieldsOf(SectionObject(opt, path)), name, type, warning),
                 Holds(ObjectAt(opt), {name}))
<1>. DEFINE fields == FieldsOf(SectionObject(opt, path))
<1>1. FieldsOk(fields) /\ FieldsOk(ObjectAt(opt))
  BY SectionFields, ObjectFields
<1>2. Tells(Fixed(fields, name, type, warning), Holds(fields, {name}))
  <2>. HIDE DEF fields
  <2>. QED BY <1>1, OneName
<1>3. CASE fields = ObjectAt(opt)
  BY <1>2, <1>3
<1>4. CASE fields = NoFields /\ Vacant(ObjectAt(opt))
  <2>1. ~Holds(fields, {name})
    BY <1>4 DEF NoFields, Holds
  <2>2. ~Holds(ObjectAt(opt), {name})
    BY <1>1, <1>4, VacantHoldsNothing
  <2>. QED BY <1>2, <2>1, <2>2 DEF Tells
<1>. QED BY <1>3, <1>4, SectionFields

IsStation(fields) == Holds(fields, {"province"}) /\ Holds(fields, {"city"})

LEMMA StationTells ==
    ASSUME NEW opt, OptOk(opt)
    PROVE  Tells(MapStation(opt), IsStation(ObjectAt(opt)))
<1>. DEFINE section == DecodeSection(opt, "station")
            province == Fixed(FieldsOf(section), "province", "string", "station.province")
            city == Fixed(FieldsOf(section), "city", "string", "station.city")
            warn == province.warn \union city.warn
            outcome == IF province.val # <<>> /\ city.val # <<>>
                       THEN Kept(<<province.val[1], city.val[1]>>, warn)
                       ELSE Dropped(IF warn = {} THEN {"station"} ELSE warn)
<1>1. MapStation(opt) = InSection(section, outcome)
  BY DEF MapStation
<1>2. /\ Tells(province, Holds(ObjectAt(opt), {"province"}))
      /\ Tells(city, Holds(ObjectAt(opt), {"city"}))
  BY SectionFieldTells DEF DecodeSection
<1>3. \/ InSection(section, outcome) = outcome
      \/ InSection(section, outcome).val = <<>> /\ Vacant(ObjectAt(opt))
  <2>. HIDE DEF outcome
  <2>. QED BY SectionCases DEF DecodeSection
<1>. HIDE DEF section
<1>4. CASE InSection(section, outcome).val = <<>> /\ Vacant(ObjectAt(opt))
  <2>1. ~Holds(ObjectAt(opt), {"province"})
    BY <1>4, ObjectFields, VacantHoldsNothing
  <2>. HIDE DEF outcome
  <2>. QED BY <1>1, <1>4, <2>1 DEF Tells, IsStation
<1>5. CASE InSection(section, outcome) = outcome /\ province.val # <<>> /\ city.val # <<>>
  <2>. HIDE DEF province, city, warn
  <2>1. outcome = Kept(<<province.val[1], city.val[1]>>, warn)
    BY <1>5
  <2>2. outcome.val # <<>>
    BY <2>1 DEF Kept
  <2>. HIDE DEF outcome
  <2>. QED BY <1>1, <1>2, <1>5, <2>2 DEF Tells, IsStation
<1>6. CASE InSection(section, outcome) = outcome /\ ~(province.val # <<>> /\ city.val # <<>>)
  <2>. HIDE DEF province, city, warn
  <2>1. outcome = Dropped(IF warn = {} THEN {"station"} ELSE warn)
    BY <1>6
  <2>2. outcome.val = <<>> /\ outcome.warn # {}
    BY <2>1 DEF Dropped
  <2>. HIDE DEF outcome
  <2>. QED BY <1>1, <1>6, <2>2 DEF Tells, IsStation
<1>. QED BY <1>3, <1>4, <1>5, <1>6

LEMMA AlertTells ==
    ASSUME NEW opt, OptOk(opt)
    PROVE  Tells(MapAlert(opt), Holds(ObjectAt(opt), {"alert"}))
<1>. DEFINE section == DecodeSection(opt, "warn")
            alert == Fixed(FieldsOf(section), "alert", "string", "warn.alert")
            icon == Fixed(FieldsOf(section), "pic", "url", "warn.pic")
            outcome == IF alert.val = <<>> THEN alert
                       ELSE Kept([alert |-> alert.val, icon |-> icon.val], icon.warn)
<1>1. MapAlert(opt) = InSection(section, outcome)
  BY DEF MapAlert
<1>2. Tells(alert, Holds(ObjectAt(opt), {"alert"}))
  BY SectionFieldTells DEF DecodeSection
<1>3. \/ InSection(section, outcome) = outcome
      \/ InSection(section, outcome).val = <<>> /\ Vacant(ObjectAt(opt))
  <2>. HIDE DEF outcome
  <2>. QED BY SectionCases DEF DecodeSection
<1>. HIDE DEF section
<1>4. CASE InSection(section, outcome).val = <<>> /\ Vacant(ObjectAt(opt))
  <2>1. ~Holds(ObjectAt(opt), {"alert"})
    BY <1>4, ObjectFields, VacantHoldsNothing
  <2>. HIDE DEF outcome
  <2>. QED BY <1>1, <1>4, <2>1 DEF Tells
<1>5. CASE InSection(section, outcome) = outcome /\ alert.val # <<>>
  <2>. HIDE DEF alert, icon
  <2>1. outcome.val # <<>>
    BY <1>5 DEF Kept
  <2>. HIDE DEF outcome
  <2>. QED BY <1>1, <1>2, <1>5, <2>1 DEF Tells
<1>6. CASE InSection(section, outcome) = outcome /\ alert.val = <<>>
  <2>. HIDE DEF alert, icon
  <2>. QED BY <1>1, <1>2, <1>6 DEF Tells
<1>. QED BY <1>3, <1>4, <1>5, <1>6

LEMMA ForecastDayTells ==
    ASSUME NEW v \in Values
    PROVE  Tells(MapForecastDay(v), Holds(ObjectAt(<<v>>), {"date"}))
<1>. DEFINE opt == <<v>>
            section == DecodeSection(opt, "predict.detail")
            fields == FieldsOf(section)
            date == Fixed(fields, "date", "string", "predict.date")
            day == MapForecastPart(Get(fields, "day"))
            night == MapForecastPart(Get(fields, "night"))
            outcome == IF date.val = <<>>
                       THEN Dropped(IF date.warn = {} THEN {"predict.detail"} ELSE date.warn)
                       ELSE Kept([date |-> date.val[1], day |-> day.val, night |-> night.val],
                                 day.warn \union night.warn)
<1>1. MapForecastDay(v) = InSection(section, outcome)
  BY DEF MapForecastDay
<1>2. OptOk(opt)
  BY DEF OptOk
<1>. HIDE DEF opt
<1>3. Tells(date, Holds(ObjectAt(opt), {"date"}))
  BY <1>2, SectionFieldTells DEF DecodeSection
<1>4. \/ InSection(section, outcome) = outcome
      \/ InSection(section, outcome).val = <<>> /\ Vacant(ObjectAt(opt))
  <2>. HIDE DEF outcome
  <2>. QED BY <1>2, SectionCases DEF DecodeSection
<1>. HIDE DEF section
<1>5. CASE InSection(section, outcome).val = <<>> /\ Vacant(ObjectAt(opt))
  <2>1. ~Holds(ObjectAt(opt), {"date"})
    BY <1>2, <1>5, ObjectFields, VacantHoldsNothing
  <2>. HIDE DEF outcome
  <2>2. Tells(MapForecastDay(v), Holds(ObjectAt(opt), {"date"}))
    BY <1>1, <1>5, <2>1 DEF Tells
  <2>. QED BY <2>2 DEF opt
<1>6. CASE InSection(section, outcome) = outcome
  <2>. HIDE DEF date, day, night
  <2>1. outcome.val # <<>> <=> date.val # <<>>
    BY DEF Kept, Dropped
  <2>2. date.val = <<>> => outcome.warn # {}
    BY DEF Dropped
  <2>. HIDE DEF outcome
  <2>3. Tells(MapForecastDay(v), Holds(ObjectAt(opt), {"date"}))
    BY <1>1, <1>3, <1>6, <2>1, <2>2 DEF Tells
  <2>. QED BY <2>3 DEF opt
<1>. QED BY <1>4, <1>5, <1>6

LEMMA RealTells ==
    ASSUME NEW opt, OptOk(opt)
    PROVE  LET real == ObjectAt(opt)
           IN /\ FieldTells(MapReal(opt), "temperature", Holds(Under(real, "weather"), {"temperature"}))
              /\ FieldTells(MapReal(opt), "alerts", Holds(Under(real, "warn"), {"alert"}))
              /\ StationOf(MapReal(opt)) # <<>> => IsStation(Under(real, "station"))
              /\ IsStation(Under(real, "station"))
                 => StationOf(MapReal(opt)) # <<>> \/ MapReal(opt).warn # {}
<1>. DEFINE real == ObjectAt(opt)
            section == DecodeSection(opt, "real")
            fields == FieldsOf(section)
            weather == DecodeSection(Get(fields, "weather"), "real.weather")
            wind == DecodeSection(Get(fields, "wind"), "real.wind")
            alert == MapAlert(Get(fields, "warn"))
            station == MapStation(Get(fields, "station"))
            temperature == Fixed(FieldsOf(weather), "temperature", "f64", "real.temperature")
            info == Fixed(FieldsOf(weather), "info", "string", "real.info")
            direct == Fixed(FieldsOf(wind), "direct", "string", "real.wind.direct")
            record == [station |-> station.val, temperature |-> temperature.val, info |-> info.val,
                       wind |-> direct.val, alerts |-> alert.val]
            warn == UNION {weather.warn, wind.warn, alert.warn, station.warn,
                           temperature.warn, info.warn, direct.warn}
            outcome == Kept(record, warn)
<1>1. MapReal(opt) = InSection(section, outcome)
  BY DEF MapReal
<1>2. FieldsOk(real)
  BY ObjectFields
<1>3. \/ fields = real /\ InSection(section, outcome) = outcome
      \/ InSection(section, outcome).val = <<>> /\ Vacant(real)
  <2>. HIDE DEF outcome
  <2>. QED BY SectionCases DEF DecodeSection
<1>4. CASE fields = real /\ InSection(section, outcome) = outcome
  <2>1. \A name : OptOk(Get(fields, name)) /\ Under(real, name) = ObjectAt(Get(fields, name))
    <3>. HIDE DEF fields, real
    <3>. QED BY <1>2, <1>4, FieldIsOk DEF Under
  <2>. HIDE DEF fields
  <2>2. Tells(temperature, Holds(Under(real, "weather"), {"temperature"}))
    <3>. HIDE DEF real
    <3>. QED BY <2>1, SectionFieldTells DEF DecodeSection
  <2>3. Tells(alert, Holds(Under(real, "warn"), {"alert"}))
    <3>. HIDE DEF real
    <3>. QED BY <2>1, AlertTells
  <2>4. Tells(station, IsStation(Under(real, "station")))
    <3>. HIDE DEF real
    <3>. QED BY <2>1, StationTells
  <2>. HIDE DEF temperature, alert, station, weather, wind, info, direct, section, real
  <2>5. /\ outcome.val = <<record>> /\ outcome.val[1] = record /\ outcome.val # <<>>
        /\ outcome.warn = warn
    BY DEF Kept
  <2>6. /\ record["temperature"] = temperature.val /\ record["alerts"] = alert.val
        /\ record.station = station.val
    OBVIOUS
  <2>7. temperature.warn \subseteq warn /\ alert.warn \subseteq warn /\ station.warn \subseteq warn
    OBVIOUS
  <2>. HIDE DEF record, warn, outcome
  <2>8. MapReal(opt) = outcome
    BY <1>1, <1>4
  <2>9. /\ Has(outcome.val, "temperature") <=> temperature.val # <<>>
        /\ Has(outcome.val, "alerts") <=> alert.val # <<>>
        /\ StationOf(outcome) = station.val
    BY <2>5, <2>6 DEF Has, StationOf
  <2>10. /\ FieldTells(outcome, "temperature", Holds(Under(real, "weather"), {"temperature"}))
         /\ FieldTells(outcome, "alerts", Holds(Under(real, "warn"), {"alert"}))
    BY <2>2, <2>3, <2>5, <2>7, <2>9 DEF FieldTells, Tells
  <2>11. /\ StationOf(outcome) # <<>> => IsStation(Under(real, "station"))
         /\ IsStation(Under(real, "station")) => StationOf(outcome) # <<>> \/ outcome.warn # {}
    BY <2>4, <2>5, <2>7, <2>9 DEF Tells
  <2>. QED BY <2>8, <2>10, <2>11 DEF real
<1>5. CASE InSection(section, outcome).val = <<>> /\ Vacant(real)
  <2>. HIDE DEF real, outcome
  <2>1. MapReal(opt).val = <<>>
    BY <1>1, <1>5
  <2>2. \A name : FieldsOk(Under(real, name)) /\ Vacant(Under(real, name))
    BY <1>2, <1>5, FieldIsOk, ObjectFields, VacantBelow DEF Under
  <2>3. \A name, names : ~Holds(Under(real, name), names)
    BY <2>2, VacantHoldsNothing
  <2>. QED BY <2>1, <2>3 DEF FieldTells, Has, StationOf, IsStation, real
<1>. QED BY <1>3, <1>4, <1>5

LEMMA PredictTells ==
    ASSUME NEW opt, OptOk(opt)
    PROVE  LET predict == ObjectAt(opt)
           IN /\ Counts(MapPredict(opt),
                        IF MapPredict(opt).val = <<>> THEN 0 ELSE Len(MapPredict(opt).val[1].days),
                        Holding(Get(predict, "detail"), {"date"}))
              /\ StationOf(MapPredict(opt)) # <<>> => IsStation(Under(predict, "station"))
              /\ IsStation(Under(predict, "station"))
                 => StationOf(MapPredict(opt)) # <<>> \/ MapPredict(opt).warn # {}
<1>. DEFINE predict == ObjectAt(opt)
            section == DecodeSection(opt, "predict")
            detail == Get(FieldsOf(section), "detail")
            list == Sequence(detail, "predict.detail")
            mapped == [v \in ToSet(list.val[1]) |-> MapForecastDay(v)]
            days == Entries(list, mapped)
            station == MapStation(Get(FieldsOf(section), "station"))
            record == [station |-> station.val, days |-> days.val[1]]
            outcome == Kept(record, days.warn \union station.warn)
<1>1. MapPredict(opt) = InSection(section, outcome)
  BY DEF MapPredict
<1>2. FieldsOk(predict)
  BY ObjectFields
<1>3. \/ FieldsOf(section) = predict /\ InSection(section, outcome) = outcome
      \/ InSection(section, outcome).val = <<>> /\ Vacant(predict)
  <2>. HIDE DEF outcome
  <2>. QED BY SectionCases DEF DecodeSection
<1>4. CASE FieldsOf(section) = predict /\ InSection(section, outcome) = outcome
  <2>0. detail = Get(predict, "detail") /\ station = MapStation(Get(predict, "station"))
    <3>. HIDE DEF section, predict
    <3>. QED BY <1>4
  <2>. HIDE DEF section
  <2>1. Tells(station, IsStation(Under(predict, "station")))
    <3>. HIDE DEF predict, station
    <3>1. OptOk(Get(predict, "station"))
      BY <1>2, FieldIsOk
    <3>. QED BY <2>0, <3>1, StationTells DEF Under
  <2>2. OptOk(detail)
    <3>. HIDE DEF predict, detail
    <3>. QED BY <1>2, <2>0, FieldIsOk
  <2>. HIDE DEF detail, station
  <2>3. DOMAIN mapped = ToSet(list.val[1])
    OBVIOUS
  <2>4. \A v \in DOMAIN mapped : Tells(mapped[v], Holds(ObjectAt(<<v>>), {"date"}))
    <3>1. \A v \in ToSet(list.val[1]) : v \in Values
      BY <2>2, EntriesAreValues
    <3>. QED BY <2>3, <3>1, ForecastDayTells
  <2>. HIDE DEF mapped
  <2>5. Len(days.val[1]) <= Holding(detail, {"date"})
        /\ (days.warn = {} => Len(days.val[1]) = Holding(detail, {"date"}))
    <3>. DEFINE names == {"date"}
    <3>1. \A v \in DOMAIN mapped : Tells(mapped[v], Holds(ObjectAt(<<v>>), names))
      BY <2>4
    <3>. HIDE DEF names
    <3>2. LET entries == Entries(list, mapped)
          IN /\ Len(entries.val[1]) <= Holding(detail, names)
             /\ entries.warn = {} => Len(entries.val[1]) = Holding(detail, names)
      BY <2>2, <2>3, <3>1, EntriesCount
    <3>. QED BY <3>2 DEF names
  <2>. HIDE DEF days
  <2>6. /\ outcome.val = <<record>> /\ outcome.val[1] = record /\ outcome.val # <<>>
        /\ days.warn \subseteq outcome.warn /\ station.warn \subseteq outcome.warn
    BY DEF Kept
  <2>7. record.days = days.val[1] /\ record.station = station.val
    OBVIOUS
  <2>. HIDE DEF record, outcome
  <2>8. MapPredict(opt) = outcome
    BY <1>1, <1>4
  <2>9. (IF outcome.val = <<>> THEN 0 ELSE Len(outcome.val[1].days)) = Len(days.val[1])
        /\ StationOf(outcome) = station.val
    BY <2>6, <2>7 DEF StationOf
  <2>10. outcome.warn = {} => days.warn = {}
    BY <2>6
  <2>. HIDE DEF predict
  <2>11. Counts(outcome, IF outcome.val = <<>> THEN 0 ELSE Len(outcome.val[1].days),
                Holding(Get(predict, "detail"), {"date"}))
    BY <2>0, <2>5, <2>9, <2>10 DEF Counts
  <2>12. /\ StationOf(outcome) # <<>> => IsStation(Under(predict, "station"))
         /\ IsStation(Under(predict, "station")) => StationOf(outcome) # <<>> \/ outcome.warn # {}
    BY <2>1, <2>6, <2>9 DEF Tells
  <2>. QED BY <2>8, <2>11, <2>12 DEF predict
<1>5. CASE InSection(section, outcome).val = <<>> /\ Vacant(predict)
  <2>. HIDE DEF predict, outcome
  <2>1. MapPredict(opt).val = <<>>
    BY <1>1, <1>5
  <2>2. FieldsOk(Under(predict, "station")) /\ Vacant(Under(predict, "station"))
    BY <1>2, <1>5, FieldIsOk, ObjectFields, VacantBelow DEF Under
  <2>3. \A names : ~Holds(Under(predict, "station"), names)
    BY <2>2, VacantHoldsNothing
  <2>4. Holding(Get(predict, "detail"), {"date"}) = 0
    BY <1>2, <1>5, VacantHoldsNoEntry
  <2>. QED BY <2>1, <2>3, <2>4 DEF Counts, StationOf, IsStation, predict
<1>. QED BY <1>3, <1>4, <1>5

\* A whole document.
LEMMA DocumentIsFaithful ==
    ASSUME NEW data, FieldsOk(data)
    PROVE  Faithful(data, MapWeather(data))
<1>. DEFINE real == MapReal(Get(data, "real"))
            predict == MapPredict(Get(data, "predict"))
            air == MapAirQuality(Get(data, "air"))
            tempchart == MapTemperatureCharts(Get(data, "tempchart"))
            passedchart == MapPassedCharts(Get(data, "passedchart"))
            climate == MapClimate(Get(data, "climate"))
            radar == MapRadar(Get(data, "radar"))
            sections == [real |-> real, predict |-> predict, air |-> air, tempchart |-> tempchart,
                         passedchart |-> passedchart, climate |-> climate, radar |-> radar]
            snapshot == [s \in DOMAIN sections |-> sections[s].val]
            station == IF StationOf(real) # <<>> THEN StationOf(real) ELSE StationOf(predict)
            warnings == WarningsOf(sections)
            mapped == MapWeather(data)
            charted == {"date", "time", "max_temperature", "max", "min_temperature", "min"}
            passed == {"time", "publish_time", "temperature", "temp"}
<1>1. \A name : OptOk(Get(data, name)) /\ ObjectAt(Get(data, name)) = Under(data, name)
  BY FieldIsOk DEF Under
<1>2. /\ FieldTells(real, "temperature", Holds(Under(Under(data, "real"), "weather"), {"temperature"}))
      /\ FieldTells(real, "alerts", Holds(Under(Under(data, "real"), "warn"), {"alert"}))
      /\ StationOf(real) # <<>> => IsStation(Under(Under(data, "real"), "station"))
      /\ IsStation(Under(Under(data, "real"), "station"))
         => StationOf(real) # <<>> \/ real.warn # {}
  BY <1>1, RealTells
<1>3. /\ Counts(predict, IF predict.val = <<>> THEN 0 ELSE Len(predict.val[1].days),
                Holding(Get(Under(data, "predict"), "detail"), {"date"}))
      /\ StationOf(predict) # <<>> => IsStation(Under(Under(data, "predict"), "station"))
      /\ IsStation(Under(Under(data, "predict"), "station"))
         => StationOf(predict) # <<>> \/ predict.warn # {}
  BY <1>1, PredictTells
<1>4. /\ FieldTells(air, "aqi", Holds(Under(data, "air"), {"aqi", "AQI"}))
      /\ FieldTells(air, "level", Holds(Under(data, "air"), {"level", "aqi_level", "aq"}))
  BY <1>1, AirTells
<1>5. FieldTells(radar, "image", Holds(Under(data, "radar"), {"image", "img"}))
  BY <1>1, RadarTells
<1>6. /\ Counts(tempchart, Len(tempchart.val[1]), Holding(Get(data, "tempchart"), charted))
      /\ Counts(passedchart, Len(passedchart.val[1]), Holding(Get(data, "passedchart"), passed))
  BY <1>1, ChartsCount
<1>7. mapped = [station |-> station, snapshot |-> snapshot, warnings |-> warnings]
  BY DEF MapWeather
<1>8. mapped.station = station /\ mapped.snapshot = snapshot /\ mapped.warnings = warnings
  BY <1>7
<1>. HIDE DEF real, predict, air, tempchart, passedchart, climate, radar, mapped
<1>9. /\ snapshot.real = real.val /\ snapshot.predict = predict.val /\ snapshot.air = air.val
      /\ snapshot.tempchart = tempchart.val /\ snapshot.passedchart = passedchart.val
      /\ snapshot.radar = radar.val
  OBVIOUS
<1>10. \A s \in DOMAIN sections : sections[s].warn \subseteq warnings
  BY DEF WarningsOf
<1>11. /\ real.warn \subseteq warnings /\ predict.warn \subseteq warnings /\ air.warn \subseteq warnings
       /\ tempchart.warn \subseteq warnings /\ passedchart.warn \subseteq warnings
       /\ radar.warn \subseteq warnings
  <2>1. /\ DOMAIN sections = {"real", "predict", "air", "tempchart", "passedchart", "climate", "radar"}
        /\ sections["real"] = real /\ sections["predict"] = predict /\ sections["air"] = air
        /\ sections["tempchart"] = tempchart /\ sections["passedchart"] = passedchart
        /\ sections["radar"] = radar
    OBVIOUS
  <2>. HIDE DEF sections, warnings
  <2>. QED BY <1>10, <2>1
<1>. HIDE DEF sections, snapshot, warnings
<1>12. warnings = {} => /\ real.warn = {} /\ predict.warn = {} /\ air.warn = {}
                        /\ tempchart.warn = {} /\ passedchart.warn = {} /\ radar.warn = {}
  BY <1>11
<1>. DEFINE Same(kept, held) == (kept => held) /\ (warnings = {} => (held => kept))
            Count(kept, held) == kept <= held /\ (warnings = {} => kept = held)
            stations == {Under(Under(data, "real"), "station"), Under(Under(data, "predict"), "station")}
<1>13. /\ Same(Has(real.val, "temperature"), Holds(Under(Under(data, "real"), "weather"), {"temperature"}))
       /\ Same(Has(real.val, "alerts"), Holds(Under(Under(data, "real"), "warn"), {"alert"}))
  BY <1>2, <1>12 DEF FieldTells
<1>14. Same(station # <<>>, \E s \in stations : Holds(s, {"province"}) /\ Holds(s, {"city"}))
  BY <1>2, <1>3, <1>12 DEF IsStation
<1>15. /\ Same(Has(air.val, "aqi"), Holds(Under(data, "air"), {"aqi", "AQI"}))
       /\ Same(Has(air.val, "level"), Holds(Under(data, "air"), {"level", "aqi_level", "aq"}))
       /\ Same(Has(radar.val, "image"), Holds(Under(data, "radar"), {"image", "img"}))
  BY <1>4, <1>5, <1>12 DEF FieldTells
<1>. HIDE DEF charted, passed
<1>16. /\ Count(Len(tempchart.val[1]), Holding(Get(data, "tempchart"), charted))
       /\ Count(Len(passedchart.val[1]), Holding(Get(data, "passedchart"), passed))
       /\ Count(IF predict.val = <<>> THEN 0 ELSE Len(predict.val[1].days),
                Holding(Get(Under(data, "predict"), "detail"), {"date"}))
  BY <1>3, <1>6, <1>12 DEF Counts
<1>17. Faithful(data, mapped)
  BY <1>8, <1>9, <1>13, <1>14, <1>15, <1>16 DEF Faithful, charted, passed
<1>. QED BY <1>17 DEF mapped

\* What the provider returned for a weather call is what it mapped.
ReplyInv ==
    /\ call \in [kind : {"weather", "catalog", "resource"}, pc : {"connecting", "streaming", "done"},
                attempt : 1..MaxAttempts, got : 0..DownloadMax]
    /\ call.pc = "streaming" => call.kind = "resource"
    /\ call.kind = "weather" /\ reply # <<>> =>
          \E b \in WeatherBodies : /\ body = <<b>> /\ b.data.kind = "object"
                                   /\ reply = <<MapWeather(b.data.fields)>>

LEMMA CallsKeepReply == ReplyInv /\ [ProviderNext]_providerVars => ReplyInv'
<1>. SUFFICES ASSUME ReplyInv, [ProviderNext]_providerVars PROVE ReplyInv'
  OBVIOUS
<1>1. ASSUME NEW kind \in {"weather", "catalog", "resource"}, NEW own \in BOOLEAN, BeginCall(kind, own)
      PROVE  ReplyInv'
  BY <1>1, ProviderAssumption DEF ReplyInv, BeginCall
<1>2. CASE ConnectFails
  BY <1>2, ProviderAssumption DEF ReplyInv, ConnectFails, EndCall
<1>3. CASE RequestFails
  BY <1>3 DEF ReplyInv, RequestFails, EndCall
<1>4. ASSUME NEW b \in WeatherBodies, AnswerWeather(b) PROVE ReplyInv'
  BY <1>4 DEF ReplyInv, AnswerWeather, EndCall, DecodeWeatherResponse
<1>5. ASSUME NEW list \in CatalogBodies, AnswerCatalog(list) PROVE ReplyInv'
  BY <1>5 DEF ReplyInv, AnswerCatalog, EndCall
<1>6. ASSUME NEW length \in {0, DownloadMax + 1}, AnswerResource(length) PROVE ReplyInv'
  BY <1>6 DEF ReplyInv, AnswerResource, EndCall
<1>7. ASSUME NEW n \in ChunkSizes, Chunk(n) PROVE ReplyInv'
  BY <1>7, ProviderAssumption DEF ReplyInv, Chunk, EndCall
<1>8. ASSUME NEW image \in BOOLEAN, DownloadEnds(image) PROVE ReplyInv'
  BY <1>8 DEF ReplyInv, DownloadEnds, EndCall
<1>9. CASE UNCHANGED providerVars
  BY <1>9 DEF ReplyInv, providerVars
<1>. QED BY <1>1, <1>2, <1>3, <1>4, <1>5, <1>6, <1>7, <1>8, <1>9 DEF ProviderNext

\* Nothing upstream sent is lost silently, and nothing is made up.
THEOREM SnapshotsAreFaithful == ProviderSpec => []SnapshotFaithful
<1>1. ProviderInit => ReplyInv
  BY ProviderAssumption DEF ProviderInit, ReplyInv
<1>2. ReplyInv => SnapshotFaithful
  <2>1. SUFFICES ASSUME ReplyInv, call.kind = "weather", reply # <<>>
                 PROVE  Faithful(body[1].data.fields, reply[1])
    BY DEF SnapshotFaithful
  <2>2. PICK b \in WeatherBodies : /\ body = <<b>> /\ b.data.kind = "object"
                                   /\ reply = <<MapWeather(b.data.fields)>>
    BY <2>1 DEF ReplyInv
  <2>3. b.data \in Values
    BY JsonAssumption
  <2>4. FieldsOk(b.data.fields)
    <3>1. \A f \in DOMAIN b.data.fields : b.data.fields[f] \in PartsOf(b.data)
      BY <2>2 DEF PartsOf
    <3>. QED BY <2>3, <3>1, PartsAreValues DEF FieldsOk
  <2>5. body[1].data.fields = b.data.fields /\ reply[1] = MapWeather(b.data.fields)
    BY <2>2
  <2>. QED BY <2>4, <2>5, DocumentIsFaithful
<1>. QED BY <1>1, <1>2, CallsKeepReply, PTL DEF ProviderSpec
=============================================================================
