------------------------------ MODULE Catalog ------------------------------
(***************************************************************************)
(* The provider catalog of engine/src/handlers/catalog.rs and fuzzy.rs:    *)
(* provinces, the cities of each province and the station mappings derived *)
(* from them, cached in the tables of db/src/storage.rs.                   *)
(*                                                                         *)
(* A request needs the province list, then the cities of one, some or all  *)
(* provinces.  Each of these catalogs (a key) is read from the cache while *)
(* it is fresh; otherwise the requests that need it join one flight whose  *)
(* leader rechecks the cache, takes one of the upstream permits, fetches,  *)
(* and replaces the rows.  A populated catalog of all provinces is itself  *)
(* the result of a flight.  Any request may be cancelled at an await by    *)
(* the timeout of server.rs.  A city is identified by its provider code,   *)
(* the primary key of provider_cities.                                     *)
(***************************************************************************)
EXTENDS Naturals, FiniteSets

CONSTANTS
    MaxRequests,  \* bound: requests made in a behaviour
    Kinds,        \* the kinds of request made
    Provinces,    \* provider province codes
    Cities,       \* provider city codes
    Wanted,       \* the city "resolve" looks for
    Hint,         \* the province "cities" asks for and Wanted's name hints at
    Permits,      \* MAX_CONCURRENT_CATALOG_FETCHES
    MaxChanges    \* bound: catalog changes at the provider and expired TTLs

Requests == 1..MaxRequests   \* numbered in the order they are made
AllKinds == {"provinces", "cities", "fuzzy", "resolve"}
None == "none"
ProvKey == "provinces"

ASSUME CatalogAssumption ==
    /\ Kinds \subseteq AllKinds /\ Wanted \in Cities /\ Hint \in Provinces
    /\ MaxRequests \in Nat /\ Permits \in Nat \ {0} /\ MaxChanges \in Nat
    /\ {None, ProvKey} \intersect Provinces = {}

VARIABLES
    upProvinces, upCity, changes,   \* the provider: its provinces, each city's province
    provRows, provState,            \* provider_provinces and its catalog_cache_state
    cityOf, scope,                  \* provider_cities and the 'cities' cache states
    mapping,                        \* provider_station_mappings: a city's province
    job,                            \* job[r][k]: request r's work on catalog k
    req                             \* the requests

upstream == <<upProvinces, upCity, changes>>
db == <<provRows, provState, cityOf, scope, mapping>>
catalogVars == <<upstream, db, job, req>>

Keys == {ProvKey} \union Provinces
Freshness == {"none", "stale", "fresh"}
Leading == {"permit", "fetch", "write", "reread"}

NoJob == [st |-> "none", data |-> {}, stale |-> FALSE]
Done(data) == [st |-> "done", data |-> data, stale |-> FALSE]
NoScope == [state |-> "none", count |-> 0]
Ended == {"answered", "failed"}   \* a cancelled request is answered with a timeout error
Idle == [kind |-> "none", pc |-> "idle", provs |-> {}, lead |-> FALSE, found |-> {}]

TypeOK ==
    /\ upProvinces \subseteq Provinces /\ upCity \in [Cities -> Provinces]
    /\ changes \in 0..MaxChanges
    /\ provRows \subseteq Provinces /\ provState \in Freshness
    /\ cityOf \in [Cities -> Provinces \union {None}]
    /\ scope \in [Provinces -> [state : Freshness, count : 0..Cardinality(Cities)]]
    /\ mapping \in [Cities -> Provinces \union {None}]
    /\ job \in [Requests -> [Keys -> [st : {"none", "wait", "done", "failed"} \union Leading,
                                      data : SUBSET Provinces \union SUBSET Cities, stale : BOOLEAN]]]
    /\ req \in [Requests -> [kind : AllKinds \union {"none"},
                             pc : {"idle", "lookup", "popwait", "provinces", "populate",
                                   "scopes", "mapping"} \union Ended,
                             provs : SUBSET Provinces, lead : BOOLEAN,
                             found : SUBSET (Cities \X Provinces)]]

\* The database is empty, or an earlier population left its image there.
Init ==
    /\ upProvinces = Provinces /\ upCity = [c \in Cities |-> Hint] /\ changes = 0
    /\ mapping = [c \in Cities |-> None]
    /\ \/ /\ provRows = {} /\ provState = "none"
          /\ cityOf = [c \in Cities |-> None] /\ scope = [p \in Provinces |-> NoScope]
       \/ /\ provRows = upProvinces /\ provState = "stale" /\ cityOf = upCity
          /\ scope = [p \in Provinces |->
                        [state |-> "stale", count |-> Cardinality({c \in Cities : upCity[c] = p})]]
    /\ job = [r \in Requests |-> [k \in Keys |-> NoJob]]
    /\ req = [r \in Requests |-> Idle]

(***************************************************************************)
(* The cache tables.                                                       *)
(***************************************************************************)
CitiesIn(p) == {c \in Cities : cityOf[c] = p}

\* validate_catalog_count and the orphan check of get_all_provider_city_scopes.
ScopeReadable(p) == scope[p].count = Cardinality(CitiesIn(p))

CacheState(k) == IF k = ProvKey THEN provState ELSE scope[k].state
Rows(k) == IF k = ProvKey THEN provRows ELSE CitiesIn(k)
Readable(k) == CacheState(k) = "none" \/ k = ProvKey \/ ScopeReadable(k)

\* replace_provider_provinces: what belongs to a province no longer listed goes.
ReplaceProvinces(S) ==
    /\ provRows' = S /\ provState' = "fresh"
    /\ cityOf' = [c \in Cities |-> IF cityOf[c] \in S THEN cityOf[c] ELSE None]
    /\ scope' = [p \in Provinces |-> IF p \in S THEN scope[p] ELSE NoScope]
    /\ mapping' = [c \in Cities |-> IF mapping[c] \in S THEN mapping[c] ELSE None]

\* The insert violates the primary key when another scope still has one of the
\* cities: the transaction is then rolled back as a whole.
Conflicts(p, S) == \E c \in S : cityOf[c] \notin {p, None}

\* Defect considered: INSERT OR REPLACE takes the row from the other scope.
ReplaceCities_Steals(p, S) ==
    /\ cityOf' = [c \in Cities |-> IF c \in S THEN p ELSE IF cityOf[c] = p THEN None ELSE cityOf[c]]
    /\ scope' = [scope EXCEPT ![p] = [state |-> "fresh", count |-> Cardinality(S)]]
    /\ mapping' = [c \in Cities |-> IF mapping[c] = p THEN None ELSE mapping[c]]
    /\ UNCHANGED <<provRows, provState>>

\* replace_provider_cities: the province's mappings go with its old rows.
ReplaceCities(p, S) ==
    /\ ~Conflicts(p, S)
    /\ cityOf' = [c \in Cities |-> IF c \in S THEN p ELSE IF cityOf[c] = p THEN None ELSE cityOf[c]]
    /\ scope' = [scope EXCEPT ![p] = [state |-> "fresh", count |-> Cardinality(S)]]
    /\ mapping' = [c \in Cities |-> IF mapping[c] = p THEN None ELSE mapping[c]]
    /\ UNCHANGED <<provRows, provState>>

\* put_provider_station_mapping: the upsert of one display name.
PutMapping(c, p) == mapping' = [mapping EXCEPT ![c] = p]

(***************************************************************************)
(* One catalog: cache, flight, permit, fetch, replacement.                 *)
(***************************************************************************)
SetJob(r, k, j) == job' = [job EXCEPT ![r][k] = j]

\* The flight's result reaches its leader and everyone who joined it.
Finish(k, j) ==
    job' = [q \in Requests |->
              IF job[q][k].st \in Leading \union {"wait"} THEN [job[q] EXCEPT ![k] = j] ELSE job[q]]

Failed == [NoJob EXCEPT !.st = "failed"]

\* load_provider_city_scopes keeps at most Permits scope tasks running and
\* starts none after a failure.
MayStart(r, k) ==
    \/ req[r].pc = "provinces" /\ k = ProvKey
    \/ /\ req[r].pc = "scopes" /\ k \in req[r].provs
       /\ Cardinality({j \in Keys : job[r][j].st \in Leading \union {"wait"}}) < Permits
       /\ \A j \in Keys : job[r][j].st # "failed"

\* provider_provinces, provider_cities_by_code: a fresh cache answers, otherwise
\* the request joins the flight.
CheckCache(r, k) ==
    /\ job[r][k].st = "none" /\ MayStart(r, k)
    /\ SetJob(r, k, CASE ~Readable(k) -> Failed
                      [] Readable(k) /\ CacheState(k) = "fresh" -> Done(Rows(k))
                      [] OTHER -> [NoJob EXCEPT !.st = "wait"])
    /\ UNCHANGED <<upstream, db, req>>

\* get_or_init: the first participant initialises, and when it is cancelled
\* another one does.  The leader rechecks the cache.
Lead(r, k) ==
    /\ job[r][k].st = "wait"
    /\ \A q \in Requests : job[q][k].st \notin Leading
    /\ IF ~Readable(k) THEN Finish(k, Failed)
       ELSE IF CacheState(k) = "fresh" THEN Finish(k, Done(Rows(k)))
       ELSE SetJob(r, k, [st |-> "permit", data |-> Rows(k), stale |-> CacheState(k) # "none"])
    /\ UNCHANGED <<upstream, db, req>>

Fetching == {x \in Requests \X Keys : job[x[1]][x[2]].st = "fetch"}

AcquirePermit(r, k) ==
    /\ job[r][k].st = "permit" /\ Cardinality(Fetching) < Permits
    /\ SetJob(r, k, [job[r][k] EXCEPT !.st = "fetch"])
    /\ UNCHANGED <<upstream, db, req>>

FetchSucceeds(r, k) ==
    /\ job[r][k].st = "fetch"
    /\ SetJob(r, k, [st |-> "write", stale |-> FALSE,
                     data |-> IF k = ProvKey THEN upProvinces
                              ELSE {c \in Cities : upCity[c] = k}])
    /\ UNCHANGED <<upstream, db, req>>

\* Defect considered: a fetch with nothing stale to serve is tried again, without limit.
FetchFails_Retries(r, k) ==
    /\ job[r][k].st = "fetch"
    /\ IF job[r][k].stale THEN Finish(k, Done(job[r][k].data))
       ELSE SetJob(r, k, [job[r][k] EXCEPT !.st = "permit"])
    /\ UNCHANGED <<upstream, db, req>>

\* The provider fails, times out or answers what validation refuses: stale
\* items are served if there were any.
FetchFails(r, k) ==
    /\ job[r][k].st = "fetch"
    /\ Finish(k, IF job[r][k].stale THEN Done(job[r][k].data) ELSE Failed)
    /\ UNCHANGED <<upstream, db, req>>

Replace(r, k) ==
    /\ job[r][k].st = "write"
    /\ IF k = ProvKey THEN ReplaceProvinces(job[r][k].data) ELSE ReplaceCities(k, job[r][k].data)
    /\ SetJob(r, k, [job[r][k] EXCEPT !.st = "reread"])
    /\ UNCHANGED <<upstream, req>>

\* The write fails, of itself or on the primary key: what was fetched is still served.
ReplaceFails(r, k) ==
    /\ job[r][k].st = "write"
    /\ Finish(k, Done(job[r][k].data))
    /\ UNCHANGED <<upstream, db, req>>

\* The rows just written are read again, or the fetched ones served instead.
Reread(r, k) ==
    /\ job[r][k].st = "reread"
    /\ Finish(k, Done(IF Readable(k) /\ CacheState(k) # "none" THEN Rows(k) ELSE job[r][k].data))
    /\ UNCHANGED <<upstream, db, req>>

(***************************************************************************)
(* Requests.                                                               *)
(***************************************************************************)
NoJobs == [k \in Keys |-> NoJob]
SetReq(r, q) == req' = [req EXCEPT ![r] = q]

\* End the request; its tasks are aborted and its leases dropped.
End(r, pc) ==
    /\ SetReq(r, [Idle EXCEPT !.pc = pc])
    /\ job' = [job EXCEPT ![r] = NoJobs]

\* The result of the population flight reaches the requests waiting for it.
Handed(pc, found) ==
    [q \in Requests |->
        IF req[q].pc = "popwait"
        THEN [Idle EXCEPT !.kind = IF pc = "failed" THEN "none" ELSE req[q].kind,
                          !.pc = pc, !.found = found]
        ELSE req[q]]

\* Fail, and with it the population flight if the request leads it.
Fail(r) ==
    /\ req' = [(IF req[r].lead THEN Handed("failed", {}) ELSE req) EXCEPT
                 ![r] = [Idle EXCEPT !.pc = "failed"]]
    /\ job' = [job EXCEPT ![r] = NoJobs]

Begin(r, kind) ==
    /\ req[r].pc = "idle" /\ \A q \in 1..(r - 1) : req[q].pc # "idle"
    /\ SetReq(r, [Idle EXCEPT !.kind = kind,
                              !.pc = CASE kind = "resolve" -> "lookup"
                                       [] kind = "fuzzy" -> "popwait"
                                       [] OTHER -> "provinces"])
    /\ UNCHANGED <<upstream, db, job>>

\* station_by_name: a stored mapping answers without the catalog.
Lookup(r) ==
    /\ req[r].pc = "lookup"
    /\ IF mapping[Wanted] # None
       THEN End(r, "answered")
       ELSE SetReq(r, [req[r] EXCEPT !.pc = "provinces"]) /\ UNCHANGED job
    /\ UNCHANGED <<upstream, db>>

\* provider_catalog runs the province step inside the population flight,
\* provider_catalog_from_provinces brings its provinces along.
LeadPopulation(r) ==
    /\ req[r].pc = "popwait" /\ \A q \in Requests : ~req[q].lead
    /\ SetReq(r, [req[r] EXCEPT !.lead = TRUE,
                                !.pc = IF req[r].kind = "fuzzy" THEN "provinces" ELSE "populate"])
    /\ UNCHANGED <<upstream, db, job>>

ProvincesReady(r) ==
    /\ req[r].pc = "provinces" /\ job[r][ProvKey].st = "done"
    /\ LET S == job[r][ProvKey].data
           goto(pc, provs) == /\ SetReq(r, [req[r] EXCEPT !.pc = pc, !.provs = provs])
                              /\ SetJob(r, ProvKey, NoJob)
       IN CASE req[r].kind = "provinces" -> End(r, "answered")
            [] req[r].kind = "fuzzy" -> goto("populate", S)
            [] req[r].kind = "cities" -> IF Hint \in S THEN goto("scopes", {Hint}) ELSE Fail(r)
            [] OTHER -> IF Hint \in S THEN goto("scopes", {Hint})   \* "resolve"
                        ELSE goto("popwait", S)
    /\ UNCHANGED <<upstream, db>>

ProvincesFail(r) ==
    /\ req[r].pc = "provinces" /\ job[r][ProvKey].st = "failed"
    /\ Fail(r)
    /\ UNCHANGED <<upstream, db>>

\* populate_provider_catalog: one read of all scopes, the fresh ones are taken
\* from it.  It fails as a whole when one scope does not match its state.
Populate(r) ==
    /\ req[r].pc = "populate"
    /\ IF \E p \in Provinces : ~ScopeReadable(p) THEN Fail(r)
       ELSE /\ SetReq(r, [req[r] EXCEPT !.pc = "scopes"])
            /\ job' = [job EXCEPT ![r] = [k \in Keys |->
                  IF k \in req[r].provs /\ CacheState(k) = "fresh" THEN Done(Rows(k)) ELSE NoJob]]
    /\ UNCHANGED <<upstream, db>>

Pairs(r) == UNION {{<<c, p>> : c \in job[r][p].data} : p \in req[r].provs}

\* flatten_city_scopes and validate_population_city_codes, then what each kind
\* does with the catalog.
ScopesReady(r) ==
    /\ req[r].pc = "scopes" /\ \A p \in req[r].provs : job[r][p].st = "done"
    /\ LET found == Pairs(r)
           unique == \A x, y \in found : x[1] = y[1] => x = y
       IN IF ~unique /\ req[r].kind # "cities" THEN Fail(r)
          ELSE IF req[r].kind = "cities" THEN End(r, "answered")
          ELSE /\ req' = [(IF req[r].lead THEN Handed("mapping", found) ELSE req)
                            EXCEPT ![r] = [Idle EXCEPT !.kind = req[r].kind, !.pc = "mapping",
                                                       !.found = found]]
               /\ job' = [job EXCEPT ![r] = NoJobs]
    /\ UNCHANGED <<upstream, db>>

\* One failed scope aborts the others and fails the request.
ScopeFails(r) ==
    /\ req[r].pc = "scopes" /\ \E p \in req[r].provs : job[r][p].st = "failed"
    /\ Fail(r)
    /\ UNCHANGED <<upstream, db>>

\* cache_station_mapping, a database write per station: the matches of the
\* searched page, or the station that was looked for.
CacheMapping(r) ==
    /\ req[r].pc = "mapping"
    /\ LET todo == IF req[r].kind = "fuzzy" THEN req[r].found
                   ELSE {x \in req[r].found : x[1] = Wanted}
       IN IF todo = {}
          THEN End(r, IF req[r].kind = "fuzzy" THEN "answered" ELSE "failed") /\ UNCHANGED db
          ELSE \E x \in todo :
                 /\ PutMapping(x[1], x[2])
                 /\ IF req[r].kind = "fuzzy"
                    THEN SetReq(r, [req[r] EXCEPT !.found = todo \ {x}]) /\ UNCHANGED job
                    ELSE End(r, "answered")
                 /\ UNCHANGED <<provRows, provState, cityOf, scope>>
    /\ UNCHANGED upstream

\* The request timeout drops the handler: tasks, permits and leases go with it.
Cancel(r) ==
    /\ req[r].pc \notin Ended \union {"idle"}
    /\ End(r, "failed")
    /\ UNCHANGED <<upstream, db>>

(***************************************************************************)
(* The environment: time passes the TTL, the provider's catalog changes.   *)
(***************************************************************************)
Expire(k) ==
    /\ changes < MaxChanges /\ changes' = changes + 1 /\ CacheState(k) = "fresh"
    /\ IF k = ProvKey THEN provState' = "stale" /\ UNCHANGED scope
       ELSE scope' = [scope EXCEPT ![k].state = "stale"] /\ UNCHANGED provState
    /\ UNCHANGED <<upProvinces, upCity, provRows, cityOf, mapping, job, req>>

Change ==
    /\ changes < MaxChanges /\ changes' = changes + 1
    /\ \/ \E c \in Cities, p \in Provinces : upCity' = [upCity EXCEPT ![c] = p] /\ UNCHANGED upProvinces
       \/ \E S \in SUBSET Provinces : upProvinces' = S /\ UNCHANGED upCity
    /\ UNCHANGED <<db, job, req>>

RequestStep(r) ==
    \/ Lookup(r) \/ LeadPopulation(r) \/ ProvincesReady(r) \/ ProvincesFail(r) \/ Populate(r)
    \/ ScopesReady(r) \/ ScopeFails(r) \/ CacheMapping(r)

JobStep(r, k) ==
    \/ CheckCache(r, k) \/ Lead(r, k) \/ AcquirePermit(r, k)
    \/ FetchSucceeds(r, k) \/ FetchFails(r, k) \/ Replace(r, k) \/ ReplaceFails(r, k)
    \/ Reread(r, k)

Next ==
    \/ \E r \in Requests :
          \/ \E kind \in Kinds : Begin(r, kind)
          \/ RequestStep(r)
          \/ \E k \in Keys : JobStep(r, k)
          \/ Cancel(r)
    \/ \E k \in Keys : Expire(k)
    \/ Change

\* The runtime polls every task that can go on, a fetch ends by its own timeout.
Fairness ==
    \A r \in Requests :
       /\ WF_catalogVars(RequestStep(r))
       /\ \A k \in Keys : WF_catalogVars(JobStep(r, k))

Spec == Init /\ [][Next]_catalogVars /\ Fairness

(***************************************************************************)
(* Properties.                                                             *)
(***************************************************************************)
\* Every scope's cache state counts exactly the city rows of its province and
\* no city row is without one, whatever replacements of provinces and cities
\* interleave: get_provider_cities and get_all_provider_city_scopes
\* (storage.rs:406, 451) fail otherwise, and no refresh could repair them.
ScopesReadable == \A p \in Provinces : ScopeReadable(p)

\* Every request is answered or fails, without the timeout having to end it:
\* flights within a flight, scope tasks and permits never wait on each other
\* for ever, also when other requests are cancelled in the middle.
RequestsEnd == \A r \in Requests : req[r].pc # "idle" ~> req[r].pc \in Ended

(***************************************************************************)
(* Why ScopesReadable holds: with it, an inductive invariant.              *)
(***************************************************************************)
\* What a leader is about to write into a province's scope are cities.
WriteInv ==
    /\ DOMAIN cityOf = Cities /\ DOMAIN scope = Provinces
    /\ \A p \in Provinces : DOMAIN scope[p] = {"state", "count"}
    /\ DOMAIN job = Requests /\ \A r \in Requests : DOMAIN job[r] = Keys
    /\ \A r \in Requests, k \in Keys :
          /\ DOMAIN job[r][k] = {"st", "data", "stale"}
          /\ job[r][k].st = "write" /\ k # ProvKey => job[r][k].data \subseteq Cities
=============================================================================
