----------------------------- MODULE StationCli -----------------------------
(***************************************************************************)
(* The terminal program's commands, tui/src/command.rs: searching stations *)
(* page by page (tui/src/search.rs, common/src/pagination.rs) through the  *)
(* engine's ranked candidates (engine/src/handlers/fuzzy.rs), listing the  *)
(* configured ones, and the commands that read the configuration, change   *)
(* its stations and send all of it back.                                   *)
(*                                                                         *)
(* Provinces and cities are numbers in the order of their names.  What a   *)
(* query text matches is abstracted to a rank for every place: 0 equal,    *)
(* 1 prefix, 2 contained, 3 no match.                                      *)
(***************************************************************************)
EXTENDS FiniteLists, FiniteSets

CONSTANTS
    Clis,        \* concurrent processes
    Commands,    \* what they may be asked to do
    Catalogs,    \* sets of cities the engine may serve
    MaxPage,     \* MAX_RPC_PAGE_SIZE
    MaxOffset,   \* MAX_RPC_PAGE_OFFSET
    StationLists,\* initial configured stations
    MaxReloads,  \* bound: replacements of the catalog
    None         \* no filter, no path

Searching == {"search", "add", "once"}   \* the commands that search
Changing == {"add", "remove", "enable", "disable", "move"}
SearchesMade == {cmd.search : cmd \in {x \in Commands : x.op \in Searching}}

Places == [prov : Nat, city : Nat, id : Nat]
StationRows == [name : Nat \X Nat, enabled : BOOLEAN]
\* validate, conf/src/load.rs, refuses a configuration that names a station twice.
NamesUnique(list) == \A i, j \in DOMAIN list : list[i].name = list[j].name => i = j

ASSUME CliAssumption ==
    /\ MaxPage \in Nat \ {0} /\ MaxOffset \in Nat /\ MaxReloads \in Nat
    /\ \A places \in Catalogs : IsFiniteSet(places) /\ places \subseteq Places
    /\ \A list \in StationLists : list \in Seq(StationRows) /\ NamesUnique(list)
    /\ \A cmd \in Commands : cmd.op \in Searching \cup Changing \cup {"list"}
    /\ \A s \in SearchesMade :
          /\ s.sel \in Nat /\ s.limit \in Nat
          /\ \A places \in Catalogs : \A c \in places :
                s.provRank[c.prov] \in Nat /\ s.cityRank[c.city] \in Nat

VARIABLES
    catalog,     \* set of [prov, city, id]
    reloads,
    stationList, \* the configured stations, seq of [name, enabled]
    cli          \* the processes

cliVars == <<catalog, reloads, stationList, cli>>

CliIdle == [pc |-> "idle", cmd |-> None, offset |-> 0, requests |-> 0, found |-> <<>>,
            list |-> <<>>, disturbed |-> FALSE]

CliInit ==
    /\ catalog \in Catalogs /\ reloads = 0
    /\ stationList \in StationLists
    /\ cli = [p \in Clis |-> CliIdle]

(***************************************************************************)
(* The engine's candidates.                                                *)
(***************************************************************************)
\* canonical_station_name: a city that bears its province's name, in the short
\* (0) or the full spelling (1), is named after the province alone.
NameOf(prov, city) == <<prov, IF city <= 1 THEN 0 ELSE city>>

\* search_match_rank: a city is found by its own values and by its province's.
RankOf(s, prov, city) == Min({s.provRank[prov], s.cityRank[city]})

\* search_candidates, before sorting: each matching city is a station and a city.
Candidates(places, s) ==
    LET cities == {c \in places : (s.prov = None \/ c.prov = s.prov) /\ RankOf(s, c.prov, c.city) < 3}
        provs == {p \in {c.prov : c \in places} : (s.prov = None \/ p = s.prov) /\ s.provRank[p] < 3}
    IN {[kind |-> k, rank |-> RankOf(s, c.prov, c.city), prov |-> c.prov, city |-> c.city, id |-> c.id] :
           k \in {0, 1}, c \in cities}
       \union {[kind |-> 2, rank |-> s.provRank[p], prov |-> p, city |-> 0, id |-> 0] : p \in provs}

\* candidate_cmp, candidate_stable_cmp: kind, rank, then names and codes.
OrderKey(x) ==
    <<x.kind, x.rank, x.prov, IF x.kind = 0 THEN NameOf(x.prov, x.city)[2] ELSE 0, x.city, x.id>>
Before(x, y) ==
    LET a == OrderKey(x) b == OrderKey(y)
    IN \E i \in DOMAIN a : a[i] < b[i] /\ \A j \in 1..(i - 1) : a[j] = b[j]

\* candidate_key: a station's identity is its canonical name.
KeyOf(x) == CASE x.kind = 0 -> <<0, NameOf(x.prov, x.city)>>
              [] x.kind = 1 -> <<1, <<x.prov, x.city>> >>
              [] x.kind = 2 -> <<2, <<x.prov, 0>> >>

\* The first item of every key, in order.
Distinct(items) ==
    Picked(items, {i \in 1..Len(items) :
                      \A j \in 1..(i - 1) : KeyOf(items[j]) # KeyOf(items[i])})

Ranked(S) == [i \in 1..Cardinality(S) |->
                 CHOOSE x \in S : Cardinality({y \in S : Before(y, x)}) = i - 1]

SearchCandidates ==
    [places \in Catalogs |-> [s \in SearchesMade |-> Distinct(Ranked(Candidates(places, s)))]]

\* paginate: a slice, whether there is more, and where it goes on.
Paginate(all, offset, size) ==
    LET start == Min({Len(all), offset})
        end == Min({Len(all), start + size})
    IN [items |-> SubSeq(all, start + 1, end), more |-> end < Len(all), next |-> end]

\* normalize_pagination: what the engine refuses to page.
EngineAccepts(offset, size) == offset <= MaxOffset /\ size <= MaxPage

\* configured_stations_page.
ConfiguredPage(offset, size) == Paginate(stationList, offset, size)

(***************************************************************************)
(* The client's search.                                                    *)
(***************************************************************************)
InProvince(s, x) == s.prov = None \/ x.prov = s.prov
NameMatches(s, x) == s.station = None \/ x.city = s.station

\* retain_matching_search_results: the command's filters.  A path (text with
\* '-') asks for the station of this name and for nothing else.
Passes(s, x) ==
    CASE x.kind = 0 -> /\ InProvince(s, x) /\ NameMatches(s, x)
                       /\ s.city = None \/ x.city = s.city
                       /\ s.path = None \/ NameOf(x.prov, x.city) = s.path
      [] x.kind = 1 -> s.path = None /\ InProvince(s, x) /\ (s.city = None \/ x.city = s.city)
      [] x.kind = 2 -> s.path = None /\ InProvince(s, x)

Matching(s, items) == Only(items, {x \in ToSet(items) : Passes(s, x)})

OfKind(items, k) == Only(items, {x \in ToSet(items) : x.kind = k})

\* The items but the cities of the stations shown.
WithoutCitiesOf(shown, items) ==
    Only(items, {x \in ToSet(items) : ~(x.kind = 1 /\ \E y \in ToSet(shown) :
                                            y.prov = x.prov /\ y.city = x.city)})

\* Defect considered: a city is hidden only by a station of its own page.
DedupSearch_PageOnly(combined, page) ==
    WithoutCitiesOf(OfKind(page, 0), Distinct(combined \o page))

\* append_search_results, dedup_search_results: one item per key, and no city
\* where a station is shown.
DedupSearch(combined, page) ==
    LET u == Distinct(combined \o page)
    IN WithoutCitiesOf(OfKind(u, 0), u)

\* target: the number of the wanted station ("name.N"), or the limit.
TargetOf(s) == IF s.sel # 0 THEN s.sel ELSE s.limit
TargetReached(s, found) == (IF s.sel # 0 THEN Len(OfKind(found, 0)) ELSE Len(found)) >= TargetOf(s)

\* finalize_search_results.
Finalized(s, found) ==
    IF s.sel # 0 /\ s.sel <= Len(OfKind(found, 0)) THEN <<OfKind(found, 0)[s.sel]>>
    ELSE LET all == OfKind(found, 0) \o OfKind(found, 1) \o OfKind(found, 2)
         IN SubSeq(all, 1, Min({Len(all), s.limit}))

\* page_size_for_target first, then the largest page.
SizeOfPage(c) ==
    IF c.requests > 0 \/ c.cmd.op = "list" THEN MaxPage
    ELSE Min({TargetOf(c.cmd.search), MaxPage})

MaxPaginated == MaxOffset \div MaxPage + 2

(***************************************************************************)
(* Commands.                                                               *)
(***************************************************************************)
SetCli(p, c) == cli' = [cli EXCEPT ![p] = c]
BeginCommand(p, cmd) ==
    /\ cli[p].pc = "idle"
    /\ SetCli(p, [CliIdle EXCEPT !.cmd = cmd,
                  !.pc = CASE cmd.op = "list" -> "paging"
                           [] cmd.op \in Searching -> IF TargetOf(cmd.search) = 0 THEN "found" ELSE "paging"
                           [] OTHER -> "read"])
    /\ UNCHANGED <<catalog, reloads, stationList>>

\* PageCursor::advance after a page, and the bound request() puts on the next one.
AdvanceTo(c, page, stop) ==
    LET refused == page.more /\ (page.next <= c.offset \/ page.next > MaxOffset)
    IN [c EXCEPT !.requests = @ + 1,
                 !.offset = IF page.more /\ ~refused THEN page.next ELSE @,
                 !.pc = CASE refused -> "failed"
                          [] ~refused /\ (~page.more \/ stop) -> "found"
                          [] OTHER -> IF c.requests + 1 < MaxPaginated THEN "paging" ELSE "exhausted"]

\* One turn of execute_search_with's loop: a request, its page filtered and
\* joined to the earlier ones.
SearchPage(p) ==
    /\ cli[p].pc = "paging" /\ cli[p].cmd.op \in Searching
    /\ LET c == cli[p]
           s == c.cmd.search
           page == Paginate(SearchCandidates[catalog][s], c.offset, SizeOfPage(c))
           found == DedupSearch(c.found, Matching(s, page.items))
       IN SetCli(p, IF ~EngineAccepts(c.offset, SizeOfPage(c)) THEN [c EXCEPT !.pc = "refused"]
                    ELSE IF s.prov # None /\ \A e \in catalog : e.prov # s.prov
                    THEN [c EXCEPT !.pc = "failed"]
                    ELSE AdvanceTo([c EXCEPT !.found = found], page, TargetReached(s, found)))
    /\ UNCHANGED <<catalog, reloads, stationList>>

\* collect_configured_stations.
ListPage(p) ==
    /\ cli[p].pc = "paging" /\ cli[p].cmd.op = "list"
    /\ LET c == cli[p]
           page == ConfiguredPage(c.offset, SizeOfPage(c))
       IN SetCli(p, IF ~EngineAccepts(c.offset, SizeOfPage(c)) THEN [c EXCEPT !.pc = "refused"]
                    ELSE AdvanceTo([c EXCEPT !.list = @ \o page.items], page, FALSE))
    /\ UNCHANGED <<catalog, reloads, stationList>>

\* The output of a search or listing.
ShowResult(p) ==
    /\ cli[p].pc = "found" /\ cli[p].cmd.op \in {"search", "list"}
    /\ LET c == cli[p]
           result == IF c.cmd.op = "list" THEN <<>> ELSE Finalized(c.cmd.search, c.found)
       IN SetCli(p, [c EXCEPT !.found = result, !.pc = "done"])
    /\ UNCHANGED <<catalog, reloads, stationList>>

\* upsert_search_result goes on with exactly one station, unique_station_name.
ChooseToAdd(p) ==
    /\ cli[p].pc = "found" /\ cli[p].cmd.op = "add"
    /\ LET result == Finalized(cli[p].cmd.search, cli[p].found)
       IN SetCli(p, [cli[p] EXCEPT !.found = result,
                                   !.pc = IF Len(OfKind(result, 0)) = 1 THEN "read" ELSE "failed"])
    /\ UNCHANGED <<catalog, reloads, stationList>>

\* resolve_address asks for the weather of the one station found.
ResolveAddress(p) ==
    /\ cli[p].pc = "found" /\ cli[p].cmd.op = "once"
    /\ LET result == Finalized(cli[p].cmd.search, cli[p].found)
       IN SetCli(p, [cli[p] EXCEPT !.found = result,
                                   !.pc = IF Len(OfKind(result, 0)) = 1 THEN "done" ELSE "failed"])
    /\ UNCHANGED <<catalog, reloads, stationList>>

\* current_config.
ReadConfig(p) ==
    /\ cli[p].pc = "read"
    /\ SetCli(p, [cli[p] EXCEPT !.pc = "write", !.list = stationList])
    /\ UNCHANGED <<catalog, reloads, stationList>>

\* resolve_station_selector: a list index, or a name that only one station has.
Selected(list, sel) ==
    IF sel.name = None THEN {sel.index} \intersect DOMAIN list
    ELSE {i \in DOMAIN list : list[i].name = sel.name}

\* upsert_station.
Upserted(list, name) ==
    IF \E i \in DOMAIN list : list[i].name = name
    THEN [list EXCEPT ![CHOOSE i \in DOMAIN list : list[i].name = name].enabled = TRUE]
    ELSE Append(list, [name |-> name, enabled |-> TRUE])

\* move_station.
MovedStation(list, from, to) == InsertAt(RemoveAt(list, from), to, list[from])

\* The lists the command may send; none if its selector names no single station.
Changed(c) ==
    LET one(sel) == {i \in Selected(c.list, sel) : Cardinality(Selected(c.list, sel)) = 1}
    IN CASE c.cmd.op = "add" -> {Upserted(c.list, NameOf(OfKind(c.found, 0)[1].prov, OfKind(c.found, 0)[1].city))}
         [] c.cmd.op = "remove" -> {RemoveAt(c.list, i) : i \in one(c.cmd.sel)}
         [] c.cmd.op = "enable" -> {[c.list EXCEPT ![i].enabled = TRUE] : i \in one(c.cmd.sel)}
         [] c.cmd.op = "disable" -> {[c.list EXCEPT ![i].enabled = FALSE] : i \in one(c.cmd.sel)}
         [] c.cmd.op = "move" -> {MovedStation(c.list, i, j) : i \in one(c.cmd.sel), j \in one(c.cmd.to)}

\* History: the pages of an output under way are no longer of one state.
Disturb(procs, ops) ==
    [p \in Clis |-> IF cli[p].pc \in {"paging", "found"} /\ cli[p].cmd.op \in ops /\ p \notin procs
                    THEN [cli[p] EXCEPT !.disturbed = TRUE] ELSE cli[p]]

\* update_config: the engine replaces its configuration by the one sent.
WriteConfig(p) ==
    /\ cli[p].pc = "write" /\ Changed(cli[p]) # {}
    /\ stationList' \in Changed(cli[p])
    /\ cli' = [Disturb({p}, {"list"}) EXCEPT ![p].pc = "done"]
    /\ UNCHANGED <<catalog, reloads>>

SelectorFails(p) ==
    /\ cli[p].pc = "write" /\ Changed(cli[p]) = {}
    /\ SetCli(p, [cli[p] EXCEPT !.pc = "failed"])
    /\ UNCHANGED <<catalog, reloads, stationList>>

\* An RPC fails: the command ends with its error.
RpcFails(p) ==
    /\ cli[p].pc \in {"paging", "read", "write"}
    /\ SetCli(p, [cli[p] EXCEPT !.pc = "failed"])
    /\ UNCHANGED <<catalog, reloads, stationList>>

\* The engine's catalog is replaced.
CatalogReloads ==
    /\ reloads < MaxReloads /\ reloads' = reloads + 1
    /\ catalog' \in Catalogs \ {catalog}
    /\ cli' = Disturb({}, Searching)
    /\ UNCHANGED stationList

CliNext ==
    \/ \E p \in Clis :
          \/ \E cmd \in Commands : BeginCommand(p, cmd)
          \/ SearchPage(p) \/ ListPage(p) \/ ShowResult(p)
          \/ ChooseToAdd(p) \/ ResolveAddress(p)
          \/ ReadConfig(p) \/ WriteConfig(p) \/ SelectorFails(p) \/ RpcFails(p)
    \/ CatalogReloads

CliSpec == CliInit /\ [][CliNext]_cliVars

(***************************************************************************)
(* Properties.                                                             *)
(***************************************************************************)
CliTypeOK ==
    /\ catalog \in Catalogs /\ reloads \in 0..MaxReloads
    /\ \A p \in Clis : /\ cli[p].pc \in {"idle", "paging", "found", "read", "write", "done", "failed", "exhausted", "refused"}
                       /\ cli[p].offset \in 0..MaxOffset /\ cli[p].requests \in 0..MaxPaginated

\* What one request without pages would have found.
Unpaged(s) ==
    Finalized(s, DedupSearch(<<>>, Matching(s, SearchCandidates[catalog][s])))

\* A search or listing put together from pages is what one unpaged request gives,
\* if nothing it reads changed meanwhile.  Whatever changed, a search finds no
\* station twice, the engine refuses no page, and the request bound of
\* pagination.rs, which its comment calls sufficient, is never met.  Nothing is
\* said of a listing whose pages straddle a change: the client only appends them,
\* so that it may show a station twice or not at all.
PagesCompose ==
    \A p \in Clis :
       LET c == cli[p]
       IN /\ c.pc \notin {"exhausted", "refused"}
          /\ c.pc = "done" /\ c.cmd.op = "search" =>
                \A i, j \in DOMAIN c.found : i # j => KeyOf(c.found[i]) # KeyOf(c.found[j])
          /\ c.pc = "found" /\ ~c.disturbed =>
                IF c.cmd.op # "list" THEN Finalized(c.cmd.search, c.found) = Unpaged(c.cmd.search)
                ELSE c.list = stationList
=============================================================================
