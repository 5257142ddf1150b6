-------------------------------- MODULE Tui --------------------------------
(***************************************************************************)
(* The interactive terminal renderer (tui.rs, tui/state.rs, tui/events.rs, *)
(* tui/effects.rs).  One loop reduces keys, results of effects, engine     *)
(* events and ticks; effects run as tasks of their own and their results   *)
(* come back in any order.  Tokens tell a current result from a stale one. *)
(*                                                                         *)
(* Left out: panel focus, scrolling, the log and the about panel's         *)
(* contents, which only the view reads.  A snapshot is abstracted to the   *)
(* station it is of, a query to a member of Queries, a page to one result. *)
(***************************************************************************)
EXTENDS Naturals, Sequences, SequencesExt, FiniteSets

CONSTANTS
    StationNames,  \* the names a station may have
    InitialLists,  \* the station lists get_config may answer at the start
    Queries,       \* search texts, the empty one included
    EmptyQuery,
    Found,         \* Found[q]: what the engine's catalogue answers to q
    MaxTokens,     \* bound on the tokens handed out, over the three counters
    MaxPanics      \* bound on the loads and updates whose tasks panic

NoStation == "none"   \* Option::None

\* config.stations is a list of these.
StationRow == [name : StationNames, enabled : BOOLEAN]

\* search_candidates keeps one candidate of a key, so an answer repeats none.
ASSUME TuiAssumption ==
    /\ NoStation \notin StationNames
    /\ InitialLists \subseteq Seq(StationRow)
    /\ EmptyQuery \in Queries
    /\ \A q \in Queries : /\ Found[q] \in Seq(StationNames)
                          /\ \A i, j \in 1..Len(Found[q]) : Found[q][i] = Found[q][j] => i = j

VARIABLES
    stations,       \* config.stations: a sequence of [name, enabled]
    hidden,         \* hidden_stations
    selected,       \* selected_station, from 1; 0 is None
    snapshot,       \* the station of the shown snapshot, or NoStation
    mode,           \* InputMode, or "exited"
    manage,         \* manage_selected, from 1
    draft,          \* move_draft: << >> or <<[stations, at, origin]>>
    due,            \* WEATHER_REFRESH_INTERVAL has passed
    weatherToken, weatherPending,
    loads,          \* LoadWeather effects not answered: [token, name]
    configToken,
    pendingConfig,  \* << >> or <<[token, select]>>
    updates,        \* UpdateConfig effects not answered: [token, stations]
    query,
    search,         \* [token, status, results, at, next]
    searchTask,     \* run_search: << >> or <<[token, query, offset]>>
    pages,          \* search results in the channel, in the order sent
    preview,        \* the station of preview_snapshot, or NoStation
    previews,       \* Preview effects not answered: [token, name]
    panicked        \* history: the loads and updates whose tasks panicked

selectionVars == <<stations, hidden, selected>>
weatherVars == <<snapshot, due, weatherToken, weatherPending, loads>>
manageVars == <<manage, draft>>
configVars == <<configToken, pendingConfig, updates>>
searchVars == <<query, search, searchTask, pages, preview, previews>>
appVars == <<selectionVars, weatherVars, mode, manageVars, configVars, searchVars>>
vars == <<appVars, panicked>>

----------------------------------------------------------------------------
(* Selection *)

Selectable(list, hid, i) == i \in 1..Len(list) /\ list[i].enabled /\ list[i].name \notin hid

FirstSelectable(list, hid) ==
    IF \E i \in 1..Len(list) : Selectable(list, hid, i)
    THEN CHOOSE i \in 1..Len(list) :
            Selectable(list, hid, i) /\ \A j \in 1..(i - 1) : ~Selectable(list, hid, j)
    ELSE 0

Normalize(list, hid, i) == IF Selectable(list, hid, i) THEN i ELSE FirstSelectable(list, hid)

NameAt(list, i) == IF i \in 1..Len(list) THEN list[i].name ELSE NoStation

Position(list, name) ==
    IF \E i \in 1..Len(list) : list[i].name = name
    THEN CHOOSE i \in 1..Len(list) : list[i].name = name
    ELSE 0

\* moved_index: one step, kept inside 1..len.
Moved(i, len, step) ==
    IF len = 0 THEN 1
    ELSE LET next == IF step = "down" THEN i + 1 ELSE i - 1
         IN  IF next > len THEN len ELSE IF next < 1 THEN 1 ELSE next

\* move_station_selection: the neighbour among the selectable ones.
Neighbour(list, hid, i, step) ==
    LET ok == {j \in 1..Len(list) : Selectable(list, hid, j)}
        later == {j \in ok : j > i}
        sooner == {j \in ok : j < i}
    IN  IF step = "down"
        THEN IF later = {} THEN i ELSE CHOOSE j \in later : \A k \in later : j <= k
        ELSE IF sooner = {} THEN i ELSE CHOOSE j \in sooner : \A k \in sooner : j >= k

\* len().saturating_sub(1), and the smaller of an index and it.
LastIndex(list) == IF list = <<>> THEN 1 ELSE Len(list)
Clamp(list, i) == IF i <= Len(list) THEN i ELSE LastIndex(list)

\* The bound on tokens, whichever counter they come from.
TokensLeft == weatherToken + configToken + search.token < MaxTokens

----------------------------------------------------------------------------
(* request_selected_weather for the selection index `at` in `list` *)

RequestWeather(list, at) ==
    IF at = 0
    THEN /\ snapshot' = NoStation /\ weatherPending' = FALSE /\ due' = FALSE
         /\ UNCHANGED <<weatherToken, loads>>
    ELSE /\ TokensLeft
         /\ weatherToken' = weatherToken + 1
         /\ weatherPending' = TRUE
         /\ loads' = loads \cup {[token |-> weatherToken + 1, name |-> list[at].name]}
         /\ UNCHANGED <<snapshot, due>>

\* What a change of selection does: weather is requested when it moved.
\* Defect considered: positions are compared, not the stations at them.
Reselect_ByIndex(list, at) ==
    /\ selected' = at
    /\ IF at # selected THEN RequestWeather(list, at) ELSE UNCHANGED weatherVars
Reselect(list, at) ==
    /\ selected' = at
    /\ IF NameAt(list, at) # NameAt(stations, selected)
       THEN RequestWeather(list, at)
       ELSE UNCHANGED weatherVars

\* run_interactive: load, and the first request.
Init ==
    /\ stations \in InitialLists
    /\ hidden = {} /\ selected = FirstSelectable(stations, {})
    /\ snapshot = NoStation /\ mode = "normal" /\ manage = 1 /\ draft = <<>>
    /\ due = TRUE
    /\ weatherToken = (IF selected = 0 THEN 0 ELSE 1)
    /\ weatherPending = (selected # 0)
    /\ loads = (IF selected = 0 THEN {}
                ELSE {[token |-> 1, name |-> stations[selected].name]})
    /\ configToken = 0 /\ pendingConfig = <<>> /\ updates = {}
    /\ query = EmptyQuery
    /\ search = [token |-> 0, status |-> "idle", results |-> <<>>, at |-> 1, next |-> 0]
    /\ searchTask = <<>> /\ pages = <<>> /\ preview = NoStation /\ previews = {}
    /\ panicked = {}

----------------------------------------------------------------------------
(* Normal mode *)

RefreshKey ==
    /\ mode = "normal"
    /\ RequestWeather(stations, selected)
    /\ UNCHANGED <<selectionVars, mode, manageVars, configVars, searchVars>>

SelectKey(step) ==
    /\ mode = "normal"
    /\ selected # 0
    /\ LET at == Neighbour(stations, hidden, selected, step)
       IN  at # selected /\ Reselect(stations, at)
    /\ UNCHANGED <<stations, hidden, mode, manageVars, configVars, searchVars>>

ManageKey ==
    /\ mode = "normal"
    /\ mode' = "manage"
    /\ manage' = Clamp(stations, IF selected = 0 THEN 1 ELSE selected)
    /\ UNCHANGED <<selectionVars, weatherVars, draft, configVars, searchVars>>

AboutKey ==
    /\ \/ mode = "normal" /\ mode' = "about"
       \/ mode = "about" /\ mode' = "normal"
    /\ UNCHANGED <<selectionVars, weatherVars, manageVars, configVars, searchVars>>

Tick ==
    /\ mode # "exited"
    /\ due /\ ~weatherPending
    /\ RequestWeather(stations, selected)
    /\ UNCHANGED <<selectionVars, mode, manageVars, configVars, searchVars>>

IntervalPasses ==
    /\ mode # "exited"
    /\ ~due /\ due' = TRUE
    /\ UNCHANGED <<selectionVars, snapshot, weatherToken, weatherPending, loads, mode,
                   manageVars, configVars, searchVars>>

\* Ctrl+C, q, a failed terminal, a closed event stream: the loop ends and
\* EffectRunner::shutdown aborts every task.
Exit ==
    /\ mode # "exited" /\ mode' = "exited"
    /\ loads' = {} /\ updates' = {} /\ previews' = {} /\ searchTask' = <<>> /\ pages' = <<>>
    /\ UNCHANGED <<selectionVars, snapshot, due, weatherToken, weatherPending, manageVars,
                   configToken, pendingConfig, query, search, preview>>

----------------------------------------------------------------------------
(* Manage mode *)

\* begin_config_update: one update at a time.
BeginUpdate(list, select) ==
    IF pendingConfig # <<>>
    THEN UNCHANGED configVars
    ELSE /\ TokensLeft
         /\ configToken' = configToken + 1
         /\ pendingConfig' = <<[token |-> configToken + 1, select |-> select]>>
         /\ updates' = updates \cup {[token |-> configToken + 1, stations |-> list]}

CursorKey(step) ==
    /\ mode = "manage"
    /\ manage' = Moved(manage, Len(stations), step)
    /\ manage' # manage
    /\ UNCHANGED <<selectionVars, weatherVars, mode, draft, configVars, searchVars>>

CloseManage ==
    /\ mode = "manage" /\ mode' = "normal"
    /\ Reselect(stations, Normalize(stations, hidden, selected))
    /\ UNCHANGED <<stations, hidden, manageVars, configVars, searchVars>>

ToggleSelected ==
    /\ mode = "manage" /\ manage \in 1..Len(stations)
    /\ BeginUpdate([stations EXCEPT ![manage].enabled = ~@], stations[manage].name)
    /\ UNCHANGED <<selectionVars, weatherVars, mode, manageVars, searchVars>>

\* Vec::remove(manage_selected): out of range it would panic.
DeleteSelected ==
    /\ mode = "manage" /\ stations # <<>>
    /\ LET list == RemoveAt(stations, manage)
       IN  BeginUpdate(list, NameAt(list, Clamp(list, manage)))
    /\ UNCHANGED <<selectionVars, weatherVars, mode, manageVars, searchVars>>

HideSelected ==
    /\ mode = "manage" /\ manage \in 1..Len(stations)
    /\ LET name == stations[manage].name
       IN  hidden' = IF name \in hidden THEN hidden \ {name} ELSE hidden \cup {name}
    /\ Reselect(stations, Normalize(stations, hidden', selected))
    /\ UNCHANGED <<stations, mode, manageVars, configVars, searchVars>>

BeginMove ==
    /\ mode = "manage" /\ pendingConfig = <<>> /\ stations # <<>>
    /\ mode' = "move"
    /\ LET at == Clamp(stations, manage)
       IN  draft' = <<[stations |-> stations, at |-> at, origin |-> at]>>
    /\ UNCHANGED <<selectionVars, weatherVars, manage, configVars, searchVars>>

MoveBy(step) ==
    /\ mode = "move"
    /\ LET d == draft[1]
           next == Moved(d.at, Len(d.stations), step)
       IN  /\ next # d.at
           /\ draft' = <<[d EXCEPT !.at = next,
                            !.stations = [@ EXCEPT ![d.at] = d.stations[next],
                                                   ![next] = d.stations[d.at]]]>>
           /\ manage' = next
    /\ UNCHANGED <<selectionVars, weatherVars, mode, configVars, searchVars>>

EndMove(confirmed) ==
    /\ mode = "move" /\ mode' = "manage"
    /\ draft' = <<>>
    /\ LET d == draft[1]
       IN  IF confirmed
           THEN manage' = d.at /\ BeginUpdate(d.stations, NameAt(d.stations, d.at))
           ELSE manage' = d.origin /\ UNCHANGED configVars
    /\ UNCHANGED <<selectionVars, weatherVars, searchVars>>

----------------------------------------------------------------------------
(* Search *)

\* Every reset of SearchState takes a new token.
\* Defect considered: a new submission keeps the token of the earlier one.
Reset_SameToken(status) ==
    search' = [token |-> IF status = "loading" THEN search.token ELSE search.token + 1,
               status |-> status, results |-> <<>>, at |-> 1, next |-> 0]
Reset(status) ==
    search' = [token |-> search.token + 1, status |-> status, results |-> <<>>, at |-> 1,
               next |-> 0]

SearchModes == {"addSearch", "browseSearch"}

EnterSearch(kind) ==
    /\ mode = "manage" /\ mode' = kind
    /\ TokensLeft
    /\ Reset("idle") /\ query' = EmptyQuery /\ preview' = NoStation
    /\ UNCHANGED <<selectionVars, weatherVars, manageVars, configVars, searchTask, pages,
                   previews>>

ExitSearch ==
    /\ mode \in SearchModes /\ mode' = "manage"
    /\ Reset("idle") /\ preview' = NoStation /\ searchTask' = <<>>
    /\ UNCHANGED <<selectionVars, weatherVars, manageVars, configVars, query, pages, previews>>

EditQuery(q) ==
    /\ mode \in SearchModes /\ TokensLeft
    /\ q # query /\ query' = q
    /\ Reset("idle") /\ preview' = NoStation /\ searchTask' = <<>>
    /\ UNCHANGED <<selectionVars, weatherVars, mode, manageVars, configVars, pages, previews>>

SubmitSearch ==
    /\ mode \in SearchModes /\ TokensLeft
    /\ Reset("loading") /\ preview' = NoStation
    /\ searchTask' = <<[token |-> search'.token, query |-> query, offset |-> 0]>>
    /\ UNCHANGED <<selectionVars, weatherVars, mode, manageVars, configVars, query, pages,
                   previews>>

SearchCursor(step) ==
    /\ mode \in SearchModes
    /\ search' = [search EXCEPT !.at = Moved(@, Len(search.results), step)]
    /\ search' # search
    /\ UNCHANGED <<selectionVars, weatherVars, mode, manageVars, configVars, query, searchTask,
                   pages, preview, previews>>

\* Ctrl+A in an add search: add_selected_result.
AddResult ==
    /\ mode = "addSearch" /\ search.at <= Len(search.results)
    /\ LET name == search.results[search.at]
           i == Position(stations, name)
       IN  BeginUpdate(IF i # 0 THEN [stations EXCEPT ![i].enabled = TRUE]
                       ELSE Append(stations, [name |-> name, enabled |-> TRUE]), name)
    /\ mode' = "manage"
    /\ Reset("idle") /\ preview' = NoStation /\ searchTask' = <<>>
    /\ UNCHANGED <<selectionVars, weatherVars, manageVars, query, pages, previews>>

PreviewResult ==
    /\ mode = "browseSearch" /\ search.at <= Len(search.results)
    /\ previews' = previews \cup {[token |-> search.token, name |-> search.results[search.at]]}
    /\ previews' # previews
    /\ UNCHANGED <<selectionVars, weatherVars, mode, manageVars, configVars, query, search,
                   searchTask, pages, preview>>

\* What the engine answers from an offset, and whether there is more of it.
Page(q, offset) == IF offset < Len(Found[q]) THEN <<Found[q][offset + 1]>> ELSE <<>>
HasMore(q, offset) == offset + 1 < Len(Found[q])

\* run_search: the engine answers a page, or the request or the cursor fails.
SearchTaskSends(ok) ==
    /\ searchTask # <<>>
    /\ LET t == searchTask[1]
           more == HasMore(t.query, t.offset)
       IN  /\ pages' = Append(pages, [token |-> t.token, ok |-> ok, offset |-> t.offset,
                                      stations |-> IF ok THEN Page(t.query, t.offset) ELSE <<>>,
                                      more |-> ok /\ more])
           /\ searchTask' = IF ok /\ more THEN <<[t EXCEPT !.offset = @ + 1]>> ELSE <<>>
    /\ UNCHANGED <<selectionVars, weatherVars, mode, manageVars, configVars, query, search,
                   preview, previews>>

\* append_unique_stations, for a page of one station at most.
AppendUnique(list, page) == IF ToSet(page) \subseteq ToSet(list) THEN list ELSE list \o page

\* apply_page and apply_error.
ApplyPage ==
    /\ mode # "exited" /\ pages # <<>>
    /\ LET p == pages[1]
           current == p.token = search.token /\ search.status = "loading"
       IN  search' =
             CASE ~current -> search
               [] current /\ ~p.ok -> [search EXCEPT !.status = "failed"]
               [] current /\ p.ok /\ p.offset # search.next ->
                    [search EXCEPT !.status = "misordered"]
               [] OTHER ->
                    [search EXCEPT !.results = AppendUnique(@, p.stations),
                                   !.next = p.offset + Len(p.stations),
                                   !.status = IF p.more THEN @ ELSE "ready"]
    /\ pages' = Tail(pages)
    /\ UNCHANGED <<selectionVars, weatherVars, mode, manageVars, configVars, query, searchTask,
                   preview, previews>>

ApplyPreview(e, ok) ==
    /\ mode # "exited" /\ e \in previews
    /\ previews' = previews \ {e}
    /\ preview' =
         IF /\ e.token = search.token /\ mode = "browseSearch" /\ ok
            /\ search.at <= Len(search.results) /\ search.results[search.at] = e.name
         THEN e.name ELSE preview
    /\ UNCHANGED <<selectionVars, weatherVars, mode, manageVars, configVars, query, search,
                   searchTask, pages>>

----------------------------------------------------------------------------
(* Results of the other effects, and engine events *)

\* Defect considered: the answer to an earlier request is shown as well.
ApplyWeather_AnyToken(e, ok) ==
    /\ mode # "exited" /\ e \in loads
    /\ loads' = loads \ {e}
    /\ weatherPending' = FALSE /\ due' = FALSE
    /\ snapshot' = IF ok THEN e.name ELSE snapshot
    /\ UNCHANGED <<selectionVars, weatherToken, mode, manageVars, configVars, searchVars>>

ApplyWeather(e, ok) ==
    /\ mode # "exited" /\ e \in loads
    /\ loads' = loads \ {e}
    /\ IF e.token = weatherToken
       THEN /\ weatherPending' = FALSE /\ due' = FALSE
            /\ snapshot' = IF ok THEN e.name ELSE snapshot
       ELSE UNCHANGED <<weatherPending, due, snapshot>>
    /\ UNCHANGED <<selectionVars, weatherToken, mode, manageVars, configVars, searchVars>>

\* A snapshot event replaces the shown snapshot of the same station.
WeatherEvent ==
    /\ mode # "exited" /\ snapshot # NoStation
    /\ due /\ due' = FALSE
    /\ UNCHANGED <<selectionVars, snapshot, weatherToken, weatherPending, loads, mode,
                   manageVars, configVars, searchVars>>

\* The cursor of the manage panel after a configuration result.
CursorAfter(list, select, ok) ==
    IF select # NoStation /\ Position(list, select) # 0 THEN Position(list, select)
    ELSE IF select # NoStation /\ ok THEN LastIndex(list)
    ELSE Clamp(list, manage)

\* The station that was selected stays so, wherever it is in the new list.
ConfigSelection(list, hid) ==
    Normalize(list, hid, Position(list, NameAt(stations, selected)))

ApplyConfig(e, ok) ==
    /\ mode # "exited" /\ e \in updates
    /\ updates' = updates \ {e}
    /\ IF pendingConfig # <<>> /\ pendingConfig[1].token = e.token
       THEN /\ pendingConfig' = <<>>
            /\ IF ok
               THEN /\ stations' = e.stations
                    /\ hidden' = {n \in hidden : Position(e.stations, n) # 0}
                    /\ manage' = CursorAfter(e.stations, pendingConfig[1].select, TRUE)
                    /\ LET at == ConfigSelection(e.stations, hidden')
                       IN  Reselect(e.stations, at)
               ELSE /\ manage' = CursorAfter(stations, pendingConfig[1].select, FALSE)
                    /\ UNCHANGED <<selectionVars, weatherVars>>
       ELSE UNCHANGED <<pendingConfig, selectionVars, manage, weatherVars>>
    /\ UNCHANGED <<mode, draft, configToken, searchVars>>

Loses(kind, e) ==
    /\ Cardinality(panicked) < MaxPanics
    /\ panicked' = panicked \cup {[kind |-> kind, of |-> e]}

\* A task panics: it ends without a result, and TaskFailed is only logged, so
\* what its request has set stays set.  So it is in every build that unwinds;
\* the profile release-lto-static ends the process instead.
EffectPanics ==
    /\ mode # "exited"
    /\ \/ \E e \in loads : /\ loads' = loads \ {e} /\ Loses("load", e)
                         /\ UNCHANGED <<updates, previews, searchTask>>
       \/ \E e \in updates : /\ updates' = updates \ {e} /\ Loses("update", e)
                           /\ UNCHANGED <<loads, previews, searchTask>>
       \/ \E e \in previews : /\ previews' = previews \ {e}
                            /\ UNCHANGED <<loads, updates, searchTask, panicked>>
       \/ /\ searchTask # <<>> /\ searchTask' = <<>>
          /\ UNCHANGED <<loads, updates, previews, panicked>>
    /\ UNCHANGED <<selectionVars, snapshot, due, weatherToken, weatherPending, mode,
                   manageVars, configToken, pendingConfig, query, search, pages, preview>>

\* A key, a tick, an engine event, or the result of an effect.
AppStep ==
    \/ RefreshKey \/ ManageKey \/ AboutKey \/ Tick \/ IntervalPasses \/ Exit
    \/ \E step \in {"down", "up"} :
          SelectKey(step) \/ CursorKey(step) \/ MoveBy(step) \/ SearchCursor(step)
    \/ CloseManage \/ ToggleSelected \/ DeleteSelected \/ HideSelected \/ BeginMove
    \/ \E confirmed \in BOOLEAN : EndMove(confirmed)
    \/ \E kind \in SearchModes : EnterSearch(kind)
    \/ ExitSearch \/ SubmitSearch \/ AddResult \/ PreviewResult \/ ApplyPage \/ WeatherEvent
    \/ \E q \in Queries : EditQuery(q)
    \/ \E ok \in BOOLEAN : SearchTaskSends(ok)
    \/ \E ok \in BOOLEAN : \E e \in loads : ApplyWeather(e, ok)
    \/ \E ok \in BOOLEAN : \E e \in updates : ApplyConfig(e, ok)
    \/ \E ok \in BOOLEAN : \E e \in previews : ApplyPreview(e, ok)

Next == \/ AppStep /\ UNCHANGED panicked
        \/ EffectPanics

Spec == Init /\ [][Next]_vars

----------------------------------------------------------------------------
(* Properties *)

Panicked(kind) == {p.of : p \in {q \in panicked : q.kind = kind}}

(* What is marked pending is still out: a load, which keeps the minute's   *)
(* tick from asking again, with the current token and for the selected     *)
(* station; a list update, which keeps every later change of the list      *)
(* back, with its token (request_selected_weather, begin_config_update,    *)
(* apply_effect_result).  Only a panic of that very task loses it, and     *)
(* then the mark stays: the load's until the user refreshes or selects     *)
(* another station, the update's until the program ends.                   *)
LoadTracked ==
    mode # "exited" =>
        /\ weatherPending =>
              /\ selected # 0
              /\ [token |-> weatherToken, name |-> NameAt(stations, selected)]
                    \in loads \cup Panicked("load")
        /\ pendingConfig # <<>> =>
              \E u \in updates \cup Panicked("update") : u.token = pendingConfig[1].token

(* A snapshot that appears is of the station then selected, however many   *)
(* earlier loads are still out (apply_effect_result's token check).  Only  *)
(* when nothing is selectable may an answer on its way still be shown.     *)
ShownIsSelected ==
    [][snapshot' \notin {snapshot, NoStation} /\ selected' # 0
          => snapshot' = NameAt(stations', selected')]_vars

(* The listed results are, in order, what the current text finds as far as *)
(* the pages have come; a finished search lists all of them, and the       *)
(* preview shown is of one of them (SearchState::apply_page).              *)
SearchComplete ==
    /\ search.status # "misordered"
    /\ search.results = SubSeq(Found[query], 1, search.next)
    /\ search.status = "ready" => search.results = Found[query]
    /\ preview # NoStation => mode \in {"browseSearch", "exited"} /\ preview \in ToSet(search.results)

----------------------------------------------------------------------------
(* What makes those inductive *)

\* Every list is one of stations, the selection and the manage panel's cursor
\* lie in the list there is, and no list changes under a move in progress.
ListInv ==
    /\ stations \in Seq(StationRow) /\ selected \in 0..Len(stations)
    /\ \A u \in updates : u.stations \in Seq(StationRow)
CursorInv == manage \in Nat \ {0} /\ (manage <= Len(stations) \/ manage = 1)
MoveInv ==
    mode = "move" =>
        /\ pendingConfig = <<>>
        /\ DOMAIN draft[1] = {"stations", "at", "origin"}
        /\ draft[1].stations \in Seq(StationRow)
        /\ Len(draft[1].stations) = Len(stations)
        /\ draft[1].at \in 1..Len(stations) /\ draft[1].origin \in 1..Len(stations)

\* A load with the current token is for the selected station.
LoadInv ==
    /\ weatherToken \in Nat
    /\ \A l \in loads :
          /\ l.token \in 0..weatherToken
          /\ l.token = weatherToken /\ selected # 0 => l.name = NameAt(stations, selected)
    /\ LoadTracked

\* The pages of the current search are the last ones in the channel and
\* follow one another; its task, if it runs, asks for the page after them.
PageRow == [token : Nat, ok : BOOLEAN, offset : Nat, stations : Seq(StationNames),
            more : BOOLEAN]
Current(i) == i \in 1..Len(pages) /\ pages[i].token = search.token
Expected(i) == IF Current(i - 1) THEN pages[i - 1].offset + 1 ELSE search.next
PageOk(i) ==
    /\ pages[i].token <= search.token
    /\ Current(i) =>
          /\ search.status = "loading"
          /\ pages[i].offset = Expected(i)
          /\ Current(i - 1) => pages[i - 1].more
          /\ pages[i].ok => pages[i].stations = Page(query, pages[i].offset)
          /\ pages[i].more = (pages[i].ok /\ HasMore(query, pages[i].offset))
    /\ \A j \in 1..i : Current(j) => Current(i)
PagesInv == pages \in Seq(PageRow) /\ \A i \in 1..Len(pages) : PageOk(i)
TaskInv ==
    searchTask # <<>> =>
        /\ mode \in SearchModes /\ search.status = "loading"
        /\ DOMAIN searchTask[1] = {"token", "query", "offset"}
        /\ searchTask[1].token = search.token /\ searchTask[1].query = query
        /\ searchTask[1].offset = Expected(Len(pages) + 1)
        /\ Current(Len(pages)) => pages[Len(pages)].more
ResultsInv ==
    /\ DOMAIN search = {"token", "status", "results", "at", "next"}
    /\ search.token \in Nat /\ search.at \in Nat \ {0}
    /\ query \in Queries /\ search.next \in 0..Len(Found[query])
    /\ SearchComplete

TuiInv ==
    /\ ListInv /\ CursorInv /\ MoveInv /\ LoadInv
    /\ PagesInv /\ TaskInv /\ ResultsInv
=============================================================================
