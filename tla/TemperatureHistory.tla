------------------------- MODULE TemperatureHistory -------------------------
(***************************************************************************)
(* What the snapshots of a station hold: the day's high that upstream      *)
(* drops during the day and the engine keeps (apply_cached_daily_high of   *)
(* engine/src/handlers/weather.rs), the alerts and air quality an answer   *)
(* borrows from the parent station, and the temperature history a client   *)
(* reads page by page (handlers/temperature_history.rs).                   *)
(*                                                                         *)
(* A day is a number; upstream writes it as month and day, that is modulo  *)
(* YearLength.  Requests, flights and timezones are WeatherService's: here *)
(* a fetch is its read of the cached row and its write.                    *)
(***************************************************************************)
EXTENDS Integers, FiniteSets, SequencesExt

CONSTANTS
    Reports(_),    \* the snapshots upstream may send on a day
    FirstDay, LastDay,
    YearLength,
    AlertTexts,    \* what alerts say
    Fetches,       \* concurrent fetches: one per include_debug
    PageSize,      \* of the history request
    ParentStates,  \* what the parent's latest row may be
    MaxFetches     \* bound: snapshots fetched

NoTemp == 0   \* a temperature that is missing or does not parse
Blank == -1   \* no date

HistoryDays == FirstDay..LastDay
MonthDays == 0..(YearLength - 1)

Forecast == [md : MonthDays, max : Int, min : Int]
Chart == [md : MonthDays \union {Blank}, max : Int, min : Int]
Observation == [md : MonthDays \union {Blank}, temp : Int]
Alert == [alert : AlertTexts, inherited : BOOLEAN]
Snapshot == [predict : Seq(Forecast), chart : Seq(Chart), passed : Seq(Observation),
             alerts : Seq(Alert), air : BOOLEAN]

\* The temperatures a snapshot holds.
TableEntries(snap) == ToSet(snap.predict) \union ToSet(snap.chart)

Distance(a, b) == IF a < b THEN b - a ELSE a - b

\* parse_relative_date: of last, this and next year the date nearest to base.
RelativeDate(md, base) ==
    LET years == (base \div YearLength - 1)..(base \div YearLength + 1)
        dates == {y * YearLength + md : y \in years}
    IN CHOOSE d \in dates : \A e \in dates :
          \/ Distance(d, base) < Distance(e, base)
          \/ Distance(d, base) = Distance(e, base) /\ d <= e

\* The date an entry is of, as seen on a day; an undated one is of that day.
EntryDate(e, day) == IF e.md = Blank THEN day ELSE RelativeDate(e.md, day)

ASSUME HistoryAssumption ==
    /\ FirstDay \in Nat /\ LastDay \in Nat /\ FirstDay <= LastDay
    /\ YearLength \in Nat \ {0} /\ PageSize \in Nat \ {0} /\ MaxFetches \in Nat
    /\ ParentStates \subseteq [fresh : BOOLEAN, alerts : Seq(Alert), air : BOOLEAN]

\* Upstream sends at most one alert (map_alert), and reports days near its own:
\* they are of the same year's date also when the answer is stored a little later.
ASSUME ReportsAssumption ==
    \A d \in HistoryDays : \A snap \in Reports(d) :
        /\ snap \in Snapshot /\ Len(snap.alerts) <= 1
        /\ \A e \in TableEntries(snap) : e.md # Blank =>
              \A t \in d..LastDay : RelativeDate(e.md, t) = RelativeDate(e.md, d)

VARIABLES
    today,
    daily,      \* the station's history rows by date: <<>> or <<snapshot>>
    fetching,   \* the fetches
    fetched,    \* number of fetches made
    parent,     \* the parent's latest row
    answer,     \* alerts and air of the latest answer
    reading,    \* the client paging through the history
    reported,   \* history: <<date, high>> sent by upstream, and its alerts
    raced,      \* history: dates on which fetches overlapped each other or midnight
    owed        \* history: dates whose high was stored and had an entry ever since

historyVars == <<today, daily, fetching, fetched, parent, answer, reading, reported, raced, owed>>

NotFetching == [pc |-> "idle", snap |-> <<>>]
Unread == [before |-> LastDay + 1, started |-> FALSE, done |-> FALSE, wanted |-> {}, base |-> Blank,
           points |-> [d \in {} |-> 0]]

HistoryInit ==
    /\ today = FirstDay /\ fetched = 0
    /\ daily = [d \in HistoryDays |-> <<>>]
    /\ fetching = [f \in Fetches |-> NotFetching]
    /\ parent \in ParentStates
    /\ answer = [alerts |-> <<>>, air |-> FALSE]
    /\ reading = Unread
    /\ reported = {} /\ raced = {} /\ owed = {}

(***************************************************************************)
(* Dates and the day's high.                                               *)
(***************************************************************************)
\* current_forecast_index; 0 if there is none.
ForecastIndex(snap, day) ==
    SelectInSeq(snap.predict, LAMBDA e : RelativeDate(e.md, day) = day)

\* current_temperature_chart_index: a single chart without a date is the day's.
ChartIndex(snap, day) ==
    LET dated == SelectInSeq(snap.chart, LAMBDA e : e.md # Blank /\ RelativeDate(e.md, day) = day)
    IN IF dated = 0 /\ Len(snap.chart) = 1 /\ snap.chart[1].md = Blank THEN 1 ELSE dated

First(t, u) == IF t # NoTemp THEN t ELSE u
MaxAt(entries, i) == IF i = 0 THEN NoTemp ELSE entries[i].max
MinAt(entries, i) == IF i = 0 THEN NoTemp ELSE entries[i].min

\* snapshot_daily_high.
DailyHigh(snap, day) ==
    First(MaxAt(snap.predict, ForecastIndex(snap, day)), MaxAt(snap.chart, ChartIndex(snap, day)))

Filled(entries, i, high) ==
    [k \in DOMAIN entries |->
        IF k = i /\ entries[k].max = NoTemp THEN [entries[k] EXCEPT !.max = high] ELSE entries[k]]

HasEntry(snap, day) == ForecastIndex(snap, day) # 0 \/ ChartIndex(snap, day) # 0

\* Defect considered: the cached row's date is not compared.
MergeCachedDailyHigh_AnyDate(snap, date, cached, day) ==
    LET high == First(DailyHigh(snap, day), DailyHigh(cached, date))
    IN [snap EXCEPT !.predict = Filled(@, ForecastIndex(snap, day), high),
                    !.chart = Filled(@, ChartIndex(snap, day), high)]

\* merge_cached_daily_high: the missing high of today is filled in from the
\* snapshot's other table or from the row cached today.
MergeCachedDailyHigh(snap, date, cached, day) ==
    LET high == First(DailyHigh(snap, day), DailyHigh(cached, day))
    IN IF date # day THEN snap
       ELSE [snap EXCEPT !.predict = Filled(@, ForecastIndex(snap, day), high),
                         !.chart = Filled(@, ChartIndex(snap, day), high)]

(***************************************************************************)
(* What an answer borrows from the parent.                                 *)
(***************************************************************************)
\* merge_parent_alerts, same_alert: the parent's alerts the station has not.
WithInherited(kept, a) ==
    IF \E i \in DOMAIN kept : kept[i].alert = a.alert THEN kept
    ELSE Append(kept, [a EXCEPT !.inherited = TRUE])
MergeParentAlerts(own, inherited) ==
    LET upTo[i \in 0..Len(inherited)] ==
            IF i = 0 THEN own ELSE WithInherited(upTo[i - 1], inherited[i])
    IN  upTo[Len(inherited)]

\* apply_parent_alerts: only of a fresh row.
AlertsOf(snap) ==
    IF parent.fresh THEN MergeParentAlerts(snap.alerts, parent.alerts) ELSE snap.alerts

\* apply_cached_municipality_air.
AirOf(snap) == snap.air \/ (parent.fresh /\ parent.air)

Answered(snap) == answer' = [alerts |-> AlertsOf(snap), air |-> AirOf(snap)]

(***************************************************************************)
(* Fetches.                                                                *)
(***************************************************************************)
StoredDates == {d \in HistoryDays : daily[d] # <<>>}
LatestDate == CHOOSE d \in StoredDates : \A e \in StoredDates : e <= d

\* Upstream answers, and the cached row is read for its high.
FetchAndMerge(f, snap) ==
    /\ fetching[f].pc = "idle" /\ fetched < MaxFetches /\ fetched' = fetched + 1
    /\ LET merged == IF StoredDates = {} THEN snap
                     ELSE MergeCachedDailyHigh(snap, LatestDate, daily[LatestDate][1], today)
       IN fetching' = [fetching EXCEPT ![f] = [pc |-> "put", snap |-> merged]]
    /\ reported' = reported
          \union {<<EntryDate(e, today), e.max>> : e \in TableEntries(snap)}
          \union {<<Blank, a>> : a \in ToSet(snap.alerts)}
    /\ raced' = raced \union (IF \E g \in Fetches : fetching[g].pc = "put" THEN {today} ELSE {})
    /\ UNCHANGED <<today, daily, parent, answer, reading, owed>>

\* The snapshot is stored as fetched and merged; then the answer borrows from
\* the parent.
PutAndAnswer(f) ==
    /\ fetching[f].pc = "put"
    /\ daily' = [daily EXCEPT ![today] = <<fetching[f].snap>>]
    /\ Answered(fetching[f].snap)
    /\ fetching' = [fetching EXCEPT ![f] = NotFetching]
    /\ LET snap == fetching[f].snap
       IN owed' = {d \in owed : d # today \/ HasEntry(snap, today)}
                  \union (IF DailyHigh(snap, today) # NoTemp THEN {today} ELSE {})
    /\ UNCHANGED <<today, fetched, parent, reading, reported, raced>>

\* The cached row answers, or is served as stale.
AnswerCached ==
    /\ StoredDates # {}
    /\ Answered(daily[LatestDate][1])
    /\ UNCHANGED <<today, daily, fetching, fetched, parent, reading, reported, raced, owed>>

ParentChanges(p) ==
    /\ parent' = p
    /\ UNCHANGED <<today, daily, fetching, fetched, answer, reading, reported, raced, owed>>

\* The date changes, also between a fetch's read and its write.
Midnight ==
    /\ today < LastDay /\ today' = today + 1
    /\ raced' = raced \union (IF \E g \in Fetches : fetching[g].pc = "put" THEN {today + 1} ELSE {})
    /\ UNCHANGED <<daily, fetching, fetched, parent, answer, reading, reported, owed>>

(***************************************************************************)
(* The history.                                                            *)
(***************************************************************************)
\* historical_range: the day's chart, then what was observed, then the forecast.
HistoricalRange(snap, day) ==
    LET seen == {e.temp : e \in {o \in ToSet(snap.passed) : o.md = Blank \/ RelativeDate(o.md, day) = day}}
        c == ChartIndex(snap, day)
        p == ForecastIndex(snap, day)
    IN [max |-> First(First(MaxAt(snap.chart, c), IF seen = {} THEN NoTemp ELSE Max(seen)), MaxAt(snap.predict, p)),
        min |-> First(First(MinAt(snap.chart, c), IF seen = {} THEN NoTemp ELSE Min(seen)), MinAt(snap.predict, p))]

Usable(range) == range.max # NoTemp \/ range.min # NoTemp
Point(range, forecast) == [max |-> range.max, min |-> range.min, forecast |-> forecast]

\* The forecast's and then the charts' entries from the latest row's date on: the
\* last known temperature of a date replaces what its row says.
LastKnown(temps, otherwise) ==
    LET known == {i \in DOMAIN temps : temps[i] # NoTemp}
    IN IF known = {} THEN otherwise ELSE temps[Max(known)]
WithForecast(points, snap, base) ==
    LET entries == snap.predict \o snap.chart
        dated == {i \in DOMAIN entries : entries[i].md # Blank /\ Usable(entries[i])}
        of(d) == {i \in dated : RelativeDate(entries[i].md, base) = d}
        ahead == {d \in {RelativeDate(entries[i].md, base) : i \in dated} : d >= base}
        old(d) == IF d \in DOMAIN points THEN points[d] ELSE [max |-> NoTemp, min |-> NoTemp]
    IN [d \in DOMAIN points \union ahead |->
          IF d \in ahead THEN [max |-> LastKnown([i \in of(d) |-> entries[i].max], old(d).max),
                               min |-> LastKnown([i \in of(d) |-> entries[i].min], old(d).min),
                               forecast |-> TRUE]
          ELSE points[d]]

\* build_temperature_history.
BuildHistory(dates, withForecast) ==
    LET usable == {d \in dates : Usable(HistoricalRange(daily[d][1], d))}
        past == [d \in usable |-> Point(HistoricalRange(daily[d][1], d), FALSE)]
    IN IF withForecast /\ dates # {} THEN WithForecast(past, daily[Max(dates)][1], Max(dates)) ELSE past

\* Defect considered: the query asks for page_size rows, not one more.
PageOf_NoExtraRow(before) ==
    LET found == {d \in StoredDates : d < before}
    IN [dates |-> {d \in found : Cardinality({e \in found : e > d}) < PageSize}, more |-> FALSE]

\* get_history_snapshot_page: the newest PageSize dates before the cursor, and
\* whether one more row was there.
PageOf(before) ==
    LET found == {d \in StoredDates : d < before}
    IN [dates |-> {d \in found : Cardinality({e \in found : e > d}) < PageSize},
        more |-> Cardinality(found) > PageSize]

\* handle_get_temperature_history: the forecast is on the first page only, and
\* next_before_date is the page's oldest date.
ReadPage ==
    /\ ~reading.done
    /\ LET page == PageOf(reading.before)
           points == BuildHistory(page.dates, ~reading.started)
       IN reading' = [before |-> IF page.more THEN Min(page.dates) ELSE reading.before,
                      started |-> TRUE, done |-> ~page.more,
                      wanted |-> IF reading.started THEN reading.wanted ELSE StoredDates \ {today},
                      base |-> IF reading.started THEN reading.base ELSE Max(page.dates \union {Blank}),
                      points |-> [d \in DOMAIN points \union DOMAIN reading.points |->
                                    IF d \in DOMAIN reading.points THEN reading.points[d] ELSE points[d]]]
    /\ UNCHANGED <<today, daily, fetching, fetched, parent, answer, reported, raced, owed>>

HistoryNext ==
    \/ \E f \in Fetches : PutAndAnswer(f) \/ \E snap \in Reports(today) : FetchAndMerge(f, snap)
    \/ AnswerCached \/ Midnight \/ ReadPage
    \/ \E p \in ParentStates : ParentChanges(p)

HistorySpec == HistoryInit /\ [][HistoryNext]_historyVars

(***************************************************************************)
(* Properties.                                                             *)
(***************************************************************************)
HistoryTypeOK ==
    /\ today \in HistoryDays /\ fetched \in 0..MaxFetches
    /\ \A f \in Fetches : fetching[f].pc \in {"idle", "put"}
    /\ reading.done => reading.started

\* Every temperature, and every alert, is one that upstream sent.
Genuine(snap, d) ==
    /\ \A e \in TableEntries(snap) :
          EntryDate(e, d) \notin raced => <<EntryDate(e, d), e.max>> \in reported
    /\ \A a \in ToSet(snap.alerts) : <<Blank, a>> \in reported

\* A row holds what upstream reported: no alert is the parent's, which could
\* outlive the parent's own, and a high was sent for its date; once stored, the
\* day's high stays as long as the snapshots have an entry for the day.  Two
\* exceptions are the code's: of two overlapping fetches the later write may drop
\* the high, and an undated chart fetched before midnight and stored after it
\* counts for the new day.  An answer shows no alert twice.
RowsGenuine ==
    /\ \A d \in StoredDates :
          /\ Genuine(daily[d][1], d)
          /\ d \in owed \ raced => DailyHigh(daily[d][1], d) # NoTemp
    /\ \A i, j \in DOMAIN answer.alerts : answer.alerts[i].alert = answer.alerts[j].alert => i = j

\* Why RowsGenuine holds: a snapshot on its way into the table is genuine on the
\* day it is stored, today or later; on a day without a race it is the only one,
\* and was merged with the row it replaces.
OnItsWay(f) ==
    LET snap == fetching[f].snap
    IN /\ snap \in Snapshot /\ Len(snap.alerts) <= 1 /\ Genuine(snap, today)
       /\ \A e \in TableEntries(snap), t \in today..LastDay :
             e.md # Blank /\ EntryDate(e, t) \notin raced => <<EntryDate(e, t), e.max>> \in reported
       /\ today \notin raced =>
             /\ \A g \in Fetches : fetching[g].pc = "put" => g = f
             /\ today \in owed /\ HasEntry(snap, today) => DailyHigh(snap, today) # NoTemp
SnapshotInv ==
    /\ today \in HistoryDays /\ DOMAIN daily = HistoryDays /\ parent \in ParentStates
    /\ DOMAIN fetching = Fetches
    /\ owed \subseteq StoredDates
    /\ \A d \in StoredDates :
          d <= today /\ daily[d][1] \in Snapshot /\ Len(daily[d][1].alerts) <= 1
    /\ \A f \in Fetches : fetching[f].pc = "put" => OnItsWay(f)
    /\ RowsGenuine

\* The client has the point of a date, if it is usable, and it is its row's, unless
\* the date is the forecast's too.
PointKept(d) ==
    /\ Usable(HistoricalRange(daily[d][1], d)) => d \in DOMAIN reading.points
    /\ d < reading.base /\ d \in DOMAIN reading.points =>
          reading.points[d] = Point(HistoricalRange(daily[d][1], d), FALSE)

\* A client that follows next_before_date to the end has a point for every date
\* before the day it began that is stored with usable temperatures, and the points
\* before the latest row are their rows', never marked or overwritten by forecast.
HistoryPaged == reading.done => \A d \in reading.wanted : PointKept(d)

\* Why HistoryPaged holds: the wanted rows are of days gone by, which no fetch
\* writes any more; those from the cursor on have been read, those before it are
\* not yet among the points.
PagingInv ==
    /\ today \in HistoryDays /\ DOMAIN daily = HistoryDays
    /\ \A d \in StoredDates : d <= today
    /\ reading.before \in Int /\ reading.base \in Int
    /\ ~reading.started => reading = Unread
    /\ \A d \in reading.wanted :
          /\ d \in StoredDates /\ d < today
          /\ IF d < reading.before /\ ~reading.done THEN d \notin DOMAIN reading.points
             ELSE PointKept(d)
=============================================================================
