--------------------------- MODULE WeatherService ---------------------------
(***************************************************************************)
(* The weather of one station, engine/src/handlers/weather.rs: requests    *)
(* with and without refresh, answered from the station's history rows      *)
(* (db/src/storage.rs) or from a flight that fetches and stores; the       *)
(* refresh events; and the timezone migration of the rows.  What the rows  *)
(* hold, and the history read from them, is TemperatureHistory's.          *)
(*                                                                         *)
(* Time is a counter, a day DayLength units, a timezone an offset in       *)
(* units.  A stored snapshot is its fetch time.  Station resolution is     *)
(* Catalog's "resolve" here: it succeeds or fails.                         *)
(***************************************************************************)
EXTENDS Integers

CONSTANTS
    MaxWeather,   \* bound: weather requests made in a behaviour
    Offsets,      \* timezones, by their offset
    DayLength,    \* units per day
    Ttl,          \* updater.weather_ttl_seconds, in units
    MaxNow,       \* bound: units of time
    MaxMigrations \* bound: timezone migrations

ASSUME WeatherAssumption ==
    /\ Offsets \subseteq 0..(DayLength - 1) /\ 0 \in Offsets
    /\ DayLength \in Nat \ {0}
    /\ MaxWeather \in Nat /\ Ttl \in Nat /\ MaxNow \in Nat /\ MaxNow >= DayLength /\ MaxMigrations \in Nat

VARIABLES
    now, tz, migrations,
    rows,        \* weather_snapshots_history of the station, by date
    wx,          \* the requests
    events,      \* refresh events published for each request
    newest       \* history: the latest fetch time ever written

weatherVars == <<now, tz, migrations, rows, wx, events, newest>>

WxRequests == 1..MaxWeather   \* numbered in the order they are made
Never == -1
Days == 0..((MaxNow + DayLength) \div DayLength)
DateOf(t, offset) == (t + offset) \div DayLength
Times == 0..MaxNow
RowTimes == Times \union {Never}

WxEnded == {"answered", "stale", "failed"}
WxIdle == [pc |-> "idle", refresh |-> FALSE, debug |-> FALSE, armed |-> FALSE, at |-> Never]

WxTypeOK ==
    /\ now \in Times /\ tz \in Offsets /\ migrations \in 0..MaxMigrations
    /\ rows \in [Days -> RowTimes]
    /\ newest \in RowTimes
    /\ wx \in [WxRequests -> [pc : {"idle", "resolve", "lookup", "wait", "fetch", "stamp", "put",
                                    "merge", "fallback"} \union WxEnded,
                              refresh : BOOLEAN, debug : BOOLEAN, armed : BOOLEAN,
                              at : RowTimes]]
    /\ events \in [WxRequests -> [started : 0..1, terminal : 0..2]]

\* A day has passed, on which a snapshot was stored or not.
WxInit ==
    /\ now = DayLength /\ tz = 0 /\ migrations = 0
    /\ newest \in {Never, 0} /\ rows = [d \in Days |-> IF d = 0 THEN newest ELSE Never]
    /\ wx = [r \in WxRequests |-> WxIdle]
    /\ events = [r \in WxRequests |-> [started |-> 0, terminal |-> 0]]

(***************************************************************************)
(* The history table.                                                      *)
(***************************************************************************)
Dates == {d \in Days : rows[d] # Never}

\* get_latest_snapshot: the row fetched last.
Latest == IF Dates = {} THEN Never
          ELSE rows[CHOOSE d \in Dates : \A e \in Dates : rows[e] <= rows[d]]

\* Defect considered: the upsert has no WHERE clause, the last writer wins.
PutHistory_Overwrites(at) ==
    rows' = [rows EXCEPT ![DateOf(at, tz)] = at]

\* put_history_snapshot: a row of the same date is replaced by a newer one only.
PutHistory(at) ==
    LET d == DateOf(at, tz)
    IN rows' = [rows EXCEPT ![d] = IF at >= rows[d] THEN at ELSE rows[d]]

\* migrate_timezone rewrites every row under its new date; of the rows that
\* fall on one date it keeps the newest.
Remapped(offset) ==
    [d \in Days |->
        LET moved == {e \in Dates : DateOf(rows[e], offset) = d}
        IN IF moved = {} THEN Never
           ELSE rows[CHOOSE e \in moved : \A f \in moved :
                        \/ rows[f] < rows[e]
                        \/ rows[f] = rows[e] /\ f <= e]]

MigrateTimezone(offset) ==
    /\ migrations < MaxMigrations /\ offset # tz
    /\ rows' = Remapped(offset) /\ tz' = offset /\ migrations' = migrations + 1
    /\ UNCHANGED <<now, wx, events, newest>>

\* cached_snapshot_is_fresh: within the TTL and fetched on today's date.
IsFresh(at) == at # Never /\ now - at < Ttl /\ DateOf(at, tz) = DateOf(now, tz)

(***************************************************************************)
(* Requests.                                                               *)
(***************************************************************************)
Set(r, w) == wx' = [wx EXCEPT ![r] = w]
Goto(r, pc) == Set(r, [wx[r] EXCEPT !.pc = pc])

\* A request's end publishes the terminal event its guard still owes,
\* RefreshCompletionGuard::complete.
EndAll(S, pc) ==
    /\ wx' = [q \in WxRequests |-> IF q \in S THEN [WxIdle EXCEPT !.pc = pc] ELSE wx[q]]
    /\ events' = [q \in WxRequests |->
                    IF q \in S /\ wx[q].armed
                    THEN [events[q] EXCEPT !.terminal = @ + 1] ELSE events[q]]

BeginWeather(r, refresh, debug) ==
    /\ wx[r].pc = "idle" /\ \A q \in 1..(r - 1) : wx[q].pc # "idle"
    /\ Set(r, [WxIdle EXCEPT !.pc = "resolve", !.refresh = refresh, !.debug = debug,
                             !.armed = refresh])
    /\ events' = [events EXCEPT ![r].started = IF refresh THEN 1 ELSE 0]
    /\ UNCHANGED <<now, tz, migrations, rows, newest>>

ResolveStation(r) ==
    /\ wx[r].pc = "resolve"
    /\ \/ /\ Goto(r, IF wx[r].refresh \/ wx[r].debug THEN "wait" ELSE "lookup")
          /\ UNCHANGED events
       \/ EndAll({r}, "failed")
    /\ UNCHANGED <<now, tz, migrations, rows, newest>>

\* A fresh row answers; a failed query is the request's failure.
CacheLookup(r) ==
    /\ wx[r].pc = "lookup"
    /\ \/ IF IsFresh(Latest) THEN EndAll({r}, "answered") ELSE Goto(r, "wait") /\ UNCHANGED events
       \/ EndAll({r}, "failed")
    /\ UNCHANGED <<now, tz, migrations, rows, newest>>

Running == {"fetch", "stamp", "put", "merge", "fallback"}
Sharing(r) == {q \in WxRequests : wx[q].pc \in Running \union {"wait"} /\ wx[q].debug = wx[r].debug}

\* The flight of (station, include_debug).
LeadFetch(r) ==
    /\ wx[r].pc = "wait" /\ \A q \in Sharing(r) : wx[q].pc = "wait"
    /\ Goto(r, "fetch")
    /\ UNCHANGED <<now, tz, migrations, rows, events, newest>>

UpstreamAnswers(r) ==
    /\ wx[r].pc = "fetch"
    /\ Goto(r, "stamp") \/ Goto(r, "fallback")
    /\ UNCHANGED <<now, tz, migrations, rows, events, newest>>

\* persist_snapshot reads the clock, then hands the row to the database.
Stamp(r) ==
    /\ wx[r].pc = "stamp"
    /\ Set(r, [wx[r] EXCEPT !.pc = "put", !.at = now])
    /\ UNCHANGED <<now, tz, migrations, rows, events, newest>>

\* The row is written; a failed write is only a warning.
Put(r) ==
    /\ wx[r].pc = "put"
    /\ \/ /\ PutHistory(wx[r].at)
          /\ newest' = IF wx[r].at > newest THEN wx[r].at ELSE newest
       \/ UNCHANGED <<rows, newest>>
    /\ Goto(r, "merge")
    /\ UNCHANGED <<now, tz, migrations, events>>

\* What the parent's row adds goes into the answer only; the flight ends.
MergeParent(r) ==
    /\ wx[r].pc = "merge"
    /\ EndAll(Sharing(r), "answered")
    /\ UNCHANGED <<now, tz, migrations, rows, newest>>

\* The fetch failed: the latest row is served as stale, or the error.
Fallback(r) ==
    /\ wx[r].pc = "fallback"
    /\ EndAll(Sharing(r), IF Latest # Never THEN "stale" ELSE "failed")
    /\ UNCHANGED <<now, tz, migrations, rows, newest>>

\* Defect considered: the guard has no Drop, a cancelled refresh is not reported.
DropRequest_Silent(r) ==
    /\ wx[r].pc \notin WxEnded \union {"idle"}
    /\ wx' = [wx EXCEPT ![r] = [WxIdle EXCEPT !.pc = "failed"]]
    /\ UNCHANGED <<now, tz, migrations, rows, events, newest>>

\* The request timeout drops the future at an await: Drop for RefreshCompletionGuard.
DropRequest(r) ==
    /\ wx[r].pc \notin WxEnded \union {"idle"}
    /\ EndAll({r}, "failed")
    /\ UNCHANGED <<now, tz, migrations, rows, newest>>

Tick ==
    /\ now < MaxNow /\ now' = now + 1
    /\ UNCHANGED <<tz, migrations, rows, wx, events, newest>>

WxNext ==
    \/ \E r \in WxRequests :
          \/ \E refresh, debug \in BOOLEAN : BeginWeather(r, refresh, debug)
          \/ ResolveStation(r) \/ CacheLookup(r) \/ LeadFetch(r) \/ UpstreamAnswers(r)
          \/ Stamp(r) \/ Put(r) \/ MergeParent(r) \/ Fallback(r) \/ DropRequest(r)
    \/ \E offset \in Offsets : MigrateTimezone(offset)
    \/ Tick

WxSpec == WxInit /\ [][WxNext]_weatherVars

(***************************************************************************)
(* Properties.                                                             *)
(***************************************************************************)
\* The newest snapshot ever stored is the one get_latest_snapshot returns, and
\* every row stands under its date in the current timezone, whatever order
\* overlapping fetches reach the database in and however the rows were migrated.
LatestKept ==
    /\ Latest = newest
    /\ \A d \in Dates : DateOf(rows[d], tz) = d

\* events.rs:126: every started refresh is followed by one terminal event, also
\* when it ends in a shared flight, in an error or by the request's timeout.
RefreshReported ==
    \A r \in WxRequests :
       events[r].terminal = IF wx[r].pc \in WxEnded THEN events[r].started ELSE 0

(***************************************************************************)
(* Why these hold, as inductive invariants.                                *)
(***************************************************************************)
WxFields == {"pc", "refresh", "debug", "armed", "at"}

\* A request owes a terminal event exactly while its guard is armed.
EventInv ==
    /\ DOMAIN wx = WxRequests /\ DOMAIN events = WxRequests
    /\ \A r \in WxRequests :
          /\ DOMAIN wx[r] = WxFields /\ DOMAIN events[r] = {"started", "terminal"}
          /\ wx[r].pc \in WxEnded => events[r].terminal = events[r].started
          /\ wx[r].pc = "idle" => events[r].terminal = 0 /\ events[r].started = 0
          /\ wx[r].pc \notin WxEnded => events[r].terminal = 0
          /\ wx[r].pc \notin WxEnded \union {"idle"} =>
                events[r].started = IF wx[r].armed THEN 1 ELSE 0

\* No row is newer than the newest snapshot stored, which is still there, and
\* every row stands under its date.
RowInv ==
    /\ now \in Times /\ tz \in Offsets /\ newest \in RowTimes
    /\ rows \in [Days -> RowTimes]
    /\ \A r \in WxRequests : wx[r].pc = "put" => wx[r].at \in Times
    /\ \A d \in Days : rows[d] <= newest
    /\ newest # Never => \E d \in Days : rows[d] = newest
    /\ \A d \in Dates : DateOf(rows[d], tz) = d
=============================================================================
