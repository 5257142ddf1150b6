-------------------------- MODULE RefreshScheduler --------------------------
(***************************************************************************)
(* The background refresh loop: one schedule per enabled station, at most  *)
(* MaxConcurrent jobs, and a select over cancellation, configuration       *)
(* changes, finished jobs and a timer.                                     *)
(*                                                                         *)
(* Abstractions.  Instants are kept relative to now: next_due is the time  *)
(* left (0 when due, Never when unrepresentable), last_completed the time  *)
(* since, up to AgeCap.  A job is <<station, n>>, n telling apart jobs of  *)
(* one station; what it fetches is modelled elsewhere.  The date wait is   *)
(* any positive time, which only makes the loop wake more often.           *)
(***************************************************************************)
EXTENDS Naturals, FiniteSets, Sequences, SequencesExt

CONSTANTS Stations,        \* station names
          Parent,          \* parent_station_name, Absent without a parent
          Configs,         \* the configurations: [stations, ttl]
          MaxConcurrent,   \* MAX_CONCURRENT_REFRESHES
          Stagger,         \* STAGGER
          FallbackWake,    \* FALLBACK_WAKE
          AgeCap,          \* bound: older completions are not told apart
          MaxConfigs,      \* bound on configuration changes
          MaxDates,        \* bound on changes of the local date
          Absent, Never

ASSUME SchedulerAssumption ==
    /\ MaxConcurrent \in Nat \ {0}
    /\ Stagger \in Nat /\ AgeCap \in Nat
    /\ FallbackWake \in Nat \ {0}
    /\ MaxConfigs \in Nat /\ MaxDates \in Nat
    /\ Absent \notin Stations /\ Absent \notin Nat /\ Never \notin Nat
    /\ Parent \in [Stations -> Stations \cup {Absent}]
    /\ \A c \in Configs : /\ c.stations \in Seq([name : Stations, enabled : BOOLEAN])
                          /\ c.ttl \in 0..AgeCap \/ c.ttl = Never

VARIABLES
    live, changed,       \* the watched config, and the watch's changed mark
    order, ttl,          \* the loop's station_order and ttl
    schedules,           \* per scheduled station
    jobs, ended,         \* the JoinSet, and the tasks in it that have ended
    date, lastDate,      \* the local date, and the one the loop last saw
    owed,                \* history: not refreshed since the last date change seen
    at, wake,            \* the loop, and the time left of its sleep
    cancelled,
    configs, dates       \* bounds

refreshVars == <<live, changed, order, ttl, schedules, jobs, ended, date, lastDate, owed, at, wake,
          cancelled, configs, dates>>

Schedule == [last : 0..AgeCap \cup {Absent}, due : Nat \cup {Never},
             inFlight : BOOLEAN, datePending : BOOLEAN]

\* enabled_stations: every enabled station once, its parent before it.
AppendNew(seq, x) == IF x = Absent \/ x \in ToSet(seq) THEN seq ELSE Append(seq, x)
WithParent(seq, s) == AppendNew(AppendNew(seq, Parent[s]), s)
EnabledStations(c) ==
    LET upTo[i \in 0..Len(c.stations)] ==
            IF i = 0 THEN << >>
            ELSE IF c.stations[i].enabled THEN WithParent(upTo[i - 1], c.stations[i].name)
            ELSE upTo[i - 1]
    IN  upTo[Len(c.stations)]

\* weather_ttl: at least one second.
WeatherTtl(c) == IF c.ttl = 0 THEN 1 ELSE c.ttl

Position(s, ord) == CHOOSE i \in DOMAIN ord : ord[i] = s
StaggerOf(s, ord) == (Position(s, ord) - 1) * Stagger

\* deadline(last, ttl), relative to now.
DueAfter(age, t) == IF t = Never THEN Never ELSE IF age >= t THEN 0 ELSE t - age

\* reconcile_schedules: drop what is disabled, keep and re-time what is enabled.
Reconcile(sched, ord, t) ==
    [s \in ToSet(ord) |->
        IF s \notin DOMAIN sched
        THEN [last |-> Absent, due |-> StaggerOf(s, ord), inFlight |-> FALSE,
              datePending |-> FALSE]
        ELSE IF sched[s].datePending \/ sched[s].last = Absent
        THEN sched[s]
        ELSE [sched[s] EXCEPT !.due = DueAfter(sched[s].last, t)]]

\* schedule_date_refresh; a station in flight is refreshed again afterwards.
\* Defect considered: a station in flight is skipped.
ScheduleDateRefresh_SkipsInFlight(sched) ==
    [s \in DOMAIN sched |->
        IF sched[s].inFlight THEN sched[s]
        ELSE [sched[s] EXCEPT !.datePending = TRUE, !.due = StaggerOf(s, order)]]
ScheduleDateRefresh(sched) ==
    [s \in DOMAIN sched |->
        [sched[s] EXCEPT !.datePending = TRUE,
                         !.due = IF sched[s].inFlight THEN @ ELSE StaggerOf(s, order)]]

\* claim_due_stations: the first due stations of the order, as many as available.
Claimable(sched) == {s \in DOMAIN sched : ~sched[s].inFlight /\ sched[s].due = 0}
\* The free job slots.  Defects considered: one too many, one too few.
Available_OneTooFew == (MaxConcurrent - 1) - Cardinality(jobs)
Available == MaxConcurrent - Cardinality(jobs)
Claimed(sched) ==
    {s \in Claimable(sched) :
        Cardinality({t \in Claimable(sched) : Position(t, order) < Position(s, order)})
            < Available}
Claim(sched) ==
    [s \in DOMAIN sched |->
        IF s \in Claimed(sched)
        THEN [sched[s] EXCEPT !.inFlight = TRUE, !.datePending = FALSE, !.due = ttl]
        ELSE sched[s]]

\* The task spawned for a station, distinct from every other task.
Slot(s) == CHOOSE n \in 1..MaxConcurrent : <<s, n>> \notin jobs

\* next_scheduler_wait: the first due time, or the fallback wake.
Waits(sched) == {sched[s].due : s \in {t \in DOMAIN sched : ~sched[t].inFlight}} \ {Never}
SchedulerWait(sched, active) ==
    IF active >= MaxConcurrent \/ Waits(sched) = {} THEN FallbackWake
    ELSE CHOOSE w \in Waits(sched) : \A v \in Waits(sched) : w <= v

RefreshInit ==
    /\ live \in Configs
    /\ changed = FALSE
    /\ order = EnabledStations(live)
    /\ ttl = WeatherTtl(live)
    /\ schedules = Reconcile(<< >>, order, ttl)
    /\ jobs = {} /\ ended = {}
    /\ date = 0 /\ lastDate = 0
    /\ owed = {}
    /\ at = "top" /\ wake = 0
    /\ cancelled = FALSE
    /\ configs = 0 /\ dates = 0
-----------------------------------------------------------------------------
(* The loop.                                                               *)

\* From the top of an iteration to its select, without an await: notice a new
\* date, start what is due, and set the timer.
Dispatch ==
    /\ at = "top"
    /\ LET dated == IF date = lastDate THEN schedules ELSE ScheduleDateRefresh(schedules)
       IN  /\ schedules' = Claim(dated)
           /\ jobs' = jobs \cup {<<s, Slot(s)>> : s \in Claimed(dated)}
           /\ owed' = (IF date = lastDate THEN owed ELSE DOMAIN schedules) \ Claimed(dated)
    /\ LET w == SchedulerWait(schedules', Cardinality(jobs'))
       IN  wake' \in {IF d < w THEN d ELSE w : d \in 1..FallbackWake}
    /\ lastDate' = date
    /\ at' = "select"
    /\ UNCHANGED <<live, changed, order, ttl, ended, date, cancelled, configs, dates>>

TimerFires ==
    /\ at = "select"
    /\ wake = 0
    /\ at' = "top"
    /\ UNCHANGED <<live, changed, order, ttl, schedules, jobs, ended, date, lastDate, owed,
                   wake, cancelled, configs, dates>>

ConfigChanged ==
    /\ at = "select"
    /\ changed
    /\ changed' = FALSE
    /\ order' = EnabledStations(live)
    /\ ttl' = WeatherTtl(live)
    /\ schedules' = Reconcile(schedules, order', ttl')
    /\ owed' = owed \cap ToSet(order')
    /\ at' = "top"
    /\ UNCHANGED <<live, jobs, ended, date, lastDate, wake, cancelled, configs, dates>>

\* finish_job, whatever the job's outcome.
FinishJob(sched, s) ==
    IF s \notin DOMAIN sched THEN sched
    ELSE [sched EXCEPT ![s] =
            [@ EXCEPT !.inFlight = FALSE, !.last = 0,
                      !.due = IF sched[s].datePending THEN 0 ELSE ttl]]

\* join_next_with_id yields an ended task, panicked or not.
JobJoined(j) ==
    /\ at = "select"
    /\ j \in ended
    /\ jobs' = jobs \ {j}
    /\ ended' = ended \ {j}
    /\ schedules' = FinishJob(schedules, j[1])
    /\ at' = "top"
    /\ UNCHANGED <<live, changed, order, ttl, date, lastDate, owed, wake, cancelled, configs,
                   dates>>

\* Cancellation leaves the loop; the jobs are aborted and joined.
LeaveLoop ==
    /\ at = "select"
    /\ cancelled
    /\ at' = "draining"
    /\ UNCHANGED <<live, changed, order, ttl, schedules, jobs, ended, date, lastDate, owed,
                   wake, cancelled, configs, dates>>

DrainJobs ==
    /\ at = "draining"
    /\ \/ \E j \in jobs : jobs' = jobs \ {j} /\ ended' = ended \ {j} /\ at' = at
       \/ jobs = {} /\ at' = "done" /\ UNCHANGED <<jobs, ended>>
    /\ UNCHANGED <<live, changed, order, ttl, schedules, date, lastDate, owed, wake,
                   cancelled, configs, dates>>
-----------------------------------------------------------------------------
(* Its surroundings.                                                       *)

\* refresh_one returns, fails or panics.
JobEnds(j) ==
    /\ j \in jobs \ ended
    /\ ended' = ended \cup {j}
    /\ UNCHANGED <<live, changed, order, ttl, schedules, jobs, date, lastDate, owed, at, wake,
                   cancelled, configs, dates>>

UpdateConfig(c) ==
    /\ configs < MaxConfigs
    /\ configs' = configs + 1
    /\ live' = c
    /\ changed' = TRUE
    /\ UNCHANGED <<order, ttl, schedules, jobs, ended, date, lastDate, owed, at, wake,
                   cancelled, dates>>

DateChanges ==
    /\ dates < MaxDates
    /\ dates' = dates + 1
    /\ date' = date + 1
    /\ UNCHANGED <<live, changed, order, ttl, schedules, jobs, ended, lastDate, owed, at, wake,
                   cancelled, configs>>

CancelLoop ==
    /\ ~cancelled
    /\ cancelled' = TRUE
    /\ UNCHANGED <<live, changed, order, ttl, schedules, jobs, ended, date, lastDate, owed, at,
                   wake, configs, dates>>

Elapsed(sched) ==
    [s \in DOMAIN sched |->
        [sched[s] EXCEPT
            !.due = IF @ = Never \/ @ = 0 THEN @ ELSE @ - 1,
            !.last = IF @ = Absent \/ @ = AgeCap THEN @ ELSE @ + 1]]

\* One unit of time passes; the loop computes in no time between two awaits.
Tick ==
    /\ at = "select"
    /\ schedules' = Elapsed(schedules)
    /\ wake' = IF wake = 0 THEN 0 ELSE wake - 1
    /\ UNCHANGED <<live, changed, order, ttl, jobs, ended, date, lastDate, owed, at,
                   cancelled, configs, dates>>

Stopped == at = "done" /\ UNCHANGED refreshVars
-----------------------------------------------------------------------------
AnyJoined == \E j \in jobs : JobJoined(j)

LoopStep == Dispatch \/ TimerFires \/ ConfigChanged \/ AnyJoined \/ LeaveLoop \/ DrainJobs

RefreshNext ==
    \/ Dispatch \/ TimerFires \/ ConfigChanged \/ LeaveLoop \/ DrainJobs
    \/ \E j \in jobs : JobJoined(j) \/ JobEnds(j)
    \/ \E c \in Configs : UpdateConfig(c)
    \/ DateChanges \/ CancelLoop \/ Tick \/ Stopped

RefreshSpec == RefreshInit /\ [][RefreshNext]_refreshVars

(* Fairness: the runtime polls the loop, time passes, and jobs end because *)
(* the provider's requests time out.  A select entered again and again     *)
(* takes a branch that stays ready, for tokio polls them in random order.  *)
RefreshFairSpec ==
    /\ RefreshSpec
    /\ WF_refreshVars(LoopStep)
    /\ SF_refreshVars(Tick) /\ SF_refreshVars(AnyJoined) /\ SF_refreshVars(LeaveLoop)
    /\ WF_refreshVars(\E j \in jobs : JobEnds(j))
-----------------------------------------------------------------------------
\* Types; exactly the stations of the order are scheduled.
RefreshTypeOK ==
    /\ live \in Configs
    /\ changed \in BOOLEAN /\ cancelled \in BOOLEAN
    /\ order \in Seq(Stations)
    /\ schedules \in [ToSet(order) -> Schedule]
    /\ ttl \in Nat \cup {Never}
    /\ jobs \subseteq Stations \X (1..MaxConcurrent)
    /\ ended \subseteq jobs
    /\ owed \subseteq ToSet(order)
    /\ at \in {"top", "select", "draining", "done"}
    /\ wake \in 0..FallbackWake

\* The provider never sees more refresh jobs at once than the limit, stations
\* disabled and enabled again while their job runs included.
ConcurrencyLimited == Cardinality(jobs) <= MaxConcurrent

\* A station marked in flight has a job that will clear the mark: no order of
\* disabling, enabling, panicking and finishing leaves it excluded for ever.
InFlightHasJob ==
    at \in {"top", "select"} =>
        \A s \in DOMAIN schedules : schedules[s].inFlight => \E j \in jobs : j[1] = s

\* A date change is never forgotten: a station without a refresh started since
\* then still has it pending, in-flight stations included.
DateRefreshOwed == \A s \in owed : schedules[s].datePending

\* The loop never sleeps past a due station while a job slot is free.
NoOversleep ==
    (at = "select" /\ Cardinality(jobs) < MaxConcurrent) =>
        \A s \in DOMAIN schedules :
            (~schedules[s].inFlight /\ schedules[s].due # Never) => wake <= schedules[s].due

\* What the loop keeps through every order of configuration changes, job ends, date
\* changes and timer wakes: the job limit, a job behind every in-flight mark, every
\* date refresh still owed, and a wake that is never later than a due station.
LoopConsistent ==
    RefreshTypeOK /\ ConcurrencyLimited /\ InFlightHasJob /\ DateRefreshOwed /\ NoOversleep

\* It is inductive, once the jobs are known to be countable.
LoopInv == LoopConsistent /\ IsFiniteSet(jobs)

\* A due station is refreshed, unless it is disabled or loses its deadline.  (For
\* at most MaxConcurrent + 1 stations: see the README.)
DueIsRefreshed ==
    \A s \in Stations :
        (at = "select" /\ s \in DOMAIN schedules /\ s \in Claimable(schedules))
            ~> \/ s \notin DOMAIN schedules \/ schedules[s].inFlight
               \/ schedules[s].due = Never \/ cancelled

=============================================================================
