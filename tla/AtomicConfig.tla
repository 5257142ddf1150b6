---------------------------- MODULE AtomicConfig ----------------------------
(***************************************************************************)
(* What clients may rely on of the engine's configuration: one durable     *)
(* record made of the database timezone and of the hot-reloadable part     *)
(* (stations and TTLs, abstracted to "stations").  A request is opened,    *)
(* and then either takes effect once, on its own half of the record as it  *)
(* is at that moment, or is closed without effect.  Nothing else changes   *)
(* the record: no failure, crash, restart or recovery.                     *)
(***************************************************************************)
CONSTANTS Requests, Timezones, Stations

VARIABLES config,  \* the record
          stage,   \* per request
          want     \* per request: the values it asks for

avars == <<config, stage, want>>

Config == [tz : Timezones, stations : Stations]

Init == /\ config \in Config
        /\ stage = [r \in Requests |-> "new"]
        /\ want \in [Requests -> Config]

\* UPDATE_CONFIG or MIGRATE_DB_TIMEZONE is accepted.
Open(r) ==
    /\ stage[r] = "new"
    /\ \E s \in {"update", "migrate"} : stage' = [stage EXCEPT ![r] = s]
    /\ \E c \in Config : want' = [want EXCEPT ![r] = c]
    /\ UNCHANGED config

Closed(r) == stage' = [stage EXCEPT ![r] = "closed"]

\* UPDATE_CONFIG takes effect on the hot part.
CommitUpdate(r) ==
    /\ stage[r] = "update"
    /\ config' = [config EXCEPT !.stations = want[r].stations]
    /\ Closed(r)
    /\ UNCHANGED want

\* MIGRATE_DB_TIMEZONE takes effect on the timezone.
CommitMigrate(r) ==
    /\ stage[r] = "migrate"
    /\ config' = [config EXCEPT !.tz = want[r].tz]
    /\ Closed(r)
    /\ UNCHANGED want

\* Requests are rejected, fail, are cancelled or die with the engine.
Abandon ==
    /\ \A r \in Requests : stage'[r] \in {stage[r], "closed"}
    /\ stage' \in [Requests -> {"new", "update", "migrate", "closed"}]
    /\ UNCHANGED <<config, want>>

Next == \/ \E r \in Requests : Open(r) \/ CommitUpdate(r) \/ CommitMigrate(r)
        \/ Abandon

Spec == Init /\ [][Next]_avars
=============================================================================
