---------------------------- MODULE Singleflight ----------------------------
(***************************************************************************)
(* Request coalescing (Singleflight::run, join and the FlightLease drop).  *)
(* Calls for one key join a flight; a OnceCell lets one of them at a time  *)
(* run its work and publishes the first result to all; the lease keeps the *)
(* flight registered until its last participant has left.                  *)
(*                                                                         *)
(* Abstractions.  Calls are one-shot.  A flight (an Arc<Flight>) is named  *)
(* by the call that created it, which gives it the identity Arc::ptr_eq    *)
(* compares.  A result, value or error alike, is named by the call whose   *)
(* work produced it: sharing a result is getting the same name.            *)
(***************************************************************************)
EXTENDS Naturals, FiniteSets

CONSTANTS Calls,  \* calls of run(), each made once (the bound on their number)
          Keys,
          None

ASSUME CallsAssumption == IsFiniteSet(Calls) /\ None \notin Calls

VARIABLES
    flights,       \* per key: the registered flight
    participants,  \* per key: FlightEntry.participants (0 without an entry)
    cell,          \* per flight: the call whose result the OnceCell holds
    permit,        \* per flight: the call that runs the OnceCell initializer
    pc, key, flight,  \* per call
    got            \* per call: the result it returns

vars == <<flights, participants, cell, permit, pc, key, flight, got>>

Outside == {"new", "done"}
Active(k) == {c \in Calls : pc[c] \notin Outside /\ key[c] = k}

Init == /\ flights = [k \in Keys |-> None]
        /\ participants = [k \in Keys |-> 0]
        /\ cell = [f \in Calls |-> None]
        /\ permit = [f \in Calls |-> None]
        /\ pc = [c \in Calls |-> "new"]
        /\ key \in [Calls -> Keys]
        /\ flight = [c \in Calls |-> None]
        /\ got = [c \in Calls |-> None]

\* join, under the state mutex: share the registered flight or register one.
Join(c) ==
    /\ pc[c] = "new"
    /\ pc' = [pc EXCEPT ![c] = "joined"]
    /\ LET k == key[c]
           f == IF flights[k] = None THEN c ELSE flights[k]
       IN  /\ flights' = [flights EXCEPT ![k] = f]
           /\ participants' = [participants EXCEPT ![k] = @ + 1]
           /\ flight' = [flight EXCEPT ![c] = f]
    /\ UNCHANGED <<cell, permit, key, got>>

\* get_or_init: an empty cell whose permit is free is initialized by this call.
StartWork(c) ==
    /\ pc[c] = "joined"
    /\ cell[flight[c]] = None
    /\ permit[flight[c]] = None
    /\ permit' = [permit EXCEPT ![flight[c]] = c]
    /\ pc' = [pc EXCEPT ![c] = "running"]
    /\ UNCHANGED <<flights, participants, cell, key, flight, got>>

\* The work returns: its result is stored once and this call takes a copy.
FinishWork(c) ==
    /\ pc[c] = "running"
    /\ cell' = [cell EXCEPT ![flight[c]] = c]
    /\ permit' = [permit EXCEPT ![flight[c]] = None]
    /\ got' = [got EXCEPT ![c] = c]
    /\ pc' = [pc EXCEPT ![c] = "leaving"]
    /\ UNCHANGED <<flights, participants, key, flight>>

\* get_or_init: the cell is already set.
TakeResult(c) ==
    /\ pc[c] = "joined"
    /\ cell[flight[c]] # None
    /\ got' = [got EXCEPT ![c] = cell[flight[c]]]
    /\ pc' = [pc EXCEPT ![c] = "leaving"]
    /\ UNCHANGED <<flights, participants, cell, permit, key, flight>>

\* The initializer's semaphore permit is returned when its future is dropped.
\* Defect considered: it is lost.
ReturnPermit_Lost(c) == UNCHANGED permit
ReturnPermit(c) ==
    permit' = IF pc[c] = "running" THEN [permit EXCEPT ![flight[c]] = None] ELSE permit

\* The caller's future is dropped at its await: a running initializer gives the
\* permit back first, the lease is dropped after it.
Cancel(c) ==
    /\ pc[c] \in {"joined", "running"}
    /\ ReturnPermit(c)
    /\ pc' = [pc EXCEPT ![c] = "leaving"]
    /\ UNCHANGED <<flights, participants, cell, key, flight, got>>

\* The participants left, and whether their entry is removed.  Defects considered:
\* a lease counted twice or not at all; an entry removed by the first participant
\* that leaves, or by nobody.
Remaining_NotCounted(k) == participants[k]
Remaining(k) == participants[k] - 1
Removes(n) == n = 0

\* Drop for FlightLease, under the state mutex: only the lease's own flight is
\* counted down, and the last participant removes it.
Leave(c) ==
    /\ pc[c] = "leaving"
    /\ pc' = [pc EXCEPT ![c] = "done"]
    /\ LET k == key[c]
       IN  \/ /\ flights[k] = flight[c]
              /\ participants' = [participants EXCEPT ![k] = Remaining(k)]
              /\ flights' = IF Removes(Remaining(k)) THEN [flights EXCEPT ![k] = None]
                                                     ELSE flights
           \/ /\ flights[k] # flight[c]
              /\ UNCHANGED <<flights, participants>>
    /\ UNCHANGED <<cell, permit, key, flight, got>>

\* Every call has returned or was dropped.
AllDone == (\A c \in Calls : pc[c] = "done") /\ UNCHANGED vars

Next == \/ \E c \in Calls : \/ Join(c) \/ StartWork(c) \/ FinishWork(c)
                            \/ TakeResult(c) \/ Cancel(c) \/ Leave(c)
        \/ AllDone

Spec == Init /\ [][Next]_vars

(* Fairness: a woken task is polled, upstream work ends (the provider's    *)
(* requests have timeouts), a drop runs to its end.  Nothing forces a call *)
(* to be made or cancelled.                                                *)
FairSpec ==
    Spec /\ \A c \in Calls : WF_vars(StartWork(c) \/ FinishWork(c) \/ TakeResult(c) \/ Leave(c))
-----------------------------------------------------------------------------
\* Types; a count never drops below zero and is zero exactly without an entry.
TypeOK ==
    /\ flights \in [Keys -> Calls \cup {None}]
    /\ participants \in [Keys -> Nat]
    /\ cell \in [Calls -> Calls \cup {None}]
    /\ permit \in [Calls -> Calls \cup {None}]
    /\ pc \in [Calls -> {"new", "joined", "running", "leaving", "done"}]
    /\ key \in [Calls -> Keys]
    /\ flight \in [Calls -> Calls \cup {None}]
    /\ got \in [Calls -> Calls \cup {None}]

\* At most one call at a time works for a key: no duplicate upstream fetch.
OneWorkPerKey ==
    \A c, d \in Calls :
        (pc[c] = "running" /\ pc[d] = "running" /\ key[c] = key[d]) => c = d

\* The participant count is the number of calls inside, and an entry exists
\* exactly while somebody is inside: no flight leaks, cancelled calls included.
NoLeakedFlight ==
    \A k \in Keys : /\ participants[k] = Cardinality(Active(k))
                    /\ flights[k] = None <=> Active(k) = {}

\* A call that finds nobody inside starts new work: it never joins a flight that
\* already holds a result.
JoinsAloneFresh(c) ==
    (pc[c] = "new" /\ pc'[c] # "new" /\ Active(key[c]) = {}) => cell'[flight'[c]] = None
LaterCallStartsNewWork == [][\A c \in Calls : JoinsAloneFresh(c)]_vars

\* A call that joined always comes back, whoever is cancelled meanwhile.
CallsReturn == \A c \in Calls : (pc[c] = "joined") ~> (pc[c] = "done")
-----------------------------------------------------------------------------
(* The inductive invariant of OneWorkPerKey and NoLeakedFlight.            *)

\* Everybody inside holds a lease on the flight that is registered for the key.
LeaseInv == \A c \in Calls : pc[c] \notin Outside => /\ flights[key[c]] = flight[c]
                                                     /\ flight[c] \in Calls
                                                     /\ pc[flight[c]] # "new"

\* The permit of a flight is held by exactly the call that runs its work.
PermitInv ==
    /\ \A c \in Calls : pc[c] = "running" => permit[flight[c]] = c
    /\ \A f \in Calls : permit[f] # None =>
          pc[permit[f]] = "running" /\ flight[permit[f]] = f

\* A flight nobody has created yet has no result.
UnusedInv == \A c \in Calls : pc[c] = "new" => cell[c] = None

IInv == TypeOK /\ LeaseInv /\ PermitInv /\ UnusedInv /\ NoLeakedFlight
=============================================================================
