------------------------- MODULE EngineWork_proofs -------------------------
(***************************************************************************)
(* The engine's shared work, for any finite set of calls and any keys,     *)
(* stations, configurations, resources and transfers.                      *)
(*                                                                         *)
(* Coalesced requests: at most one call works for a key, and the           *)
(* participant count is exact, so no flight is leaked or removed under     *)
(* somebody's feet.  The refresh loop: the job limit holds, every station  *)
(* marked in flight has a job, no date refresh is forgotten and no due     *)
(* station is slept over.  Resources: the cache counts its bytes exactly   *)
(* and keeps nothing for an evicted registration, each pending mark has    *)
(* one fetch task, and every chunk a client takes is of a body of the      *)
(* length that was declared.                                               *)
(***************************************************************************)
EXTENDS Singleflight, RefreshScheduler, ResourceCache, FiniteLists_proofs, SequenceTheorems
-----------------------------------------------------------------------------
(* Request coalescing.                                                     *)

LEMMA ActiveFinite ==
  \A k \in Keys : IsFiniteSet(Active(k)) /\ Cardinality(Active(k)) \in Nat
<1> SUFFICES ASSUME NEW k \in Keys
             PROVE  IsFiniteSet(Active(k)) /\ Cardinality(Active(k)) \in Nat
  OBVIOUS
<1>1. Active(k) \subseteq Calls
  BY DEF Active
<1> QED BY <1>1, CallsAssumption, FS_Subset, FS_CardinalityType

LEMMA InitIInv == Init => IInv
<1> SUFFICES ASSUME Init PROVE IInv
  OBVIOUS
<1>1. TypeOK
  BY DEF Init, TypeOK
<1>2. LeaseInv /\ PermitInv /\ UnusedInv
  BY DEF Init, LeaseInv, PermitInv, UnusedInv, Outside
<1>3. \A k \in Keys : Active(k) = {}
  BY DEF Init, Active, Outside
<1>4. NoLeakedFlight
  BY <1>3, FS_EmptySet DEF NoLeakedFlight, Init
<1> QED BY <1>1, <1>2, <1>4 DEF IInv

\* A step that neither enters nor leaves keeps every count.
LEMMA SameActive ==
  ASSUME TypeOK, NoLeakedFlight, UNCHANGED <<flights, participants, key>>,
         \A c \in Calls : (pc'[c] \in Outside) = (pc[c] \in Outside)
  PROVE  NoLeakedFlight'
<1>1. \A k \in Keys : Active(k)' = Active(k)
  BY DEF Active
<1> QED BY <1>1 DEF NoLeakedFlight

LEMMA JoinIInv ==
  ASSUME IInv, NEW c \in Calls, Join(c)
  PROVE  IInv'
<1> USE DEF IInv, Join
<1> DEFINE k == key[c]
           f == IF flights[k] = None THEN c ELSE flights[k]
<1>0. k \in Keys /\ f \in Calls /\ pc[c] = "new" /\ c # None
  BY CallsAssumption DEF TypeOK
<1>1. TypeOK'
  BY <1>0 DEF TypeOK
<1>2. LeaseInv'
  <2>1. ASSUME NEW d \in Calls, d # c, pc'[d] \notin Outside
        PROVE  flights'[key'[d]] = flight'[d] /\ flight'[d] \in Calls
               /\ pc'[flight'[d]] # "new"
    <3>1. flights[key[d]] = flight[d] /\ flight[d] \in Calls /\ pc[flight[d]] # "new"
      BY <2>1 DEF LeaseInv, TypeOK
    <3>2. flight'[d] = flight[d] /\ key'[d] = key[d] /\ pc'[flight[d]] # "new"
      BY <2>1, <3>1 DEF TypeOK
    <3>3. CASE key[d] = k
      BY <3>1, <3>2, <3>3, <1>0, CallsAssumption DEF TypeOK
    <3>4. CASE key[d] # k
      BY <3>1, <3>2, <3>4, <1>0 DEF TypeOK
    <3> QED BY <3>1, <3>2, <3>3, <3>4
  <2>2. flights'[key'[c]] = flight'[c] /\ flight'[c] \in Calls
    BY <1>0 DEF TypeOK
  <2>3. pc'[flight'[c]] # "new"
    <3>1. CASE flights[k] = None
      BY <1>0, <3>1 DEF TypeOK
    <3>2. CASE flights[k] # None
      <4>1. PICK d \in Active(k) : TRUE
        BY <1>0, <3>2 DEF NoLeakedFlight
      <4>2. flights[k] = flight[d] /\ pc[flight[d]] # "new" /\ flight[d] \in Calls
        BY <4>1 DEF Active, LeaseInv
      <4> QED BY <1>0, <3>2, <4>2 DEF TypeOK
    <3> QED BY <3>1, <3>2
  <2> QED BY <2>1, <2>2, <2>3 DEF LeaseInv
<1>3. PermitInv'
  BY <1>0, CallsAssumption DEF TypeOK, PermitInv, LeaseInv, Outside
<1>4. UnusedInv'
  BY DEF UnusedInv, TypeOK
<1>5. NoLeakedFlight'
  <2>1. Active(k)' = Active(k) \cup {c} /\ c \notin Active(k)
    BY <1>0 DEF Active, Outside, TypeOK
  <2>2. ASSUME NEW j \in Keys, j # k
        PROVE  Active(j)' = Active(j)
    BY <1>0, <2>2 DEF Active, Outside, TypeOK
  <2>3. Cardinality(Active(k)') = Cardinality(Active(k)) + 1
    BY <2>1, <1>0, ActiveFinite, FS_AddElement
  <2>4. participants'[k] = participants[k] + 1 /\ flights'[k] = f
    BY <1>0 DEF TypeOK
  <2>5. participants'[k] = Cardinality(Active(k)') /\ flights'[k] # None
    BY <1>0, <2>3, <2>4, CallsAssumption DEF NoLeakedFlight
  <2>6. ASSUME NEW j \in Keys, j # k
        PROVE  participants'[j] = participants[j] /\ flights'[j] = flights[j]
    BY <1>0, <2>6 DEF TypeOK
  <2> QED BY <2>1, <2>2, <2>5, <2>6 DEF NoLeakedFlight
<1> QED BY <1>1, <1>2, <1>3, <1>4, <1>5

LEMMA InsideIInv ==
  ASSUME IInv, NEW c \in Calls,
         StartWork(c) \/ FinishWork(c) \/ TakeResult(c) \/ Cancel(c)
  PROVE  IInv'
<1> USE DEF IInv
<1>0. flight[c] \in Calls
  BY DEF StartWork, FinishWork, TakeResult, Cancel, ReturnPermit, LeaseInv, Outside
<1>1. TypeOK'
  BY <1>0 DEF TypeOK, StartWork, FinishWork, TakeResult, Cancel, ReturnPermit
<1>2. \A d \in Calls : /\ (pc'[d] \in Outside) = (pc[d] \in Outside)
                       /\ pc'[d] = "new" <=> pc[d] = "new"
  BY DEF StartWork, FinishWork, TakeResult, Cancel, ReturnPermit, Outside, TypeOK
<1>3. UNCHANGED <<flights, participants, key, flight>>
  BY DEF StartWork, FinishWork, TakeResult, Cancel, ReturnPermit
<1>4. LeaseInv'
  BY <1>2, <1>3 DEF LeaseInv
<1>5. PermitInv'
  <2>1. CASE StartWork(c)
    BY <1>0, <2>1, CallsAssumption DEF StartWork, PermitInv, TypeOK
  <2>2. CASE FinishWork(c)
    BY <1>0, <2>2, CallsAssumption DEF FinishWork, PermitInv, TypeOK
  <2>3. CASE TakeResult(c)
    BY <1>0, <2>3 DEF TakeResult, PermitInv, TypeOK
  <2>4. CASE Cancel(c)
    BY <1>0, <2>4, CallsAssumption DEF Cancel, ReturnPermit, PermitInv, TypeOK
  <2> QED BY <2>1, <2>2, <2>3, <2>4
<1>6. UnusedInv'
  BY <1>0, <1>2 DEF UnusedInv, LeaseInv, TypeOK, StartWork, FinishWork, TakeResult,
                    Cancel, ReturnPermit, Outside
<1>7. NoLeakedFlight'
  BY <1>2, <1>3, SameActive
<1> QED BY <1>1, <1>4, <1>5, <1>6, <1>7

LEMMA LeaveIInv ==
  ASSUME IInv, NEW c \in Calls, Leave(c)
  PROVE  IInv'
<1> USE DEF IInv
<1> DEFINE k == key[c]
<1>0. /\ k \in Keys /\ pc[c] = "leaving" /\ c \in Active(k)
      /\ flights[k] = flight[c] /\ flight[c] \in Calls
  BY DEF Leave, Remaining, Removes, LeaseInv, Active, Outside, TypeOK
<1>1. participants[k] = Cardinality(Active(k)) /\ participants[k] \in Nat \ {0}
  <2>1. Cardinality(Active(k)) # 0
    BY <1>0, ActiveFinite, FS_EmptySet
  <2> QED BY <1>0, <2>1 DEF NoLeakedFlight, TypeOK
<1>2. /\ participants' = [participants EXCEPT ![k] = @ - 1]
      /\ flights' = IF participants[k] = 1 THEN [flights EXCEPT ![k] = None] ELSE flights
      /\ pc' = [pc EXCEPT ![c] = "done"]
      /\ UNCHANGED <<cell, permit, key, flight, got>>
  BY <1>0 DEF Leave, Remaining, Removes
<1>3. TypeOK'
  BY <1>0, <1>1, <1>2 DEF TypeOK
<1>4. Active(k)' = Active(k) \ {c}
  BY <1>0, <1>2 DEF Active, Outside, TypeOK
<1>5. Cardinality(Active(k)') = participants[k] - 1
  BY <1>0, <1>1, <1>4, ActiveFinite, FS_RemoveElement
<1>6. participants[k] = 1 <=> Active(k)' = {}
  <2>1. IsFiniteSet(Active(k)')
    BY <1>0, <1>4, ActiveFinite, FS_RemoveElement
  <2> QED BY <2>1, <1>1, <1>5, FS_EmptySet
<1>7. \A j \in Keys : j # k => Active(j)' = Active(j)
  BY <1>0, <1>2 DEF Active, Outside, TypeOK
<1>8. NoLeakedFlight'
  <2>1. /\ participants'[k] = Cardinality(Active(k)')
        /\ flights'[k] = None <=> Active(k)' = {}
    BY <1>0, <1>1, <1>2, <1>5, <1>6, CallsAssumption DEF TypeOK
  <2>2. \A j \in Keys : j # k =>
            participants'[j] = participants[j] /\ flights'[j] = flights[j]
    BY <1>0, <1>2 DEF TypeOK
  <2>3. ASSUME NEW j \in Keys
        PROVE  /\ participants'[j] = Cardinality(Active(j)')
               /\ flights'[j] = None <=> Active(j)' = {}
    <3>1. CASE j = k
      BY <1>2, <2>1, <3>1 DEF Active
    <3>2. CASE j # k
      BY <2>2, <3>2, <1>7 DEF NoLeakedFlight
    <3> QED BY <3>1, <3>2
  <2> QED BY <2>3 DEF NoLeakedFlight
<1>9. LeaseInv'
  <2> SUFFICES ASSUME NEW d \in Calls, pc'[d] \notin Outside
               PROVE  flights'[key'[d]] = flight'[d] /\ flight'[d] \in Calls
                      /\ pc'[flight'[d]] # "new"
    BY DEF LeaseInv
  <2>1. d # c /\ pc[d] \notin Outside
    BY <1>2 DEF Outside, TypeOK
  <2>2. flights[key[d]] = flight[d] /\ flight[d] \in Calls /\ pc[flight[d]] # "new"
    BY <2>1 DEF LeaseInv
  <2>3. flights'[key[d]] = flights[key[d]]
    <3>1. CASE key[d] = k
      <4>1. d \in Active(k)'
        BY <1>4, <2>1, <3>1 DEF Active
      <4> QED BY <4>1, <1>6, <1>2
    <3>2. CASE key[d] # k
      BY <1>2, <3>2 DEF TypeOK
    <3> QED BY <3>1, <3>2
  <2> QED BY <1>2, <2>2, <2>3 DEF TypeOK
<1>10. PermitInv' /\ UnusedInv'
  BY <1>0, <1>2 DEF PermitInv, UnusedInv, TypeOK
<1> QED BY <1>3, <1>8, <1>9, <1>10

LEMMA NextIInv == IInv /\ [Next]_vars => IInv'
<1> SUFFICES ASSUME IInv, [Next]_vars PROVE IInv'
  OBVIOUS
<1>1. CASE UNCHANGED vars
  <2>1. TypeOK' /\ LeaseInv' /\ PermitInv' /\ UnusedInv'
    BY <1>1 DEF vars, IInv, TypeOK, LeaseInv, PermitInv, UnusedInv
  <2>2. NoLeakedFlight'
    BY <1>1, SameActive DEF vars, IInv
  <2> QED BY <2>1, <2>2 DEF IInv
<1>2. CASE \E c \in Calls : Join(c)
  BY <1>2, JoinIInv
<1>3. CASE \E c \in Calls : StartWork(c) \/ FinishWork(c) \/ TakeResult(c) \/ Cancel(c)
  BY <1>3, InsideIInv
<1>4. CASE \E c \in Calls : Leave(c)
  BY <1>4, LeaveIInv
<1> QED BY <1>1, <1>2, <1>3, <1>4 DEF Next, AllDone

\* The inductive invariant: leases, permits and counts agree in every reachable state.
THEOREM InvariantHolds == Spec => []IInv
<1> QED BY InitIInv, NextIInv, PTL DEF Spec

\* Type correctness of the coalescing state.
THEOREM TypeCorrect == Spec => []TypeOK
<1>1. IInv => TypeOK
  BY DEF IInv
<1> QED BY <1>1, InvariantHolds, PTL

\* The participant count is exact: no flight leaks and none is removed while a
\* call is inside it.
THEOREM FlightsNeverLeak == Spec => []NoLeakedFlight
<1>1. IInv => NoLeakedFlight
  BY DEF IInv
<1> QED BY <1>1, InvariantHolds, PTL

\* At most one call at a time does the upstream work of a key.
THEOREM NoDuplicateWork == Spec => []OneWorkPerKey
<1>1. IInv => OneWorkPerKey
  BY DEF IInv, OneWorkPerKey, LeaseInv, PermitInv, Outside
<1> QED BY <1>1, InvariantHolds, PTL

\* A call that finds nobody inside starts with an empty cell.
THEOREM LaterCallsStartFresh == Spec => LaterCallStartsNewWork
<1>1. IInv /\ [Next]_vars => [\A c \in Calls : JoinsAloneFresh(c)]_vars
  <2> SUFFICES ASSUME IInv, Next, NEW c \in Calls,
                      pc[c] = "new", pc'[c] # "new", Active(key[c]) = {}
               PROVE  cell'[flight'[c]] = None
    BY DEF JoinsAloneFresh
  <2>1. Join(c)
    BY DEF Next, Join, StartWork, FinishWork, TakeResult, Cancel, ReturnPermit,
           Leave, Remaining, Removes, AllDone, vars,
           IInv, TypeOK
  <2>2. flights[key[c]] = None /\ cell[c] = None
    BY DEF IInv, NoLeakedFlight, UnusedInv, TypeOK
  <2> QED BY <2>1, <2>2 DEF Join, IInv, TypeOK
<1> QED BY <1>1, InvariantHolds, PTL DEF Spec, LaterCallStartsNewWork
-----------------------------------------------------------------------------
(* The refresh loop: the operators its steps are built from.               *)

\* The members of a sequence of stations, and how many there are at most.
LEMMA Members ==
    ASSUME NEW seq \in Seq(Stations)
    PROVE  /\ ToSet(seq) \subseteq Stations /\ IsFiniteSet(ToSet(seq))
           /\ \A s \in ToSet(seq) : /\ Position(s, seq) \in 1..Len(seq)
                                    /\ seq[Position(s, seq)] = s
<1>1. DOMAIN seq = 1..Len(seq) /\ Len(seq) \in Nat
  OBVIOUS
<1>2. ToSet(seq) \subseteq Stations
  BY DEF ToSet
<1>3. IsFiniteSet(ToSet(seq))
  <2>1. seq \in Surjection(1..Len(seq), ToSet(seq))
    BY <1>1 DEF Surjection, ToSet
  <2>2. IsFiniteSet(1..Len(seq))
    BY <1>1, FS_Interval
  <2>. QED BY <2>1, <2>2, FS_Surjection
<1>4. ASSUME NEW s \in ToSet(seq)
      PROVE  Position(s, seq) \in 1..Len(seq) /\ seq[Position(s, seq)] = s
  <2>1. \E i \in DOMAIN seq : seq[i] = s
    BY DEF ToSet
  <2>. QED BY <1>1, <2>1 DEF Position
<1>. QED BY <1>2, <1>3, <1>4

LEMMA StaggerIsTime ==
    ASSUME NEW ord \in Seq(Stations), NEW s \in ToSet(ord)
    PROVE  StaggerOf(s, ord) \in Nat
<1>1. Position(s, ord) - 1 \in Nat /\ Stagger \in Nat
  BY Members, SchedulerAssumption
<1>2. \A a, b \in Nat : a * b \in Nat
  OBVIOUS
<1>. QED BY <1>1, <1>2 DEF StaggerOf

LEMMA WithParentIsOrder ==
    ASSUME NEW seq \in Seq(Stations), NEW s \in Stations
    PROVE  WithParent(seq, s) \in Seq(Stations)
<1>1. AppendNew(seq, Parent[s]) \in Seq(Stations)
  BY SchedulerAssumption DEF AppendNew
<1>. QED BY <1>1 DEF AppendNew, WithParent

\* One station of the configuration after those before it.
Extended(c, seq, i) ==
    IF c.stations[i].enabled THEN WithParent(seq, c.stations[i].name) ELSE seq
IsUpTo(c, f, n) ==
    /\ f = [i \in 0..n |-> f[i]] /\ f[0] = << >>
    /\ \A i \in 1..n : f[i] = Extended(c, f[i - 1], i)

LEMMA ExtendedIsOrder ==
    ASSUME NEW c \in Configs, NEW i \in 1..Len(c.stations), NEW seq \in Seq(Stations)
    PROVE  Extended(c, seq, i) \in Seq(Stations)
<1>. DEFINE q == c.stations
<1>1. q \in Seq([name : Stations, enabled : BOOLEAN])
  BY SchedulerAssumption
<1>2. q[i] \in [name : Stations, enabled : BOOLEAN]
  <2>1. i \in 1..Len(q)
    BY DEF q
  <2>. HIDE DEF q
  <2>. QED BY <1>1, <2>1, ElementIsIn
<1>3. c.stations[i].name \in Stations
  BY <1>2 DEF q
<1>. QED BY <1>3, WithParentIsOrder DEF Extended

\* The recursion over the configuration's stations has a solution: by the least
\* length for which it would have none.
LEMMA UpToExists ==
    ASSUME NEW c \in Configs
    PROVE  \E f : IsUpTo(c, f, Len(c.stations))
<1>. DEFINE n == Len(c.stations)
            Bad == {m \in 0..n : ~\E f : IsUpTo(c, f, m)}
<1>1. n \in Nat
  BY SchedulerAssumption
<1>. HIDE DEF n
<1>2. SUFFICES ASSUME Bad # {} PROVE FALSE
  BY <1>1 DEF n
<1>3. PICK m \in Bad : \A k \in Bad : m <= k
  <2>1. Bad \subseteq Nat
    BY <1>1
  <2>. HIDE DEF Bad
  <2>. QED BY <1>2, <2>1, LeastNatural
<1>4. m # 0
  <2>1. IsUpTo(c, [i \in 0..0 |-> << >>], 0)
    BY DEF IsUpTo
  <2>. QED BY <1>3, <2>1
<1>5. m \in 1..n /\ m - 1 \in 0..n /\ m - 1 < m
  BY <1>1, <1>3, <1>4
<1>6. PICK f : IsUpTo(c, f, m - 1)
  BY <1>3, <1>5
<1>. DEFINE g == [i \in 0..m |-> IF i = m THEN Extended(c, f[m - 1], m) ELSE f[i]]
<1>7. /\ g[0] = << >> /\ g = [i \in 0..m |-> g[i]]
      /\ \A i \in 1..m : g[i] = Extended(c, g[i - 1], i)
  <2>1. g[0] = << >>
    BY <1>1, <1>5, <1>6 DEF IsUpTo
  <2>2. ASSUME NEW i \in 1..m PROVE g[i] = Extended(c, g[i - 1], i)
    <3>1. CASE i = m
      <4>1. g[i] = Extended(c, f[m - 1], m) /\ g[i - 1] = f[m - 1]
        BY <1>1, <1>5, <3>1
      <4>. QED BY <3>1, <4>1
    <3>2. CASE i # m
      <4>1. i \in 1..(m - 1) /\ g[i] = f[i] /\ g[i - 1] = f[i - 1]
        BY <1>1, <1>5, <2>2, <3>2
      <4>. QED BY <1>6, <4>1 DEF IsUpTo
    <3>. QED BY <3>1, <3>2
  <2>3. g = [i \in 0..m |-> g[i]]
    OBVIOUS
  <2>. QED BY <2>1, <2>2, <2>3
<1>. HIDE DEF g
<1>8. IsUpTo(c, g, m)
  BY <1>7 DEF IsUpTo
<1>. QED BY <1>3, <1>8

\* enabled_stations returns a list of stations.
LEMMA OrderIsStations ==
    ASSUME NEW c \in Configs
    PROVE  EnabledStations(c) \in Seq(Stations)
<1>. DEFINE n == Len(c.stations)
            F(f) == [i \in 0..n |->
                       IF i = 0 THEN << >>
                       ELSE IF c.stations[i].enabled
                            THEN WithParent(f[i - 1], c.stations[i].name)
                            ELSE f[i - 1]]
            upTo == CHOOSE f : f = F(f)
<1>1. n \in Nat
  BY SchedulerAssumption
<1>2. \E f : f = F(f)
  <2>1. PICK f : IsUpTo(c, f, n)
    BY UpToExists
  <2>2. ASSUME NEW i \in 0..n
        PROVE  f[i] = F(f)[i]
    <3>1. CASE i = 0
      BY <2>1, <2>2, <3>1 DEF IsUpTo
    <3>2. CASE i # 0
      <4>1. i \in 1..n
        BY <1>1, <2>2, <3>2
      <4>. QED BY <2>1, <2>2, <3>2, <4>1 DEF IsUpTo, Extended
    <3>. QED BY <3>1, <3>2
  <2>3. f = F(f)
    BY <2>1, <2>2 DEF IsUpTo
  <2>. QED BY <2>3
<1>3. upTo = F(upTo)
  BY <1>2
<1>4. EnabledStations(c) = upTo[n]
  BY DEF EnabledStations
<1>. HIDE DEF upTo
<1>. DEFINE Bad == {i \in 0..n : upTo[i] \notin Seq(Stations)}
<1>5. \A i \in 0..n : upTo[i] = IF i = 0 THEN << >> ELSE Extended(c, upTo[i - 1], i)
  BY <1>3, Zenon DEF Extended
<1>. HIDE DEF n, F
<1>6. Bad = {}
  <2>1. SUFFICES ASSUME Bad # {} PROVE FALSE
    OBVIOUS
  <2>2. PICK m \in Bad : \A k \in Bad : m <= k
    <3>1. Bad \subseteq Nat
      BY <1>1
    <3>. HIDE DEF Bad
    <3>. QED BY <2>1, <3>1, LeastNatural
  <2>3. m # 0
    <3>1. << >> \in Seq(Stations) /\ m \in 0..n /\ upTo[m] \notin Seq(Stations)
      BY <2>2
    <3>. QED BY <1>5, <3>1
  <2>4. m \in 1..n /\ m - 1 \in 0..n /\ m - 1 < m
    BY <1>1, <2>2, <2>3
  <2>5. upTo[m - 1] \in Seq(Stations)
    BY <2>2, <2>4
  <2>6. upTo[m] = Extended(c, upTo[m - 1], m)
    BY <1>5, <2>3, <2>4
  <2>. QED BY <2>2, <2>4, <2>5, <2>6, ExtendedIsOrder DEF n
<1>. QED BY <1>1, <1>4, <1>6

-----------------------------------------------------------------------------
\* What the loop's computations do to the schedules.

LEMMA TimesAreTimes ==
    /\ \A c \in Configs : WeatherTtl(c) \in Nat \cup {Never}
    /\ \A age \in Nat, t \in Nat \cup {Never} : DueAfter(age, t) \in Nat \cup {Never}
BY SchedulerAssumption DEF WeatherTtl, DueAfter

\* reconcile_schedules keeps the marks of the stations it keeps.
LEMMA ReconcileFacts ==
    ASSUME NEW ord \in Seq(Stations), NEW t \in Nat \cup {Never},
           NEW sch, \A s \in DOMAIN sch : sch[s] \in Schedule
    PROVE  /\ Reconcile(sch, ord, t) \in [ToSet(ord) -> Schedule]
           /\ \A s \in ToSet(ord) :
                 /\ Reconcile(sch, ord, t)[s].inFlight => s \in DOMAIN sch /\ sch[s].inFlight
                 /\ s \in DOMAIN sch =>
                       Reconcile(sch, ord, t)[s].datePending = sch[s].datePending
<1>. DEFINE R == Reconcile(sch, ord, t)
<1>1. DOMAIN R = ToSet(ord) /\ R = [s \in ToSet(ord) |-> R[s]]
  BY DEF Reconcile
<1>2. ASSUME NEW s \in ToSet(ord)
      PROVE  /\ R[s] \in Schedule
             /\ R[s].inFlight => s \in DOMAIN sch /\ sch[s].inFlight
             /\ s \in DOMAIN sch => R[s].datePending = sch[s].datePending
  <2>1. CASE s \notin DOMAIN sch
    <3>1. R[s] = [last |-> Absent, due |-> StaggerOf(s, ord), inFlight |-> FALSE,
                  datePending |-> FALSE]
      BY <2>1 DEF Reconcile
    <3>2. StaggerOf(s, ord) \in Nat
      BY StaggerIsTime
    <3>3. R[s] \in Schedule /\ R[s].inFlight = FALSE
      BY <3>1, <3>2 DEF Schedule
    <3>. QED BY <2>1, <3>3
  <2>2. CASE s \in DOMAIN sch /\ (sch[s].datePending \/ sch[s].last = Absent)
    <3>1. R[s] = sch[s]
      BY <2>2 DEF Reconcile
    <3>. QED BY <2>2, <3>1
  <2>3. CASE s \in DOMAIN sch /\ ~(sch[s].datePending \/ sch[s].last = Absent)
    <3>1. R[s] = [sch[s] EXCEPT !.due = DueAfter(sch[s].last, t)]
      BY <2>3 DEF Reconcile
    <3>2. sch[s] \in Schedule /\ sch[s].last \in Nat
      BY <2>3, SchedulerAssumption DEF Schedule
    <3>3. DueAfter(sch[s].last, t) \in Nat \cup {Never}
      BY <3>2, TimesAreTimes
    <3>. QED BY <2>3, <3>1, <3>2, <3>3 DEF Schedule
  <2>. QED BY <2>1, <2>2, <2>3
<1>. HIDE DEF R
<1>3. R \in [ToSet(ord) -> Schedule]
  BY <1>1, <1>2
<1>. QED BY <1>2, <1>3 DEF R

LEMMA DateRefreshFacts ==
    ASSUME order \in Seq(Stations), NEW sch \in [ToSet(order) -> Schedule]
    PROVE  /\ ScheduleDateRefresh(sch) \in [ToSet(order) -> Schedule]
           /\ \A s \in ToSet(order) :
                 /\ ScheduleDateRefresh(sch)[s].inFlight = sch[s].inFlight
                 /\ ScheduleDateRefresh(sch)[s].datePending
<1>. DEFINE R == ScheduleDateRefresh(sch)
<1>1. R = [s \in ToSet(order) |-> R[s]]
  BY DEF ScheduleDateRefresh
<1>2. ASSUME NEW s \in ToSet(order)
      PROVE  R[s] \in Schedule /\ R[s].inFlight = sch[s].inFlight /\ R[s].datePending
  <2>. DEFINE due == IF sch[s].inFlight THEN sch[s].due ELSE StaggerOf(s, order)
  <2>1. R[s] = [sch[s] EXCEPT !.datePending = TRUE, !.due = due]
    BY DEF ScheduleDateRefresh
  <2>2. sch[s] \in Schedule /\ due \in Nat \cup {Never}
    BY StaggerIsTime DEF Schedule
  <2>. HIDE DEF due
  <2>. QED BY <2>1, <2>2 DEF Schedule
<1>. HIDE DEF R
<1>3. R \in [ToSet(order) -> Schedule]
  BY <1>1, <1>2
<1>. QED BY <1>2, <1>3 DEF R

LEMMA ClaimFacts ==
    ASSUME NEW S, NEW sch \in [S -> Schedule], ttl \in Nat \cup {Never}
    PROVE  /\ Claimed(sch) \subseteq S
           /\ Claim(sch) \in [S -> Schedule]
           /\ \A s \in S : s \notin Claimed(sch) => Claim(sch)[s] = sch[s]
<1>. DEFINE R == Claim(sch)
<1>1. R = [s \in S |-> R[s]] /\ Claimed(sch) \subseteq S
  BY DEF Claim, Claimed, Claimable
<1>2. ASSUME NEW s \in S
      PROVE  R[s] \in Schedule /\ (s \notin Claimed(sch) => R[s] = sch[s])
  <2>1. CASE s \in Claimed(sch)
    <3>1. R[s] = [sch[s] EXCEPT !.inFlight = TRUE, !.datePending = FALSE, !.due = ttl]
      BY <2>1 DEF Claim
    <3>. QED BY <2>1, <3>1 DEF Schedule
  <2>2. CASE s \notin Claimed(sch)
    <3>1. R[s] = sch[s]
      BY <2>2 DEF Claim
    <3>. QED BY <3>1
  <2>. QED BY <2>1, <2>2
<1>. HIDE DEF R
<1>3. R \in [S -> Schedule]
  BY <1>1, <1>2
<1>. QED BY <1>1, <1>2, <1>3 DEF R

\* claim_due_stations claims no more than what is available: of the last station
\* claimed, fewer than that many due ones come before it.
LEMMA ClaimedCount ==
    ASSUME order \in Seq(Stations), NEW sch \in [ToSet(order) -> Schedule],
           IsFiniteSet(jobs), Cardinality(jobs) <= MaxConcurrent
    PROVE  /\ IsFiniteSet(Claimed(sch))
           /\ Cardinality(jobs) \in Nat /\ Cardinality(Claimed(sch)) \in Nat
           /\ Cardinality(Claimed(sch)) <= MaxConcurrent - Cardinality(jobs)
<1>. DEFINE C == Claimed(sch)
            Due == Claimable(sch)
            Before(s) == {t \in Due : Position(t, order) < Position(s, order)}
<1>1. IsFiniteSet(ToSet(order)) /\ C \subseteq Due /\ Due \subseteq ToSet(order)
  BY Members DEF Claimed, Claimable
<1>2. IsFiniteSet(C) /\ IsFiniteSet(Due)
  BY <1>1, FS_Subset
<1>3. Cardinality(C) \in Nat /\ Cardinality(jobs) \in Nat /\ MaxConcurrent \in Nat
  BY <1>2, FS_CardinalityType, SchedulerAssumption
<1>4. \A s \in C : Cardinality(Before(s)) < MaxConcurrent - Cardinality(jobs)
  BY DEF Claimed, Available
<1>5. \A s \in Due : /\ Position(s, order) \in 1..Len(order)
                    /\ order[Position(s, order)] = s
  BY <1>1, Members
<1>. HIDE DEF C, Due
<1>6. CASE C = {}
  <2>1. Cardinality(C) = 0
    BY <1>6, FS_EmptySet
  <2>. QED BY <1>2, <1>3, <2>1 DEF C
<1>7. CASE C # {}
  <2>. DEFINE P == {Position(s, order) : s \in C}
  <2>1. P \subseteq 0..Len(order) /\ P # {} /\ Len(order) \in Nat
    BY <1>1, <1>5, <1>7
  <2>. HIDE DEF P
  <2>2. PICK x \in P : \A y \in P : y <= x
    BY <2>1, GreatestNatural
  <2>3. PICK m \in C : x = Position(m, order)
    BY <2>2 DEF P
  <2>4. C \ {m} \subseteq Before(m)
    <3>1. SUFFICES ASSUME NEW s \in C, s # m
                   PROVE  Position(s, order) < Position(m, order)
      BY <1>1
    <3>2. Position(s, order) \in P /\ Position(s, order) <= Position(m, order)
      BY <2>2, <2>3 DEF P
    <3>3. /\ Position(s, order) \in Nat /\ Position(m, order) \in Nat
          /\ Position(s, order) # Position(m, order)
      BY <1>1, <1>5, <3>1
    <3>. QED BY <3>2, <3>3
  <2>5. IsFiniteSet(Before(m)) /\ Cardinality(Before(m)) \in Nat
    <3>1. Before(m) \subseteq Due
      OBVIOUS
    <3>. QED BY <1>2, <3>1, FS_Subset, FS_CardinalityType
  <2>6. Cardinality(C \ {m}) = Cardinality(C) - 1
    BY <1>2, FS_RemoveElement
  <2>7. Cardinality(C \ {m}) <= Cardinality(Before(m))
    BY <2>4, <2>5, FS_Subset
  <2>8. Cardinality(Before(m)) < MaxConcurrent - Cardinality(jobs)
    BY <1>4
  <2>. HIDE DEF Before
  <2>9. Cardinality(C) <= MaxConcurrent - Cardinality(jobs)
    BY <1>3, <2>5, <2>6, <2>7, <2>8
  <2>. QED BY <1>2, <1>3, <2>9 DEF C
<1>. QED BY <1>6, <1>7

\* While a job slot is free, a station finds a task id that is not in use.
LEMMA SlotIsFree ==
    ASSUME NEW s, IsFiniteSet(jobs), Cardinality(jobs) < MaxConcurrent
    PROVE  Slot(s) \in 1..MaxConcurrent
<1>1. MaxConcurrent \in Nat /\ Cardinality(jobs) \in Nat
  BY SchedulerAssumption, FS_CardinalityType
<1>2. \E n \in 1..MaxConcurrent : <<s, n>> \notin jobs
  <2>1. SUFFICES ASSUME \A n \in 1..MaxConcurrent : <<s, n>> \in jobs PROVE FALSE
    OBVIOUS
  <2>. DEFINE f == [n \in 1..MaxConcurrent |-> <<s, n>>]
  <2>2. f \in Injection(1..MaxConcurrent, jobs)
    BY <2>1 DEF Injection, IsInjective
  <2>. HIDE DEF f
  <2>3. Cardinality(1..MaxConcurrent) <= Cardinality(jobs)
    BY <2>2, FS_Injection
  <2>4. Cardinality(1..MaxConcurrent) = MaxConcurrent
    BY <1>1, FS_Interval
  <2>. QED BY <1>1, <2>3, <2>4
<1>. QED BY <1>2 DEF Slot

\* dispatch_due: the tasks spawned fill at most the free slots.
LEMMA SpawnedCount ==
    ASSUME NEW C, IsFiniteSet(C), C \subseteq Stations, IsFiniteSet(jobs),
           jobs \subseteq Stations \X (1..MaxConcurrent),
           Cardinality(C) <= MaxConcurrent - Cardinality(jobs)
    PROVE  LET all == jobs \cup {<<s, Slot(s)>> : s \in C}
           IN  /\ IsFiniteSet(all) /\ Cardinality(all) \in Nat
               /\ Cardinality(all) <= MaxConcurrent
               /\ all \subseteq Stations \X (1..MaxConcurrent)
<1>. DEFINE new == {<<s, Slot(s)>> : s \in C}
            f == [s \in C |-> <<s, Slot(s)>>]
<1>1. /\ MaxConcurrent \in Nat /\ Cardinality(jobs) \in Nat /\ Cardinality(C) \in Nat
  BY SchedulerAssumption, FS_CardinalityType
<1>2. f \in Surjection(C, new)
  BY DEF Surjection
<1>3. new \subseteq Stations \X (1..MaxConcurrent)
  <2>1. SUFFICES ASSUME NEW s \in C PROVE Slot(s) \in 1..MaxConcurrent
    OBVIOUS
  <2>2. Cardinality(C) # 0
    BY FS_EmptySet
  <2>3. Cardinality(jobs) < MaxConcurrent
    BY <1>1, <2>2
  <2>. QED BY <2>3, SlotIsFree
<1>. HIDE DEF f, new
<1>4. IsFiniteSet(new) /\ Cardinality(new) <= Cardinality(C)
  BY <1>2, FS_Surjection
<1>5. /\ IsFiniteSet(jobs \cup new)
      /\ Cardinality(jobs \cup new) =
            Cardinality(jobs) + Cardinality(new) - Cardinality(jobs \cap new)
  BY <1>4, FS_Union
<1>6. Cardinality(new) \in Nat /\ Cardinality(jobs \cap new) \in Nat
      /\ Cardinality(jobs \cup new) \in Nat
  BY <1>4, <1>5, FS_Intersection, FS_CardinalityType
<1>7. Cardinality(jobs \cup new) <= MaxConcurrent
  BY <1>1, <1>4, <1>5, <1>6
<1>. QED BY <1>3, <1>5, <1>6, <1>7 DEF new

\* next_scheduler_wait is no later than any station due without a job.
LEMMA WaitFacts ==
    ASSUME NEW S, NEW sch \in [S -> Schedule], NEW active \in Nat
    PROVE  /\ SchedulerWait(sch, active) \in Nat
           /\ active < MaxConcurrent =>
                 \A s \in S : ~sch[s].inFlight /\ sch[s].due # Never =>
                              SchedulerWait(sch, active) <= sch[s].due
<1>1. /\ Waits(sch) \subseteq Nat
      /\ \A s \in S : ~sch[s].inFlight /\ sch[s].due # Never => sch[s].due \in Waits(sch)
  BY DEF Waits, Schedule
<1>2. FallbackWake \in Nat /\ MaxConcurrent \in Nat
  BY SchedulerAssumption
<1>3. CASE active >= MaxConcurrent \/ Waits(sch) = {}
  <2>1. SchedulerWait(sch, active) = FallbackWake
    BY <1>3 DEF SchedulerWait
  <2>. QED BY <1>1, <1>2, <1>3, <2>1
<1>4. CASE ~(active >= MaxConcurrent \/ Waits(sch) = {})
  <2>1. \E w \in Waits(sch) : \A v \in Waits(sch) : w <= v
    BY <1>1, <1>4, LeastNatural
  <2>2. /\ SchedulerWait(sch, active) \in Waits(sch)
        /\ \A v \in Waits(sch) : SchedulerWait(sch, active) <= v
    BY <1>4, <2>1 DEF SchedulerWait
  <2>. QED BY <1>1, <2>2
<1>. QED BY <1>3, <1>4

-----------------------------------------------------------------------------
\* LoopInv, one step at a time.

LEMMA InitLoopInv == RefreshInit => LoopInv
<1>. SUFFICES ASSUME RefreshInit PROVE LoopInv
  OBVIOUS
<1>1. order \in Seq(Stations) /\ ttl \in Nat \cup {Never}
  BY OrderIsStations, TimesAreTimes DEF RefreshInit
<1>2. DOMAIN << >> = {}
  OBVIOUS
<1>3. /\ schedules \in [ToSet(order) -> Schedule]
      /\ \A s \in ToSet(order) : ~schedules[s].inFlight
  BY <1>1, <1>2, ReconcileFacts DEF RefreshInit
<1>4. IsFiniteSet(jobs) /\ Cardinality(jobs) = 0 /\ MaxConcurrent \in Nat /\ FallbackWake \in Nat
  BY FS_EmptySet, SchedulerAssumption DEF RefreshInit
<1>5. RefreshTypeOK
  <2>1. /\ live \in Configs /\ changed = FALSE /\ cancelled = FALSE
        /\ jobs = {} /\ ended = {} /\ owed = {} /\ at = "top" /\ wake = 0
    BY DEF RefreshInit
  <2>2. /\ jobs \subseteq Stations \X (1..MaxConcurrent) /\ ended \subseteq jobs
        /\ owed \subseteq ToSet(order) /\ wake \in 0..FallbackWake
    BY <1>4, <2>1
  <2>. QED BY <1>1, <1>3, <2>1, <2>2 DEF RefreshTypeOK
<1>6. DOMAIN schedules = ToSet(order)
  BY <1>3
<1>. QED BY <1>3, <1>4, <1>5, <1>6
         DEF RefreshInit, LoopInv, LoopConsistent, ConcurrencyLimited, InFlightHasJob,
             DateRefreshOwed, NoOversleep

LEMMA DispatchLoopInv ==
    ASSUME LoopInv, Dispatch
    PROVE  LoopInv'
<1>. DEFINE dated == IF date = lastDate THEN schedules ELSE ScheduleDateRefresh(schedules)
            base  == IF date = lastDate THEN owed ELSE DOMAIN schedules
            new   == {<<s, Slot(s)>> : s \in Claimed(dated)}
            w     == SchedulerWait(schedules', Cardinality(jobs'))
<1>1. /\ RefreshTypeOK /\ IsFiniteSet(jobs) /\ Cardinality(jobs) <= MaxConcurrent
      /\ InFlightHasJob /\ DateRefreshOwed /\ order \in Seq(Stations)
      /\ schedules \in [ToSet(order) -> Schedule] /\ ttl \in Nat \cup {Never}
  BY DEF LoopInv, LoopConsistent, ConcurrencyLimited, RefreshTypeOK
<1>2. /\ at = "top" /\ at' = "select"
      /\ schedules' = Claim(dated) /\ jobs' = jobs \cup new
      /\ owed' = base \ Claimed(dated)
      /\ wake' \in {IF d < w THEN d ELSE w : d \in 1..FallbackWake}
      /\ UNCHANGED <<live, changed, order, ttl, ended, date, cancelled, configs, dates>>
  BY DEF Dispatch
<1>3. /\ dated \in [ToSet(order) -> Schedule] /\ base \subseteq ToSet(order)
      /\ \A s \in ToSet(order) : dated[s].inFlight = schedules[s].inFlight
      /\ \A s \in base : dated[s].datePending
  <2>1. CASE date = lastDate
    BY <1>1, <2>1 DEF RefreshTypeOK, DateRefreshOwed
  <2>2. CASE date # lastDate
    BY <1>1, <2>2, DateRefreshFacts
  <2>. QED BY <2>1, <2>2
<1>. HIDE DEF dated, base
<1>4. /\ Claimed(dated) \subseteq ToSet(order)
      /\ schedules' \in [ToSet(order) -> Schedule]
      /\ \A s \in ToSet(order) : s \notin Claimed(dated) => schedules'[s] = dated[s]
  BY <1>1, <1>2, <1>3, ClaimFacts
<1>5. /\ IsFiniteSet(jobs') /\ Cardinality(jobs') \in Nat
      /\ Cardinality(jobs') <= MaxConcurrent
      /\ jobs' \subseteq Stations \X (1..MaxConcurrent)
  <2>1. /\ IsFiniteSet(Claimed(dated))
        /\ Cardinality(Claimed(dated)) <= MaxConcurrent - Cardinality(jobs)
    BY <1>1, <1>3, ClaimedCount
  <2>2. Claimed(dated) \subseteq Stations /\ jobs \subseteq Stations \X (1..MaxConcurrent)
    BY <1>1, <1>4, Members DEF RefreshTypeOK
  <2>. QED BY <1>1, <1>2, <2>1, <2>2, SpawnedCount
<1>6. /\ w \in Nat
      /\ Cardinality(jobs') < MaxConcurrent =>
            \A s \in ToSet(order) :
               ~schedules'[s].inFlight /\ schedules'[s].due # Never => w <= schedules'[s].due
  BY <1>4, <1>5, WaitFacts
<1>. HIDE DEF w
<1>7. wake' \in 0..FallbackWake /\ wake' <= w
  <2>1. PICK d \in 1..FallbackWake : wake' = IF d < w THEN d ELSE w
    BY <1>2
  <2>. QED BY <1>6, <2>1, SchedulerAssumption
<1>8. RefreshTypeOK'
  <2>1. /\ live' \in Configs /\ changed' \in BOOLEAN /\ cancelled' \in BOOLEAN
        /\ ended' \subseteq jobs' /\ order' \in Seq(Stations)
    BY <1>1, <1>2 DEF RefreshTypeOK
  <2>. QED BY <1>1, <1>2, <1>3, <1>4, <1>5, <1>7, <2>1 DEF RefreshTypeOK
<1>9. InFlightHasJob'
  <2>1. SUFFICES ASSUME NEW s \in ToSet(order), schedules'[s].inFlight
                 PROVE  \E j \in jobs' : j[1] = s
    BY <1>4 DEF InFlightHasJob
  <2>2. CASE s \in Claimed(dated)
    <3>1. <<s, Slot(s)>> \in jobs'
      BY <1>2, <2>2
    <3>. QED BY <3>1
  <2>3. CASE s \notin Claimed(dated)
    <3>1. schedules[s].inFlight /\ s \in DOMAIN schedules
      BY <1>1, <1>3, <1>4, <2>1, <2>3
    <3>2. \E j \in jobs : j[1] = s
      BY <1>1, <1>2, <3>1 DEF InFlightHasJob
    <3>. QED BY <1>2, <3>2
  <2>. QED BY <2>2, <2>3
<1>10. DateRefreshOwed'
  BY <1>2, <1>3, <1>4 DEF DateRefreshOwed
<1>11. NoOversleep'
  <2>1. SUFFICES ASSUME Cardinality(jobs') < MaxConcurrent, NEW s \in ToSet(order),
                        ~schedules'[s].inFlight, schedules'[s].due # Never
                 PROVE  wake' <= schedules'[s].due
    BY <1>4 DEF NoOversleep
  <2>2. w <= schedules'[s].due /\ schedules'[s].due \in Nat
    BY <1>4, <1>6, <2>1 DEF Schedule
  <2>. QED BY <1>6, <1>7, <2>2
<1>. QED BY <1>5, <1>8, <1>9, <1>10, <1>11 DEF LoopInv, LoopConsistent, ConcurrencyLimited

LEMMA ConfigChangedLoopInv ==
    ASSUME LoopInv, ConfigChanged
    PROVE  LoopInv'
<1>1. /\ RefreshTypeOK /\ IsFiniteSet(jobs) /\ ConcurrencyLimited
      /\ InFlightHasJob /\ DateRefreshOwed
      /\ schedules \in [ToSet(order) -> Schedule] /\ live \in Configs
  BY DEF LoopInv, LoopConsistent, RefreshTypeOK
<1>2. /\ at = "select" /\ at' = "top" /\ changed' = FALSE
      /\ order' = EnabledStations(live) /\ ttl' = WeatherTtl(live)
      /\ schedules' = Reconcile(schedules, order', ttl')
      /\ owed' = owed \cap ToSet(order')
      /\ UNCHANGED <<live, jobs, ended, date, lastDate, wake, cancelled, configs, dates>>
  BY DEF ConfigChanged
<1>3. order' \in Seq(Stations) /\ ttl' \in Nat \cup {Never}
  BY <1>1, <1>2, OrderIsStations, TimesAreTimes
<1>4. /\ schedules' \in [ToSet(order') -> Schedule]
      /\ \A s \in ToSet(order') :
            /\ schedules'[s].inFlight => s \in DOMAIN schedules /\ schedules[s].inFlight
            /\ s \in DOMAIN schedules => schedules'[s].datePending = schedules[s].datePending
  BY <1>1, <1>2, <1>3, ReconcileFacts
<1>5. RefreshTypeOK'
  BY <1>1, <1>2, <1>3, <1>4 DEF RefreshTypeOK
<1>6. InFlightHasJob'
  BY <1>1, <1>2, <1>4 DEF InFlightHasJob
<1>7. DateRefreshOwed'
  <2>1. owed \subseteq DOMAIN schedules
    BY <1>1 DEF RefreshTypeOK
  <2>. QED BY <1>1, <1>2, <1>4, <2>1 DEF DateRefreshOwed
<1>. QED BY <1>1, <1>2, <1>5, <1>6, <1>7
         DEF LoopInv, LoopConsistent, ConcurrencyLimited, NoOversleep

\* A job less keeps the limit.
LEMMA FewerJobs ==
    ASSUME IsFiniteSet(jobs), Cardinality(jobs) <= MaxConcurrent, NEW j
    PROVE  IsFiniteSet(jobs \ {j}) /\ Cardinality(jobs \ {j}) <= MaxConcurrent
<1>1. /\ IsFiniteSet(jobs \ {j}) /\ Cardinality(jobs \ {j}) \in Nat
      /\ Cardinality(jobs) \in Nat /\ MaxConcurrent \in Nat
  BY FS_RemoveElement, FS_CardinalityType, SchedulerAssumption
<1>2. Cardinality(jobs \ {j}) <= Cardinality(jobs)
  BY FS_Subset
<1>. QED BY <1>1, <1>2

LEMMA JobJoinedLoopInv ==
    ASSUME LoopInv, NEW j \in jobs, JobJoined(j)
    PROVE  LoopInv'
<1>1. /\ RefreshTypeOK /\ IsFiniteSet(jobs) /\ Cardinality(jobs) <= MaxConcurrent
      /\ InFlightHasJob /\ DateRefreshOwed
      /\ schedules \in [ToSet(order) -> Schedule] /\ ttl \in Nat \cup {Never}
  BY DEF LoopInv, LoopConsistent, RefreshTypeOK, ConcurrencyLimited
<1>2. /\ at = "select" /\ at' = "top"
      /\ jobs' = jobs \ {j} /\ ended' = ended \ {j}
      /\ schedules' = FinishJob(schedules, j[1])
      /\ UNCHANGED <<live, changed, order, ttl, date, lastDate, owed, wake, cancelled>>
  BY DEF JobJoined
<1>3. /\ schedules' \in [ToSet(order) -> Schedule]
      /\ \A s \in ToSet(order) : /\ schedules'[s].datePending = schedules[s].datePending
                                 /\ schedules'[s].inFlight => s # j[1] /\ schedules[s].inFlight
  <2>1. CASE j[1] \notin ToSet(order)
    <3>1. schedules' = schedules
      BY <1>1, <1>2, <2>1 DEF FinishJob
    <3>. QED BY <1>1, <2>1, <3>1
  <2>2. CASE j[1] \in ToSet(order)
    <3>. DEFINE r == [schedules[j[1]] EXCEPT
                        !.inFlight = FALSE, !.last = 0,
                        !.due = IF schedules[j[1]].datePending THEN 0 ELSE ttl]
    <3>1. schedules' = [schedules EXCEPT ![j[1]] = r]
      BY <1>1, <1>2, <2>2 DEF FinishJob
    <3>2. schedules[j[1]] \in Schedule /\ 0 \in 0..AgeCap
      BY <1>1, <2>2, SchedulerAssumption
    <3>3. r \in Schedule /\ r.datePending = schedules[j[1]].datePending /\ r.inFlight = FALSE
      BY <1>1, <3>2 DEF Schedule
    <3>. HIDE DEF r
    <3>. QED BY <1>1, <2>2, <3>1, <3>3
  <2>. QED BY <2>1, <2>2
<1>4. RefreshTypeOK'
  BY <1>1, <1>2, <1>3 DEF RefreshTypeOK
<1>5. InFlightHasJob'
  <2>1. SUFFICES ASSUME NEW s \in ToSet(order), schedules'[s].inFlight
                 PROVE  \E k \in jobs' : k[1] = s
    BY <1>3 DEF InFlightHasJob
  <2>2. s # j[1] /\ schedules[s].inFlight /\ s \in DOMAIN schedules
    BY <1>1, <1>3, <2>1
  <2>3. PICK k \in jobs : k[1] = s
    BY <1>1, <1>2, <2>2 DEF InFlightHasJob
  <2>. QED BY <1>2, <2>2, <2>3
<1>6. DateRefreshOwed'
  BY <1>1, <1>2, <1>3 DEF DateRefreshOwed, RefreshTypeOK
<1>7. IsFiniteSet(jobs') /\ Cardinality(jobs') <= MaxConcurrent
  BY <1>1, <1>2, FewerJobs
<1>. QED BY <1>2, <1>4, <1>5, <1>6, <1>7
         DEF LoopInv, LoopConsistent, ConcurrencyLimited, NoOversleep

LEMMA DrainJobsLoopInv ==
    ASSUME LoopInv, DrainJobs
    PROVE  LoopInv'
<1>1. /\ RefreshTypeOK /\ IsFiniteSet(jobs) /\ Cardinality(jobs) <= MaxConcurrent
      /\ DateRefreshOwed
  BY DEF LoopInv, LoopConsistent, ConcurrencyLimited
<1>2. /\ at = "draining" /\ at' \in {"draining", "done"}
      /\ \/ jobs' = jobs /\ ended' = ended
         \/ \E j \in jobs : jobs' = jobs \ {j} /\ ended' = ended \ {j}
      /\ UNCHANGED <<live, changed, order, ttl, schedules, date, lastDate, owed, wake, cancelled>>
  BY DEF DrainJobs
<1>3. /\ IsFiniteSet(jobs') /\ Cardinality(jobs') <= MaxConcurrent
      /\ jobs' \subseteq jobs /\ ended' \subseteq jobs'
  BY <1>1, <1>2, FewerJobs DEF RefreshTypeOK
<1>4. RefreshTypeOK'
  BY <1>1, <1>2, <1>3 DEF RefreshTypeOK
<1>. QED BY <1>1, <1>2, <1>3, <1>4
         DEF LoopInv, LoopConsistent, ConcurrencyLimited, InFlightHasJob, DateRefreshOwed,
             NoOversleep

LEMMA TickLoopInv ==
    ASSUME LoopInv, Tick
    PROVE  LoopInv'
<1>1. /\ RefreshTypeOK /\ IsFiniteSet(jobs) /\ ConcurrencyLimited
      /\ InFlightHasJob /\ DateRefreshOwed /\ NoOversleep
      /\ schedules \in [ToSet(order) -> Schedule] /\ wake \in Nat
      /\ wake <= FallbackWake /\ FallbackWake \in Nat /\ AgeCap \in Nat
  BY SchedulerAssumption DEF LoopInv, LoopConsistent, RefreshTypeOK
<1>2. /\ at = "select" /\ schedules' = Elapsed(schedules)
      /\ wake' = IF wake = 0 THEN 0 ELSE wake - 1
      /\ UNCHANGED <<live, changed, order, ttl, jobs, ended, date, lastDate, owed, at, cancelled>>
  BY DEF Tick
<1>3. /\ DOMAIN schedules' = ToSet(order)
      /\ schedules' = [s \in ToSet(order) |-> schedules'[s]]
  BY <1>1, <1>2 DEF Elapsed
<1>4. ASSUME NEW s \in ToSet(order)
      PROVE  /\ schedules'[s] \in Schedule
             /\ schedules'[s].inFlight = schedules[s].inFlight
             /\ schedules'[s].datePending = schedules[s].datePending
             /\ schedules'[s].due = Never => schedules[s].due = Never
             /\ schedules[s].due # Never =>
                   schedules'[s].due = IF schedules[s].due = 0 THEN 0 ELSE schedules[s].due - 1
  <2>. DEFINE due == IF schedules[s].due = Never \/ schedules[s].due = 0
                     THEN schedules[s].due ELSE schedules[s].due - 1
              last == IF schedules[s].last = Absent \/ schedules[s].last = AgeCap
                      THEN schedules[s].last ELSE schedules[s].last + 1
  <2>1. schedules[s] \in Schedule
    BY <1>1
  <2>2. schedules'[s] = [schedules[s] EXCEPT !.due = due, !.last = last]
    BY <1>1, <1>2 DEF Elapsed
  <2>3. due \in Nat \cup {Never} /\ last \in 0..AgeCap \cup {Absent}
        /\ (due = Never => schedules[s].due = Never)
        /\ (schedules[s].due # Never =>
               due = IF schedules[s].due = 0 THEN 0 ELSE schedules[s].due - 1)
    BY <1>1, <2>1, SchedulerAssumption DEF Schedule
  <2>. HIDE DEF due, last
  <2>4. /\ schedules'[s] \in Schedule /\ schedules'[s].due = due
        /\ schedules'[s].inFlight = schedules[s].inFlight
        /\ schedules'[s].datePending = schedules[s].datePending
    BY <2>1, <2>2, <2>3 DEF Schedule
  <2>. QED BY <2>3, <2>4
<1>5. schedules' \in [ToSet(order) -> Schedule]
  BY <1>3, <1>4
<1>6. RefreshTypeOK'
  BY <1>1, <1>2, <1>5 DEF RefreshTypeOK
<1>7. NoOversleep'
  <2>1. SUFFICES ASSUME Cardinality(jobs) < MaxConcurrent, NEW s \in ToSet(order),
                        ~schedules'[s].inFlight, schedules'[s].due # Never
                 PROVE  wake' <= schedules'[s].due
    BY <1>2, <1>3 DEF NoOversleep
  <2>2. /\ schedules[s].due # Never => wake <= schedules[s].due
        /\ schedules[s] \in Schedule
    BY <1>1, <1>2, <1>4, <2>1 DEF NoOversleep
  <2>3. schedules[s].due # Never
    <3>1. schedules[s].due = Never => schedules'[s].due = Never
      BY <1>1, <1>2, <2>2 DEF Elapsed, Schedule
    <3>. QED BY <2>1, <3>1
  <2>4. schedules[s].due \in Nat
    BY <2>2, <2>3 DEF Schedule
  <2>. QED BY <1>1, <1>2, <1>4, <2>2, <2>3, <2>4
<1>8. InFlightHasJob' /\ DateRefreshOwed'
  BY <1>1, <1>2, <1>3, <1>4 DEF InFlightHasJob, DateRefreshOwed, RefreshTypeOK
<1>. QED BY <1>1, <1>2, <1>6, <1>7, <1>8 DEF LoopInv, LoopConsistent, ConcurrencyLimited

LEMMA OtherLoopInv ==
    ASSUME LoopInv,
           \/ TimerFires \/ LeaveLoop \/ DateChanges \/ CancelLoop \/ Stopped
           \/ \E j \in jobs : JobEnds(j)
           \/ \E c \in Configs : UpdateConfig(c)
           \/ UNCHANGED refreshVars
    PROVE  LoopInv'
<1>1. /\ RefreshTypeOK /\ IsFiniteSet(jobs) /\ ConcurrencyLimited
      /\ InFlightHasJob /\ DateRefreshOwed /\ NoOversleep
  BY DEF LoopInv, LoopConsistent
<1>2. /\ UNCHANGED <<order, ttl, schedules, jobs, owed, wake>>
      /\ live' \in Configs /\ changed' \in BOOLEAN /\ cancelled' \in BOOLEAN
      /\ ended' \subseteq jobs
      /\ (at' = at \/ (at = "select" /\ at' \in {"top", "draining"}))
  BY <1>1 DEF RefreshTypeOK, TimerFires, LeaveLoop, DateChanges, CancelLoop, Stopped, JobEnds,
              UpdateConfig, refreshVars
<1>3. RefreshTypeOK'
  BY <1>1, <1>2 DEF RefreshTypeOK
<1>4. ConcurrencyLimited' /\ InFlightHasJob' /\ DateRefreshOwed' /\ NoOversleep'
  BY <1>1, <1>2 DEF ConcurrencyLimited, InFlightHasJob, DateRefreshOwed, NoOversleep
<1>. QED BY <1>1, <1>2, <1>3, <1>4 DEF LoopInv, LoopConsistent

\* run_refresh_loop: for any configurations and in any order of their changes, job
\* ends, date changes and wakes, the job limit holds, every in-flight mark has a job
\* that will clear it, no date refresh is forgotten and no due station is slept over.
THEOREM LoopStaysConsistent == RefreshSpec => []LoopConsistent
<1>1. LoopInv /\ [RefreshNext]_refreshVars => LoopInv'
  BY DispatchLoopInv, ConfigChangedLoopInv, JobJoinedLoopInv, DrainJobsLoopInv, TickLoopInv,
     OtherLoopInv DEF RefreshNext
<1>2. LoopInv => LoopConsistent
  BY DEF LoopInv
<1>. QED BY InitLoopInv, <1>1, <1>2, PTL DEF RefreshSpec
-----------------------------------------------------------------------------
(* Resource transfers.                                                     *)

\* What TransferInv says of one transfer c.
TransferOk(c) ==
    /\ DOMAIN c = {"total", "got", "state"} /\ c.got \in Seq(Bodies)
    /\ c.total = Nothing => c.got = << >>
    /\ \A k \in 1..Len(c.got) : Size[c.got[k]] = c.total
    /\ c.state = "done" => c.total = Len(c.got)
CacheOk(map) == DOMAIN map = Ids /\ \A i \in Ids : map[i] # Nothing => map[i] \in Bodies

LEMMA TransferParts ==
    TransferInv <=> /\ CacheOk(cache) /\ DOMAIN client = Transfers
                    /\ \A i \in Transfers : TransferOk(client[i])
BY DEF TransferInv, TransferOk, CacheOk

\* A transfer that begins, and one that fails.
LEMMA FreshOk ==
    TransferOk(Fresh) /\ TransferOk([Fresh EXCEPT !.state = "idle"])
<1>1. Len(<< >>) = 0 /\ << >> \in Seq(Bodies)
  OBVIOUS
<1>. QED BY <1>1 DEF Fresh, TransferOk

LEMMA OneTransferMoves ==
    ASSUME TransferInv, NEW id \in Transfers, NEW c, TransferOk(c),
           client' = [client EXCEPT ![id] = c], CacheOk(cache')
    PROVE  TransferInv'
<1>1. /\ DOMAIN client' = Transfers /\ client'[id] = c
      /\ \A i \in Transfers : i # id => client'[i] = client[i]
  BY TransferParts
<1>2. \A i \in Transfers : TransferOk(client'[i])
  BY <1>1, TransferParts
<1>. QED BY <1>1, <1>2 DEF TransferInv, TransferOk, CacheOk

LEMMA FailKeepsTransferInv ==
    ASSUME TransferInv, NEW id \in Transfers, Fail(id), CacheOk(cache')
    PROVE  TransferInv'
<1>. DEFINE c == [client[id] EXCEPT !.state = "failed"]
<1>1. TransferOk(client[id]) /\ DOMAIN client = Transfers
  BY TransferParts
<1>2. DOMAIN c = {"total", "got", "state"} /\ c.total = client[id].total
      /\ c.got = client[id].got /\ c.state = "failed"
  BY <1>1 DEF TransferOk
<1>3. client' = [client EXCEPT ![id] = c]
  BY DEF Fail
<1>. HIDE DEF c
<1>4. TransferOk(c)
  BY <1>1, <1>2 DEF TransferOk
<1>. QED BY <1>3, <1>4, OneTransferMoves

\* ResourceAssembler::push: an accepted chunk is of a body of the total's length.
LEMMA PushedOk ==
    ASSUME NEW c, TransferOk(c), NEW b \in Bodies, Accepts(c, b)
    PROVE  TransferOk(Pushed(c, b))
<1>. DEFINE new == IF Len(c.got) < Size[b] THEN Append(c.got, b) ELSE c.got
            p == Pushed(c, b)
<1>1. DOMAIN p = {"total", "got", "state"} /\ p.total = Size[b] /\ p.got = new
      /\ p.state = IF Len(new) = Size[b] THEN "done" ELSE "asking"
  BY DEF Pushed
<1>2. Size[b] \in Nat /\ Size[b] # Nothing
  BY ResourceAssumption
<1>3. \A k \in 1..Len(c.got) : Size[c.got[k]] = Size[b]
  <2>1. CASE c.total = Nothing
    <3>1. Len(c.got) = 0
      BY <2>1 DEF TransferOk
    <3>. QED BY <3>1
  <2>2. CASE c.total = Size[b]
    BY <2>2 DEF TransferOk
  <2>. QED BY <2>1, <2>2 DEF Accepts
<1>4. new \in Seq(Bodies) /\ \A k \in 1..Len(new) : Size[new[k]] = Size[b]
  <2>1. c.got \in Seq(Bodies)
    BY DEF TransferOk
  <2>2. CASE Len(c.got) < Size[b]
    <3>1. new = Append(c.got, b)
      BY <2>2
    <3>. HIDE DEF new
    <3>2. new \in Seq(Bodies) /\ Len(new) = Len(c.got) + 1 /\ new[Len(c.got) + 1] = b
          /\ \A k \in 1..Len(c.got) : new[k] = c.got[k]
      BY <2>1, <3>1
    <3>. QED BY <1>3, <2>1, <3>2
  <2>3. CASE ~(Len(c.got) < Size[b])
    BY <1>3, <2>1, <2>3
  <2>. QED BY <2>2, <2>3
<1>. HIDE DEF new, p
<1>5. p.state = "done" => Len(new) = Size[b]
  BY <1>1
<1>6. TransferOk(p)
  BY <1>1, <1>2, <1>4, <1>5 DEF TransferOk
<1>. QED BY <1>6 DEF p

LEMMA RemovedKeepsCache ==
    ASSUME CacheOk(cache), NEW S, Removed(S)
    PROVE  CacheOk(cache')
BY DEF Removed, CacheOk

\* The engine's side touches no transfer and caches only bodies.
LEMMA ManagerKeepsTransferInv ==
    ASSUME TransferInv, NEW id \in Ids,
           Register(id) \/ Expire(id) \/ FailureLapses(id) \/ TaskStep(id) \/ FetchPanics(id)
    PROVE  TransferInv'
<1>1. CacheOk(cache) /\ DOMAIN client = Transfers /\ \A i \in Transfers : TransferOk(client[i])
  BY TransferParts
<1>2. client' = client
  BY DEF Register, Expire, FailureLapses, TaskStep, FetchReturns, FetchFails, FinishFetch,
         FetchPanics
<1>3. CacheOk(cache')
  <2>1. CASE Register(id)
    <3>1. cache' = cache \/ \E S : Removed(S)
      BY <2>1 DEF Register, Forget
    <3>. QED BY <1>1, <3>1, RemovedKeepsCache
  <2>2. CASE \E b \in Bodies : FetchReturns(id, b)
    <3>1. PICK b \in Bodies : FetchReturns(id, b)
      BY <2>2
    <3>. QED BY <1>1, <3>1 DEF FetchReturns, CacheOk
  <2>3. CASE \/ Expire(id) \/ FailureLapses(id) \/ FetchFails(id) \/ FinishFetch(id)
             \/ FetchPanics(id)
    BY <1>1, <2>3 DEF Expire, FailureLapses, FetchFails, FinishFetch, FetchPanics
  <2>. QED BY <2>1, <2>2, <2>3 DEF TaskStep
<1>. QED BY <1>1, <1>2, <1>3 DEF TransferInv, TransferOk, CacheOk

LEMMA ClientKeepsTransferInv ==
    ASSUME TransferInv, NEW id \in Transfers,
           \/ StartTransfer(id) \/ AskMissing(id) \/ AskReady(id) \/ AskOther(id)
           \/ TransferFails(id)
    PROVE  TransferInv'
<1>1. CacheOk(cache) /\ DOMAIN client = Transfers /\ \A i \in Transfers : TransferOk(client[i])
  BY TransferParts
<1>2. CASE StartTransfer(id)
  <2>1. client' = [client EXCEPT ![id] = Fresh] /\ cache' = cache
    BY <1>2 DEF StartTransfer
  <2>. QED BY <1>1, <2>1, FreshOk, OneTransferMoves
<1>3. CASE AskMissing(id) \/ TransferFails(id)
  <2>1. Fail(id) /\ cache' = cache
    BY <1>3 DEF AskMissing, TransferFails
  <2>. QED BY <1>1, <2>1, FailKeepsTransferInv
<1>4. CASE AskReady(id)
  <2>1. /\ cache' = cache /\ cache[id] \in Bodies
        /\ \/ Accepts(client[id], cache[id])
              /\ client' = [client EXCEPT ![id] = Pushed(client[id], cache[id])]
           \/ Fail(id)
    BY <1>1, <1>4, ResourceAssumption DEF AskReady, CacheOk
  <2>2. CASE Fail(id)
    BY <1>1, <2>1, <2>2, FailKeepsTransferInv
  <2>3. CASE ~Fail(id)
    <3>1. TransferOk(Pushed(client[id], cache[id]))
      BY <1>1, <2>1, <2>3, PushedOk
    <3>. QED BY <1>1, <2>1, <2>3, <3>1, OneTransferMoves
  <2>. QED BY <2>2, <2>3
<1>5. CASE AskOther(id)
  <2>1. Removed({id}) /\ (Fail(id) \/ client' = client)
    BY <1>5 DEF AskOther
  <2>2. CacheOk(cache')
    BY <1>1, <2>1, RemovedKeepsCache
  <2>3. CASE Fail(id)
    BY <2>2, <2>3, FailKeepsTransferInv
  <2>4. CASE client' = client
    BY <1>1, <2>2, <2>4 DEF TransferInv, TransferOk, CacheOk
  <2>. QED BY <2>1, <2>3, <2>4
<1>. QED BY <1>2, <1>3, <1>4, <1>5

\* ResourceAssembler::push and finish: however often the entry is evicted, expires
\* and is fetched again between two chunks, an assembled resource is made of chunks
\* of bodies of its declared length.
THEOREM TransfersAreConsistent == ResourceSpec => []TransferConsistent
<1>1. ResourceInit => TransferInv
  <2>. SUFFICES ASSUME ResourceInit PROVE TransferInv
    OBVIOUS
  <2>1. CacheOk(cache)
    BY DEF ResourceInit, CacheOk
  <2>2. DOMAIN client = Transfers /\ \A i \in Transfers : TransferOk(client[i])
    BY FreshOk DEF ResourceInit
  <2>. QED BY <2>1, <2>2, TransferParts
<1>2. TransferInv /\ [ResourceNext]_resourceVars => TransferInv'
  <2>. SUFFICES ASSUME TransferInv, [ResourceNext]_resourceVars PROVE TransferInv'
    OBVIOUS
  <2>1. CASE UNCHANGED resourceVars
    BY <2>1 DEF resourceVars, TransferInv
  <2>. QED BY <2>1, ManagerKeepsTransferInv, ClientKeepsTransferInv DEF ResourceNext
<1>3. TransferInv => TransferConsistent
  <2>. SUFFICES ASSUME TransferInv, NEW i \in Transfers, client[i].state = "done",
                       NEW k \in DOMAIN client[i].got
                PROVE  Size[client[i].got[k]] = Len(client[i].got)
    BY DEF TransferConsistent
  <2>1. TransferOk(client[i])
    BY TransferParts
  <2>2. DOMAIN client[i].got = 1..Len(client[i].got)
    BY <2>1 DEF TransferOk
  <2>. QED BY <2>1, <2>2 DEF TransferOk
<1>. QED BY <1>1, <1>2, <1>3, PTL DEF ResourceSpec
-----------------------------------------------------------------------------
(* The resource cache: the manager's state as it keeps it.                 *)

\* The bytes of each id in a cache c.
SizesIn(c) == [i \in Ids |-> IF c[i] = Nothing THEN 0 ELSE Size[c[i]]]

RegsOk(r) == r \in Seq(Ids) /\ IsInjective(r) /\ Len(r) <= MaxRegs
StoreOk(c, u, e, n) ==
    /\ c \in [Ids -> Bodies \cup {Nothing}]
    /\ u \in Seq(Ids) /\ IsInjective(u)
    /\ ToSet(u) = {i \in Ids : c[i] # Nothing}
    /\ e \subseteq ToSet(u)
    /\ n \in Nat /\ n = Total(SizesIn(c), u) /\ n <= MaxBytes
FetchTypes ==
    /\ fetches \in [Ids -> {"none", "pending", "failed", "lapsed"}]
    /\ task \in [Ids -> {"none", "fetching", "stored", "failed", "panicked"}]
ClientTypes ==
    client \in [Transfers -> [total : Nat \cup {Nothing}, got : Seq(Bodies),
                              state : {"idle", "asking", "done", "failed"}]]

LEMMA BytesOf == \A q : Bytes(q) = Total(SizesIn(cache), q)
BY DEF Bytes, SizesIn, SizeOf

LEMMA CacheParts ==
    CacheConsistent <=> /\ RegsOk(regs) /\ StoreOk(cache, used, expired, cacheBytes)
                        /\ FetchTypes /\ ClientTypes /\ OnlyRegistered /\ PendingHasTask
<1>1. BytesBounded <=> cacheBytes = Total(SizesIn(cache), used) /\ cacheBytes <= MaxBytes
  BY BytesOf DEF BytesBounded
<1>. QED BY <1>1 DEF CacheConsistent, ResourceTypeOK, RegsOk, StoreOk, FetchTypes, ClientTypes

LEMMA CachePartsNext ==
    CacheConsistent' <=> /\ RegsOk(regs') /\ StoreOk(cache', used', expired', cacheBytes')
                         /\ FetchTypes' /\ ClientTypes' /\ OnlyRegistered' /\ PendingHasTask'
<1>1. BytesBounded' <=> cacheBytes' = Total(SizesIn(cache'), used') /\ cacheBytes' <= MaxBytes
  BY DEF BytesBounded, Bytes, SizesIn, SizeOf
<1>. QED BY <1>1 DEF CacheConsistent, ResourceTypeOK, RegsOk, StoreOk, FetchTypes, ClientTypes

LEMMA SizesAreNatural ==
    ASSUME NEW c \in [Ids -> Bodies \cup {Nothing}]
    PROVE  SizesIn(c) \in [Ids -> Nat]
BY ResourceAssumption DEF SizesIn

\* The recency orders.
LEMMA WithoutFacts ==
    ASSUME NEW q \in Seq(Ids), NEW S
    PROVE  /\ Without(q, S) \in Seq(Ids) /\ ToSet(Without(q, S)) = ToSet(q) \ S
           /\ Len(Without(q, S)) \in Nat /\ Len(Without(q, S)) <= Len(q)
           /\ IsInjective(q) => IsInjective(Without(q, S))
           /\ Len(Without(q, S)) < Len(q) \/ ToSet(q) \cap S = {}
<1>1. ToSet(q) \subseteq Ids
  BY DEF ToSet
<1>. DEFINE U == Ids \ S
<1>2. ToSet(q) \cap U = ToSet(q) \ S /\ (ToSet(q) \subseteq U => ToSet(q) \cap S = {})
  BY <1>1
<1>. HIDE DEF U
<1>3. /\ Only(q, U) \in Seq(Ids) /\ ToSet(Only(q, U)) = ToSet(q) \cap U
      /\ Len(Only(q, U)) \in Nat /\ Len(Only(q, U)) <= Len(q)
      /\ IsInjective(q) => IsInjective(Only(q, U))
      /\ Len(Only(q, U)) < Len(q) \/ ToSet(q) \subseteq U
  BY OnlyFacts, OnlyInjective, OnlyShorter
<1>4. Without(q, S) = Only(q, U)
  BY DEF Without, U
<1>. QED BY <1>2, <1>3, <1>4

LEMMA AppendFacts ==
    ASSUME NEW q \in Seq(Ids), IsInjective(q), NEW id \in Ids, id \notin ToSet(q)
    PROVE  /\ Append(q, id) \in Seq(Ids) /\ IsInjective(Append(q, id))
           /\ ToSet(Append(q, id)) = ToSet(q) \cup {id} /\ Len(Append(q, id)) = Len(q) + 1
BY AppendSet, InjectiveAppend

LEMMA TouchFacts ==
    ASSUME NEW q \in Seq(Ids), IsInjective(q), NEW id \in Ids, id \in ToSet(q)
    PROVE  /\ Touch(q, id) \in Seq(Ids) /\ IsInjective(Touch(q, id))
           /\ ToSet(Touch(q, id)) = ToSet(q) /\ Len(Touch(q, id)) <= Len(q)
<1>. DEFINE r == Without(q, {id})
<1>1. /\ r \in Seq(Ids) /\ ToSet(r) = ToSet(q) \ {id} /\ IsInjective(r)
      /\ Len(r) \in Nat /\ Len(q) \in Nat /\ Len(r) < Len(q)
  BY WithoutFacts
<1>. HIDE DEF r
<1>2. /\ Append(r, id) \in Seq(Ids) /\ IsInjective(Append(r, id))
      /\ ToSet(Append(r, id)) = ToSet(r) \cup {id} /\ Len(Append(r, id)) = Len(r) + 1
  BY <1>1, AppendFacts
<1>3. Touch(q, id) = Append(r, id)
  BY DEF Touch, r
<1>4. ToSet(r) \cup {id} = ToSet(q) /\ Len(Append(r, id)) <= Len(q)
  BY <1>1, <1>2
<1>. QED BY <1>2, <1>3, <1>4

\* The bytes of what stays and of what goes.
LEMMA BytesSplit ==
    ASSUME NEW c \in [Ids -> Bodies \cup {Nothing}], NEW q \in Seq(Ids), NEW S
    PROVE  /\ Total(SizesIn(c), Only(q, S)) \in Nat /\ Total(SizesIn(c), Without(q, S)) \in Nat
           /\ Total(SizesIn(c), q) = Total(SizesIn(c), Only(q, S)) + Total(SizesIn(c), Without(q, S))
<1>. DEFINE w == SizesIn(c)
            U == Ids \ S
<1>1. w \in [Ids -> Nat] /\ \A x \in Ids : x \in S <=> x \notin U
  BY SizesAreNatural
<1>. HIDE DEF w, U
<1>2. Only(q, S) \in Seq(Ids) /\ Only(q, U) \in Seq(Ids)
  BY OnlyFacts
<1>3. Total(w, Only(q, S)) \in Nat /\ Total(w, Only(q, U)) \in Nat
  BY <1>1, <1>2, TotalIsNatural
<1>4. Total(w, q) = Total(w, Only(q, S)) + Total(w, Only(q, U))
  BY <1>1, TotalSplit
<1>. QED BY <1>3, <1>4 DEF w, U, Without

\* The cache without the entries of S.
Emptied(c, S) == [i \in Ids |-> IF i \in S THEN Nothing ELSE c[i]]
LEMMA EmptiedIsStore ==
    ASSUME NEW c, NEW u, NEW e, NEW n, NEW S, StoreOk(c, u, e, n)
    PROVE  /\ StoreOk(Emptied(c, S), Without(u, S), e \ S, SatSub(n, Total(SizesIn(c), Only(u, S))))
           /\ SatSub(n, Total(SizesIn(c), Only(u, S))) = Total(SizesIn(c), Without(u, S))
<1>. DEFINE r == Without(u, S)
            d == Emptied(c, S)
<1>0. /\ c \in [Ids -> Bodies \cup {Nothing}] /\ u \in Seq(Ids) /\ IsInjective(u)
      /\ ToSet(u) = {i \in Ids : c[i] # Nothing} /\ e \subseteq ToSet(u)
      /\ n \in Nat /\ n = Total(SizesIn(c), u) /\ n <= MaxBytes
  BY DEF StoreOk
<1>1. r \in Seq(Ids) /\ IsInjective(r) /\ ToSet(r) = ToSet(u) \ S
  BY <1>0, WithoutFacts
<1>2. d \in [Ids -> Bodies \cup {Nothing}] /\ \A i \in Ids : d[i] = IF i \in S THEN Nothing ELSE c[i]
  BY <1>0 DEF Emptied
<1>. HIDE DEF r, d
<1>3. ToSet(r) = {i \in Ids : d[i] # Nothing} /\ e \ S \subseteq ToSet(r)
  BY <1>0, <1>1, <1>2
<1>4. SizesIn(c) \in [Ids -> Nat] /\ SizesIn(d) \in [Ids -> Nat]
  BY <1>0, <1>2, SizesAreNatural
<1>5. Total(SizesIn(d), r) = Total(SizesIn(c), r)
  <2>1. \A x \in ToSet(r) : SizesIn(d)[x] = SizesIn(c)[x]
    BY <1>0, <1>1, <1>2 DEF SizesIn
  <2>. QED BY <1>1, <1>4, <2>1, TotalSame
<1>6. /\ Total(SizesIn(c), Only(u, S)) \in Nat /\ Total(SizesIn(c), r) \in Nat
      /\ n = Total(SizesIn(c), Only(u, S)) + Total(SizesIn(c), r)
  BY <1>0, BytesSplit DEF r
<1>7. SatSub(n, Total(SizesIn(c), Only(u, S))) = Total(SizesIn(c), r)
  BY <1>0, <1>6 DEF SatSub
<1>8. StoreOk(d, r, e \ S, SatSub(n, Total(SizesIn(c), Only(u, S))))
  <2>1. Total(SizesIn(c), r) <= MaxBytes
    BY <1>0, <1>6, ResourceAssumption
  <2>. QED BY <1>1, <1>2, <1>3, <1>5, <1>6, <1>7, <2>1 DEF StoreOk
<1>. QED BY <1>7, <1>8 DEF r, d

\* The first k of a list without repetition are those of its elements.
LEMMA FirstOnes ==
    ASSUME NEW q \in Seq(Ids), IsInjective(q), NEW k \in 0..Len(q)
    PROVE  Only(q, ToSet(SubSeq(q, 1, k))) = SubSeq(q, 1, k)
<1>. DEFINE p == SubSeq(q, 1, k)
            r == SubSeq(q, k + 1, Len(q))
<1>0. k \in Nat /\ k <= Len(q) /\ Len(q) \in Nat
  OBVIOUS
<1>1. /\ p \in Seq(Ids) /\ Len(p) = k /\ DOMAIN p = 1..k
      /\ \A i \in 1..k : p[i] = q[i]
  BY <1>0
<1>2. /\ r \in Seq(Ids) /\ Len(r) = Len(q) - k /\ DOMAIN r = 1..(Len(q) - k)
      /\ \A i \in 1..(Len(q) - k) : r[i] = q[k + i]
  BY <1>0
<1>. HIDE DEF p, r
<1>3. q = p \o r
  <2>1. /\ 1 \in 1..(Len(q) + 1) /\ k \in (1 - 1)..Len(q) /\ Len(q) \in k..Len(q)
    BY <1>0
  <2>2. SubSeq(q, 1, k) \o SubSeq(q, k + 1, Len(q)) = SubSeq(q, 1, Len(q))
    BY <2>1, ConcatAdjacentSubSeq
  <2>3. SubSeq(q, 1, Len(q)) = q
    BY <1>0
  <2>4. p = SubSeq(q, 1, k) /\ r = SubSeq(q, k + 1, Len(q))
    BY DEF p, r
  <2>. QED BY <2>2, <2>3, <2>4
<1>4. ToSet(r) \cap ToSet(p) = {}
  <2>1. SUFFICES ASSUME NEW x \in ToSet(r), x \in ToSet(p) PROVE FALSE
    OBVIOUS
  <2>2. PICK i \in 1..k : x = q[i]
    BY <1>1, <2>1 DEF ToSet
  <2>3. PICK j \in 1..(Len(q) - k) : x = q[k + j]
    BY <1>2, <2>1 DEF ToSet
  <2>4. i \in DOMAIN q /\ k + j \in DOMAIN q /\ i # k + j
    BY <1>0
  <2>. QED BY <2>2, <2>3, <2>4 DEF IsInjective
<1>5. Only(p, ToSet(p)) = p
  BY <1>1, OnlyAll
<1>6. Only(r, ToSet(p)) = << >>
  BY <1>2, <1>4, OnlyNone
<1>7. Only(p \o r, ToSet(p)) = Only(p, ToSet(p)) \o Only(r, ToSet(p))
  BY <1>1, <1>2, OnlyConcat, SMTT(30)
<1>8. p \o << >> = p
  BY <1>1
<1>9. Only(q, ToSet(p)) = p
  BY <1>3, <1>5, <1>6, <1>7, <1>8
<1>. QED BY <1>9 DEF p

\* The entries evicted for a body make room for it: the loop stops at the first
\* prefix that leaves enough, and an empty cache leaves enough for a body that fits.
LEMMA EvictedFits ==
    ASSUME StoreOk(cache, used, expired, cacheBytes), NEW id \in Ids,
           NEW m \in Nat, m <= MaxBytes
    PROVE  /\ Victims(id) \subseteq Evicted(id, m)
           /\ Total(SizesIn(cache), Without(used, Evicted(id, m))) + m <= MaxBytes
<1>. DEFINE w == SizesIn(cache)
            V == Victims(id)
            seq == Without(used, V)
            left == SatSub(cacheBytes, Bytes(Only(used, V)))
            room(k) == SatSub(left, Bytes(SubSeq(seq, 1, k))) + m <= MaxBytes
            fits == {k \in 0..Len(seq) : k = Len(seq) \/ room(k)}
            k == CHOOSE x \in fits : \A y \in fits : x <= y
            p == SubSeq(seq, 1, k)
            out == V \cup ToSet(p)
<1>1. Evicted(id, m) = out
  BY DEF Evicted
<1>2. /\ cache \in [Ids -> Bodies \cup {Nothing}] /\ used \in Seq(Ids) /\ IsInjective(used)
      /\ cacheBytes = Total(w, used)
  BY DEF StoreOk
<1>3. /\ seq \in Seq(Ids) /\ IsInjective(seq)
  BY <1>2, WithoutFacts
<1>4. left = Total(w, seq)
  <2>1. Bytes(Only(used, V)) = Total(w, Only(used, V))
    BY BytesOf
  <2>2. SatSub(cacheBytes, Total(SizesIn(cache), Only(used, V)))
            = Total(SizesIn(cache), Without(used, V))
    BY EmptiedIsStore
  <2>. QED BY <2>1, <2>2
<1>5. k \in fits
  <2>1. fits \subseteq Nat /\ Len(seq) \in fits
    BY <1>3
  <2>. HIDE DEF fits
  <2>. QED BY <2>1, LeastNatural
<1>. HIDE DEF seq, left
<1>6. k \in 0..Len(seq) /\ (k = Len(seq) \/ room(k))
  BY <1>5
<1>. HIDE DEF k
<1>7. p \in Seq(Ids) /\ Only(seq, ToSet(p)) = p /\ Bytes(p) = Total(w, p)
  BY <1>3, <1>6, FirstOnes, BytesOf
<1>. HIDE DEF p
<1>8. /\ Total(w, p) \in Nat /\ Total(w, Without(seq, ToSet(p))) \in Nat
      /\ Total(w, seq) = Total(w, p) + Total(w, Without(seq, ToSet(p)))
  <2>1. /\ Total(w, Only(seq, ToSet(p))) \in Nat /\ Total(w, Without(seq, ToSet(p))) \in Nat
        /\ Total(w, seq) = Total(w, Only(seq, ToSet(p))) + Total(w, Without(seq, ToSet(p)))
    BY <1>2, <1>3, BytesSplit
  <2>. QED BY <1>7, <2>1
<1>9. Without(seq, ToSet(p)) = Without(used, out)
  <2>1. Only(Only(used, Ids \ V), Ids \ ToSet(p)) = Only(used, (Ids \ V) \cap (Ids \ ToSet(p)))
    BY <1>2, OnlyOnly
  <2>2. (Ids \ V) \cap (Ids \ ToSet(p)) = Ids \ out
    OBVIOUS
  <2>. QED BY <2>1, <2>2 DEF seq, Without
<1>10. Total(w, Without(seq, ToSet(p))) + m <= MaxBytes
  <2>1. CASE k = Len(seq)
    <3>1. p = seq
      BY <1>3, <2>1 DEF p
    <3>2. Total(w, Without(seq, ToSet(p))) = 0
      BY <1>8, <3>1
    <3>. QED BY <3>2, ResourceAssumption
  <2>2. CASE room(k)
    <3>1. SatSub(Total(w, seq), Total(w, p)) + m <= MaxBytes
      BY <1>4, <1>7, <2>2 DEF p
    <3>2. SatSub(Total(w, seq), Total(w, p)) = Total(w, Without(seq, ToSet(p)))
      BY <1>8 DEF SatSub
    <3>. QED BY <3>1, <3>2
  <2>. QED BY <1>6, <2>1, <2>2
<1>. QED BY <1>1, <1>9, <1>10

\* The cache with a body stored in the room made for it.
LEMMA StoredIsStore ==
    ASSUME StoreOk(cache, used, expired, cacheBytes), NEW id \in Ids, NEW b \in Bodies, Fits(b),
           NEW out, out = Evicted(id, Size[b]), NEW c,
           c = [i \in Ids |-> IF i = id THEN b ELSE IF i \in out THEN Nothing ELSE cache[i]]
    PROVE  StoreOk(c, Append(Without(used, out), id), expired \ out,
                   SatSub(cacheBytes, Bytes(Only(used, out))) + Size[b])
<1>. DEFINE r == Without(used, out)
            d == Emptied(cache, out)
            n == SatSub(cacheBytes, Bytes(Only(used, out)))
<1>1. Size[b] \in Nat /\ Size[b] <= MaxBytes /\ b # Nothing
  BY ResourceAssumption DEF Fits
<1>2. id \in out /\ expired \subseteq out /\ Total(SizesIn(cache), r) + Size[b] <= MaxBytes
  BY <1>1, EvictedFits DEF Victims
<1>3. StoreOk(d, r, expired \ out, n) /\ n = Total(SizesIn(cache), r)
  <2>1. Bytes(Only(used, out)) = Total(SizesIn(cache), Only(used, out))
    BY BytesOf
  <2>. QED BY <2>1, EmptiedIsStore
<1>4. cache \in [Ids -> Bodies \cup {Nothing}]
  BY DEF StoreOk
<1>5. \A i \in Ids : d[i] = IF i \in out THEN Nothing ELSE cache[i]
  BY DEF Emptied
<1>. HIDE DEF r, d, n
<1>6. /\ d \in [Ids -> Bodies \cup {Nothing}] /\ r \in Seq(Ids) /\ IsInjective(r)
      /\ ToSet(r) = {i \in Ids : d[i] # Nothing} /\ n \in Nat /\ n = Total(SizesIn(d), r)
  BY <1>3 DEF StoreOk
<1>7. c \in [Ids -> Bodies \cup {Nothing}] /\ c[id] = b /\ \A i \in Ids : i # id => c[i] = d[i]
  BY <1>4, <1>5
<1>8. id \notin ToSet(r)
  BY <1>2, <1>5, <1>6
<1>9. /\ Append(r, id) \in Seq(Ids) /\ IsInjective(Append(r, id))
      /\ ToSet(Append(r, id)) = ToSet(r) \cup {id}
  BY <1>6, <1>8, AppendFacts
<1>10. ToSet(Append(r, id)) = {i \in Ids : c[i] # Nothing}
  BY <1>1, <1>6, <1>7, <1>9
<1>11. Total(SizesIn(c), Append(r, id)) = n + Size[b]
  <2>1. SizesIn(c) \in [Ids -> Nat] /\ SizesIn(d) \in [Ids -> Nat]
    BY <1>6, <1>7, SizesAreNatural
  <2>2. \A x \in ToSet(r) : SizesIn(c)[x] = SizesIn(d)[x]
    BY <1>6, <1>7, <1>8 DEF SizesIn
  <2>3. Total(SizesIn(c), r) = Total(SizesIn(d), r)
    BY <1>6, <2>1, <2>2, TotalSame
  <2>4. SizesIn(c)[id] = Size[b]
    BY <1>1, <1>7 DEF SizesIn
  <2>5. r \in Seq(Ids) /\ id \in Ids /\ SizesIn(c) \in [Ids -> Nat]
    BY <1>6, <2>1
  <2>6. Total(SizesIn(c), Append(r, id)) = Total(SizesIn(c), r) + SizesIn(c)[id]
    BY <2>5, TotalAppend
  <2>. QED BY <1>6, <2>3, <2>4, <2>6
<1>12. expired \ out = {} /\ n + Size[b] <= MaxBytes /\ n + Size[b] \in Nat
  BY <1>1, <1>2, <1>3, <1>6
<1>13. StoreOk(c, Append(r, id), expired \ out, n + Size[b])
  BY <1>7, <1>9, <1>10, <1>11, <1>12 DEF StoreOk
<1>. QED BY <1>13 DEF r, n
LEMMA RemovedIsStore ==
    ASSUME StoreOk(cache, used, expired, cacheBytes), NEW S, Removed(S)
    PROVE  /\ StoreOk(cache', used', expired', cacheBytes')
           /\ \A i \in Ids : cache'[i] = IF i \in S THEN Nothing ELSE cache[i]
<1>1. Bytes(Only(used, S)) = Total(SizesIn(cache), Only(used, S))
  BY BytesOf
<1>2. /\ cache' = Emptied(cache, S) /\ used' = Without(used, S) /\ expired' = expired \ S
      /\ cacheBytes' = SatSub(cacheBytes, Total(SizesIn(cache), Only(used, S)))
  BY <1>1 DEF Removed, Emptied
<1>3. StoreOk(cache', used', expired', cacheBytes')
  BY <1>2, EmptiedIsStore
<1>. QED BY <1>2, <1>3 DEF Emptied

\* The parts of the invariant that a step leaves alone.
LEMMA StoreStays ==
    ASSUME StoreOk(cache, used, expired, cacheBytes),
           UNCHANGED <<cache, used, expired, cacheBytes>>
    PROVE  StoreOk(cache', used', expired', cacheBytes')
BY DEF StoreOk

LEMMA RegisterKeepsCache ==
    ASSUME CacheConsistent, NEW id \in Ids, Register(id)
    PROVE  CacheConsistent'
<1>1. /\ RegsOk(regs) /\ StoreOk(cache, used, expired, cacheBytes)
      /\ FetchTypes /\ ClientTypes /\ OnlyRegistered /\ PendingHasTask
  BY CacheParts
<1>2. task' = task /\ client' = client /\ ClientTypes'
  BY <1>1 DEF Register, ClientTypes
<1>3. regs \in Seq(Ids) /\ IsInjective(regs) /\ Len(regs) <= MaxRegs /\ MaxRegs \in Nat
  BY <1>1, ResourceAssumption DEF RegsOk
<1>4. CASE /\ regs' \in Seq(Ids) /\ IsInjective(regs') /\ Len(regs') <= MaxRegs
           /\ ToSet(regs) \subseteq ToSet(regs')
           /\ UNCHANGED <<cache, used, expired, cacheBytes, fetches>>
  <2>1. RegsOk(regs') /\ StoreOk(cache', used', expired', cacheBytes')
    BY <1>1, <1>4, StoreStays DEF RegsOk
  <2>2. FetchTypes' /\ OnlyRegistered' /\ PendingHasTask'
    BY <1>1, <1>2, <1>4 DEF FetchTypes, OnlyRegistered, PendingHasTask
  <2>. QED BY <1>2, <2>1, <2>2, CachePartsNext
<1>5. CASE id \in ToSet(regs) /\ regs' = Touch(regs, id)
           /\ UNCHANGED <<cache, used, expired, cacheBytes, fetches>>
  <2>1. /\ Touch(regs, id) \in Seq(Ids) /\ IsInjective(Touch(regs, id))
        /\ ToSet(Touch(regs, id)) = ToSet(regs) /\ Len(Touch(regs, id)) <= Len(regs)
    BY <1>3, <1>5, TouchFacts
  <2>2. Len(Touch(regs, id)) \in Nat /\ Len(regs) \in Nat
    BY <1>3, <2>1
  <2>. QED BY <1>3, <1>4, <1>5, <2>1, <2>2
<1>6. CASE id \notin ToSet(regs) /\ ~RegsFull /\ regs' = Append(regs, id)
           /\ UNCHANGED <<cache, used, expired, cacheBytes, fetches>>
  <2>1. /\ Append(regs, id) \in Seq(Ids) /\ IsInjective(Append(regs, id))
        /\ ToSet(Append(regs, id)) = ToSet(regs) \cup {id}
        /\ Len(Append(regs, id)) = Len(regs) + 1
    BY <1>3, <1>6, AppendFacts
  <2>2. Len(regs) + 1 <= MaxRegs
    BY <1>3, <1>6 DEF RegsFull
  <2>. QED BY <1>4, <1>6, <2>1, <2>2
<1>7. CASE /\ id \notin ToSet(regs) /\ Evictable # << >>
           /\ regs' = Append(Without(regs, {Head(Evictable)}), id)
           /\ Forget(Head(Evictable))
  <2>. DEFINE oldest == Head(Evictable)
              r == Without(regs, {oldest})
  <2>1. oldest \in ToSet(regs) /\ oldest \in Ids /\ fetches[oldest] # "pending"
    <3>. DEFINE S == {i \in Ids : fetches[i] # "pending"}
    <3>1. Only(regs, S) \in Seq(Ids) /\ ToSet(Only(regs, S)) = ToSet(regs) \cap S
      BY <1>3, OnlyFacts
    <3>2. Evictable = Only(regs, S) /\ Evictable # << >>
      BY <1>7 DEF Evictable
    <3>. HIDE DEF S
    <3>3. /\ oldest = Only(regs, S)[1] /\ Only(regs, S) # << >>
          /\ 1 \in DOMAIN Only(regs, S)
      BY <3>1, <3>2
    <3>4. oldest \in ToSet(Only(regs, S))
      BY <3>3 DEF ToSet
    <3>. QED BY <3>1, <3>4 DEF S
  <2>2. /\ r \in Seq(Ids) /\ ToSet(r) = ToSet(regs) \ {oldest} /\ IsInjective(r)
        /\ Len(r) \in Nat /\ Len(r) < Len(regs)
    BY <1>3, <2>1, WithoutFacts
  <2>3. regs' = Append(r, id) /\ fetches' = [fetches EXCEPT ![oldest] = "none"]
        /\ Removed({oldest})
    BY <1>7 DEF Forget
  <2>. HIDE DEF r, oldest
  <2>4. /\ regs' \in Seq(Ids) /\ IsInjective(regs') /\ ToSet(regs') = ToSet(r) \cup {id}
        /\ Len(regs') = Len(r) + 1
    BY <1>7, <2>2, <2>3, AppendFacts
  <2>5. RegsOk(regs')
    BY <1>3, <2>2, <2>4 DEF RegsOk
  <2>6. /\ StoreOk(cache', used', expired', cacheBytes')
        /\ \A i \in Ids : cache'[i] = IF i \in {oldest} THEN Nothing ELSE cache[i]
    BY <1>1, <2>3, RemovedIsStore
  <2>7. /\ FetchTypes'
        /\ \A i \in Ids : fetches'[i] = IF i = oldest THEN "none" ELSE fetches[i]
    BY <1>1, <1>2, <2>1, <2>3 DEF FetchTypes
  <2>8. OnlyRegistered'
    BY <1>1, <2>2, <2>4, <2>6, <2>7 DEF OnlyRegistered
  <2>9. PendingHasTask'
    BY <1>1, <1>2, <2>1, <2>7 DEF PendingHasTask
  <2>. QED BY <1>2, <2>5, <2>6, <2>7, <2>8, <2>9, CachePartsNext
<1>. QED BY <1>5, <1>6, <1>7 DEF Register

\* A step that changes only fetch states and tasks.
LEMMA FetchStepKeepsCache ==
    ASSUME CacheConsistent, FetchTypes', OnlyRegistered', PendingHasTask',
           UNCHANGED <<regs, cache, used, expired, cacheBytes, client>>
    PROVE  CacheConsistent'
<1>1. RegsOk(regs) /\ StoreOk(cache, used, expired, cacheBytes) /\ ClientTypes
  BY CacheParts
<1>2. RegsOk(regs') /\ StoreOk(cache', used', expired', cacheBytes') /\ ClientTypes'
  BY <1>1, StoreStays DEF RegsOk, ClientTypes
<1>. QED BY <1>2, CachePartsNext

LEMMA ManagerKeepsCache ==
    ASSUME CacheConsistent, NEW id \in Ids,
           \/ Expire(id) \/ FailureLapses(id) \/ FetchFails(id) \/ FinishFetch(id)
           \/ FetchPanics(id)
    PROVE  CacheConsistent'
<1>1. /\ RegsOk(regs) /\ StoreOk(cache, used, expired, cacheBytes)
      /\ FetchTypes /\ ClientTypes /\ OnlyRegistered /\ PendingHasTask
  BY CacheParts
<1>2. CASE Expire(id)
  <2>1. StoreOk(cache', used', expired', cacheBytes')
    BY <1>1, <1>2 DEF Expire, StoreOk
  <2>2. RegsOk(regs') /\ FetchTypes' /\ ClientTypes' /\ OnlyRegistered' /\ PendingHasTask'
    BY <1>1, <1>2 DEF Expire, RegsOk, FetchTypes, ClientTypes, OnlyRegistered, PendingHasTask
  <2>. QED BY <2>1, <2>2, CachePartsNext
<1>3. CASE FailureLapses(id)
  <2>1. FetchTypes' /\ OnlyRegistered' /\ PendingHasTask'
    BY <1>1, <1>3 DEF FailureLapses, FetchTypes, OnlyRegistered, PendingHasTask
  <2>. QED BY <1>3, <2>1, FetchStepKeepsCache DEF FailureLapses
<1>4. CASE FetchFails(id)
  <2>1. FetchTypes' /\ OnlyRegistered' /\ PendingHasTask'
    BY <1>1, <1>4 DEF FetchFails, FetchTypes, OnlyRegistered, PendingHasTask
  <2>. QED BY <1>4, <2>1, FetchStepKeepsCache DEF FetchFails
<1>5. CASE FinishFetch(id)
  <2>1. FetchTypes' /\ OnlyRegistered' /\ PendingHasTask'
    BY <1>1, <1>5 DEF FinishFetch, Finished, FetchTypes, OnlyRegistered, PendingHasTask
  <2>. QED BY <1>5, <2>1, FetchStepKeepsCache DEF FinishFetch
<1>6. CASE FetchPanics(id)
  <2>1. FetchTypes' /\ OnlyRegistered' /\ PendingHasTask'
    BY <1>1, <1>6 DEF FetchPanics, FetchTypes, OnlyRegistered, PendingHasTask
  <2>. QED BY <1>6, <2>1, FetchStepKeepsCache DEF FetchPanics
<1>. QED BY <1>2, <1>3, <1>4, <1>5, <1>6

LEMMA FetchReturnsKeepsCache ==
    ASSUME CacheConsistent, NEW id \in Ids, NEW b \in Bodies, FetchReturns(id, b)
    PROVE  CacheConsistent'
<1>1. /\ RegsOk(regs) /\ StoreOk(cache, used, expired, cacheBytes)
      /\ FetchTypes /\ ClientTypes /\ OnlyRegistered /\ PendingHasTask
  BY CacheParts
<1>2. /\ UNCHANGED <<regs, fetches, client>> /\ task[id] = "fetching"
      /\ \/ task' = [task EXCEPT ![id] = "stored"]
         \/ task' = [task EXCEPT ![id] = "failed"]
  BY DEF FetchReturns
<1>3. RegsOk(regs') /\ ClientTypes' /\ FetchTypes' /\ PendingHasTask'
  BY <1>1, <1>2 DEF RegsOk, ClientTypes, FetchTypes, PendingHasTask
<1>4. CASE UNCHANGED <<cache, used, expired, cacheBytes>>
  <2>1. StoreOk(cache', used', expired', cacheBytes') /\ OnlyRegistered'
    BY <1>1, <1>2, <1>4, StoreStays DEF OnlyRegistered
  <2>. QED BY <1>3, <2>1, CachePartsNext
<1>5. CASE ~UNCHANGED <<cache, used, expired, cacheBytes>>
  <2>. DEFINE out == Evicted(id, Size[b])
  <2>1. /\ Fits(b) /\ id \in ToSet(regs)
        /\ cache' = [i \in Ids |-> IF i = id THEN b
                                   ELSE IF i \in out THEN Nothing ELSE cache[i]]
        /\ used' = Append(Without(used, out), id) /\ expired' = expired \ out
        /\ cacheBytes' = SatSub(cacheBytes, Bytes(Only(used, out))) + Size[b]
    BY <1>5 DEF FetchReturns
  <2>2. out = Evicted(id, Size[b])
    OBVIOUS
  <2>. HIDE DEF out
  <2>3. StoreOk(cache', used', expired', cacheBytes')
    BY <1>1, <2>1, <2>2, StoredIsStore
  <2>4. OnlyRegistered'
    BY <1>1, <1>2, <2>1 DEF OnlyRegistered
  <2>. QED BY <1>3, <2>3, <2>4, CachePartsNext
<1>. QED BY <1>4, <1>5
\* The client's steps: types of a transfer, and what a touched registration keeps.
LEMMA TransferTyped ==
    ASSUME ClientTypes, NEW id \in Transfers,
           \/ client' = client
           \/ Fail(id)
           \/ client' = [client EXCEPT ![id] = Fresh]
           \/ \E b \in Bodies : client' = [client EXCEPT ![id] = Pushed(client[id], b)]
    PROVE  ClientTypes'
<1>. DEFINE R == [total : Nat \cup {Nothing}, got : Seq(Bodies),
                  state : {"idle", "asking", "done", "failed"}]
<1>1. client \in [Transfers -> R] /\ client[id] \in R
  BY DEF ClientTypes
<1>2. ASSUME NEW c \in R, client' = [client EXCEPT ![id] = c] PROVE ClientTypes'
  BY <1>1, <1>2 DEF ClientTypes
<1>3. CASE client' = client
  BY <1>3 DEF ClientTypes
<1>4. CASE Fail(id)
  BY <1>1, <1>4 DEF Fail, ClientTypes
<1>5. CASE client' = [client EXCEPT ![id] = Fresh]
  <2>1. Fresh \in R
    BY DEF Fresh
  <2>. HIDE DEF R
  <2>. QED BY <1>2, <1>5, <2>1
<1>6. ASSUME NEW b \in Bodies, client' = [client EXCEPT ![id] = Pushed(client[id], b)]
      PROVE  ClientTypes'
  <2>. DEFINE c == client[id]
              chunks == IF Len(c.got) < Size[b] THEN Append(c.got, b) ELSE c.got
              state == IF Len(chunks) = Size[b] THEN "done" ELSE "asking"
  <2>1. chunks \in Seq(Bodies) /\ Size[b] \in Nat
    BY <1>1, ResourceAssumption
  <2>2. state \in {"idle", "asking", "done", "failed"}
    OBVIOUS
  <2>3. Pushed(c, b) = [total |-> Size[b], got |-> chunks, state |-> state]
    BY DEF Pushed
  <2>. HIDE DEF chunks, state
  <2>4. Pushed(c, b) \in R
    BY <2>1, <2>2, <2>3
  <2>. HIDE DEF R
  <2>. QED BY <1>2, <1>6, <2>4
<1>. QED BY <1>3, <1>4, <1>5, <1>6

LEMMA TouchedKeepsRegs ==
    ASSUME RegsOk(regs), NEW id \in Ids, id \in ToSet(regs), Touched(id)
    PROVE  RegsOk(regs') /\ ToSet(regs') = ToSet(regs)
<1>1. regs \in Seq(Ids) /\ IsInjective(regs) /\ Len(regs) <= MaxRegs /\ MaxRegs \in Nat
  BY ResourceAssumption DEF RegsOk
<1>2. regs' = Touch(regs, id)
  BY DEF Touched
<1>3. /\ regs' \in Seq(Ids) /\ IsInjective(regs') /\ ToSet(regs') = ToSet(regs)
      /\ Len(regs') <= Len(regs)
  BY <1>1, <1>2, TouchFacts
<1>4. Len(regs) \in Nat /\ Len(regs') \in Nat
  BY <1>1, <1>3
<1>. QED BY <1>1, <1>3, <1>4 DEF RegsOk

\* A permuted recency order has the same bytes.
LEMMA TouchedStore ==
    ASSUME StoreOk(cache, used, expired, cacheBytes), NEW id \in Ids, cache[id] # Nothing
    PROVE  StoreOk(cache, Touch(used, id), expired, cacheBytes)
<1>. DEFINE w == SizesIn(cache)
            r == Without(used, {id})
            p == Only(used, {id})
<1>1. /\ cache \in [Ids -> Bodies \cup {Nothing}] /\ used \in Seq(Ids) /\ IsInjective(used)
      /\ ToSet(used) = {i \in Ids : cache[i] # Nothing} /\ id \in ToSet(used)
      /\ expired \subseteq ToSet(used) /\ cacheBytes \in Nat
      /\ cacheBytes = Total(w, used) /\ cacheBytes <= MaxBytes
  BY DEF StoreOk
<1>2. w \in [Ids -> Nat]
  BY <1>1, SizesAreNatural
<1>3. /\ Total(w, p) \in Nat /\ Total(w, r) \in Nat
      /\ Total(w, used) = Total(w, p) + Total(w, r)
  BY <1>1, BytesSplit
<1>4. /\ Touch(used, id) \in Seq(Ids) /\ IsInjective(Touch(used, id))
      /\ ToSet(Touch(used, id)) = ToSet(used)
  BY <1>1, TouchFacts
<1>5. r \in Seq(Ids) /\ Touch(used, id) = Append(r, id)
  BY <1>1, WithoutFacts DEF Touch
<1>6. p = <<id>>
  BY <1>1, OnlyOne
<1>. HIDE DEF w, r, p
<1>7. Total(w, Append(r, id)) = Total(w, r) + w[id]
  BY <1>2, <1>5, TotalAppend
<1>8. Total(w, <<id>>) = w[id]
  <2>1. << >> \in Seq(Ids) /\ Append(<< >>, id) = <<id>>
    OBVIOUS
  <2>2. Total(w, Append(<< >>, id)) = Total(w, << >>) + w[id]
    BY <1>2, <2>1, TotalAppend
  <2>3. Total(w, << >>) = 0
    BY <1>2, TotalOfNone
  <2>4. w[id] \in Nat
    BY <1>2
  <2>. QED BY <2>1, <2>2, <2>3, <2>4
<1>9. Total(w, Touch(used, id)) = cacheBytes
  BY <1>1, <1>3, <1>5, <1>6, <1>7, <1>8
<1>. QED BY <1>1, <1>4, <1>9 DEF StoreOk, w

LEMMA ClientKeepsCache ==
    ASSUME CacheConsistent, NEW id \in Transfers,
           \/ StartTransfer(id) \/ AskMissing(id) \/ AskReady(id) \/ AskOther(id)
           \/ TransferFails(id)
    PROVE  CacheConsistent'
<1>1. /\ RegsOk(regs) /\ StoreOk(cache, used, expired, cacheBytes)
      /\ FetchTypes /\ ClientTypes /\ OnlyRegistered /\ PendingHasTask
  BY CacheParts
<1>2. id \in Ids
  BY ResourceAssumption
<1>3. CASE StartTransfer(id) \/ AskMissing(id) \/ TransferFails(id)
  <2>1. /\ UNCHANGED <<regs, cache, used, expired, cacheBytes, fetches, task>>
        /\ Fail(id) \/ client' = [client EXCEPT ![id] = Fresh]
    BY <1>3 DEF StartTransfer, AskMissing, TransferFails
  <2>2. ClientTypes'
    BY <1>1, <2>1, TransferTyped
  <2>3. RegsOk(regs') /\ StoreOk(cache', used', expired', cacheBytes')
    BY <1>1, <2>1, StoreStays DEF RegsOk
  <2>4. FetchTypes' /\ OnlyRegistered' /\ PendingHasTask'
    BY <1>1, <2>1 DEF FetchTypes, OnlyRegistered, PendingHasTask
  <2>. QED BY <2>2, <2>3, <2>4, CachePartsNext
<1>4. CASE AskReady(id)
  <2>1. /\ id \in ToSet(regs) /\ cache[id] # Nothing
        /\ Touched(id) /\ used' = Touch(used, id)
        /\ UNCHANGED <<cache, expired, cacheBytes, fetches, task>>
        /\ \/ client' = [client EXCEPT ![id] = Pushed(client[id], cache[id])]
           \/ Fail(id)
    BY <1>4 DEF AskReady
  <2>2. RegsOk(regs') /\ ToSet(regs') = ToSet(regs)
    BY <1>1, <1>2, <2>1, TouchedKeepsRegs
  <2>3. StoreOk(cache', used', expired', cacheBytes')
    BY <1>1, <1>2, <2>1, TouchedStore
  <2>4. cache[id] \in Bodies
    BY <1>1, <1>2, <2>1 DEF StoreOk
  <2>5. ClientTypes'
    BY <1>1, <2>1, <2>4, TransferTyped
  <2>6. FetchTypes' /\ OnlyRegistered' /\ PendingHasTask'
    BY <1>1, <2>1, <2>2 DEF FetchTypes, OnlyRegistered, PendingHasTask
  <2>. QED BY <2>2, <2>3, <2>5, <2>6, CachePartsNext
<1>5. CASE AskOther(id)
  <2>1. /\ id \in ToSet(regs) /\ Touched(id) /\ Removed({id})
        /\ Fail(id) \/ client' = client
        /\ \/ UNCHANGED <<fetches, task>>
           \/ /\ fetches[id] \in {"none", "lapsed"}
              /\ fetches' = [fetches EXCEPT ![id] = "pending"]
              /\ task' = [task EXCEPT ![id] = "fetching"]
    BY <1>5 DEF AskOther
  <2>2. RegsOk(regs') /\ ToSet(regs') = ToSet(regs)
    BY <1>1, <1>2, <2>1, TouchedKeepsRegs
  <2>3. /\ StoreOk(cache', used', expired', cacheBytes')
        /\ \A i \in Ids : cache'[i] = IF i \in {id} THEN Nothing ELSE cache[i]
    BY <1>1, <2>1, RemovedIsStore
  <2>4. ClientTypes'
    BY <1>1, <2>1, TransferTyped
  <2>5. FetchTypes' /\ PendingHasTask'
    BY <1>1, <1>2, <2>1 DEF FetchTypes, PendingHasTask
  <2>6. OnlyRegistered'
    BY <1>1, <1>2, <2>1, <2>2, <2>3 DEF OnlyRegistered, FetchTypes
  <2>. QED BY <2>2, <2>3, <2>4, <2>5, <2>6, CachePartsNext
<1>. QED BY <1>3, <1>4, <1>5

LEMMA CacheStartsConsistent ==
    ASSUME ResourceInit
    PROVE  CacheConsistent
<1>1. /\ << >> \in Seq(Ids) /\ Len(<< >>) = 0 /\ ToSet(<< >>) = {} /\ IsInjective(<< >>)
  BY EmptySet DEF IsInjective
<1>2. RegsOk(regs)
  BY <1>1, ResourceAssumption DEF ResourceInit, RegsOk
<1>3. StoreOk(cache, used, expired, cacheBytes)
  <2>1. /\ cache \in [Ids -> Bodies \cup {Nothing}] /\ {i \in Ids : cache[i] # Nothing} = {}
        /\ used = << >> /\ expired = {} /\ cacheBytes = 0
    BY DEF ResourceInit
  <2>2. Total(SizesIn(cache), << >>) = 0
    BY <2>1, SizesAreNatural, TotalOfNone
  <2>. QED BY <1>1, <2>1, <2>2, ResourceAssumption DEF StoreOk
<1>4. FetchTypes /\ OnlyRegistered /\ PendingHasTask
  BY DEF ResourceInit, FetchTypes, OnlyRegistered, PendingHasTask
<1>5. ClientTypes
  <2>1. << >> \in Seq(Bodies)
    OBVIOUS
  <2>. QED BY <2>1 DEF ResourceInit, ClientTypes, Fresh
<1>. QED BY <1>2, <1>3, <1>4, <1>5, CacheParts

\* ResourceManager: through every order of registrations, evictions, expiries, fetch
\* results and panics, the byte count is that of the cache and within its limit, an
\* evicted registration leaves nothing behind, and each pending mark has one task.
THEOREM CacheStaysConsistent == ResourceSpec => []CacheConsistent
<1>1. ResourceInit => CacheConsistent
  BY CacheStartsConsistent
<1>2. CacheConsistent /\ [ResourceNext]_resourceVars => CacheConsistent'
  <2>. SUFFICES ASSUME CacheConsistent, [ResourceNext]_resourceVars PROVE CacheConsistent'
    OBVIOUS
  <2>1. CASE UNCHANGED resourceVars
    <3>1. /\ RegsOk(regs) /\ StoreOk(cache, used, expired, cacheBytes)
          /\ FetchTypes /\ ClientTypes /\ OnlyRegistered /\ PendingHasTask
      BY CacheParts
    <3>2. /\ RegsOk(regs') /\ StoreOk(cache', used', expired', cacheBytes')
          /\ FetchTypes' /\ ClientTypes' /\ OnlyRegistered' /\ PendingHasTask'
      BY <2>1, <3>1, StoreStays
      DEF resourceVars, RegsOk, FetchTypes, ClientTypes, OnlyRegistered, PendingHasTask
    <3>. QED BY <3>2, CachePartsNext
  <2>. QED BY <2>1, RegisterKeepsCache, ManagerKeepsCache, FetchReturnsKeepsCache,
              ClientKeepsCache DEF ResourceNext, TaskStep
<1>. QED BY <1>1, <1>2, PTL DEF ResourceSpec
=============================================================================
