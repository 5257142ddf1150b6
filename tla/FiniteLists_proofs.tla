------------------------- MODULE FiniteLists_proofs -------------------------
(***************************************************************************)
(* What the other proofs use of natural numbers, of recursion over a list, *)
(* and of the filters and sums of FiniteLists, for every finite list.      *)
(***************************************************************************)
EXTENDS FiniteLists, FiniteSetTheorems, WellFoundedInduction, TLAPS

\* Every nonempty set of naturals has a least element.
LEMMA LeastNatural ==
    ASSUME NEW T, T \subseteq Nat, T # {}
    PROVE  \E x \in T : \A y \in T : x <= y
<1>. DEFINE R == OpToRel(<, Nat)
<1>1. IsWellFoundedOn(R, Nat)
  BY NatLessThanWellFounded, Zenon
<1>2. \A x, y \in Nat : y < x => <<y, x>> \in R
  BY DEF OpToRel
<1>. HIDE DEF R
<1>3. PICK x \in T : \A y \in T : ~(<<y, x>> \in R)
  BY <1>1, WFMin, Zenon
<1>4. ASSUME NEW y \in T PROVE x <= y
  <2>1. ~(y < x)
    BY <1>2, <1>3, Zenon
  <2>. QED BY <2>1
<1>. QED BY <1>4

\* Every nonempty bounded one has a greatest.
LEMMA GreatestNatural ==
    ASSUME NEW n \in Nat, NEW T, T \subseteq 0..n, T # {}
    PROVE  \E x \in T : \A y \in T : y <= x
<1>. DEFINE D == {n - t : t \in T}
<1>0. \A t \in T : t \in Nat /\ n - t \in Nat
  OBVIOUS
<1>1. D \subseteq Nat /\ D # {}
  BY <1>0
<1>2. PICK m \in D : \A k \in D : m <= k
  BY <1>1, LeastNatural
<1>3. PICK x \in T : m = n - x
  BY <1>2
<1>4. ASSUME NEW y \in T PROVE y <= x
  <2>1. n - x <= n - y
    BY <1>2, <1>3
  <2>2. x \in Nat /\ y \in Nat
    BY <1>0
  <2>. QED BY <2>1, <2>2
<1>. QED BY <1>4

\* Counting up to n: a set that holds 0 and each successor below n.
LEMMA CountUp ==
    ASSUME NEW n \in Nat, NEW T, 0 \in T,
           \A i \in 1..n : i - 1 \in T => i \in T
    PROVE  \A i \in 0..n : i \in T
<1>. DEFINE Bad == {i \in 0..n : i \notin T}
<1>1. SUFFICES ASSUME Bad # {} PROVE FALSE
  OBVIOUS
<1>2. PICK m \in Bad : \A k \in Bad : m <= k
  <2>1. Bad \subseteq Nat
    OBVIOUS
  <2>. HIDE DEF Bad
  <2>. QED BY <1>1, <2>1, LeastNatural
<1>3. m \in 1..n /\ m - 1 \in 0..n /\ ~(m <= m - 1)
  BY <1>2
<1>4. m - 1 \in T
  BY <1>2, <1>3
<1>. QED BY <1>2, <1>3, <1>4

-----------------------------------------------------------------------------
(* Recursion over the prefixes of a list.                                  *)

\* f starts with base and takes step at each of 1..n.
Recursion(f, n, base, step) ==
    /\ f = [i \in 0..n |-> f[i]] /\ f[0] = base
    /\ \A i \in 1..n : f[i] = step[<<i, f[i - 1]>>]

\* It has a solution, in the set R that the steps stay in.
LEMMA RecursionExists ==
    ASSUME NEW n \in Nat, NEW R, NEW base \in R, NEW step \in [(1..n) \X R -> R]
    PROVE  \E f \in [0..n -> R] : Recursion(f, n, base, step)
<1>. DEFINE Solved == {m \in 0..n : \E f \in [0..m -> R] : Recursion(f, m, base, step)}
<1>1. 0 \in Solved
  <2>. DEFINE f == [i \in 0..0 |-> base]
  <2>1. f \in [0..0 -> R] /\ Recursion(f, 0, base, step)
    BY DEF Recursion
  <2>. HIDE DEF f
  <2>. QED BY <2>1
<1>2. ASSUME NEW m \in 1..n, m - 1 \in Solved PROVE m \in Solved
  <2>1. PICK f \in [0..(m - 1) -> R] : Recursion(f, m - 1, base, step)
    BY <1>2
  <2>. DEFINE g == [i \in 0..m |-> IF i = m THEN step[<<m, f[m - 1]>>] ELSE f[i]]
  <2>2. step[<<m, f[m - 1]>>] \in R
    BY <2>1
  <2>3. g \in [0..m -> R] /\ g[0] = base /\ g = [i \in 0..m |-> g[i]]
    BY <2>1, <2>2 DEF Recursion
  <2>4. ASSUME NEW i \in 1..m PROVE g[i] = step[<<i, g[i - 1]>>]
    <3>1. CASE i = m
      <4>1. g[m] = step[<<m, f[m - 1]>>] /\ g[m - 1] = f[m - 1]
        OBVIOUS
      <4>. QED BY <3>1, <4>1
    <3>2. CASE i # m
      <4>1. i \in 1..(m - 1) /\ g[i] = f[i] /\ g[i - 1] = f[i - 1]
        BY <2>4, <3>2
      <4>. QED BY <2>1, <4>1 DEF Recursion
    <3>. QED BY <3>1, <3>2
  <2>. HIDE DEF g
  <2>5. Recursion(g, m, base, step)
    BY <2>3, <2>4 DEF Recursion
  <2>. QED BY <2>3, <2>5
<1>. HIDE DEF Solved
<1>3. n \in Solved
  BY <1>1, <1>2, CountUp
<1>. QED BY <1>3 DEF Solved

LEMMA ElementIsIn ==
    ASSUME NEW E, NEW q \in Seq(E), NEW i \in 1..Len(q)
    PROVE  q[i] \in E
OBVIOUS

\* Induction over lists: a set that holds the empty list and every extension of a
\* list it holds.
LEMMA ListInduction ==
    ASSUME NEW E, NEW T, << >> \in T,
           \A q \in Seq(E), x \in E : q \in T => Append(q, x) \in T
    PROVE  \A q \in Seq(E) : q \in T
<1>. SUFFICES ASSUME NEW q \in Seq(E) PROVE q \in T
  OBVIOUS
<1>. DEFINE n == Len(q)
            Reached == {i \in 0..n : SubSeq(q, 1, i) \in T}
<1>1. n \in Nat
  OBVIOUS
<1>2. 0 \in Reached
  <2>1. SubSeq(q, 1, 0) = << >> /\ 0 \in 0..n
    OBVIOUS
  <2>. QED BY <2>1, Zenon
<1>3. ASSUME NEW i \in 1..n, i - 1 \in Reached PROVE i \in Reached
  <2>1. SubSeq(q, 1, i - 1) \in Seq(E) /\ q[i] \in E /\ SubSeq(q, 1, i - 1) \in T
    BY <1>3, ElementIsIn
  <2>2. SubSeq(q, 1, i) = Append(SubSeq(q, 1, i - 1), q[i])
    OBVIOUS
  <2>3. SubSeq(q, 1, i) \in T
    BY <2>1, <2>2, Zenon
  <2>4. i \in 0..n
    OBVIOUS
  <2>. QED BY <2>3, <2>4
<1>4. n \in Reached
  <2>. HIDE DEF n, Reached
  <2>. QED BY <1>1, <1>2, <1>3, CountUp, SMTT(30)
<1>5. SubSeq(q, 1, n) \in T
  BY <1>4 DEF Reached
<1>6. SubSeq(q, 1, n) = q
  OBVIOUS
<1>. QED BY <1>5, <1>6

-----------------------------------------------------------------------------
(* Filters.                                                                *)

\* PicksOf solves its recursion.
LEMMA PicksStep ==
    ASSUME NEW E, NEW q \in Seq(E), NEW I
    PROVE  /\ PicksOf(q, I) \in [0..Len(q) -> Seq(E)]
           /\ PicksOf(q, I)[0] = << >>
           /\ \A i \in 1..Len(q) :
                 PicksOf(q, I)[i] = IF i \in I THEN Append(PicksOf(q, I)[i - 1], q[i])
                                    ELSE PicksOf(q, I)[i - 1]
<1>. DEFINE n == Len(q)
            F(f) == [i \in 0..n |-> IF i = 0 THEN << >>
                                    ELSE IF i \in I THEN Append(f[i - 1], q[i]) ELSE f[i - 1]]
            upTo == CHOOSE f : f = F(f)
            step == [x \in (1..n) \X Seq(E) |-> IF x[1] \in I THEN Append(x[2], q[x[1]]) ELSE x[2]]
<1>1. n \in Nat /\ \A i \in 1..n : q[i] \in E
  BY ElementIsIn
<1>. HIDE DEF n
<1>2. step \in [(1..n) \X Seq(E) -> Seq(E)]
  BY <1>1
<1>3. \A i \in 1..n, r \in Seq(E) : step[<<i, r>>] = IF i \in I THEN Append(r, q[i]) ELSE r
  OBVIOUS
<1>. HIDE DEF step
<1>4. PICK f \in [0..n -> Seq(E)] : Recursion(f, n, << >>, step)
  <2>1. << >> \in Seq(E)
    OBVIOUS
  <2>. QED BY <1>1, <1>2, <2>1, RecursionExists
<1>5. f = F(f)
  <2>1. ASSUME NEW i \in 0..n PROVE f[i] = F(f)[i]
    <3>1. CASE i = 0
      BY <1>4, <3>1 DEF Recursion
    <3>2. CASE i # 0
      <4>1. i \in 1..n /\ i - 1 \in 0..n
        BY <1>1, <3>2
      <4>2. f[i] = step[<<i, f[i - 1]>>] /\ f[i - 1] \in Seq(E)
        BY <1>4, <4>1 DEF Recursion
      <4>. QED BY <1>3, <3>2, <4>1, <4>2
    <3>. QED BY <3>1, <3>2
  <2>. QED BY <1>4, <2>1 DEF Recursion
<1>6. upTo = F(upTo)
  BY <1>5
<1>7. PicksOf(q, I) = upTo
  BY DEF PicksOf, n
<1>. HIDE DEF upTo
<1>8. \A i \in 0..n : upTo[i] = IF i = 0 THEN << >>
                                ELSE IF i \in I THEN Append(upTo[i - 1], q[i]) ELSE upTo[i - 1]
  BY <1>6, Zenon
<1>9. /\ upTo = [i \in 0..n |-> upTo[i]] /\ upTo[0] = << >>
      /\ \A i \in 1..n : upTo[i] = IF i \in I THEN Append(upTo[i - 1], q[i]) ELSE upTo[i - 1]
  <2>1. upTo = [i \in 0..n |-> upTo[i]]
    BY <1>6
  <2>2. 0 \in 0..n /\ \A i \in 1..n : i \in 0..n /\ i # 0
    BY <1>1
  <2>3. upTo[0] = << >>
    BY <1>8, <2>2, Zenon
  <2>4. \A i \in 1..n : upTo[i] = IF i \in I THEN Append(upTo[i - 1], q[i]) ELSE upTo[i - 1]
    BY <1>8, <2>2, Zenon
  <2>. QED BY <2>1, <2>3, <2>4
<1>. HIDE DEF F
<1>. DEFINE T == {i \in 0..n : upTo[i] \in Seq(E)}
<1>10. \A i \in 0..n : i \in T
  <2>0. << >> \in Seq(E) /\ 0 \in 0..n /\ upTo[0] = << >>
    BY <1>1, <1>9
  <2>1. 0 \in T
    BY <2>0, Zenon
  <2>2. ASSUME NEW i \in 1..n, i - 1 \in T PROVE i \in T
    <3>1. upTo[i - 1] \in Seq(E) /\ i \in 0..n /\ q[i] \in E
      BY <1>1, <2>2
    <3>2. Append(upTo[i - 1], q[i]) \in Seq(E)
      BY <3>1
    <3>3. upTo[i] = Append(upTo[i - 1], q[i]) \/ upTo[i] = upTo[i - 1]
      BY <1>9
    <3>. QED BY <3>1, <3>2, <3>3
  <2>. HIDE DEF T
  <2>. QED BY <1>1, <2>1, <2>2, CountUp
<1>11. upTo \in [0..n -> Seq(E)]
  BY <1>9, <1>10
<1>. HIDE DEF T
<1>. QED BY <1>7, <1>9, <1>11 DEF n

\* A prefix of the result depends on the same prefix of the list only.
LEMMA PicksLocal ==
    ASSUME NEW E, NEW q \in Seq(E), NEW r \in Seq(E), NEW I, NEW J,
           NEW n \in 0..Len(q), n <= Len(r),
           \A i \in 1..n : q[i] = r[i] /\ (i \in I <=> i \in J)
    PROVE  PicksOf(q, I)[n] = PicksOf(r, J)[n]
<1>. DEFINE T == {i \in 0..n : PicksOf(q, I)[i] = PicksOf(r, J)[i]}
<1>1. 0 \in T
  BY PicksStep
<1>2. ASSUME NEW i \in 1..n, i - 1 \in T PROVE i \in T
  <2>1. i \in 1..Len(q) /\ i \in 1..Len(r) /\ i \in 0..n
    OBVIOUS
  <2>2. PicksOf(q, I)[i] = IF i \in I THEN Append(PicksOf(q, I)[i - 1], q[i])
                           ELSE PicksOf(q, I)[i - 1]
    BY <2>1, PicksStep
  <2>3. PicksOf(r, J)[i] = IF i \in J THEN Append(PicksOf(r, J)[i - 1], r[i])
                           ELSE PicksOf(r, J)[i - 1]
    BY <2>1, PicksStep
  <2>4. PicksOf(q, I)[i - 1] = PicksOf(r, J)[i - 1]
    BY <1>2
  <2>5. PicksOf(q, I)[i] = PicksOf(r, J)[i]
    BY <2>2, <2>3, <2>4
  <2>. QED BY <2>1, <2>5
<1>. HIDE DEF T
<1>3. n \in T
  <2>1. n \in Nat /\ n \in 0..n
    OBVIOUS
  <2>. QED BY <1>1, <1>2, <2>1, CountUp
<1>. QED BY <1>3 DEF T

\* Filtering all keeps all.
LEMMA PickedAll ==
    ASSUME NEW E, NEW q \in Seq(E), NEW I, 1..Len(q) \subseteq I
    PROVE  Picked(q, I) = q
<1>. DEFINE T == {i \in 0..Len(q) : PicksOf(q, I)[i] = SubSeq(q, 1, i)}
<1>1. 0 \in T
  BY PicksStep
<1>2. ASSUME NEW i \in 1..Len(q), i - 1 \in T PROVE i \in T
  <2>1. PicksOf(q, I)[i] = Append(PicksOf(q, I)[i - 1], q[i])
    BY PicksStep
  <2>2. PicksOf(q, I)[i - 1] = SubSeq(q, 1, i - 1)
    BY <1>2
  <2>3. SubSeq(q, 1, i) = Append(SubSeq(q, 1, i - 1), q[i])
    OBVIOUS
  <2>4. PicksOf(q, I)[i] = SubSeq(q, 1, i)
    BY <2>1, <2>2, <2>3
  <2>. QED BY <2>4
<1>. HIDE DEF T
<1>3. Len(q) \in T
  <2>1. Len(q) \in Nat /\ Len(q) \in 0..Len(q)
    OBVIOUS
  <2>. QED BY <1>1, <1>2, <2>1, CountUp
<1>4. SubSeq(q, 1, Len(q)) = q
  OBVIOUS
<1>. QED BY <1>3, <1>4 DEF T, Picked

\* at leads from the places of p to the places of I up to n they were picked from.
Origins(at, p, q, I, n) ==
    /\ at \in [1..Len(p) -> I \cap (1..n)]
    /\ \A a \in 1..Len(p) : p[a] = q[at[a]]
    /\ \A a, b \in 1..Len(p) : a < b => at[a] < at[b]
    /\ \A i \in I \cap (1..n) : \E a \in 1..Len(p) : at[a] = i

LEMMA PicksOrigins ==
    ASSUME NEW E, NEW q \in Seq(E), NEW I, NEW n \in 0..Len(q)
    PROVE  \E at : Origins(at, PicksOf(q, I)[n], q, I, n)
<1>. DEFINE P == PicksOf(q, I)
            T == {i \in 0..Len(q) : \E at : Origins(at, P[i], q, I, i)}
<1>1. /\ P \in [0..Len(q) -> Seq(E)] /\ P[0] = << >>
      /\ \A i \in 1..Len(q) : P[i] = IF i \in I THEN Append(P[i - 1], q[i]) ELSE P[i - 1]
  BY PicksStep
<1>. HIDE DEF P
<1>2. 0 \in T
  <2>1. Origins([a \in 1..0 |-> 0], P[0], q, I, 0)
    BY <1>1 DEF Origins
  <2>. QED BY <2>1
<1>3. ASSUME NEW i \in 1..Len(q), i - 1 \in T PROVE i \in T
  <2>1. PICK at : Origins(at, P[i - 1], q, I, i - 1)
    BY <1>3
  <2>2. P[i - 1] \in Seq(E) /\ i \in 0..Len(q) /\ i - 1 \in 0..Len(q)
    BY <1>1
  <2>. DEFINE m == Len(P[i - 1])
  <2>3. m \in Nat
    BY <2>2
  <2>4. CASE i \notin I
    <3>1. P[i] = P[i - 1]
      BY <1>1, <2>4
    <3>2. I \cap (1..i) = I \cap (1..(i - 1))
      BY <2>4
    <3>3. Origins(at, P[i], q, I, i)
      BY <2>1, <3>1, <3>2 DEF Origins
    <3>. QED BY <2>2, <3>3
  <2>5. CASE i \in I
    <3>. DEFINE r == P[i]
                on == [a \in 1..(m + 1) |-> IF a = m + 1 THEN i ELSE at[a]]
    <3>1. r = Append(P[i - 1], q[i])
      BY <1>1, <2>5
    <3>2. /\ Len(r) = m + 1 /\ r[m + 1] = q[i]
          /\ \A a \in 1..m : r[a] = P[i - 1][a]
      BY <2>2, <2>3, <3>1
    <3>3. /\ on \in [1..(m + 1) -> I \cap (1..i)] /\ on[m + 1] = i
          /\ \A a \in 1..m : on[a] = at[a] /\ at[a] \in I \cap (1..(i - 1))
      <4>1. \A a \in 1..m : at[a] \in I \cap (1..(i - 1))
        BY <2>1 DEF Origins
      <4>2. \A a \in 1..(m + 1) : a # m + 1 => a \in 1..m
        BY <2>3
      <4>. QED BY <2>3, <2>5, <4>1, <4>2
    <3>. HIDE DEF on, r
    <3>4. \A a \in 1..(m + 1) : a \in 1..m \/ a = m + 1
      BY <2>3
    <3>5. \A a \in 1..m : P[i - 1][a] = q[at[a]]
      BY <2>1 DEF Origins
    <3>6. \A a \in 1..Len(r) : r[a] = q[on[a]]
      BY <3>2, <3>3, <3>4, <3>5
    <3>7. \A a, b \in 1..Len(r) : a < b => on[a] < on[b]
      <4>1. SUFFICES ASSUME NEW a \in 1..(m + 1), NEW b \in 1..(m + 1), a < b
                     PROVE  on[a] < on[b]
        BY <3>2
      <4>2. a \in 1..m
        BY <2>3, <4>1
      <4>3. CASE b = m + 1
        BY <3>3, <4>2, <4>3
      <4>4. CASE b \in 1..m
        <5>1. at[a] < at[b]
          BY <2>1, <4>1, <4>2, <4>4 DEF Origins
        <5>. QED BY <3>3, <4>2, <4>4, <5>1
      <4>. QED BY <3>4, <4>3, <4>4
    <3>8. \A j \in I \cap (1..i) : \E a \in 1..Len(r) : on[a] = j
      <4>1. SUFFICES ASSUME NEW j \in I \cap (1..i) PROVE \E a \in 1..(m + 1) : on[a] = j
        BY <3>2
      <4>2. CASE j = i
        BY <2>3, <3>3, <4>2
      <4>3. CASE j # i
        <5>1. j \in I \cap (1..(i - 1))
          BY <4>3
        <5>2. PICK a \in 1..m : at[a] = j
          BY <2>1, <5>1 DEF Origins
        <5>. QED BY <2>3, <3>3, <5>2
      <4>. QED BY <4>2, <4>3
    <3>9. Origins(on, r, q, I, i)
      BY <3>2, <3>3, <3>6, <3>7, <3>8 DEF Origins
    <3>. QED BY <2>2, <3>9 DEF r
  <2>. QED BY <2>4, <2>5
<1>. HIDE DEF T
<1>4. n \in T
  BY <1>2, <1>3, CountUp, SMTT(30)
<1>. QED BY <1>4 DEF T, P

LEMMA PickedFacts ==
    ASSUME NEW E, NEW q \in Seq(E), NEW I
    PROVE  /\ Picked(q, I) \in Seq(E) /\ PicksOf(q, I)[Len(q)] = Picked(q, I)
           /\ \E at : Origins(at, Picked(q, I), q, I, Len(q))
<1>1. Len(q) \in 0..Len(q)
  OBVIOUS
<1>. QED BY <1>1, PicksStep, PicksOrigins DEF Picked

\* The positions decide: filters that agree on them agree.
LEMMA PickedSame ==
    ASSUME NEW E, NEW q \in Seq(E), NEW I, NEW J, I \cap (1..Len(q)) = J \cap (1..Len(q))
    PROVE  Picked(q, I) = Picked(q, J)
<1>1. Len(q) \in 0..Len(q) /\ \A i \in 1..Len(q) : i \in I <=> i \in J
  OBVIOUS
<1>. QED BY <1>1, PicksLocal DEF Picked

\* A filter meets the last element after all others.
LEMMA PickedAppend ==
    ASSUME NEW E, NEW q \in Seq(E), NEW x \in E, NEW I
    PROVE  Picked(Append(q, x), I) = IF Len(q) + 1 \in I THEN Append(Picked(q, I), x)
                                     ELSE Picked(q, I)
<1>. DEFINE r == Append(q, x)
            n == Len(q)
<1>1. /\ r \in Seq(E) /\ Len(r) = n + 1 /\ n \in 0..n /\ n <= Len(r)
      /\ r[n + 1] = x /\ \A i \in 1..n : q[i] = r[i]
  OBVIOUS
<1>2. n \in Nat /\ n + 1 \in 1..Len(r) /\ (n + 1) - 1 = n
  BY <1>1
<1>. HIDE DEF r
<1>3. PicksOf(r, I)[n] = PicksOf(q, I)[n]
  <2>1. \A i \in 1..n : q[i] = r[i] /\ (i \in I <=> i \in I)
    BY <1>1
  <2>2. PicksOf(q, I)[n] = PicksOf(r, I)[n]
    BY <1>1, <2>1, PicksLocal
  <2>. QED BY <2>2
<1>4. PicksOf(r, I)[n + 1] = IF n + 1 \in I THEN Append(PicksOf(r, I)[(n + 1) - 1], r[n + 1])
                             ELSE PicksOf(r, I)[(n + 1) - 1]
  <2>. HIDE DEF n
  <2>. QED BY <1>1, <1>2, PicksStep
<1>5. Picked(r, I) = PicksOf(r, I)[n + 1] /\ Picked(q, I) = PicksOf(q, I)[n]
  BY <1>1 DEF Picked
<1>6. Picked(r, I) = IF n + 1 \in I THEN Append(Picked(q, I), x) ELSE Picked(q, I)
  <2>. HIDE DEF n
  <2>. QED BY <1>1, <1>2, <1>3, <1>4, <1>5, Zenon
<1>. QED BY <1>6 DEF r, n

LEMMA PickedEmpty ==
    ASSUME NEW E, NEW q \in Seq(E), NEW I
    PROVE  Len(q) = 0 => Picked(q, I) = << >>
<1>1. PicksOf(q, I)[0] = << >>
  BY PicksStep, Zenon
<1>. QED BY <1>1 DEF Picked

LEMMA OnlyEmpty ==
    ASSUME NEW S
    PROVE  Only(<< >>, S) = << >>
<1>1. << >> \in Seq({S}) /\ Len(<< >>) = 0
  OBVIOUS
<1>2. \A I : Picked(<< >>, I) = << >>
  BY <1>1, PickedEmpty, Zenon
<1>. QED BY <1>2 DEF Only

LEMMA OnlyAppend ==
    ASSUME NEW E, NEW q \in Seq(E), NEW x \in E, NEW S
    PROVE  Only(Append(q, x), S) = IF x \in S THEN Append(Only(q, S), x) ELSE Only(q, S)
<1>. DEFINE r == Append(q, x)
            I == {i \in 1..Len(r) : r[i] \in S}
            J == {i \in 1..Len(q) : q[i] \in S}
<1>1. /\ Len(r) = Len(q) + 1 /\ Len(q) \in Nat /\ r[Len(q) + 1] = x
      /\ \A i \in 1..Len(q) : r[i] = q[i]
  OBVIOUS
<1>2. I \cap (1..Len(q)) = J \cap (1..Len(q)) /\ (Len(q) + 1 \in I <=> x \in S)
  <2>. HIDE DEF r
  <2>. QED BY <1>1
<1>3. Picked(q, I) = Picked(q, J)
  <2>. HIDE DEF I, J
  <2>. QED BY <1>2, PickedSame
<1>4. Picked(r, I) = IF Len(q) + 1 \in I THEN Append(Picked(q, I), x) ELSE Picked(q, I)
  <2>. HIDE DEF I
  <2>. QED BY PickedAppend
<1>5. Only(r, S) = Picked(r, I) /\ Only(q, S) = Picked(q, J)
  BY DEF Only
<1>. HIDE DEF I, J
<1>. QED BY <1>2, <1>3, <1>4, <1>5, Zenon
LEMMA AppendSet ==
    ASSUME NEW E, NEW q \in Seq(E), NEW x \in E
    PROVE  ToSet(Append(q, x)) = ToSet(q) \cup {x}
<1>. DEFINE r == Append(q, x)
<1>1. /\ DOMAIN r = 1..(Len(q) + 1) /\ r[Len(q) + 1] = x /\ Len(q) \in Nat
      /\ \A i \in 1..Len(q) : r[i] = q[i]
      /\ DOMAIN q = 1..Len(q)
  OBVIOUS
<1>2. \A i \in 1..(Len(q) + 1) : i \in 1..Len(q) \/ i = Len(q) + 1
  BY <1>1
<1>3. \A i \in 1..Len(q) : i \in 1..(Len(q) + 1)
  BY <1>1
<1>4. Len(q) + 1 \in 1..(Len(q) + 1)
  BY <1>1
<1>. HIDE DEF r
<1>5. ToSet(r) = ToSet(q) \cup {x}
  BY <1>1, <1>2, <1>3, <1>4 DEF ToSet
<1>. QED BY <1>5 DEF r

LEMMA EmptySet == ToSet(<< >>) = {}
BY DEF ToSet

\* What a filter returns: the same elements in S, no more of them than there were.
LEMMA OnlyFacts ==
    ASSUME NEW E, NEW q \in Seq(E), NEW S
    PROVE  /\ Only(q, S) \in Seq(E) /\ ToSet(Only(q, S)) = ToSet(q) \cap S
           /\ Len(Only(q, S)) \in Nat /\ Len(Only(q, S)) <= Len(q)
<1>. DEFINE Fact(r) == /\ Only(r, S) \in Seq(E) /\ ToSet(Only(r, S)) = ToSet(r) \cap S
                       /\ Len(Only(r, S)) <= Len(r)
            T == {r \in Seq(E) : Fact(r)}
<1>1. << >> \in T
  <2>1. << >> \in Seq(E) /\ Len(<< >>) <= Len(<< >>) /\ {} = {} \cap S
    OBVIOUS
  <2>2. Fact(<< >>)
    BY <2>1, OnlyEmpty, EmptySet, Zenon
  <2>. QED BY <2>1, <2>2
<1>2. ASSUME NEW r \in Seq(E), NEW x \in E, r \in T PROVE Append(r, x) \in T
  <2>0. Fact(r)
    BY <1>2
  <2>1. Append(r, x) \in Seq(E) /\ Len(Append(r, x)) = Len(r) + 1 /\ Len(r) \in Nat
    OBVIOUS
  <2>2. ToSet(Append(r, x)) = ToSet(r) \cup {x}
    BY AppendSet
  <2>3. CASE x \in S
    <3>1. Only(Append(r, x), S) = Append(Only(r, S), x)
      BY <2>3, OnlyAppend
    <3>2. ToSet(Append(Only(r, S), x)) = ToSet(Only(r, S)) \cup {x}
      BY <2>0, AppendSet
    <3>3. /\ Append(Only(r, S), x) \in Seq(E) /\ Len(Only(r, S)) \in Nat
          /\ Len(Append(Only(r, S), x)) = Len(Only(r, S)) + 1
      BY <2>0
    <3>4. ToSet(Only(Append(r, x), S)) = ToSet(Append(r, x)) \cap S
      BY <2>0, <2>2, <2>3, <3>1, <3>2
    <3>5. Only(Append(r, x), S) \in Seq(E) /\ Len(Only(Append(r, x), S)) <= Len(Append(r, x))
      BY <2>0, <2>1, <3>1, <3>3
    <3>. QED BY <2>1, <3>4, <3>5
  <2>4. CASE x \notin S
    <3>1. Only(Append(r, x), S) = Only(r, S)
      BY <2>4, OnlyAppend
    <3>2. Len(Only(r, S)) \in Nat
      BY <2>0
    <3>. QED BY <2>0, <2>1, <2>2, <2>4, <3>1, <3>2
  <2>. QED BY <2>3, <2>4
<1>. HIDE DEF T
<1>3. q \in T
  BY <1>1, <1>2, ListInduction
<1>4. Fact(q)
  BY <1>3 DEF T
<1>. QED BY <1>4

\* Only the elements of the list matter.
LEMMA OnlySame ==
    ASSUME NEW E, NEW q \in Seq(E), NEW S, NEW T, ToSet(q) \cap S = ToSet(q) \cap T
    PROVE  Only(q, S) = Only(q, T)
<1>1. \A i \in 1..Len(q) : q[i] \in S <=> q[i] \in T
  BY DEF ToSet
<1>2. {i \in 1..Len(q) : q[i] \in S} = {i \in 1..Len(q) : q[i] \in T}
  BY <1>1
<1>. QED BY <1>2, Zenon DEF Only

LEMMA OnlyAll ==
    ASSUME NEW E, NEW q \in Seq(E), NEW S, ToSet(q) \subseteq S
    PROVE  Only(q, S) = q
<1>. DEFINE I == {i \in 1..Len(q) : q[i] \in S}
<1>1. 1..Len(q) \subseteq I
  BY DEF ToSet
<1>. HIDE DEF I
<1>2. Picked(q, I) = q
  BY <1>1, PickedAll
<1>. QED BY <1>2 DEF Only, I

LEMMA EmptyList ==
    ASSUME NEW E, NEW q \in Seq(E), ToSet(q) = {}
    PROVE  q = << >>
<1>1. Len(q) = 0
  <2>1. \A i \in 1..Len(q) : q[i] \in ToSet(q)
    BY DEF ToSet
  <2>2. Len(q) \in Nat /\ (Len(q) # 0 => 1 \in 1..Len(q))
    OBVIOUS
  <2>. QED BY <2>1, <2>2
<1>. QED BY <1>1

LEMMA OnlyNone ==
    ASSUME NEW E, NEW q \in Seq(E), NEW S, ToSet(q) \cap S = {}
    PROVE  Only(q, S) = << >>
<1>1. Only(q, S) \in Seq(E) /\ ToSet(Only(q, S)) = {}
  BY OnlyFacts
<1>. QED BY <1>1, EmptyList

\* Filtering distributes over concatenation and composes with itself.
LEMMA OnlyConcat ==
    ASSUME NEW E, NEW p \in Seq(E), NEW q \in Seq(E), NEW S
    PROVE  Only(p \o q, S) = Only(p, S) \o Only(q, S)
<1>. DEFINE T == {r \in Seq(E) : Only(p \o r, S) = Only(p, S) \o Only(r, S)}
<1>1. << >> \in T
  <2>1. p \o << >> = p /\ Only(p, S) \o << >> = Only(p, S) /\ << >> \in Seq(E)
    BY OnlyFacts
  <2>. QED BY <2>1, OnlyEmpty
<1>2. ASSUME NEW r \in Seq(E), NEW x \in E, r \in T PROVE Append(r, x) \in T
  <2>1. Append(r, x) \in Seq(E) /\ p \o r \in Seq(E) /\ p \o Append(r, x) = Append(p \o r, x)
    OBVIOUS
  <2>2. Only(p, S) \in Seq(E) /\ Only(r, S) \in Seq(E)
    BY OnlyFacts
  <2>3. Only(p \o r, S) = Only(p, S) \o Only(r, S)
    BY <1>2
  <2>4. CASE x \in S
    <3>1. /\ Only(Append(r, x), S) = Append(Only(r, S), x)
          /\ Only(Append(p \o r, x), S) = Append(Only(p \o r, S), x)
      BY <2>1, <2>4, OnlyAppend
    <3>2. Only(p, S) \o Append(Only(r, S), x) = Append(Only(p, S) \o Only(r, S), x)
      <4>. DEFINE a == Only(p, S)
                  b == Only(r, S)
      <4>1. a \in Seq(E) /\ b \in Seq(E)
        BY <2>2
      <4>. HIDE DEF a, b
      <4>2. a \o Append(b, x) = Append(a \o b, x)
        BY <4>1
      <4>. QED BY <4>2 DEF a, b
    <3>. QED BY <2>1, <2>3, <3>1, <3>2
  <2>5. CASE x \notin S
    <3>1. /\ Only(Append(r, x), S) = Only(r, S)
          /\ Only(Append(p \o r, x), S) = Only(p \o r, S)
      BY <2>1, <2>5, OnlyAppend
    <3>. QED BY <2>1, <2>3, <3>1
  <2>. QED BY <2>4, <2>5
<1>. HIDE DEF T
<1>3. q \in T
  BY <1>1, <1>2, ListInduction
<1>. QED BY <1>3 DEF T

LEMMA OnlyOnly ==
    ASSUME NEW E, NEW q \in Seq(E), NEW S, NEW U
    PROVE  Only(Only(q, S), U) = Only(q, S \cap U)
<1>. DEFINE T == {r \in Seq(E) : Only(Only(r, S), U) = Only(r, S \cap U)}
<1>1. << >> \in T
  BY OnlyEmpty
<1>2. ASSUME NEW r \in Seq(E), NEW x \in E, r \in T PROVE Append(r, x) \in T
  <2>1. Append(r, x) \in Seq(E) /\ Only(r, S) \in Seq(E)
    BY OnlyFacts
  <2>2. Only(Only(r, S), U) = Only(r, S \cap U)
    BY <1>2
  <2>3. Only(Append(r, x), S) = IF x \in S THEN Append(Only(r, S), x) ELSE Only(r, S)
    BY OnlyAppend
  <2>4. Only(Append(Only(r, S), x), U) = IF x \in U THEN Append(Only(Only(r, S), U), x)
                                         ELSE Only(Only(r, S), U)
    BY <2>1, OnlyAppend
  <2>5. Only(Append(r, x), S \cap U) = IF x \in S \cap U THEN Append(Only(r, S \cap U), x)
                                       ELSE Only(r, S \cap U)
    BY OnlyAppend
  <2>6. CASE x \in S /\ x \in U
    BY <2>1, <2>2, <2>3, <2>4, <2>5, <2>6
  <2>7. CASE x \in S /\ x \notin U
    BY <2>1, <2>2, <2>3, <2>4, <2>5, <2>7
  <2>8. CASE x \notin S
    BY <2>1, <2>2, <2>3, <2>5, <2>8
  <2>. QED BY <2>6, <2>7, <2>8
<1>. HIDE DEF T
<1>3. q \in T
  BY <1>1, <1>2, ListInduction
<1>. QED BY <1>3 DEF T

\* A filter that drops something returns a shorter list.
LEMMA OnlyShorter ==
    ASSUME NEW E, NEW q \in Seq(E), NEW S
    PROVE  Len(Only(q, S)) < Len(q) \/ ToSet(q) \subseteq S
<1>. DEFINE T == {r \in Seq(E) : Len(Only(r, S)) < Len(r) \/ ToSet(r) \subseteq S}
<1>1. << >> \in T
  <2>1. << >> \in Seq(E)
    OBVIOUS
  <2>2. ToSet(<< >>) \subseteq S
    BY EmptySet
  <2>. QED BY <2>1, <2>2
<1>2. ASSUME NEW r \in Seq(E), NEW x \in E, r \in T PROVE Append(r, x) \in T
  <2>1. /\ Append(r, x) \in Seq(E) /\ Len(Append(r, x)) = Len(r) + 1 /\ Len(r) \in Nat
        /\ ToSet(Append(r, x)) = ToSet(r) \cup {x}
    BY AppendSet
  <2>2. Only(r, S) \in Seq(E) /\ Len(Only(r, S)) \in Nat /\ Len(Only(r, S)) <= Len(r)
    BY OnlyFacts
  <2>3. CASE x \in S
    <3>1. Only(Append(r, x), S) = Append(Only(r, S), x)
      BY <2>3, OnlyAppend
    <3>2. Len(Append(Only(r, S), x)) = Len(Only(r, S)) + 1
      BY <2>2
    <3>3. Len(Only(r, S)) < Len(r) \/ ToSet(r) \subseteq S
      BY <1>2
    <3>. QED BY <2>1, <2>2, <2>3, <3>1, <3>2, <3>3
  <2>4. CASE x \notin S
    <3>1. Only(Append(r, x), S) = Only(r, S)
      BY <2>4, OnlyAppend
    <3>. QED BY <2>1, <2>2, <3>1
  <2>. QED BY <2>3, <2>4
<1>. HIDE DEF T
<1>3. q \in T
  BY <1>1, <1>2, ListInduction
<1>. QED BY <1>3 DEF T

\* A filter keeps as many elements as there are places with one to keep.
LEMMA OnlyCounts ==
    ASSUME NEW E, NEW q \in Seq(E), NEW S
    PROVE  /\ IsFiniteSet({i \in DOMAIN q : q[i] \in S})
           /\ Len(Only(q, S)) = Cardinality({i \in DOMAIN q : q[i] \in S})
<1>. DEFINE Places(r) == {i \in DOMAIN r : r[i] \in S}
            T == {r \in Seq(E) : IsFiniteSet(Places(r)) /\ Len(Only(r, S)) = Cardinality(Places(r))}
<1>1. << >> \in T
  <2>1. << >> \in Seq(E) /\ Len(<< >>) = 0 /\ Places(<< >>) = {}
    OBVIOUS
  <2>2. Only(<< >>, S) = << >>
    BY OnlyEmpty
  <2>. QED BY <2>1, <2>2, FS_EmptySet
<1>2. ASSUME NEW r \in Seq(E), NEW x \in E, r \in T PROVE Append(r, x) \in T
  <2>. DEFINE n == Len(r)
              s == Append(r, x)
  <2>1. /\ s \in Seq(E) /\ n \in Nat /\ DOMAIN r = 1..n /\ DOMAIN s = 1..(n + 1)
        /\ s[n + 1] = x /\ \A i \in 1..n : s[i] = r[i]
    OBVIOUS
  <2>2. Only(s, S) = IF x \in S THEN Append(Only(r, S), x) ELSE Only(r, S)
    BY OnlyAppend
  <2>3. Only(r, S) \in Seq(E) /\ IsFiniteSet(Places(r)) /\ Len(Only(r, S)) = Cardinality(Places(r))
    BY <1>2, OnlyFacts
  <2>4. n + 1 \notin Places(r)
    BY <2>1
  <2>. HIDE DEF s, n
  <2>5. CASE x \in S
    <3>1. Places(s) = Places(r) \cup {n + 1}
      BY <2>1, <2>5
    <3>2. Only(s, S) = Append(Only(r, S), x)
      BY <2>2, <2>5
    <3>3. Len(Only(s, S)) = Len(Only(r, S)) + 1
      BY <2>3, <3>2
    <3>. HIDE DEF Places
    <3>4. IsFiniteSet(Places(s)) /\ Cardinality(Places(s)) = Cardinality(Places(r)) + 1
      BY <2>3, <2>4, <3>1, FS_AddElement
    <3>5. Len(Only(s, S)) = Cardinality(Places(s))
      BY <2>3, <3>3, <3>4
    <3>. QED BY <2>1, <3>4, <3>5 DEF s
  <2>6. CASE x \notin S
    <3>1. Places(s) = Places(r)
      BY <2>1, <2>6
    <3>2. Only(s, S) = Only(r, S)
      BY <2>2, <2>6
    <3>. HIDE DEF Places
    <3>. QED BY <2>1, <2>3, <3>1, <3>2 DEF s
  <2>. QED BY <2>5, <2>6
<1>. HIDE DEF T
<1>3. q \in T
  BY <1>1, <1>2, ListInduction
<1>. QED BY <1>3 DEF T

\* Lists without repetition.
LEMMA InjectiveAppend ==
    ASSUME NEW E, NEW q \in Seq(E), NEW x \in E
    PROVE  IsInjective(Append(q, x)) <=> IsInjective(q) /\ x \notin ToSet(q)
<1>. DEFINE r == Append(q, x)
            n == Len(q)
<1>1. /\ DOMAIN r = 1..(n + 1) /\ r[n + 1] = x /\ n \in Nat
      /\ \A i \in 1..n : r[i] = q[i]
      /\ DOMAIN q = 1..n
  OBVIOUS
<1>. HIDE DEF r, n
<1>2. /\ \A i \in 1..(n + 1) : i \in 1..n \/ i = n + 1
      /\ \A i \in 1..n : i \in 1..(n + 1) /\ i # n + 1
      /\ n + 1 \in 1..(n + 1)
  BY <1>1
<1>3. IsInjective(r) => IsInjective(q) /\ x \notin ToSet(q)
  BY <1>1, <1>2 DEF IsInjective, ToSet
<1>4. IsInjective(q) /\ x \notin ToSet(q) => IsInjective(r)
  BY <1>1, <1>2 DEF IsInjective, ToSet
<1>. QED BY <1>3, <1>4 DEF r

LEMMA OnlyInjective ==
    ASSUME NEW E, NEW q \in Seq(E), NEW S, IsInjective(q)
    PROVE  IsInjective(Only(q, S))
<1>. DEFINE T == {r \in Seq(E) : IsInjective(r) => IsInjective(Only(r, S))}
<1>1. << >> \in T
  BY OnlyEmpty
<1>2. ASSUME NEW r \in Seq(E), NEW x \in E, r \in T PROVE Append(r, x) \in T
  <2>1. Append(r, x) \in Seq(E)
    OBVIOUS
  <2>2. SUFFICES ASSUME IsInjective(Append(r, x)) PROVE IsInjective(Only(Append(r, x), S))
    BY <2>1
  <2>3. IsInjective(r) /\ x \notin ToSet(r)
    BY <2>2, InjectiveAppend
  <2>4. /\ IsInjective(Only(r, S)) /\ Only(r, S) \in Seq(E)
        /\ ToSet(Only(r, S)) = ToSet(r) \cap S
    BY <1>2, <2>3, OnlyFacts
  <2>5. CASE x \in S
    <3>1. Only(Append(r, x), S) = Append(Only(r, S), x)
      BY <2>5, OnlyAppend
    <3>2. IsInjective(Append(Only(r, S), x))
      BY <2>3, <2>4, InjectiveAppend
    <3>. QED BY <3>1, <3>2
  <2>6. CASE x \notin S
    <3>1. Only(Append(r, x), S) = Only(r, S)
      BY <2>6, OnlyAppend
    <3>. QED BY <2>4, <3>1
  <2>. QED BY <2>5, <2>6
<1>. HIDE DEF T
<1>3. q \in T
  BY <1>1, <1>2, ListInduction
<1>. QED BY <1>3 DEF T

LEMMA OnlyOne ==
    ASSUME NEW E, NEW q \in Seq(E), NEW x \in ToSet(q), IsInjective(q)
    PROVE  Only(q, {x}) = <<x>>
<1>. DEFINE T == {r \in Seq(E) : IsInjective(r) /\ x \in ToSet(r) => Only(r, {x}) = <<x>>}
<1>1. << >> \in T
  <2>1. << >> \in Seq(E)
    OBVIOUS
  <2>. QED BY <2>1, EmptySet
<1>2. ASSUME NEW r \in Seq(E), NEW y \in E, r \in T PROVE Append(r, y) \in T
  <2>1. Append(r, y) \in Seq(E) /\ ToSet(Append(r, y)) = ToSet(r) \cup {y}
    BY AppendSet
  <2>2. SUFFICES ASSUME IsInjective(Append(r, y)), x \in ToSet(Append(r, y))
                 PROVE  Only(Append(r, y), {x}) = <<x>>
    BY <2>1
  <2>3. IsInjective(r) /\ y \notin ToSet(r)
    BY <2>2, InjectiveAppend
  <2>4. CASE x = y
    <3>1. Only(r, {x}) = << >>
      <4>1. ToSet(r) \cap {x} = {}
        BY <2>3, <2>4
      <4>. QED BY <4>1, OnlyNone
    <3>2. Only(Append(r, y), {x}) = Append(Only(r, {x}), y)
      <4>1. Only(Append(r, y), {x}) = IF y \in {x} THEN Append(Only(r, {x}), y)
                                      ELSE Only(r, {x})
        BY OnlyAppend
      <4>. QED BY <2>4, <4>1
    <3>3. Append(<< >>, y) = <<y>>
      OBVIOUS
    <3>. QED BY <2>4, <3>1, <3>2, <3>3
  <2>5. CASE x # y
    <3>1. Only(Append(r, y), {x}) = Only(r, {x})
      BY <2>5, OnlyAppend
    <3>2. Only(r, {x}) = <<x>>
      <4>1. IsInjective(r) /\ x \in ToSet(r) => Only(r, {x}) = <<x>>
        BY <1>2, Zenon
      <4>. QED BY <2>1, <2>2, <2>3, <2>5, <4>1
    <3>. QED BY <3>1, <3>2
  <2>. QED BY <2>4, <2>5
<1>. HIDE DEF T
<1>3. q \in T
  BY <1>1, <1>2, ListInduction
<1>. QED BY <1>3 DEF T

-----------------------------------------------------------------------------
(* Sums.                                                                   *)

LEMMA TotalsStep ==
    ASSUME NEW E, NEW q \in Seq(E), NEW w \in [E -> Nat]
    PROVE  /\ TotalsOf(w, q) \in [0..Len(q) -> Nat] /\ TotalsOf(w, q)[0] = 0
           /\ \A i \in 1..Len(q) : TotalsOf(w, q)[i] = TotalsOf(w, q)[i - 1] + w[q[i]]
<1>. DEFINE n == Len(q)
            F(f) == [i \in 0..n |-> IF i = 0 THEN 0 ELSE f[i - 1] + w[q[i]]]
            upTo == CHOOSE f : f = F(f)
            step == [x \in (1..n) \X Nat |-> x[2] + w[q[x[1]]]]
<1>1. n \in Nat /\ \A i \in 1..n : w[q[i]] \in Nat
  BY ElementIsIn
<1>. HIDE DEF n
<1>2. step \in [(1..n) \X Nat -> Nat]
  BY <1>1
<1>3. \A i \in 1..n, t \in Nat : step[<<i, t>>] = t + w[q[i]]
  OBVIOUS
<1>. HIDE DEF step
<1>4. PICK f \in [0..n -> Nat] : Recursion(f, n, 0, step)
  BY <1>1, <1>2, RecursionExists
<1>5. f = F(f)
  <2>1. ASSUME NEW i \in 0..n PROVE f[i] = F(f)[i]
    <3>1. CASE i = 0
      BY <1>4, <3>1 DEF Recursion
    <3>2. CASE i # 0
      <4>1. i \in 1..n /\ i - 1 \in 0..n
        BY <1>1, <3>2
      <4>2. f[i] = step[<<i, f[i - 1]>>] /\ f[i - 1] \in Nat
        BY <1>4, <4>1 DEF Recursion
      <4>. QED BY <1>3, <3>2, <4>1, <4>2
    <3>. QED BY <3>1, <3>2
  <2>. QED BY <1>4, <2>1 DEF Recursion
<1>6. upTo = F(upTo)
  BY <1>5
<1>7. TotalsOf(w, q) = upTo
  BY DEF TotalsOf, n
<1>. HIDE DEF upTo
<1>8. \A i \in 0..n : upTo[i] = IF i = 0 THEN 0 ELSE upTo[i - 1] + w[q[i]]
  BY <1>6, Zenon
<1>9. /\ upTo = [i \in 0..n |-> upTo[i]] /\ upTo[0] = 0
      /\ \A i \in 1..n : upTo[i] = upTo[i - 1] + w[q[i]]
  <2>1. upTo = [i \in 0..n |-> upTo[i]]
    BY <1>6
  <2>2. 0 \in 0..n /\ \A i \in 1..n : i \in 0..n /\ i # 0
    BY <1>1
  <2>3. upTo[0] = 0
    BY <1>8, <2>2, Zenon
  <2>4. \A i \in 1..n : upTo[i] = upTo[i - 1] + w[q[i]]
    BY <1>8, <2>2, Zenon
  <2>. QED BY <2>1, <2>3, <2>4
<1>. HIDE DEF F
<1>. DEFINE T == {i \in 0..n : upTo[i] \in Nat}
<1>10. \A i \in 0..n : i \in T
  <2>1. 0 \in T
    BY <1>1, <1>9
  <2>2. ASSUME NEW i \in 1..n, i - 1 \in T PROVE i \in T
    <3>1. upTo[i - 1] \in Nat /\ w[q[i]] \in Nat /\ i \in 0..n
      BY <1>1, <2>2
    <3>2. upTo[i] = upTo[i - 1] + w[q[i]]
      BY <1>9
    <3>3. upTo[i] \in Nat
      BY <3>1, <3>2
    <3>. QED BY <3>1, <3>3
  <2>. HIDE DEF T
  <2>. QED BY <1>1, <2>1, <2>2, CountUp
<1>11. upTo \in [0..n -> Nat]
  BY <1>9, <1>10
<1>. HIDE DEF T
<1>. QED BY <1>7, <1>9, <1>11 DEF n

\* The first n places weigh the same in q by w and in r by v.
SameWeights(E, w, q, v, r, n) ==
    /\ q \in Seq(E) /\ r \in Seq(E) /\ w \in [E -> Nat] /\ v \in [E -> Nat]
    /\ n \in 0..Len(q) /\ n <= Len(r)
    /\ \A i \in 1..n : w[q[i]] = v[r[i]]

LEMMA TotalsLocal ==
    ASSUME NEW E, NEW w, NEW q, NEW v, NEW r, NEW n, SameWeights(E, w, q, v, r, n)
    PROVE  TotalsOf(w, q)[n] = TotalsOf(v, r)[n]
<1>0. /\ q \in Seq(E) /\ r \in Seq(E) /\ w \in [E -> Nat] /\ v \in [E -> Nat]
      /\ n \in 0..Len(q) /\ n <= Len(r)
      /\ \A i \in 1..n : w[q[i]] = v[r[i]]
  BY DEF SameWeights
<1>4. q \in Seq(E) /\ w \in [E -> Nat]
  BY <1>0
<1>5. \A i \in 1..Len(q) : TotalsOf(w, q)[i] = TotalsOf(w, q)[i - 1] + w[q[i]]
  BY <1>4, TotalsStep
<1>6. r \in Seq(E) /\ v \in [E -> Nat]
  BY <1>0
<1>7. \A i \in 1..Len(r) : TotalsOf(v, r)[i] = TotalsOf(v, r)[i - 1] + v[r[i]]
  BY <1>6, TotalsStep
<1>. DEFINE T == {i \in 0..n : TotalsOf(w, q)[i] = TotalsOf(v, r)[i]}
<1>1. 0 \in T
  <2>1. TotalsOf(w, q)[0] = 0
    BY <1>0, TotalsStep
  <2>2. TotalsOf(v, r)[0] = 0
    BY <1>0, TotalsStep
  <2>. QED BY <1>0, <2>1, <2>2
<1>2. ASSUME NEW i \in 1..n, i - 1 \in T PROVE i \in T
  <2>1. i \in 1..Len(q) /\ i \in 1..Len(r) /\ i \in 0..n
    BY <1>0
  <2>2. TotalsOf(w, q)[i] = TotalsOf(w, q)[i - 1] + w[q[i]]
    BY <1>5, <2>1, Zenon
  <2>3. TotalsOf(v, r)[i] = TotalsOf(v, r)[i - 1] + v[r[i]]
    BY <1>7, <2>1, Zenon
  <2>4. TotalsOf(w, q)[i - 1] = TotalsOf(v, r)[i - 1]
    BY <1>2
  <2>5. w[q[i]] = v[r[i]]
    BY <1>0
  <2>6. TotalsOf(w, q)[i] = TotalsOf(v, r)[i]
    BY <2>2, <2>3, <2>4, <2>5
  <2>. QED BY <2>1, <2>6
<1>. HIDE DEF T
<1>3. n \in T
  <2>1. n \in Nat /\ n \in 0..n
    BY <1>0
  <2>. QED BY <1>1, <1>2, <2>1, CountUp
<1>. QED BY <1>3 DEF T

LEMMA TotalIsNatural ==
    ASSUME NEW E, NEW q \in Seq(E), NEW w \in [E -> Nat]
    PROVE  Total(w, q) \in Nat /\ (Len(q) = 0 => Total(w, q) = 0)
<1>1. Len(q) \in 0..Len(q)
  OBVIOUS
<1>2. TotalsOf(w, q)[Len(q)] \in Nat /\ TotalsOf(w, q)[0] = 0
  BY <1>1, TotalsStep
<1>. QED BY <1>2 DEF Total

LEMMA TotalOfNone ==
    ASSUME NEW E, NEW w \in [E -> Nat]
    PROVE  Total(w, << >>) = 0
<1>1. << >> \in Seq(E) /\ Len(<< >>) = 0
  OBVIOUS
<1>2. TotalsOf(w, << >>)[0] = 0
  BY <1>1, TotalsStep
<1>. QED BY <1>1, <1>2 DEF Total

LEMMA TotalAppend ==
    ASSUME NEW E, NEW q \in Seq(E), NEW x \in E, NEW w \in [E -> Nat]
    PROVE  Total(w, Append(q, x)) = Total(w, q) + w[x]
<1>. DEFINE r == Append(q, x)
            n == Len(q)
<1>1. /\ r \in Seq(E) /\ Len(r) = n + 1 /\ n \in 0..n /\ n <= Len(r)
      /\ r[n + 1] = x /\ \A i \in 1..n : q[i] = r[i]
  OBVIOUS
<1>2. n \in Nat /\ n + 1 \in 1..Len(r) /\ (n + 1) - 1 = n
  BY <1>1
<1>. HIDE DEF r
<1>3. TotalsOf(w, r)[n] = TotalsOf(w, q)[n]
  <2>1. SameWeights(E, w, q, w, r, n)
    BY <1>1 DEF SameWeights
  <2>. HIDE DEF n
  <2>2. TotalsOf(w, q)[n] = TotalsOf(w, r)[n]
    BY <2>1, TotalsLocal
  <2>. QED BY <2>2
<1>4. TotalsOf(w, r)[n + 1] = TotalsOf(w, r)[(n + 1) - 1] + w[r[n + 1]]
  <2>. HIDE DEF n
  <2>. QED BY <1>1, <1>2, TotalsStep
<1>5. Total(w, r) = TotalsOf(w, r)[n + 1] /\ Total(w, q) = TotalsOf(w, q)[n]
  BY <1>1 DEF Total
<1>6. Total(w, r) = Total(w, q) + w[x]
  <2>. HIDE DEF n
  <2>. QED BY <1>1, <1>2, <1>3, <1>4, <1>5
<1>. QED BY <1>6 DEF r

LEMMA TotalSame ==
    ASSUME NEW E, NEW q \in Seq(E), NEW w \in [E -> Nat], NEW v \in [E -> Nat],
           \A x \in ToSet(q) : w[x] = v[x]
    PROVE  Total(w, q) = Total(v, q)
<1>. DEFINE n == Len(q)
<1>1. n \in 0..Len(q) /\ n <= Len(q) /\ \A i \in 1..n : w[q[i]] = v[q[i]]
  BY DEF ToSet
<1>2. SameWeights(E, w, q, v, q, n)
  BY <1>1 DEF SameWeights
<1>3. TotalsOf(w, q)[n] = TotalsOf(v, q)[n]
  <2>. HIDE DEF n
  <2>. QED BY <1>2, TotalsLocal
<1>. QED BY <1>3 DEF Total

\* A filter and its complement share the sum.
LEMMA TotalSplit ==
    ASSUME NEW E, NEW q \in Seq(E), NEW w \in [E -> Nat], NEW S, NEW U,
           \A x \in E : x \in S <=> x \notin U
    PROVE  Total(w, q) = Total(w, Only(q, S)) + Total(w, Only(q, U))
<1>. DEFINE T == {r \in Seq(E) : Total(w, r) = Total(w, Only(r, S)) + Total(w, Only(r, U))}
<1>1. << >> \in T
  <2>1. << >> \in Seq(E) /\ Len(<< >>) = 0
    OBVIOUS
  <2>2. Total(w, << >>) = 0
    BY <2>1, TotalIsNatural
  <2>3. Total(w, << >>) = Total(w, Only(<< >>, S)) + Total(w, Only(<< >>, U))
    BY <2>2, OnlyEmpty
  <2>. QED BY <2>1, <2>3
<1>2. ASSUME NEW r \in Seq(E), NEW x \in E, r \in T PROVE Append(r, x) \in T
  <2>1. Append(r, x) \in Seq(E) /\ Only(r, S) \in Seq(E) /\ Only(r, U) \in Seq(E)
    BY OnlyFacts
  <2>2. /\ Total(w, Only(r, S)) \in Nat /\ Total(w, Only(r, U)) \in Nat /\ w[x] \in Nat
        /\ Total(w, r) = Total(w, Only(r, S)) + Total(w, Only(r, U))
    BY <1>2, <2>1, TotalIsNatural
  <2>3. Total(w, Append(r, x)) = Total(w, r) + w[x]
    BY TotalAppend
  <2>4. CASE x \in S
    <3>1. Only(Append(r, x), S) = Append(Only(r, S), x) /\ Only(Append(r, x), U) = Only(r, U)
      BY <2>4, OnlyAppend
    <3>2. Total(w, Append(Only(r, S), x)) = Total(w, Only(r, S)) + w[x]
      BY <2>1, TotalAppend
    <3>3. Total(w, Append(r, x)) = Total(w, Only(Append(r, x), S)) + Total(w, Only(Append(r, x), U))
      BY <2>2, <2>3, <3>1, <3>2
    <3>. QED BY <2>1, <3>3
  <2>5. CASE x \notin S
    <3>1. Only(Append(r, x), U) = Append(Only(r, U), x) /\ Only(Append(r, x), S) = Only(r, S)
      BY <2>5, OnlyAppend
    <3>2. Total(w, Append(Only(r, U), x)) = Total(w, Only(r, U)) + w[x]
      BY <2>1, TotalAppend
    <3>3. Total(w, Append(r, x)) = Total(w, Only(Append(r, x), S)) + Total(w, Only(Append(r, x), U))
      BY <2>2, <2>3, <3>1, <3>2
    <3>. QED BY <2>1, <3>3
  <2>. QED BY <2>4, <2>5
<1>. HIDE DEF T
<1>3. q \in T
  BY <1>1, <1>2, ListInduction
<1>. QED BY <1>3 DEF T
=============================================================================
