---------------------------- MODULE FiniteLists ----------------------------
(***************************************************************************)
(* Filters and sums over finite lists, as the standard library's retain,   *)
(* filter and sum run them: from the front, one element after another.     *)
(* Each is a recursive function over the prefixes of the list, so that     *)
(* facts about it can be proved by counting up from the empty prefix,      *)
(* which SelectSeq and FoldLeft do not allow.                              *)
(***************************************************************************)
EXTENDS Naturals, SequencesExt

\* What a filter has kept after each prefix, if it keeps the positions I.
PicksOf(q, I) ==
    LET upTo[i \in 0..Len(q)] ==
            IF i = 0 THEN << >>
            ELSE IF i \in I THEN Append(upTo[i - 1], q[i]) ELSE upTo[i - 1]
    IN  upTo
Picked(q, I) == PicksOf(q, I)[Len(q)]

\* The elements of q that are in S, in their order.
Only(q, S) == Picked(q, {i \in 1..Len(q) : q[i] \in S})

\* The sum of weight over each prefix, and over all of q.
TotalsOf(weight, q) ==
    LET upTo[i \in 0..Len(q)] == IF i = 0 THEN 0 ELSE upTo[i - 1] + weight[q[i]]
    IN  upTo
Total(weight, q) == TotalsOf(weight, q)[Len(q)]
=============================================================================
