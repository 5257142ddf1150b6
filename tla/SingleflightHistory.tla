------------------------- MODULE SingleflightHistory -------------------------
(***************************************************************************)
(* Singleflight with a history variable: which calls had already returned  *)
(* when a call joined.  It asks of the code what its documentation says    *)
(* about who may share a result.                                           *)
(***************************************************************************)
EXTENDS Singleflight

VARIABLE leftBefore

hvars == <<vars, leftBefore>>

HInit == Init /\ leftBefore = [c \in Calls |-> {}]

HJoin(c) ==
    /\ Join(c)
    /\ leftBefore' = [leftBefore EXCEPT ![c] = {d \in Calls : pc[d] = "done"}]

HStep(c) ==
    /\ StartWork(c) \/ FinishWork(c) \/ TakeResult(c) \/ Cancel(c) \/ Leave(c)
    /\ UNCHANGED leftBefore

HNext == \/ \E c \in Calls : HJoin(c) \/ HStep(c)
         \/ AllDone /\ UNCHANGED leftBefore

HSpec == HInit /\ [][HNext]_hvars

\* "Only overlapping calls share a result" (singleflight.rs, the comment on
\* Singleflight): the result a call returns comes from a call that had not yet
\* returned when it joined.
OnlyOverlappingShare ==
    \A c \in Calls : got[c] # None => got[c] \notin leftBefore[c]
=============================================================================
