------------------------------ MODULE DbActor ------------------------------
(***************************************************************************)
(* The database actor: public handles admit commands into a bounded        *)
(* channel under an asynchronous gate, one worker thread executes them and *)
(* owns the database lease, a reaper joins the worker and publishes the    *)
(* terminal outcome.  Covered: full queues, cancelled callers, the poison  *)
(* of a failed post-commit step, worker panics, shutdown and handle drop.  *)
(*                                                                         *)
(* Abstractions.  Commands and shutdown calls are one-shot.  What a        *)
(* command does to SQLite is left to other modules; here it is answered    *)
(* (with a result or an error), poisons the worker (only a timezone bundle *)
(* can) or panics.                                                         *)
(***************************************************************************)
EXTENDS Naturals, SequencesExt

CONSTANTS Commands,    \* calls that enqueue a command (the bound on their number)
          Bundles,     \* the commands that are timezone bundles
          Shutdowns,   \* calls of shutdown()
          QueueCap,    \* capacity of the command channel (128 in the code)
          MaxHandles,  \* bound on simultaneously live public handles
          Unset

ASSUME ActorAssumption ==
    /\ Bundles \subseteq Commands
    /\ Commands \cap Shutdowns = {}
    /\ Unset \notin Commands \cup Shutdowns
    /\ Unset \notin {"answered", "rejected", "dropped", "success", "failure"}
    /\ QueueCap \in Nat \ {0}
    /\ MaxHandles \in Nat \ {0}

Callers == Commands \cup Shutdowns

VARIABLES
    actorPhase,     \* ActorState.phase
    tx,        \* Core.tx is Some
    handles,   \* public_handles
    gate,      \* owner of send_gate
    waiters,   \* the callers waiting for send_gate, which tokio's mutex serves in order
    queue,     \* the command channel
    worker,    \* the worker thread
    current,   \* the command it executes
    poison,    \* its local poison
    outcome,   \* its return value
    lease,     \* it still holds the lease
    terminal,  \* the published outcome
    pc,        \* per caller
    reply      \* per command: what was put in its reply channel

actorVars == <<actorPhase, tx, handles, gate, waiters, queue, worker, current, poison,
              outcome, lease, terminal, pc, reply>>

Rank == [Open |-> 0, Poisoned |-> 1, Closing |-> 2, Closed |-> 3]

Inside == {"gating", "sending", "awaiting", "waiting"}
Sent == {c \in Commands : \E i \in 1..Len(queue) : queue[i] = c}

ActorInit ==
    /\ actorPhase = "Open"
    /\ tx = TRUE
    /\ handles = 1
    /\ gate = Unset
    /\ waiters = << >>
    /\ queue = << >>
    /\ worker = "recv"
    /\ current = Unset
    /\ poison = FALSE
    /\ outcome = Unset
    /\ lease = TRUE
    /\ terminal = Unset
    /\ pc = [c \in Callers |-> "new"]
    /\ reply = [c \in Commands |-> Unset]
-----------------------------------------------------------------------------
(* The public handle.                                                      *)

\* mark_closing: a compare-exchange loop that never moves the phase back.
MarkClosing ==
    actorPhase' = IF actorPhase \in {"Closing", "Closed"} THEN actorPhase ELSE "Closing"

\* close_sender.
CloseSender == MarkClosing /\ tx' = FALSE

CloneHandle ==
    /\ handles \in 1..(MaxHandles - 1)
    /\ handles' = handles + 1
    /\ UNCHANGED <<actorPhase, tx, gate, waiters, queue, worker, current, poison, outcome,
                   lease, terminal, pc, reply>>

\* A call borrows a handle, so the last one is dropped only when no call runs.
DropHandle ==
    /\ handles > 0
    /\ handles > 1 \/ \A c \in Callers : pc[c] \notin Inside
    /\ handles' = handles - 1
    /\ IF handles = 1 THEN CloseSender ELSE UNCHANGED <<actorPhase, tx>>
    /\ UNCHANGED <<gate, waiters, queue, worker, current, poison, outcome, lease,
                   terminal, pc, reply>>

\* Both calls begin with send_gate.lock().await: the caller queues for the gate.
Call(c) ==
    /\ pc[c] = "new"
    /\ handles > 0
    /\ pc' = [pc EXCEPT ![c] = "gating"]
    /\ waiters' = Append(waiters, c)
    /\ UNCHANGED <<actorPhase, tx, handles, gate, queue, worker, current, poison, outcome,
                   lease, terminal, reply>>

\* The gate is free and c is the first to wait for it.
TakesGate(c) ==
    /\ pc[c] = "gating"
    /\ gate = Unset
    /\ waiters # << >>
    /\ Head(waiters) = c
    /\ waiters' = Tail(waiters)

\* admit, up to the phase check: the gate is kept only by an admitted command.
EnterGate(c) ==
    /\ TakesGate(c)
    /\ \/ /\ actorPhase = "Open"
          /\ tx
          /\ gate' = c
          /\ pc' = [pc EXCEPT ![c] = "sending"]
       \/ /\ actorPhase # "Open" \/ ~tx
          /\ pc' = [pc EXCEPT ![c] = "done"]
          /\ UNCHANGED gate
    /\ UNCHANGED <<actorPhase, tx, handles, queue, worker, current, poison, outcome,
                   lease, terminal, reply>>

\* The bound of the channel.
HasRoom == Len(queue) < QueueCap

\* The receiver dies with the worker.
ReceiverGone == worker = "ended"

\* tx.send: waits for room; fails once the worker has dropped the receiver.
Send(c) ==
    /\ pc[c] = "sending"
    /\ gate' = Unset
    /\ \/ /\ ~ReceiverGone
          /\ HasRoom
          /\ queue' = Append(queue, c)
          /\ pc' = [pc EXCEPT ![c] = "awaiting"]
          /\ UNCHANGED <<actorPhase, tx>>
       \/ /\ ReceiverGone
          /\ CloseSender
          /\ pc' = [pc EXCEPT ![c] = "done"]
          /\ UNCHANGED queue
    /\ UNCHANGED <<handles, waiters, worker, current, poison, outcome, lease, terminal,
                   reply>>

TakeReply(c) ==
    /\ pc[c] = "awaiting"
    /\ reply[c] # Unset
    /\ pc' = [pc EXCEPT ![c] = "done"]
    /\ UNCHANGED <<actorPhase, tx, handles, gate, waiters, queue, worker, current, poison,
                   outcome, lease, terminal, reply>>

\* shutdown: under the gate, close the sender; then wait for the outcome.
BeginShutdown(s) ==
    /\ TakesGate(s)
    /\ CloseSender
    /\ pc' = [pc EXCEPT ![s] = "waiting"]
    /\ UNCHANGED <<handles, gate, queue, worker, current, poison, outcome, lease,
                   terminal, reply>>

EndShutdown(s) ==
    /\ pc[s] = "waiting"
    /\ terminal # Unset
    /\ pc' = [pc EXCEPT ![s] = "done"]
    /\ UNCHANGED <<actorPhase, tx, handles, gate, waiters, queue, worker, current, poison,
                   outcome, lease, terminal, reply>>

\* The guard of the gate lives in the caller's future and is dropped with it.  Defect
\* considered: a cancelled sender's guard survives.
GateLeftBy_Kept(c) == gate
GateLeftBy(c) == IF gate = c THEN Unset ELSE gate

\* A request timeout or abort drops the caller's future: it leaves the queue for the
\* gate or gives the gate back, but a command already sent stays in the channel and
\* is executed all the same.
CancelCaller(c) ==
    /\ pc[c] \in Inside
    /\ pc' = [pc EXCEPT ![c] = IF pc[c] = "awaiting" THEN "abandoned" ELSE "done"]
    /\ gate' = GateLeftBy(c)
    /\ IF pc[c] = "gating"
       THEN \E i \in DOMAIN waiters : waiters[i] = c /\ waiters' = RemoveAt(waiters, i)
       ELSE UNCHANGED waiters
    /\ UNCHANGED <<actorPhase, tx, handles, queue, worker, current, poison, outcome,
                   lease, terminal, reply>>
-----------------------------------------------------------------------------
(* The worker thread.                                                      *)

\* blocking_recv yields a command: execute it, or reject it once poisoned.
WorkerTake ==
    /\ worker = "recv"
    /\ queue # << >>
    /\ queue' = Tail(queue)
    /\ \/ /\ ~poison
          /\ worker' = "exec"
          /\ current' = Head(queue)
          /\ UNCHANGED reply
       \/ /\ poison
          /\ reply' = [reply EXCEPT ![Head(queue)] = "rejected"]
          /\ UNCHANGED <<worker, current>>
    /\ UNCHANGED <<actorPhase, tx, handles, gate, waiters, poison, outcome, lease,
                   terminal, pc>>

WorkerReply ==
    /\ worker = "exec"
    /\ reply' = [reply EXCEPT ![current] = "answered"]
    /\ worker' = "recv"
    /\ current' = Unset
    /\ UNCHANGED <<actorPhase, tx, handles, gate, waiters, queue, poison, outcome, lease,
                   terminal, pc>>

\* The post-commit step of a bundle failed: the reply goes out first.
WorkerFailBundle ==
    /\ worker = "exec"
    /\ current \in Bundles
    /\ reply' = [reply EXCEPT ![current] = "answered"]
    /\ worker' = "poisoning"
    /\ current' = Unset
    /\ UNCHANGED <<actorPhase, tx, handles, gate, waiters, queue, poison, outcome, lease,
                   terminal, pc>>

\* ActorState::poison: the phase moves only if it is still Open.
PhaseAfterPoison == IF actorPhase = "Open" THEN "Poisoned" ELSE actorPhase

WorkerPoison ==
    /\ worker = "poisoning"
    /\ worker' = "recv"
    /\ poison' = TRUE
    /\ actorPhase' = PhaseAfterPoison
    /\ UNCHANGED <<tx, handles, gate, waiters, queue, current, outcome, lease, terminal,
                   pc, reply>>

\* blocking_recv returns None: every sender is gone and the channel is drained.
\* Defect considered: the worker leaves with commands in the channel.
Disconnected_NotDrained == ~tx
Disconnected == /\ queue = << >>
                /\ ~tx
                /\ \A c \in Commands : pc[c] # "sending"

\* Checkpoint and return.
WorkerFinish ==
    /\ worker = "recv"
    /\ Disconnected
    /\ worker' = "ended"
    /\ \E o \in {"success", "failure"} : outcome' = o
    /\ UNCHANGED <<actorPhase, tx, handles, gate, waiters, queue, current, poison, lease,
                   terminal, pc, reply>>

\* A panic unwinds the thread: the queued commands and their replies are dropped.
WorkerPanic ==
    /\ worker = "exec"
    /\ worker' = "ended"
    /\ outcome' = "failure"
    /\ reply' = [c \in Commands |->
                    IF c \in Sent \cup {current} THEN "dropped" ELSE reply[c]]
    /\ queue' = << >>
    /\ current' = Unset
    /\ UNCHANGED <<actorPhase, tx, handles, gate, waiters, poison, lease, terminal, pc>>

\* When the lease is dropped, and what the join of the thread waits for.  Defects
\* considered: a lease dropped when the sender is closed; a worker not joined.
LeaseOver == worker = "ended"
Joined_NotAwaited == worker = "ended"
Joined == worker = "ended" /\ ~lease

DropLease ==
    /\ LeaseOver
    /\ lease
    /\ lease' = FALSE
    /\ UNCHANGED <<actorPhase, tx, handles, gate, waiters, queue, worker, current, poison,
                   outcome, terminal, pc, reply>>

\* The reaper: join, then publish_terminal stores the phase and the outcome.
ReapPhase ==
    /\ Joined
    /\ actorPhase # "Closed"
    /\ actorPhase' = "Closed"
    /\ UNCHANGED <<tx, handles, gate, waiters, queue, worker, current, poison, outcome,
                   lease, terminal, pc, reply>>

ReapTerminal ==
    /\ actorPhase = "Closed"
    /\ terminal = Unset
    /\ terminal' = outcome
    /\ UNCHANGED <<actorPhase, tx, handles, gate, waiters, queue, worker, current, poison,
                   outcome, lease, pc, reply>>
-----------------------------------------------------------------------------
CallerStep(c) ==
    \/ c \in Commands /\ (EnterGate(c) \/ Send(c) \/ TakeReply(c))
    \/ c \in Shutdowns /\ (BeginShutdown(c) \/ EndShutdown(c))

WorkerStep == \/ WorkerTake \/ WorkerReply \/ WorkerPoison \/ WorkerFinish \/ DropLease

Reap == ReapPhase \/ ReapTerminal

\* The actor has ended and so has every call that can still be made.
ActorEnded ==
    /\ terminal # Unset
    /\ \A c \in Callers : pc[c] \notin Inside
    /\ UNCHANGED actorVars

ActorNext ==
    \/ CloneHandle \/ DropHandle
    \/ \E c \in Callers : Call(c) \/ CallerStep(c) \/ CancelCaller(c)
    \/ WorkerStep \/ WorkerFailBundle \/ WorkerPanic
    \/ Reap
    \/ ActorEnded

ActorSpec == ActorInit /\ [][ActorNext]_actorVars

(* Fairness: the worker and reaper threads run, SQLite calls return, woken *)
(* tasks are polled, also those that wait for the gate.  No caller is      *)
(* obliged to call, cancel, or drop a handle, and no command to fail.      *)
ActorFairSpec ==
    /\ ActorSpec
    /\ WF_actorVars(WorkerStep)
    /\ WF_actorVars(Reap)
    /\ \A c \in Callers : WF_actorVars(CallerStep(c))
-----------------------------------------------------------------------------
\* Types; the channel never exceeds its capacity and the gate is held exactly by
\* the caller that is sending.
ActorTypeOK ==
    /\ actorPhase \in DOMAIN Rank
    /\ tx \in BOOLEAN
    /\ handles \in 0..MaxHandles
    /\ gate \in Commands \cup {Unset}
    /\ waiters \in Seq(Callers)
    /\ queue \in Seq(Commands) /\ Len(queue) <= QueueCap
    /\ worker \in {"recv", "exec", "poisoning", "ended"}
    /\ current \in Commands \cup {Unset}
    /\ poison \in BOOLEAN
    /\ outcome \in {Unset, "success", "failure"}
    /\ lease \in BOOLEAN
    /\ terminal \in {Unset, "success", "failure"}
    /\ pc \in [Callers -> {"new", "done", "abandoned"} \cup Inside]
    /\ reply \in [Commands -> {Unset, "answered", "rejected", "dropped"}]
    /\ \A c \in Commands : pc[c] = "sending" <=> gate = c

\* The phase never goes back: a poison that races a shutdown cannot reopen or
\* mask the closing of the actor.
PhaseOnlyAdvances == [][Rank[actorPhase'] >= Rank[actorPhase]]_actorPhase

\* Every command that entered the channel, its caller cancelled or not, has been
\* executed or answered when the worker ends; only a panic may drop it.
NoCommandForgotten ==
    (worker = "ended") =>
        \A c \in Commands : /\ pc[c] \in {"awaiting", "abandoned"} => reply[c] # Unset
                            /\ outcome = "success" => reply[c] # "dropped"

\* The database lock outlives all database work: once the lease is released
\* nothing runs, nothing is queued and nothing more can be.
LeaseCoversWork == ~lease => /\ worker = "ended"
                             /\ queue = << >>
                             /\ current = Unset

\* A caller that saw shutdown() return may reopen the database: the outcome is
\* published only after the lease is gone.
ShutdownMeansReleased ==
    terminal # Unset => ~lease /\ actorPhase = "Closed"

\* Every shutdown call ends, from its wait for the gate on, which a sender may hold
\* on a full channel while the worker is busy, poisoned or gone: with the published
\* outcome, unless it is cancelled.
ShutdownReturns ==
    \A s \in Shutdowns : (pc[s] \in {"gating", "waiting"}) ~> (pc[s] = "done")

-----------------------------------------------------------------------------
(* The inductive invariant of the safety properties.                       *)

\* A sent command is answered, in the channel, or being executed.
SentInv ==
    \A c \in Commands :
        pc[c] \in {"awaiting", "abandoned"} => reply[c] # Unset \/ c \in Sent \/ c = current

\* The worker ends before its lease, the lease before the phase, the phase
\* before the published outcome.
EndInv ==
    /\ worker = "ended" => queue = << >> /\ current = Unset /\ outcome # Unset
    /\ worker # "ended" => lease /\ actorPhase # "Closed"
    /\ worker = "exec" <=> current # Unset
    /\ actorPhase = "Closed" => ~lease
    /\ terminal # Unset => actorPhase = "Closed"
    /\ \A c \in Commands : reply[c] = "dropped" => outcome = "failure"
    /\ outcome # Unset => worker = "ended"

ActorInv == ActorTypeOK /\ SentInv /\ EndInv
=============================================================================
