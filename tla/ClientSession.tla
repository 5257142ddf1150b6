---------------------------- MODULE ClientSession ----------------------------
(***************************************************************************)
(* The RPC session of a renderer (renderer/common/src/client.rs and its    *)
(* pending, session and failure modules): calls registered in a shared     *)
(* registry, a bounded outbox drained by the send task, the receive task   *)
(* that completes calls by request id, the event task, and the supervisor  *)
(* that fails every waiting call when one of them ends or the session is   *)
(* closed.                                                                 *)
(*                                                                         *)
(* Registry critical sections are single steps.  What happens after the    *)
(* registry is unlocked (the answers of fail_all, the shutdown signal, the *)
(* wait for completion) is a step of its own: calls, tasks and closers run *)
(* on different threads.  A deadline may pass at any moment of its call.   *)
(***************************************************************************)
EXTENDS Naturals, Sequences

CONSTANTS
    Calls,           \* the calls of EngineClient::request in a behaviour
    Closers,         \* the callers of EngineClient::close
    OutboxCapacity,  \* RPC_SEND_QUEUE, 64 in the code
    None

\* ClientFailure, as far as it is told apart: Closed, or a task that ended.
Failures == {"closed", "task"}

ASSUME SessionAssumption ==
    /\ OutboxCapacity \in Nat \ {0}
    /\ None \notin Nat \union Failures \union Closers \union {"supervisor"}

VARIABLES
    nextId,      \* sequence of correlation_id
    call,        \* call -> where it is, its request id and its result
    slot,        \* call -> what its oneshot channel holds
    entries,     \* request id -> the call whose sender the registry keeps
    terminal,    \* the failure that ended the registry, or None
    failing,     \* calls taken by fail_all and not answered yet
    failer,      \* who is in that fail_all
    outbox,      \* calls whose requests are queued for the send task
    network,     \* messages on the DEALER socket, in both directions
    task,        \* session task -> its state
    supervisor,  \* where supervise_session is
    shutdown,    \* the shutdown watch
    done,        \* the done watch
    closer       \* closer -> where it is

registry == <<entries, terminal, failing, failer>>
vars == <<nextId, call, slot, registry, outbox, network, task, supervisor,
          shutdown, done, closer>>

SessionTasks == {"rpc_send", "rpc_receive", "event_receive"}
\* What a oneshot holds: nothing, the response to one call's request, or a failure.
Replies == [kind : {"empty", "abandoned"}] \union [kind : {"response"}, to : Calls]
           \union [kind : {"failed"}, why : Failures]
Empty == [kind |-> "empty"]
Response(c) == [kind |-> "response", to |-> c]
Failed(why) == [kind |-> "failed", why |-> why]
CallStates ==
    [at : {"idle", "sending", "waiting", "returned"}, id : Nat \union {None}, result : Replies]

TypeOK ==
    /\ nextId \in Nat
    /\ call \in [Calls -> CallStates]
    /\ slot \in [Calls -> Replies]
    /\ DOMAIN entries \subseteq Nat /\ \A id \in DOMAIN entries : entries[id] \in Calls
    /\ terminal \in Failures \union {None}
    /\ failing \subseteq Calls /\ failer \in Closers \union {"supervisor", None}
    /\ outbox \in Seq(Calls) /\ Len(outbox) <= OutboxCapacity
    /\ network \subseteq [dir : {"request", "response"}, from : Calls, valid : BOOLEAN]
    /\ task \in [SessionTasks -> {"running", "ended", "joined"}]
    /\ supervisor \in {"select", "fail", "abort", "ended"}
    /\ shutdown \in BOOLEAN /\ done \in BOOLEAN
    /\ closer \in [Closers -> {"idle", "fail_all", "waiting", "returned"}]

\* EngineClient::connect: the tasks run once both sockets are set up.
Init ==
    /\ nextId = 0
    /\ call = [c \in Calls |-> [at |-> "idle", id |-> None, result |-> Empty]]
    /\ slot = [c \in Calls |-> Empty]
    /\ entries = <<>> /\ terminal = None /\ failing = {} /\ failer = None
    /\ outbox = <<>> /\ network = {}
    /\ task = [t \in SessionTasks |-> "running"]
    /\ supervisor = "select" /\ shutdown = FALSE /\ done = FALSE
    /\ closer = [k \in Closers |-> "idle"]

Live(c) == call[c].at \in {"sending", "waiting"}
Without(f, id) == [x \in DOMAIN f \ {id} |-> f[x]]

-----------------------------------------------------------------------------
(* A call of EngineClient::request.                                        *)

\* Defect considered: request ids that are not unique in the process.
CorrelationId_Constant == 0

\* correlation_id: a process nonce and a sequence that never repeats.
CorrelationId == nextId

\* Defect considered: registration that does not look at the terminal failure.
Register_IgnoresTerminal(c) ==
    /\ call[c].at = "idle" /\ CorrelationId \notin DOMAIN entries
    /\ nextId' = nextId + 1
    /\ call' = [call EXCEPT ![c].at = "sending", ![c].id = CorrelationId]
    /\ entries' = [x \in DOMAIN entries \union {CorrelationId} |->
                     IF x = CorrelationId THEN c ELSE entries[x]]
    /\ UNCHANGED <<slot, terminal, failing, failer, outbox, network, task, supervisor,
                   shutdown, done, closer>>

\* PendingRegistry::register, then the envelope of the request.  An id the
\* registry already holds (a collision) would only draw the next one.
Register(c) ==
    /\ call[c].at = "idle" /\ CorrelationId \notin DOMAIN entries
    /\ nextId' = nextId + 1
    /\ IF terminal # None
       THEN /\ call' = [call EXCEPT ![c].at = "returned", ![c].result = Failed(terminal)]
            /\ entries' = entries
       ELSE /\ call' = [call EXCEPT ![c].at = "sending", ![c].id = CorrelationId]
            /\ entries' = [x \in DOMAIN entries \union {CorrelationId} |->
                             IF x = CorrelationId THEN c ELSE entries[x]]
    /\ UNCHANGED <<slot, terminal, failing, failer, outbox, network, task, supervisor,
                   shutdown, done, closer>>

\* The send task's receiver is dropped when the task is over.
OutboxClosed == task["rpc_send"] # "running"

\* dispatch_request: rpc_send.send(...).await gets room in the outbox.
Enqueue(c) ==
    /\ call[c].at = "sending" /\ ~OutboxClosed /\ Len(outbox) < OutboxCapacity
    /\ outbox' = Append(outbox, c)
    /\ call' = [call EXCEPT ![c].at = "waiting"]
    /\ UNCHANGED <<nextId, slot, registry, network, task, supervisor, shutdown, done,
                   closer>>

\* PendingLease::drop, remove_if_matches: only the lease's own entry goes.
DropLease(c) ==
    IF call[c].id \in DOMAIN entries /\ entries[call[c].id] = c
    THEN Without(entries, call[c].id)
    ELSE entries

\* A call ends: its future is done with and its lease is dropped.
Finish(c, result) ==
    /\ call' = [call EXCEPT ![c].at = "returned", ![c].result = result]
    /\ slot' = [slot EXCEPT ![c] = Empty]
    /\ entries' = DropLease(c)
    /\ UNCHANGED <<nextId, terminal, failing, failer, outbox, network, task,
                   supervisor, shutdown, done, closer>>

\* dispatch_request: the outbox is closed.
EnqueueFails(c) ==
    /\ call[c].at = "sending" /\ OutboxClosed
    /\ Finish(c, Failed("task"))

\* PendingLease::receive: the oneshot holds the reply.
Receive(c) ==
    /\ call[c].at = "waiting" /\ slot[c].kind # "empty"
    /\ Finish(c, slot[c])

\* dispatch_request: the deadline passes while sending or receiving, or the
\* renderer drops the future of the call (an aborted task, a closed window).
Abandon(c) == Live(c) /\ Finish(c, [kind |-> "abandoned"])

-----------------------------------------------------------------------------
(* The session tasks and the engine at the other end of the socket.        *)

\* run_rpc_sender: one queued request leaves.
Send ==
    /\ task["rpc_send"] = "running" /\ outbox # <<>>
    /\ outbox' = Tail(outbox)
    /\ network' = network \union {[dir |-> "request", from |-> Head(outbox), valid |-> TRUE]}
    /\ UNCHANGED <<nextId, call, slot, registry, task, supervisor, shutdown, done, closer>>

\* The engine answers a request it got: a response, or one that does not decode
\* or has the wrong frames.  It may also never answer, and what it answers once
\* nobody receives is of no interest.
Answer(m) ==
    /\ m.dir = "request" /\ task["rpc_receive"] = "running"
    /\ \E ok \in BOOLEAN :
         network' = (network \ {m}) \union {[dir |-> "response", from |-> m.from, valid |-> ok]}
    /\ UNCHANGED <<nextId, call, slot, registry, outbox, task, supervisor, shutdown,
                   done, closer>>

\* PendingRegistry::complete: the entry of the response's request id, if any.
Addressee(id) == DOMAIN entries \intersect {id}

\* run_rpc_receiver, dispatch_rpc_response: a response completes its call; one
\* whose request is gone is ignored, one that is malformed ends the task.
ReceiveResponse(m) ==
    /\ task["rpc_receive"] = "running" /\ m.dir = "response"
    /\ network' = network \ {m}
    /\ IF ~m.valid
       THEN task' = [task EXCEPT !["rpc_receive"] = "ended"] /\ UNCHANGED <<entries, slot>>
       ELSE /\ UNCHANGED task
            /\ IF Addressee(call[m.from].id) = {}
               THEN UNCHANGED <<entries, slot>>
               ELSE \E id \in Addressee(call[m.from].id) :
                      /\ entries' = Without(entries, id)
                      /\ slot' = [slot EXCEPT ![entries[id]] = Response(m.from)]
    /\ UNCHANGED <<nextId, call, terminal, failing, failer, outbox, supervisor, shutdown,
                   done, closer>>

\* A task ends by itself: its socket fails, or it panics.
TaskEnds(t) ==
    /\ task[t] = "running"
    /\ task' = [task EXCEPT ![t] = "ended"]
    /\ UNCHANGED <<nextId, call, slot, registry, outbox, network, supervisor, shutdown,
                   done, closer>>

-----------------------------------------------------------------------------
(* Ending the session.                                                     *)

\* PendingRegistry::fail_all, its critical section: the first failure stays.
FailAll(why, by) ==
    IF terminal # None
    THEN UNCHANGED registry
    ELSE /\ terminal' = why /\ failer' = by
         /\ failing' = {entries[id] : id \in DOMAIN entries}
         /\ entries' = <<>>

\* Only the first fail_all has calls to answer; the others return at once.
FailAllReturned(who) == failer = who => failing = {}

\* fail_all after the unlock: one of the calls it took gets the failure.
FailOne(c) ==
    /\ c \in failing
    /\ failing' = failing \ {c}
    /\ slot' = IF Live(c) THEN [slot EXCEPT ![c] = Failed(terminal)] ELSE slot
    /\ UNCHANGED <<nextId, call, entries, terminal, failer, outbox, network, task,
                   supervisor, shutdown, done, closer>>

\* supervise_session: select on the shutdown signal and the first finished task,
\* whose end joined_failure makes the failure of the session.
SupervisorSelects ==
    /\ supervisor = "select"
    /\ \/ shutdown /\ FailAll("closed", "supervisor") /\ UNCHANGED task
       \/ \E t \in SessionTasks :
            /\ task[t] = "ended"
            /\ FailAll("task", "supervisor")
            /\ task' = [task EXCEPT ![t] = "joined"]
    /\ supervisor' = "fail"
    /\ UNCHANGED <<nextId, call, slot, outbox, network, shutdown, done, closer>>

\* The supervisor's fail_all returns.
SupervisorFailed ==
    /\ supervisor = "fail" /\ FailAllReturned("supervisor")
    /\ supervisor' = "abort"
    /\ UNCHANGED <<nextId, call, slot, registry, outbox, network, task, shutdown, done,
                   closer>>

\* abort_all and join_next until the JoinSet is empty.  The outbox goes with
\* the send task.
SupervisorJoins(t) ==
    /\ supervisor = "abort" /\ task[t] # "joined"
    /\ task' = [task EXCEPT ![t] = "joined"]
    /\ outbox' = IF t = "rpc_send" THEN <<>> ELSE outbox
    /\ UNCHANGED <<nextId, call, slot, registry, network, supervisor, shutdown, done,
                   closer>>

\* Defect considered: completion signalled before the tasks are joined.
SupervisorCompletes_Early ==
    /\ supervisor = "abort"
    /\ supervisor' = "ended" /\ done' = TRUE
    /\ FailAll("task", "supervisor")
    /\ UNCHANGED <<nextId, call, slot, outbox, network, task, shutdown, closer>>

\* SessionCompletion::drop
SupervisorCompletes ==
    /\ supervisor = "abort" /\ \A t \in SessionTasks : task[t] = "joined"
    /\ supervisor' = "ended" /\ done' = TRUE
    /\ FailAll("task", "supervisor")
    /\ UNCHANGED <<nextId, call, slot, outbox, network, task, shutdown, closer>>

\* ClientSession::close, request_close: fail_all(Closed).
CloseBegins(k) ==
    /\ closer[k] = "idle"
    /\ FailAll("closed", k)
    /\ closer' = [closer EXCEPT ![k] = "fail_all"]
    /\ UNCHANGED <<nextId, call, slot, outbox, network, task, supervisor, shutdown, done>>

\* Defect considered: a close that does not signal the supervisor.
CloseSignals_NoSignal(k) ==
    /\ closer[k] = "fail_all" /\ FailAllReturned(k)
    /\ closer' = [closer EXCEPT ![k] = "waiting"]
    /\ UNCHANGED <<nextId, call, slot, registry, outbox, network, task, supervisor,
                   shutdown, done>>

\* request_close: the shutdown watch is set.
CloseSignals(k) ==
    /\ closer[k] = "fail_all" /\ FailAllReturned(k)
    /\ shutdown' = TRUE
    /\ closer' = [closer EXCEPT ![k] = "waiting"]
    /\ UNCHANGED <<nextId, call, slot, registry, outbox, network, task, supervisor, done>>

\* close: the done watch is seen.
CloseReturns(k) ==
    /\ closer[k] = "waiting" /\ done
    /\ closer' = [closer EXCEPT ![k] = "returned"]
    /\ UNCHANGED <<nextId, call, slot, registry, outbox, network, task, supervisor,
                   shutdown, done>>

\* ClientInner::drop: the last handle goes, so nobody is calling or closing.
\* Its fail_all finds no entry, and the two steps of request_close are one.
DropClient ==
    /\ \A c \in Calls : ~Live(c)
    /\ \A k \in Closers : closer[k] \in {"idle", "returned"}
    /\ ~shutdown /\ failing = {}
    /\ FailAll("closed", None)
    /\ shutdown' = TRUE
    /\ call' = [c \in Calls |-> [call[c] EXCEPT !.at = "returned"]]
    /\ closer' = [k \in Closers |-> "returned"]
    /\ UNCHANGED <<nextId, slot, outbox, network, task, supervisor, done>>

-----------------------------------------------------------------------------
CallStep(c) ==
    Register(c) \/ Enqueue(c) \/ EnqueueFails(c) \/ Receive(c) \/ Abandon(c)
Ending ==
    \/ \E c \in Calls : FailOne(c)
    \/ SupervisorSelects \/ SupervisorFailed \/ SupervisorCompletes
    \/ \E t \in SessionTasks : SupervisorJoins(t)
    \/ \E k \in Closers : CloseSignals(k) \/ CloseReturns(k)

Next ==
    \/ \E c \in Calls : CallStep(c)
    \/ Send
    \/ \E m \in network : Answer(m) \/ ReceiveResponse(m)
    \/ \E t \in SessionTasks : TaskEnds(t)
    \/ Ending
    \/ \E k \in Closers : CloseBegins(k)
    \/ DropClient

(***************************************************************************)
(* Fairness: the runtime polls a ready future again.  Neither deadlines    *)
(* nor the engine are assumed to help, so what is shown to end, ends       *)
(* because the session ends it.                                            *)
(***************************************************************************)
Fairness ==
    /\ WF_vars(Ending)
    /\ \A c \in Calls : WF_vars(EnqueueFails(c)) /\ WF_vars(Receive(c)) /\ WF_vars(Enqueue(c))

Spec == Init /\ [][Next]_vars /\ Fairness

-----------------------------------------------------------------------------
\* A call that returns a response returns the one to the request it sent
\* itself, although ids of timed out calls may still be answered late.
OwnResponse ==
    \A c \in Calls : call[c].result.kind = "response" => call[c].result.to = c

\* A live call whose oneshot is empty is one somebody will still answer: its
\* entry is in a registry that has not failed, or fail_all is about to reach
\* it; and every entry belongs to a live call, so that calls that timed out or
\* were cancelled leave nothing behind.
WaiterReachable ==
    /\ \A c \in Calls : Live(c) /\ slot[c] = Empty =>
          \/ c \in failing
          \/ terminal = None /\ \E id \in DOMAIN entries : entries[id] = c
    /\ \A id \in DOMAIN entries : Live(entries[id]) /\ call[entries[id]].id = id

\* When close returns, every session task is over and every call still
\* waiting has its answer, or is about to get it from the closer that was first.
ClosedMeansStopped ==
    (\E k \in Closers : closer[k] = "returned" /\ done)
        => /\ \A t \in SessionTasks : task[t] = "joined"
           /\ \A c \in Calls : Live(c) /\ slot[c] = Empty => c \in failing /\ failer \in Closers

\* Request ids are drawn below nextId and never shared, a oneshot holds only the
\* response to its own call, and results are what was once in a oneshot.
IdInv ==
    /\ \A c \in Calls : /\ call[c].id # None => call[c].id < nextId
                        /\ slot[c].kind = "response" => slot[c].to = c
    /\ \A c, d \in Calls : call[c].id # None /\ call[c].id = call[d].id => c = d

\* The registry fails once, and until then fail_all has taken nothing; whoever
\* took calls is a closer or the supervisor, which goes on only when its own
\* fail_all has answered them, and completes only when every task is joined.
FailureInv ==
    /\ terminal = None => failing = {}
    /\ failing # {} => failer # None
    /\ supervisor # "select" => terminal # None
    /\ supervisor \in {"abort", "ended"} => FailAllReturned("supervisor")
    /\ done => \A t \in SessionTasks : task[t] = "joined"
    /\ done => supervisor = "ended"

IInv == TypeOK /\ IdInv /\ OwnResponse /\ WaiterReachable /\ FailureInv

\* Once the session has failed, every call returns, every close returns and
\* the supervisor ends, without any call having to run into its deadline.
SessionEnds ==
    terminal # None ~>
        /\ \A c \in Calls : ~Live(c)
        /\ \A k \in Closers : closer[k] \in {"idle", "returned"}
        /\ (shutdown \/ \E t \in SessionTasks : task[t] # "running") => done
=============================================================================
