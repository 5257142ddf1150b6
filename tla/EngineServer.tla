---------------------------- MODULE EngineServer ----------------------------
(***************************************************************************)
(* The socket server of the weather engine (engine/src/server.rs) with its *)
(* lifecycle control (lifecycle.rs), the RPC envelope (handlers/envelope.rs)*)
(* and the event bus the publisher drains (handlers/events.rs).            *)
(*                                                                         *)
(* One engine process: the main function binds the sockets, starts the     *)
(* work tasks and the publisher, waits for the first of an exit request, a *)
(* finished work task or a finished publisher, and then stops everything   *)
(* in order, each wait under a deadline.  A deadline is a step that may    *)
(* happen whenever its wait is going on.  What a handler computes, the DB  *)
(* actor and the refresh loop are abstract here: other modules have them.  *)
(***************************************************************************)
EXTENDS Naturals, Sequences, FiniteSets

CONSTANTS
    Requests,        \* identifiers of the RPC messages clients send
    Messages,        \* the messages a client may send (see MessageType)
    SideTasks,       \* the work tasks besides the router and the signal task
    MaxConcurrent,   \* MAX_CONCURRENT_REQUESTS
    BusCapacity,     \* capacity of the broadcast channel, 256 in the code
    MaxLateEvents,   \* bound: events published by work after the terminal event
    OwnerToken,      \* the owner token this engine was launched with
    None

VARIABLES
    phase,        \* where run_engine_sockets is
    sockets,      \* the bound sockets that are still open
    tasks,        \* the JoinSet of work tasks: task -> its state
    publisher,    \* the state of the publisher task
    cancelled,    \* work_cancellation
    pubCancelled, \* publisher_cancellation
    exitReq,      \* the watch value of EngineControl
    exitBy,       \* history: who set it
    requested,    \* requested_exit of the main function
    failed,       \* critical_failure is set
    db,           \* the DB actor as the server sees it
    bus,          \* broadcast channel between publish_event and the publisher
    wire,         \* history: lifecycle events sent on the PUB socket
    lateEvents,   \* work events published since the terminal event
    reqs,         \* request -> its state, message and response
    sending,      \* the reply the router is sending, or None
    result        \* what run_engine_sockets returned, or None

mainVars == <<phase, requested, failed, result>>
taskVars == <<tasks, publisher, cancelled, pubCancelled, sockets>>
vars == <<mainVars, taskVars, exitReq, exitBy, db, bus, wire, lateEvents, reqs, sending>>

Tasks == SideTasks \union {"router", "signal"}
Exits == {"shutdown", "restart"}
Lifecycle == {"starting", "ready", "stopping", "failed"}
Finished == {"ok", "err"}
RequestStates == {"unsent", "running", "done", "sending", "answered",
                  "lost", "aborting"}

(***************************************************************************)
(* An RPC message, reduced to what the server looks at: how it is framed,  *)
(* whether it decodes, its schema version and signature, its kind and the  *)
(* owner token of a SHUTDOWN (None when the request carries none).         *)
(***************************************************************************)
MessageType ==
    [frame : {"one", "missing", "extra", "oversized"}, decodes : BOOLEAN,
     schema : BOOLEAN, signed : BOOLEAN,
     kind : {"restart", "shutdown", "work", "unspecified"},
     owner : {OwnerToken, None, "stranger"}]

\* What the properties tell apart of a response: its status, not its error code.
Responses == {"ok", "accepted", "error"}

ASSUME ServerAssumption ==
    /\ MaxConcurrent \in Nat \ {0}
    /\ BusCapacity \in Nat \ {0}
    /\ MaxLateEvents \in Nat /\ MaxLateEvents < BusCapacity
    /\ Messages \subseteq MessageType
    /\ None \notin Requests \union Exits \union Responses \union {"post_commit"}
    /\ "post_commit" \notin Requests

TypeOK ==
    /\ phase \in {"bind_pub", "bind_router", "unbound", "serving", "drain", "db",
                  "terminal", "stop_publisher", "await_publisher", "return", "done"}
    /\ sockets \subseteq {"pub", "router"}
    /\ tasks \in [Tasks -> {"idle", "running", "joined"} \union Finished]
    /\ publisher \in {"idle", "running", "draining", "joined"} \union Finished
    /\ cancelled \in BOOLEAN /\ pubCancelled \in BOOLEAN
    /\ exitReq \in Exits \union {None}
    /\ exitBy \in Requests \union {"post_commit", None}
    /\ requested \in Exits \union {None}
    /\ failed \in BOOLEAN
    /\ db \in {"open", "stopping", "closed"}
    /\ bus \in Seq(Lifecycle \union {"work"}) /\ Len(bus) <= BusCapacity
    /\ wire \in Seq(Lifecycle)
    /\ lateEvents \in 0..MaxLateEvents
    /\ reqs \in [Requests -> [st : RequestStates, msg : Messages \union {None},
                              resp : Responses \union {None}]]
    /\ sending \in Requests \union {None}
    /\ result \in Exits \union {"error", None}

Init ==
    /\ phase = "bind_pub" /\ sockets = {}
    /\ tasks = [t \in Tasks |-> "idle"] /\ publisher = "idle"
    /\ cancelled = FALSE /\ pubCancelled = FALSE
    /\ exitReq = None /\ exitBy = None
    /\ requested = None /\ failed = FALSE /\ result = None
    /\ db = "open"
    /\ bus = <<>> /\ wire = <<>> /\ lateEvents = 0
    /\ reqs = [r \in Requests |-> [st |-> "unsent", msg |-> None, resp |-> None]]
    /\ sending = None

-----------------------------------------------------------------------------
(* Helpers of the server.                                                  *)

\* EngineControl::request_exit: the first request wins.
RequestExit(exit, by) ==
    IF exitReq = None
    THEN exitReq' = exit /\ exitBy' = by
    ELSE UNCHANGED <<exitReq, exitBy>>

\* publish_event: a full broadcast channel overwrites its oldest event.
Publish(queue, event) ==
    IF Len(queue) < BusCapacity THEN Append(queue, event) ELSE Append(Tail(queue), event)

\* A request whose message and response are no longer held anywhere.
Settled(st) == [st |-> st, msg |-> None, resp |-> None]

InState(s) == {r \in Requests : reqs[r].st = s}

\* shutdown_owner_authorized
OwnerAuthorized(m) == m.owner = None \/ m.owner = OwnerToken

\* handle_rpc_request and handle_shutdown: the answers a decoded request may get.
HandleRpc(m) ==
    IF ~m.schema \/ ~m.signed THEN {"error"}
    ELSE CASE m.kind = "restart" -> {"accepted"}
           [] m.kind = "shutdown" -> IF OwnerAuthorized(m) THEN {"accepted"} ELSE {"error"}
           [] m.kind = "work" -> {"ok", "error"}
           [] m.kind = "unspecified" -> {"error"}

\* process_request: decoding, then the handler, which its timeout turns into an error.
ProcessRequest(m) == IF m.decodes THEN HandleRpc(m) ELSE {"error"}

\* accepted_exit
AcceptedExit(m, resp) ==
    IF resp = "accepted" /\ m.kind \in {"restart", "shutdown"} THEN m.kind ELSE None

\* The early error answers of run_router: framing, size, and no permit left.
Rejected(m) ==
    \/ m.frame # "one"
    \/ Cardinality(InState("running")) >= MaxConcurrent

-----------------------------------------------------------------------------
(* Startup: bind_engine_sockets under the startup timeout.                 *)

BindPublisher ==
    /\ phase = "bind_pub"
    /\ phase' = "bind_router" /\ sockets' = {"pub"}
    /\ UNCHANGED <<requested, failed, result, tasks, publisher, cancelled, pubCancelled, exitReq,
                   exitBy, db, bus, wire, lateEvents, reqs, sending>>

\* bind_router succeeds and run_bound_engine_sockets starts the tasks, after
\* subscribing the publisher to the bus; the two first events are published.
BindRouterAndStart ==
    /\ phase = "bind_router"
    /\ phase' = "serving" /\ sockets' = {"pub", "router"}
    /\ tasks' = [t \in Tasks |-> "running"] /\ publisher' = "running"
    /\ bus' = Publish(Publish(bus, "starting"), "ready")
    /\ UNCHANGED <<requested, failed, result, cancelled, pubCancelled, exitReq, exitBy, db, wire,
                   lateEvents, reqs, sending>>

\* A bind fails or the startup times out: a bound PUB socket is closed.
BindFails ==
    /\ phase \in {"bind_pub", "bind_router"}
    /\ phase' = "unbound" /\ sockets' = {} /\ failed' = TRUE
    /\ UNCHANGED <<requested, result, tasks, publisher, cancelled, pubCancelled, exitReq, exitBy,
                   db, bus, wire, lateEvents, reqs, sending>>

-----------------------------------------------------------------------------
(* The router task.                                                        *)

\* socket.recv: reject at once, or take a permit and spawn process_request.
RouterReceives(r, m) ==
    /\ tasks["router"] = "running" /\ sending = None /\ reqs[r].st = "unsent"
    /\ IF Rejected(m)
       THEN /\ reqs' = [reqs EXCEPT ![r] = [st |-> "sending", msg |-> m, resp |-> "error"]]
            /\ sending' = r
       ELSE /\ reqs' = [reqs EXCEPT ![r] = [st |-> "running", msg |-> m, resp |-> None]]
            /\ UNCHANGED sending
    /\ UNCHANGED <<mainVars, taskVars, exitReq, exitBy, db, bus, wire, lateEvents>>

\* The request task ends: the permit is dropped, the reply waits in the JoinSet.
RequestDone(r) ==
    /\ reqs[r].st = "running"
    /\ \E resp \in ProcessRequest(reqs[r].msg) :
          reqs' = [reqs EXCEPT ![r].st = "done", ![r].resp = resp]
    /\ UNCHANGED <<mainVars, taskVars, exitReq, exitBy, db, bus, wire, lateEvents, sending>>

\* The request task panics: the router only logs it and the client gets nothing.
RequestPanics(r) ==
    /\ reqs[r].st = "running"
    /\ reqs' = [reqs EXCEPT ![r] = Settled("lost")]
    /\ UNCHANGED <<mainVars, taskVars, exitReq, exitBy, db, bus, wire, lateEvents, sending>>

\* requests.join_next: the router starts sending a finished reply.
RouterJoins(r) ==
    /\ tasks["router"] = "running" /\ sending = None /\ reqs[r].st = "done"
    /\ reqs' = [reqs EXCEPT ![r].st = "sending"] /\ sending' = r
    /\ UNCHANGED <<mainVars, taskVars, exitReq, exitBy, db, bus, wire, lateEvents>>

\* send_back succeeds; only now an accepted exit is requested.
SendBackOk ==
    /\ tasks["router"] = "running" /\ sending # None
    /\ sending' = None
    /\ LET exit == AcceptedExit(reqs[sending].msg, reqs[sending].resp) IN
       IF exit = None
       THEN /\ reqs' = [reqs EXCEPT ![sending] = Settled("answered")]
            /\ UNCHANGED <<exitReq, exitBy>>
       ELSE /\ reqs' = [reqs EXCEPT ![sending].st = "answered"]
            /\ RequestExit(exit, sending)
    /\ UNCHANGED <<mainVars, taskVars, db, bus, wire, lateEvents>>

\* send_back fails, times out or is cancelled: the reply is lost, nothing exits.
\* Defect considered: requesting the exit whether or not the reply was sent.
SendBackFails_StillExits ==
    /\ tasks["router"] = "running" /\ sending # None
    /\ LET exit == AcceptedExit(reqs[sending].msg, reqs[sending].resp) IN
       IF exit = None THEN UNCHANGED <<exitReq, exitBy>> ELSE RequestExit(exit, sending)
    /\ reqs' = [reqs EXCEPT ![sending] = Settled("lost")]
    /\ sending' = None
    /\ UNCHANGED <<mainVars, taskVars, db, bus, wire, lateEvents>>

SendBackFails ==
    /\ tasks["router"] = "running" /\ sending # None
    /\ reqs' = [reqs EXCEPT ![sending] = Settled("lost")]
    /\ sending' = None
    /\ UNCHANGED <<mainVars, taskVars, exitReq, exitBy, db, bus, wire, lateEvents>>

\* The requests once the router's JoinSet is aborted and joined, or only dropped.
AbortRequests(to) ==
    [r \in Requests |-> IF reqs[r].st \in {"running", "done"} THEN Settled(to)
                        ELSE IF reqs[r].st = "sending" THEN Settled("lost") ELSE reqs[r]]

\* The loop breaks (cancellation, or a receive error), the request tasks are
\* aborted and joined, the socket is closed.
RouterStops ==
    /\ tasks["router"] = "running" /\ sending = None
    /\ \E outcome \in IF cancelled THEN Finished ELSE {"err"} :
          tasks' = [tasks EXCEPT !["router"] = outcome]
    /\ reqs' = AbortRequests("lost")
    /\ sockets' = sockets \ {"router"}
    /\ UNCHANGED <<mainVars, publisher, cancelled, pubCancelled, exitReq, exitBy, db, bus, wire,
                   lateEvents, sending>>

\* An aborted request task that nobody joins ends at its next await point.
AbortLands(r) ==
    /\ reqs[r].st = "aborting"
    /\ reqs' = [reqs EXCEPT ![r] = Settled("lost")]
    /\ UNCHANGED <<mainVars, taskVars, exitReq, exitBy, db, bus, wire, lateEvents, sending>>

-----------------------------------------------------------------------------
(* The other work tasks, the detached work and the publisher.              *)

\* run_socket_monitor, run_signal and run_refresh_loop: Ok once cancelled, an
\* error otherwise; run_signal is also Ok when a signal arrives.
TaskEnds(t) ==
    /\ t # "router" /\ tasks[t] = "running"
    /\ \E outcome \in IF cancelled \/ t = "signal" THEN Finished ELSE {"err"} :
          tasks' = [tasks EXCEPT ![t] = outcome]
    /\ UNCHANGED <<mainVars, publisher, cancelled, pubCancelled, sockets, exitReq, exitBy, db, bus,
                   wire, lateEvents, reqs, sending>>

\* publish_snapshot, publish_fetch_log, publish_refresh_*: handlers, the refresh
\* loop and coalesced fetches that outlive the request which started them.
\* Those that follow the terminal event (a request still being aborted) are
\* counted: each of the MAX_CONCURRENT_REQUESTS has a few to publish at most.
Late == {"stop_publisher", "await_publisher", "return"}
WorkPublishes ==
    /\ phase \notin {"bind_pub", "bind_router", "unbound", "done"}
    /\ IF phase \in Late
       THEN lateEvents < MaxLateEvents /\ lateEvents' = lateEvents + 1
       ELSE UNCHANGED lateEvents
    /\ bus' = Publish(bus, "work")
    /\ UNCHANGED <<mainVars, taskVars, exitReq, exitBy, db, wire, reqs, sending>>

\* A commit that cannot be completed asks for a restart (migrate_tz.rs).
PostCommitRestart ==
    /\ db = "open" /\ phase \in {"serving", "drain"} /\ exitReq = None
    /\ RequestExit("restart", "post_commit")
    /\ UNCHANGED <<mainVars, taskVars, db, bus, wire, lateEvents, reqs, sending>>

SendEvent(event) == wire' = IF event \in Lifecycle THEN Append(wire, event) ELSE wire

\* run_publisher_loop and drain_publisher: one event received and sent.
PublisherSends ==
    /\ publisher \in {"running", "draining"} /\ bus # <<>>
    /\ SendEvent(Head(bus)) /\ bus' = Tail(bus)
    /\ publisher' = IF pubCancelled THEN "draining" ELSE publisher
    /\ UNCHANGED <<mainVars, tasks, cancelled, pubCancelled, sockets, exitReq, exitBy, db,
                   lateEvents, reqs, sending>>

\* The PUB socket fails: the publisher closes it and ends with an error.
PublisherFails ==
    /\ publisher \in {"running", "draining"} /\ bus # <<>>
    /\ publisher' = "err" /\ bus' = Tail(bus) /\ sockets' = sockets \ {"pub"}
    /\ UNCHANGED <<mainVars, tasks, cancelled, pubCancelled, exitReq, exitBy, db, wire, lateEvents,
                   reqs, sending>>

\* Cancelled with nothing left to drain: the socket is closed.
\* Defect considered: not draining the bus.
PublisherStops_NoDrain ==
    /\ publisher \in {"running", "draining"} /\ pubCancelled
    /\ publisher' \in Finished /\ sockets' = sockets \ {"pub"}
    /\ UNCHANGED <<mainVars, tasks, cancelled, pubCancelled, exitReq, exitBy, db, bus, wire,
                   lateEvents, reqs, sending>>

PublisherStops ==
    /\ publisher \in {"running", "draining"} /\ pubCancelled /\ bus = <<>>
    /\ publisher' \in Finished /\ sockets' = sockets \ {"pub"}
    /\ UNCHANGED <<mainVars, tasks, cancelled, pubCancelled, exitReq, exitBy, db, bus, wire,
                   lateEvents, reqs, sending>>

-----------------------------------------------------------------------------
(* The main function after startup.                                        *)

\* wait_for_exit wins the select.
ObserveExit ==
    /\ phase = "serving" /\ exitReq # None
    /\ requested' = exitReq
    /\ phase' = "drain" /\ cancelled' = TRUE
    /\ UNCHANGED <<failed, result, tasks, publisher, pubCancelled, sockets, exitReq, exitBy, db,
                   bus, wire, lateEvents, reqs, sending>>

\* work_tasks.join_next wins: only the signal task may end well.
ObserveTask(t) ==
    /\ phase = "serving" /\ tasks[t] \in Finished
    /\ IF t = "signal" /\ tasks[t] = "ok"
       THEN requested' = "shutdown" /\ UNCHANGED failed
       ELSE failed' = TRUE /\ UNCHANGED requested
    /\ tasks' = [tasks EXCEPT ![t] = "joined"]
    /\ phase' = "drain" /\ cancelled' = TRUE
    /\ UNCHANGED <<result, publisher, pubCancelled, sockets, exitReq, exitBy, db, bus, wire,
                   lateEvents, reqs, sending>>

\* The publisher ended although nobody cancelled it.
ObservePublisher ==
    /\ phase = "serving" /\ publisher \in Finished
    /\ publisher' = "joined" /\ failed' = TRUE
    /\ phase' = "drain" /\ cancelled' = TRUE
    /\ UNCHANGED <<requested, result, tasks, pubCancelled, sockets, exitReq, exitBy, db, bus, wire,
                   lateEvents, reqs, sending>>

\* drain_work_tasks joins a task, or finds none left.
DrainJoins(t) ==
    /\ phase = "drain" /\ tasks[t] \in Finished
    /\ failed' = (failed \/ tasks[t] = "err")
    /\ tasks' = [tasks EXCEPT ![t] = "joined"]
    /\ UNCHANGED <<phase, requested, result, publisher, cancelled, pubCancelled, sockets, exitReq,
                   exitBy, db, bus, wire, lateEvents, reqs, sending>>

\* Defect considered: going on once the router is joined.
DrainDone_RouterOnly ==
    /\ phase = "drain" /\ tasks["router"] = "joined"
    /\ phase' = "db"
    /\ UNCHANGED <<requested, failed, result, taskVars, exitReq, exitBy, db, bus, wire, lateEvents,
                   reqs, sending>>

DrainDone ==
    /\ phase = "drain" /\ \A t \in Tasks : tasks[t] = "joined"
    /\ phase' = "db"
    /\ UNCHANGED <<requested, failed, result, taskVars, exitReq, exitBy, db, bus, wire, lateEvents,
                   reqs, sending>>

\* The deadline passes: abort_all and join.  Aborting the router only drops its
\* JoinSet, so a request task may still be on its way to the next await point.
\* Defect considered: a deadline that never fires.
DrainTimeout_Never == FALSE /\ UNCHANGED vars

DrainTimeout ==
    /\ phase = "drain" /\ \E t \in Tasks : tasks[t] # "joined"
    /\ tasks' = [t \in Tasks |-> "joined"]
    /\ IF tasks["router"] = "running"
       THEN /\ reqs' = AbortRequests("aborting")
            /\ sockets' = sockets \ {"router"} /\ sending' = None
       ELSE UNCHANGED <<reqs, sockets, sending>>
    /\ failed' = TRUE /\ phase' = "db"
    /\ UNCHANGED <<requested, result, publisher, cancelled, pubCancelled, exitReq, exitBy, db, bus,
                   wire, lateEvents>>

\* bounded_db_shutdown: done, failed, or still going on at its deadline.
DbShutdown ==
    /\ phase \in {"db", "unbound"}
    /\ \/ db' = "closed" /\ UNCHANGED failed
       \/ db' \in {"closed", "stopping"} /\ failed' = TRUE
    /\ phase' = IF phase = "db" THEN "terminal" ELSE "return"
    /\ UNCHANGED <<requested, result, taskVars, exitReq, exitBy, bus, wire, lateEvents, reqs,
                   sending>>

\* A publisher that ended meanwhile counts; then terminal_lifecycle is published.
PublishTerminal ==
    /\ phase = "terminal"
    /\ LET died == publisher \in Finished IN
       /\ publisher' = IF died THEN "joined" ELSE publisher
       /\ failed' = (failed \/ died)
       /\ bus' = Publish(bus, IF failed \/ died THEN "failed" ELSE "stopping")
    /\ phase' = "stop_publisher"
    /\ UNCHANGED <<requested, result, tasks, cancelled, pubCancelled, sockets, exitReq, exitBy, db,
                   wire, lateEvents, reqs, sending>>

\* Only now the publisher is told to drain the bus and stop.
StopPublisher ==
    /\ phase = "stop_publisher"
    /\ IF publisher = "joined"
       THEN phase' = "return" /\ UNCHANGED pubCancelled
       ELSE phase' = "await_publisher" /\ pubCancelled' = TRUE
    /\ UNCHANGED <<requested, failed, result, tasks, publisher, cancelled, sockets, exitReq, exitBy,
                   db, bus, wire, lateEvents, reqs, sending>>

\* The publisher is joined, or aborted at the deadline.
AwaitPublisher ==
    /\ phase = "await_publisher"
    /\ publisher' = "joined" /\ phase' = "return"
    /\ failed' = (failed \/ publisher # "ok")
    /\ sockets' = sockets \ {"pub"}
    /\ UNCHANGED <<requested, result, tasks, cancelled, pubCancelled, exitReq, exitBy, db, bus,
                   wire, lateEvents, reqs, sending>>

Return ==
    /\ phase = "return"
    /\ result' = IF failed THEN "error"
                 ELSE IF requested = None THEN "shutdown" ELSE requested
    /\ phase' = "done"
    /\ UNCHANGED <<requested, failed, taskVars, exitReq, exitBy, db, bus, wire, lateEvents, reqs,
                   sending>>

-----------------------------------------------------------------------------
Main ==
    \/ BindPublisher \/ BindRouterAndStart \/ BindFails
    \/ ObserveExit \/ ObservePublisher
    \/ \E t \in Tasks : ObserveTask(t) \/ DrainJoins(t)
    \/ DrainDone \/ DrainTimeout \/ DbShutdown
    \/ PublishTerminal \/ StopPublisher \/ AwaitPublisher \/ Return

Router ==
    \/ \E r \in Requests : \/ RouterJoins(r)
                           \/ \E m \in Messages : RouterReceives(r, m)
    \/ SendBackOk \/ SendBackFails \/ RouterStops

Publisher == PublisherSends \/ PublisherFails \/ PublisherStops

Environment ==
    \/ \E r \in Requests : RequestDone(r) \/ RequestPanics(r) \/ AbortLands(r)
    \/ \E t \in Tasks : TaskEnds(t)
    \/ WorkPublishes \/ PostCommitRestart

\* run_engine_sockets has returned: the process goes on to end or restart.
Terminated == phase = "done" /\ UNCHANGED vars

Next == Main \/ Router \/ Publisher \/ Environment \/ Terminated

(***************************************************************************)
(* Only the main function is fair: every wait of it ends at a deadline, so *)
(* it must reach its end whatever the tasks, the handlers and the DB do.   *)
(***************************************************************************)
Spec == Init /\ [][Next]_vars /\ WF_vars(Main)

-----------------------------------------------------------------------------
(* Properties.                                                             *)

\* An engine exits for a reason its client has been told: an exit asked for by
\* RPC stands only after the accepted reply was sent to an authorised client,
\* the first request decides between restart and shutdown, and a clean return
\* value is that decision (or the shutdown a signal asked for).
ExitIsWarranted ==
    /\ exitBy \in Requests =>
          /\ reqs[exitBy].st = "answered"
          /\ AcceptedExit(reqs[exitBy].msg, reqs[exitBy].resp) = exitReq
          /\ reqs[exitBy].msg.signed /\ reqs[exitBy].msg.schema
          /\ exitReq = "shutdown" => OwnerAuthorized(reqs[exitBy].msg)
    /\ exitBy = "post_commit" => exitReq = "restart"
    /\ result \in Exits => result = requested
    /\ requested = "restart" => exitReq = "restart"

\* The database closes last: once its shutdown began no work task runs and no
\* request is being handled (an aborted one may be on its way out), and after a
\* clean return nothing of the server is left.
DbClosesAfterWork ==
    /\ (db # "open" /\ phase # "return" /\ phase # "done") =>
          \A t \in Tasks : tasks[t] \in {"idle", "joined"}
    /\ db # "open" => InState("running") \union InState("done") \union InState("sending") = {}
    /\ result # None => sockets = {} /\ publisher \in {"idle", "joined"}
    /\ result \in Exits => db = "closed" /\ InState("aborting") = {}

\* Subscribers see the lifecycle in order, and a clean return means that they
\* were sent the terminal event: it is queued before the publisher is cancelled
\* and the publisher drains the bus before it closes the socket.
TerminalEventSent ==
    /\ \A i, j \in 1..Len(wire) :
          i < j => wire[i] # wire[j] /\ wire[i] \notin {"stopping", "failed"}
                   /\ wire[j] # "starting"
    /\ result \in Exits => wire # <<>> /\ wire[Len(wire)] = "stopping"

\* Once a client holds the accepted reply to its SHUTDOWN or RESTART, once a
\* commit asked for a restart, or once a work task ended, the server returns,
\* even if the other tasks, the handlers or the database never do.
ServerReturns ==
    (exitReq # None \/ \E t \in Tasks : tasks[t] \in Finished) ~> (result # None)

-----------------------------------------------------------------------------
(***************************************************************************)
(* Why the safety properties hold, as an inductive invariant.              *)
(***************************************************************************)
Unstarted == {"bind_pub", "bind_router", "unbound"}
\* The phases after drain_work_tasks, and those after bounded_db_shutdown.
Drained == {"db", "terminal", "stop_publisher", "await_publisher", "return", "done"}
Closed == Drained \ {"db"}
Ended == {"return", "done"}
InFlight == {"running", "done", "sending"}

\* What has been started, stopped and closed in each phase of the main
\* function, and what a failure or an exit request is owed to.
PhaseInv ==
    /\ phase \in Unstarted => publisher = "idle" /\ \A t \in Tasks : tasks[t] = "idle"
    /\ phase \in Drained => \A t \in Tasks : tasks[t] \in {"idle", "joined"}
    /\ publisher = "idle" => phase \in Unstarted \union Ended
    /\ phase \in Ended => publisher \in {"idle", "joined"}
    /\ "router" \in sockets => tasks["router"] = "running"
    /\ "pub" \in sockets => phase = "bind_router" \/ publisher \in {"running", "draining"}
    /\ db # "open" <=> phase \in Closed
    /\ db = "stopping" => failed
    /\ phase = "unbound" => failed
    /\ phase \notin {"bind_pub", "bind_router", "serving"} => failed \/ requested \in Exits
    /\ publisher = "joined" /\ phase \notin Ended => failed
    /\ pubCancelled => phase \in {"await_publisher"} \union Ended
    /\ publisher = "ok" => pubCancelled
    /\ result # None => phase = "done"
    /\ result \in Exits => ~failed /\ result = requested

\* The requests the router holds, what an accepted answer says of its message,
\* and the exit that stands for one.
RequestInv ==
    /\ sending # None => reqs[sending].st = "sending"
    /\ tasks["router"] # "running" => /\ sending = None
                                      /\ \A r \in Requests : reqs[r].st \notin InFlight
    /\ \A r \in Requests :
          /\ reqs[r].st \in InFlight => reqs[r].msg \in Messages
          /\ reqs[r].resp = "accepted" =>
                /\ reqs[r].msg \in Messages /\ reqs[r].msg.signed /\ reqs[r].msg.schema
                /\ reqs[r].msg.kind \in Exits
                /\ reqs[r].msg.kind = "shutdown" => OwnerAuthorized(reqs[r].msg)
          /\ reqs[r].st = "aborting" => failed
    /\ exitBy \in Requests =>
          /\ reqs[exitBy].st = "answered" /\ reqs[exitBy].resp = "accepted"
          /\ reqs[exitBy].msg.kind = exitReq
    /\ exitBy = "post_commit" => exitReq = "restart"
    /\ requested = "restart" => exitReq = "restart"

\* The order of lifecycle events.
Precedes(a, b) ==
    \/ a = "starting" /\ b \in {"ready", "stopping", "failed"}
    \/ a = "ready" /\ b \in {"stopping", "failed"}
Terminal == {"stopping", "failed"}

\* Lifecycle events leave in order, on the bus and on the wire.
OrderInv ==
    /\ \A i, j \in 1..Len(wire) : i < j => Precedes(wire[i], wire[j])
    /\ \A i, j \in 1..Len(bus) :
          i < j /\ bus[i] # "work" /\ bus[j] # "work" => Precedes(bus[i], bus[j])
    /\ \A i \in 1..Len(wire), j \in 1..Len(bus) : bus[j] # "work" => Precedes(wire[i], bus[j])
    /\ phase \in Unstarted => bus = <<>> /\ wire = <<>>

\* The terminal event is published once the database is closed, says whether the
\* engine has failed, is never pushed off the bus, since only the work events
\* counted by lateEvents can follow it, and is on the wire when the publisher is
\* done.
TerminalInv ==
    /\ \A i \in 1..Len(wire) : wire[i] \in Terminal =>
          phase \in {"stop_publisher", "await_publisher"} \union Ended
    /\ \A i \in 1..Len(bus) : bus[i] \in Terminal =>
          phase \in {"stop_publisher", "await_publisher"} \union Ended
    /\ \A i \in 1..Len(wire) : wire[i] = "failed" => failed
    /\ \A i \in 1..Len(bus) : bus[i] = "failed" => failed
    /\ \A i \in 1..Len(bus) : bus[i] \in Terminal => Len(bus) - i <= lateEvents
    /\ phase \in {"stop_publisher", "await_publisher"} /\ publisher \in {"running", "draining"} =>
          \/ \E i \in 1..Len(bus) : bus[i] \in Terminal
          \/ \E i \in 1..Len(wire) : wire[i] \in Terminal
    /\ publisher = "ok" => \E i \in 1..Len(wire) : wire[i] \in Terminal
    /\ phase \in Ended /\ ~failed => \E i \in 1..Len(wire) : wire[i] \in Terminal

IInv == TypeOK /\ PhaseInv /\ RequestInv /\ OrderInv /\ TerminalInv
=============================================================================
