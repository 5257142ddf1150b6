------------------------- MODULE EngineServer_proofs -------------------------
(***************************************************************************)
(* For any set of requests, messages and side tasks, any permits and any   *)
(* bus that the counted work events cannot overflow: an exit is one a      *)
(* client was told of, the database closes after the work, and the         *)
(* lifecycle events reach the wire in order and to the last.  And of the   *)
(* database the server waits for, for any commands, shutdown calls,        *)
(* channel capacity and handle count: nothing that entered the channel is  *)
(* forgotten, the lease outlives all work, and a published outcome means   *)
(* that the lease is free.                                                 *)
(***************************************************************************)
EXTENDS EngineServer, DbActor, TLAPS

\* The type invariant in parts, so that a step cites the part it can disturb.
MainTypes ==
    /\ phase \in {"bind_pub", "bind_router", "unbound", "serving", "drain", "db",
                  "terminal", "stop_publisher", "await_publisher", "return", "done"}
    /\ requested \in Exits \union {None}
    /\ failed \in BOOLEAN
    /\ db \in {"open", "stopping", "closed"}
    /\ result \in Exits \union {"error", None}
TaskTypes ==
    /\ sockets \subseteq {"pub", "router"}
    /\ tasks \in [Tasks -> {"idle", "running", "joined"} \union Finished]
    /\ publisher \in {"idle", "running", "draining", "joined"} \union Finished
    /\ cancelled \in BOOLEAN /\ pubCancelled \in BOOLEAN
RequestTypes ==
    /\ exitReq \in Exits \union {None}
    /\ exitBy \in Requests \union {"post_commit", None}
    /\ reqs \in [Requests -> [st : RequestStates, msg : Messages \union {None},
                              resp : Responses \union {None}]]
    /\ sending \in Requests \union {None}
EventTypes ==
    /\ bus \in Seq(Lifecycle \union {"work"}) /\ Len(bus) <= BusCapacity
    /\ wire \in Seq(Lifecycle)
    /\ lateEvents \in 0..MaxLateEvents

LEMMA TypeParts ==
  /\ TypeOK <=> MainTypes /\ TaskTypes /\ RequestTypes /\ EventTypes
  /\ TypeOK' <=> MainTypes' /\ TaskTypes' /\ RequestTypes' /\ EventTypes'
BY DEF TypeOK, MainTypes, TaskTypes, RequestTypes, EventTypes

LEMMA InitIInv == Init => IInv
<1> SUFFICES ASSUME Init PROVE IInv
  OBVIOUS
<1>1. MainTypes /\ TaskTypes
  BY DEF Init, MainTypes, TaskTypes
<1>2. RequestTypes
  BY DEF Init, RequestTypes, RequestStates
<1>3. EventTypes
  BY ServerAssumption DEF Init, EventTypes
<1>4. PhaseInv
  BY ServerAssumption DEF Init, PhaseInv, Unstarted, Drained, Closed, Ended, Exits
<1>5. RequestInv
  BY ServerAssumption DEF Init, RequestInv, InFlight, Tasks, Exits, Responses
<1>6. OrderInv /\ TerminalInv
  BY DEF Init, OrderInv, TerminalInv, Unstarted, Ended
<1> QED BY <1>1, <1>2, <1>3, <1>4, <1>5, <1>6, TypeParts DEF IInv

-----------------------------------------------------------------------------
(* The requests.                                                           *)

\* A step that leaves the main function, the tasks and the events alone.
LEMMA RequestFrame ==
  ASSUME IInv, UNCHANGED <<mainVars, taskVars, db, bus, wire, lateEvents>>
  PROVE  MainTypes' /\ TaskTypes' /\ EventTypes' /\ PhaseInv' /\ OrderInv' /\ TerminalInv'
<1>1. MainTypes /\ TaskTypes /\ EventTypes
  BY TypeParts DEF IInv
<1>2. /\ UNCHANGED <<phase, requested, failed, result, tasks, publisher, cancelled>>
      /\ UNCHANGED <<pubCancelled, sockets, db, bus, wire, lateEvents>>
  BY DEF mainVars, taskVars
<1>3. MainTypes' /\ TaskTypes' /\ EventTypes'
  BY <1>1, <1>2 DEF MainTypes, TaskTypes, EventTypes
<1>4. PhaseInv'
  BY <1>2 DEF PhaseInv, IInv
<1>5. OrderInv' /\ TerminalInv'
  BY <1>2 DEF OrderInv, TerminalInv, IInv
<1> QED BY <1>3, <1>4, <1>5

LEMMA RequestUpdate ==
  ASSUME RequestTypes, NEW r \in Requests, NEW st \in RequestStates,
         NEW m \in Messages \union {None}, NEW p \in Responses \union {None},
         reqs' = [reqs EXCEPT ![r] = [st |-> st, msg |-> m, resp |-> p]]
  PROVE  /\ reqs' \in [Requests -> [st : RequestStates, msg : Messages \union {None},
                                    resp : Responses \union {None}]]
         /\ reqs'[r].st = st /\ reqs'[r].msg = m /\ reqs'[r].resp = p
         /\ \A q \in Requests : q # r => reqs'[q] = reqs[q]
BY DEF RequestTypes

LEMMA RequestMoves ==
  ASSUME RequestTypes, NEW r \in Requests, NEW st \in RequestStates,
         reqs' = [reqs EXCEPT ![r].st = st]
  PROVE  /\ reqs' \in [Requests -> [st : RequestStates, msg : Messages \union {None},
                                    resp : Responses \union {None}]]
         /\ reqs'[r].st = st /\ reqs'[r].msg = reqs[r].msg /\ reqs'[r].resp = reqs[r].resp
         /\ \A q \in Requests : q # r => reqs'[q] = reqs[q]
BY DEF RequestTypes

LEMMA RequestAnswers ==
  ASSUME RequestTypes, NEW r \in Requests, NEW st \in RequestStates,
         NEW p \in Responses \union {None},
         reqs' = [reqs EXCEPT ![r].st = st, ![r].resp = p]
  PROVE  /\ reqs' \in [Requests -> [st : RequestStates, msg : Messages \union {None},
                                    resp : Responses \union {None}]]
         /\ reqs'[r].st = st /\ reqs'[r].msg = reqs[r].msg /\ reqs'[r].resp = p
         /\ \A q \in Requests : q # r => reqs'[q] = reqs[q]
BY DEF RequestTypes

\* What RequestInv says of one request.
Sound(q) ==
    /\ q.st \in InFlight => q.msg \in Messages
    /\ q.resp = "accepted" =>
          /\ q.msg \in Messages /\ q.msg.signed /\ q.msg.schema /\ q.msg.kind \in Exits
          /\ q.msg.kind = "shutdown" => OwnerAuthorized(q.msg)
    /\ q.st = "aborting" => failed

\* A step of one request that has not been answered keeps RequestInv, if what
\* becomes of it is sound and the router holds it.
LEMMA OneRequest ==
  ASSUME IInv, NEW r \in Requests, Sound(reqs'[r]),
         \A q \in Requests : q # r => reqs'[q] = reqs[q],
         reqs[r].st # "answered",
         UNCHANGED <<mainVars, taskVars, exitReq, exitBy>>,
         sending' # None => reqs'[sending'].st = "sending",
         tasks["router"] # "running" => sending' = None /\ reqs'[r].st \notin InFlight
  PROVE  RequestInv'
<1>1. UNCHANGED <<requested, failed, tasks, exitReq, exitBy>> /\ RequestInv
  BY DEF mainVars, taskVars, IInv
<1>2. \A q \in Requests : Sound(reqs'[q])
  BY <1>1 DEF Sound, RequestInv
<1>3. exitBy \in Requests => exitBy # r
  BY <1>1 DEF RequestInv
<1>4. exitBy' \in Requests =>
         /\ reqs'[exitBy'].st = "answered" /\ reqs'[exitBy'].resp = "accepted"
         /\ reqs'[exitBy'].msg.kind = exitReq'
  BY <1>1, <1>3 DEF RequestInv
<1>5. tasks'["router"] # "running" => /\ sending' = None
                                      /\ \A q \in Requests : reqs'[q].st \notin InFlight
  BY <1>1 DEF RequestInv
<1> QED BY <1>1, <1>2, <1>4, <1>5 DEF RequestInv, Sound

\* An accepted answer comes from a signed message of the current schema, whose
\* kind asks for an exit and, for a shutdown, whose owner may.
LEMMA AcceptedAnswers ==
  ASSUME NEW m \in Messages, "accepted" \in ProcessRequest(m)
  PROVE  /\ m.signed /\ m.schema /\ m.kind \in Exits
         /\ m.kind = "shutdown" => OwnerAuthorized(m)
<1>1. m.kind \in {"restart", "shutdown", "work", "unspecified"}
  BY ServerAssumption DEF MessageType
<1>2. "accepted" \in HandleRpc(m) /\ m.schema /\ m.signed
  BY DEF ProcessRequest, HandleRpc
<1>3. CASE m.kind = "restart"
  BY <1>2, <1>3 DEF Exits
<1>4. CASE m.kind = "shutdown"
  BY <1>2, <1>4 DEF Exits, HandleRpc
<1>5. CASE m.kind = "work"
  BY <1>2, <1>5 DEF HandleRpc
<1>6. CASE m.kind = "unspecified"
  BY <1>2, <1>6 DEF HandleRpc
<1> QED BY <1>1, <1>2, <1>3, <1>4, <1>5, <1>6

LEMMA RouterReceivesIInv ==
  ASSUME IInv, NEW r \in Requests, NEW m \in Messages, RouterReceives(r, m)
  PROVE  IInv'
<1>0. RequestTypes
  BY TypeParts DEF IInv
<1>1. /\ UNCHANGED <<mainVars, taskVars, exitReq, exitBy>>
      /\ UNCHANGED <<db, bus, wire, lateEvents>>
      /\ tasks["router"] = "running" /\ sending = None /\ reqs[r].st = "unsent"
  BY DEF RouterReceives
<1>2. CASE Rejected(m)
  <2>1. /\ reqs' = [reqs EXCEPT ![r] = [st |-> "sending", msg |-> m, resp |-> "error"]]
        /\ sending' = r
    BY <1>2 DEF RouterReceives
  <2>2. /\ reqs' \in [Requests -> [st : RequestStates, msg : Messages \union {None},
                                   resp : Responses \union {None}]]
        /\ reqs'[r].st = "sending" /\ reqs'[r].msg = m /\ reqs'[r].resp = "error"
        /\ \A q \in Requests : q # r => reqs'[q] = reqs[q]
    BY <1>0, <2>1, RequestUpdate DEF RequestStates, Responses
  <2>3. RequestTypes'
    BY <1>0, <1>1, <2>1, <2>2 DEF RequestTypes
  <2>4. RequestInv'
    BY <1>1, <2>1, <2>2, OneRequest DEF Sound
  <2> QED BY <1>1, <2>3, <2>4, RequestFrame, TypeParts DEF IInv
<1>3. CASE ~Rejected(m)
  <2>1. /\ reqs' = [reqs EXCEPT ![r] = [st |-> "running", msg |-> m, resp |-> None]]
        /\ sending' = None
    BY <1>1, <1>3 DEF RouterReceives
  <2>2. /\ reqs' \in [Requests -> [st : RequestStates, msg : Messages \union {None},
                                   resp : Responses \union {None}]]
        /\ reqs'[r].st = "running" /\ reqs'[r].msg = m /\ reqs'[r].resp = None
        /\ \A q \in Requests : q # r => reqs'[q] = reqs[q]
    BY <1>0, <2>1, RequestUpdate DEF RequestStates
  <2>3. RequestTypes'
    BY <1>0, <1>1, <2>1, <2>2 DEF RequestTypes
  <2>4. RequestInv'
    BY <1>1, <2>1, <2>2, OneRequest, ServerAssumption DEF Sound, Responses
  <2> QED BY <1>1, <2>3, <2>4, RequestFrame, TypeParts DEF IInv
<1> QED BY <1>2, <1>3

LEMMA RequestDoneIInv ==
  ASSUME IInv, NEW r \in Requests, RequestDone(r)
  PROVE  IInv'
<1>0. RequestTypes /\ RequestInv
  BY TypeParts DEF IInv
<1>1. /\ UNCHANGED <<mainVars, taskVars, exitReq, exitBy>>
      /\ UNCHANGED <<db, bus, wire, lateEvents, sending>>
      /\ reqs[r].st = "running"
  BY DEF RequestDone
<1>2. reqs[r].msg \in Messages /\ tasks["router"] = "running"
  BY <1>0, <1>1 DEF RequestInv, InFlight
<1>3. PICK resp \in ProcessRequest(reqs[r].msg) :
         reqs' = [reqs EXCEPT ![r].st = "done", ![r].resp = resp]
  BY DEF RequestDone
<1>4. resp \in Responses
  <2>1. reqs[r].msg.kind \in {"restart", "shutdown", "work", "unspecified"}
    BY <1>2, ServerAssumption DEF MessageType
  <2>2. HandleRpc(reqs[r].msg) \subseteq Responses
    BY <2>1 DEF HandleRpc, Responses
  <2> QED BY <1>3, <2>2 DEF ProcessRequest, Responses
<1>5. /\ reqs' \in [Requests -> [st : RequestStates, msg : Messages \union {None},
                                 resp : Responses \union {None}]]
      /\ reqs'[r].st = "done" /\ reqs'[r].msg = reqs[r].msg /\ reqs'[r].resp = resp
      /\ \A q \in Requests : q # r => reqs'[q] = reqs[q]
  BY <1>0, <1>3, <1>4, RequestAnswers DEF RequestStates
<1>6. RequestTypes'
  BY <1>0, <1>1, <1>5 DEF RequestTypes
<1>7. Sound(reqs'[r])
  BY <1>2, <1>3, <1>5, AcceptedAnswers DEF Sound
<1>8. sending' # None => reqs'[sending'].st = "sending"
  BY <1>0, <1>1, <1>5 DEF RequestInv, RequestTypes
<1>9. RequestInv'
  BY <1>1, <1>2, <1>5, <1>7, <1>8, OneRequest
<1> QED BY <1>1, <1>6, <1>9, RequestFrame, TypeParts DEF IInv

LEMMA RequestLostIInv ==
  ASSUME IInv, NEW r \in Requests, RequestPanics(r) \/ AbortLands(r)
  PROVE  IInv'
<1>0. RequestTypes /\ RequestInv
  BY TypeParts DEF IInv
<1>1. /\ UNCHANGED <<mainVars, taskVars, exitReq, exitBy>>
      /\ UNCHANGED <<db, bus, wire, lateEvents, sending>>
      /\ reqs[r].st \in {"running", "aborting"} /\ reqs' = [reqs EXCEPT ![r] = Settled("lost")]
  BY DEF RequestPanics, AbortLands
<1>2. /\ reqs' \in [Requests -> [st : RequestStates, msg : Messages \union {None},
                                 resp : Responses \union {None}]]
      /\ reqs'[r].st = "lost" /\ reqs'[r].msg = None /\ reqs'[r].resp = None
      /\ \A q \in Requests : q # r => reqs'[q] = reqs[q]
  BY <1>0, <1>1, RequestUpdate DEF RequestStates, Settled
<1>3. RequestTypes'
  BY <1>0, <1>1, <1>2 DEF RequestTypes
<1>4. Sound(reqs'[r])
  BY <1>2, ServerAssumption DEF Sound, InFlight, Responses
<1>5. sending' # None => reqs'[sending'].st = "sending"
  BY <1>0, <1>1, <1>2 DEF RequestInv, RequestTypes
<1>6. RequestInv'
  BY <1>0, <1>1, <1>2, <1>4, <1>5, OneRequest DEF InFlight, RequestInv
<1> QED BY <1>1, <1>3, <1>6, RequestFrame, TypeParts DEF IInv

LEMMA RouterJoinsIInv ==
  ASSUME IInv, NEW r \in Requests, RouterJoins(r)
  PROVE  IInv'
<1>0. RequestTypes /\ RequestInv
  BY TypeParts DEF IInv
<1>1. /\ UNCHANGED <<mainVars, taskVars, exitReq, exitBy>>
      /\ UNCHANGED <<db, bus, wire, lateEvents>>
      /\ tasks["router"] = "running" /\ reqs[r].st = "done" /\ sending' = r
      /\ reqs' = [reqs EXCEPT ![r].st = "sending"]
  BY DEF RouterJoins
<1>2. /\ reqs' \in [Requests -> [st : RequestStates, msg : Messages \union {None},
                                 resp : Responses \union {None}]]
      /\ reqs'[r].st = "sending" /\ reqs'[r].msg = reqs[r].msg /\ reqs'[r].resp = reqs[r].resp
      /\ \A q \in Requests : q # r => reqs'[q] = reqs[q]
  BY <1>0, <1>1, RequestMoves DEF RequestStates
<1>3. RequestTypes'
  BY <1>0, <1>1, <1>2 DEF RequestTypes
<1>4. Sound(reqs'[r])
  BY <1>0, <1>1, <1>2 DEF Sound, InFlight, RequestInv
<1>5. RequestInv'
  BY <1>1, <1>2, <1>4, OneRequest
<1> QED BY <1>1, <1>3, <1>5, RequestFrame, TypeParts DEF IInv

\* A reply that asks for no exit is sent, or any reply is lost.
LEMMA ReplySettled ==
  ASSUME IInv, NEW st \in {"answered", "lost"}, sending # None, sending' = None,
         reqs' = [reqs EXCEPT ![sending] = Settled(st)],
         UNCHANGED <<mainVars, taskVars, exitReq, exitBy, db, bus, wire, lateEvents>>
  PROVE  IInv'
<1>0. RequestTypes /\ RequestInv
  BY TypeParts DEF IInv
<1>1. sending \in Requests /\ reqs[sending].st = "sending"
  BY <1>0 DEF RequestTypes, RequestInv
<1>2. /\ reqs' \in [Requests -> [st : RequestStates, msg : Messages \union {None},
                                 resp : Responses \union {None}]]
      /\ reqs'[sending].st = st /\ reqs'[sending].msg = None /\ reqs'[sending].resp = None
      /\ \A q \in Requests : q # sending => reqs'[q] = reqs[q]
  BY <1>0, <1>1, RequestUpdate DEF RequestStates, Settled
<1>3. RequestTypes'
  BY <1>0, <1>2 DEF RequestTypes
<1>4. Sound(reqs'[sending])
  BY <1>2, ServerAssumption DEF Sound, InFlight, Responses
<1>5. RequestInv'
  BY <1>1, <1>2, <1>4, OneRequest DEF InFlight
<1> QED BY <1>3, <1>5, RequestFrame, TypeParts DEF IInv

LEMMA SendBackIInv ==
  ASSUME IInv, SendBackOk \/ SendBackFails
  PROVE  IInv'
<1>0. RequestTypes /\ RequestInv
  BY TypeParts DEF IInv
<1>1. CASE SendBackFails
  BY <1>1, ReplySettled DEF SendBackFails
<1>2. CASE SendBackOk /\ AcceptedExit(reqs[sending].msg, reqs[sending].resp) = None
  BY <1>2, ReplySettled DEF SendBackOk
<1>3. CASE SendBackOk /\ AcceptedExit(reqs[sending].msg, reqs[sending].resp) # None
  <2> DEFINE exit == AcceptedExit(reqs[sending].msg, reqs[sending].resp)
  <2>1. /\ sending # None /\ sending' = None /\ tasks["router"] = "running"
        /\ reqs' = [reqs EXCEPT ![sending].st = "answered"]
        /\ RequestExit(exit, sending)
        /\ UNCHANGED <<mainVars, taskVars, db, bus, wire, lateEvents>>
    BY <1>3 DEF SendBackOk
  <2>2. /\ sending \in Requests /\ reqs[sending].st = "sending"
        /\ reqs[sending].resp = "accepted" /\ exit = reqs[sending].msg.kind /\ exit \in Exits
    BY <1>0, <1>3, <2>1 DEF RequestTypes, RequestInv, AcceptedExit, Exits
  <2>3. /\ reqs' \in [Requests -> [st : RequestStates, msg : Messages \union {None},
                                   resp : Responses \union {None}]]
        /\ reqs'[sending].st = "answered" /\ reqs'[sending].msg = reqs[sending].msg
        /\ reqs'[sending].resp = reqs[sending].resp
        /\ \A q \in Requests : q # sending => reqs'[q] = reqs[q]
    BY <1>0, <2>1, <2>2, RequestMoves DEF RequestStates
  <2>4. UNCHANGED <<requested, failed, tasks>>
    BY <2>1 DEF mainVars, taskVars
  <2>5. \/ exitReq = None /\ exitReq' = exit /\ exitBy' = sending
        \/ exitReq # None /\ UNCHANGED <<exitReq, exitBy>>
    BY <2>1 DEF RequestExit
  <2>6. RequestTypes'
    BY <1>0, <2>1, <2>2, <2>3, <2>5 DEF RequestTypes
  <2>7. \A q \in Requests : Sound(reqs'[q])
    BY <1>0, <2>2, <2>3, <2>4 DEF Sound, RequestInv, InFlight
  <2>8. exitBy' \in Requests =>
           /\ reqs'[exitBy'].st = "answered" /\ reqs'[exitBy'].resp = "accepted"
           /\ reqs'[exitBy'].msg.kind = exitReq'
    <3>1. CASE exitBy' = sending /\ exitReq' = exit
      BY <2>2, <2>3, <3>1
    <3>2. CASE UNCHANGED <<exitReq, exitBy>>
      BY <1>0, <2>2, <2>3, <3>2 DEF RequestInv
    <3> QED BY <2>5, <3>1, <3>2
  <2>9. (exitBy' = "post_commit" => exitReq' = "restart")
        /\ (requested' = "restart" => exitReq' = "restart")
    BY <1>0, <2>2, <2>4, <2>5, ServerAssumption DEF RequestInv, Exits
  <2>10. RequestInv'
    BY <2>1, <2>4, <2>7, <2>8, <2>9 DEF RequestInv, Sound
  <2> QED BY <2>1, <2>6, <2>10, RequestFrame, TypeParts DEF IInv
<1> QED BY <1>1, <1>2, <1>3

LEMMA PostCommitRestartIInv ==
  ASSUME IInv, PostCommitRestart
  PROVE  IInv'
<1>0. RequestTypes /\ RequestInv
  BY TypeParts DEF IInv
<1>1. /\ UNCHANGED <<mainVars, taskVars, db, bus, wire, lateEvents>>
      /\ UNCHANGED <<reqs, sending>>
      /\ exitReq' = "restart" /\ exitBy' = "post_commit"
  BY DEF PostCommitRestart, RequestExit
<1>2. UNCHANGED <<requested, failed, tasks>>
  BY <1>1 DEF mainVars, taskVars
<1>3. RequestTypes'
  BY <1>0, <1>1 DEF RequestTypes, Exits
<1>4. RequestInv'
  BY <1>0, <1>1, <1>2, ServerAssumption DEF RequestInv
<1> QED BY <1>1, <1>3, <1>4, RequestFrame, TypeParts DEF IInv

\* The requests once the router is gone: none is held, the answered ones stay.
LEMMA RequestsAborted ==
  ASSUME IInv, NEW to \in {"lost", "aborting"}, reqs' = AbortRequests(to), sending' = None,
         to = "aborting" => failed', failed => failed', UNCHANGED <<requested, exitReq, exitBy>>
  PROVE  RequestTypes' /\ RequestInv'
<1>0. RequestTypes /\ RequestInv
  BY TypeParts DEF IInv
<1>1. ASSUME NEW r \in Requests
      PROVE  /\ reqs'[r] \in [st : RequestStates, msg : Messages \union {None},
                              resp : Responses \union {None}]
             /\ reqs'[r].st \notin InFlight
             /\ reqs'[r] = reqs[r] \/ reqs'[r].resp = None
             /\ reqs'[r] = reqs[r] \/ reqs'[r].st \in {"lost", to}
             /\ reqs[r].st = "answered" => reqs'[r] = reqs[r]
  BY <1>0 DEF AbortRequests, Settled, InFlight, RequestTypes, RequestStates
<1>2. reqs' \in [Requests -> [st : RequestStates, msg : Messages \union {None},
                              resp : Responses \union {None}]]
  BY <1>1 DEF AbortRequests
<1>3. RequestTypes'
  BY <1>0, <1>2 DEF RequestTypes
<1>4. ASSUME NEW r \in Requests
      PROVE  /\ reqs'[r].resp = "accepted" =>
                  /\ reqs'[r].msg \in Messages /\ reqs'[r].msg.signed /\ reqs'[r].msg.schema
                  /\ reqs'[r].msg.kind \in Exits
                  /\ reqs'[r].msg.kind = "shutdown" => OwnerAuthorized(reqs'[r].msg)
             /\ reqs'[r].st = "aborting" => failed'
  <2>1. CASE reqs'[r] = reqs[r]
    BY <1>0, <2>1 DEF RequestInv
  <2>2. CASE reqs'[r] # reqs[r]
    BY <1>1, <2>2, ServerAssumption DEF Responses
  <2> QED BY <2>1, <2>2
<1>5. exitBy' \in Requests =>
         /\ reqs'[exitBy'].st = "answered" /\ reqs'[exitBy'].resp = "accepted"
         /\ reqs'[exitBy'].msg.kind = exitReq'
  BY <1>0, <1>1 DEF RequestInv
<1>6. RequestInv'
  BY <1>0, <1>1, <1>4, <1>5 DEF RequestInv
<1> QED BY <1>3, <1>6

\* A step that leaves the requests and the exit request alone.
LEMMA RequestsKept ==
  ASSUME IInv, UNCHANGED <<reqs, sending, exitReq, exitBy, requested>>, failed => failed',
         tasks["router"] = "running" => tasks'["router"] = "running"
  PROVE  RequestTypes' /\ RequestInv'
<1>0. RequestTypes /\ RequestInv
  BY TypeParts DEF IInv
<1> QED BY <1>0 DEF RequestTypes, RequestInv

\* A step that leaves the events alone, and neither revives the publisher nor
\* starts or ends the phases TerminalInv looks at.
LEMMA EventsKept ==
  ASSUME IInv, UNCHANGED <<bus, wire, lateEvents>>, failed => failed',
         \/ phase' = phase
         \/ {phase, phase'} \intersect (Unstarted \union Ended
                              \union {"stop_publisher", "await_publisher"}) = {},
         publisher' = publisher \/ publisher' \in {"idle", "err", "joined"}
  PROVE  EventTypes' /\ OrderInv' /\ TerminalInv'
<1>0. EventTypes /\ OrderInv /\ TerminalInv
  BY TypeParts DEF IInv
<1>1. EventTypes' /\ OrderInv'
  BY <1>0 DEF EventTypes, OrderInv
<1>2. TerminalInv'
  BY <1>0 DEF TerminalInv
<1> QED BY <1>1, <1>2

LEMMA RouterStopsIInv ==
  ASSUME IInv, RouterStops
  PROVE  IInv'
<1>0. MainTypes /\ TaskTypes /\ PhaseInv
  BY TypeParts DEF IInv
<1>1. /\ tasks["router"] = "running" /\ sending = None /\ reqs' = AbortRequests("lost")
      /\ sockets' = sockets \ {"router"}
      /\ UNCHANGED <<phase, requested, failed, result, publisher, cancelled, pubCancelled>>
      /\ UNCHANGED <<exitReq, exitBy, db, bus, wire, lateEvents, sending>>
  BY DEF RouterStops, mainVars
<1>2. PICK ending \in Finished : tasks' = [tasks EXCEPT !["router"] = ending]
  BY DEF RouterStops, Finished
<1>3. MainTypes' /\ TaskTypes'
  <2>1. tasks' \in [Tasks -> {"idle", "running", "joined"} \union Finished]
    BY <1>0, <1>2 DEF TaskTypes
  <2>2. MainTypes'
    BY <1>0, <1>1 DEF MainTypes
  <2> QED BY <1>0, <1>1, <2>1, <2>2 DEF TaskTypes
<1>4. RequestTypes' /\ RequestInv'
  BY <1>1, RequestsAborted
<1>5. EventTypes' /\ OrderInv' /\ TerminalInv'
  BY <1>1, EventsKept
<1>6. phase \notin Unstarted \union Drained
  BY <1>0, <1>1 DEF PhaseInv, Tasks
<1>7. PhaseInv'
  BY <1>0, <1>1, <1>2, <1>6 DEF PhaseInv
<1> QED BY <1>3, <1>4, <1>5, <1>7, TypeParts DEF IInv

LEMMA TaskEndsIInv ==
  ASSUME IInv, NEW t \in Tasks, TaskEnds(t)
  PROVE  IInv'
<1>0. MainTypes /\ TaskTypes /\ PhaseInv
  BY TypeParts DEF IInv
<1>1. /\ tasks[t] = "running" /\ t # "router"
      /\ UNCHANGED <<phase, requested, failed, result, publisher, cancelled, pubCancelled>>
      /\ UNCHANGED <<sockets, exitReq, exitBy, db, bus, wire, lateEvents, reqs, sending>>
  BY DEF TaskEnds, mainVars
<1>2. PICK ending \in Finished : tasks' = [tasks EXCEPT ![t] = ending]
  BY DEF TaskEnds, Finished
<1>3. MainTypes' /\ TaskTypes'
  BY <1>0, <1>1, <1>2 DEF MainTypes, TaskTypes
<1>4. tasks'["router"] = tasks["router"]
  BY <1>0, <1>1, <1>2 DEF TaskTypes, Tasks
<1>5. RequestTypes' /\ RequestInv'
  BY <1>1, <1>4, RequestsKept
<1>6. EventTypes' /\ OrderInv' /\ TerminalInv'
  BY <1>1, EventsKept
<1>7. phase \notin Unstarted \union Drained
  BY <1>0, <1>1 DEF PhaseInv
<1>8. PhaseInv'
  BY <1>0, <1>1, <1>4, <1>7 DEF PhaseInv
<1> QED BY <1>3, <1>5, <1>6, <1>8, TypeParts DEF IInv

-----------------------------------------------------------------------------
(* The events.                                                             *)

Events == Lifecycle \union {"work"}

\* publish_event adds its event at the end and keeps the others in order; all of
\* them, unless the bus is full and the oldest one goes.
LEMMA PublishFacts ==
  ASSUME NEW q \in Seq(Events), Len(q) <= BusCapacity, NEW e \in Events
  PROVE  \E k \in {0, 1} :
            /\ Publish(q, e) \in Seq(Events) /\ Len(Publish(q, e)) <= BusCapacity
            /\ Len(Publish(q, e)) = Len(q) + 1 - k
            /\ Publish(q, e)[Len(q) + 1 - k] = e
            /\ \A i \in 1..(Len(q) - k) :
                  i + k \in 1..Len(q) /\ Publish(q, e)[i] = q[i + k]
            /\ k = 1 => Len(q) = BusCapacity
<1>1. CASE Len(q) < BusCapacity
  <2>1. Publish(q, e) = Append(q, e)
    BY <1>1 DEF Publish
  <2> QED BY <1>1, <2>1, ServerAssumption
<1>2. CASE Len(q) >= BusCapacity
  <2>1. Publish(q, e) = Append(Tail(q), e) /\ Len(q) = BusCapacity /\ q # <<>>
    BY <1>2, ServerAssumption DEF Publish
  <2>2. /\ Tail(q) \in Seq(Events) /\ Len(Tail(q)) = Len(q) - 1
        /\ \A i \in 1..(Len(q) - 1) : Tail(q)[i] = q[i + 1]
    BY <2>1
  <2> QED BY <2>1, <2>2, ServerAssumption
<1> QED BY <1>1, <1>2, ServerAssumption

LEMMA HeadTail ==
  ASSUME NEW q \in Seq(Events), q # <<>>
  PROVE  /\ Head(q) = q[1] /\ q[1] \in Events /\ Len(q) \in Nat \ {0}
         /\ Tail(q) \in Seq(Events) /\ Len(Tail(q)) = Len(q) - 1
         /\ \A i \in 1..Len(Tail(q)) : i + 1 \in 1..Len(q) /\ Tail(q)[i] = q[i + 1]
OBVIOUS

\* A lifecycle event that follows all those on the bus and on the wire may be
\* published, and so may a work event.
LEMMA PublishOrdered ==
  ASSUME EventTypes, OrderInv, NEW e \in Events, bus' = Publish(bus, e), wire' = wire,
         e # "work" => /\ \A i \in 1..Len(bus) : bus[i] # "work" => Precedes(bus[i], e)
                       /\ \A i \in 1..Len(wire) : Precedes(wire[i], e),
         phase' \notin Unstarted
  PROVE  OrderInv' /\ bus' \in Seq(Events) /\ Len(bus') <= BusCapacity
<1>1. bus \in Seq(Events) /\ Len(bus) <= BusCapacity /\ Len(bus) \in Nat
  BY DEF EventTypes, Events
<1>2. PICK k \in {0, 1} :
            /\ bus' \in Seq(Events) /\ Len(bus') <= BusCapacity
            /\ Len(bus') = Len(bus) + 1 - k
            /\ bus'[Len(bus) + 1 - k] = e
            /\ \A i \in 1..(Len(bus) - k) : i + k \in 1..Len(bus) /\ bus'[i] = bus[i + k]
  BY <1>1, PublishFacts, ZenonT(30)
<1>3. ASSUME NEW i \in 1..Len(bus'), NEW j \in 1..Len(bus'), i < j,
             bus'[i] # "work", bus'[j] # "work"
      PROVE  Precedes(bus'[i], bus'[j])
  <2>1. i \in 1..(Len(bus) - k) /\ i + k \in 1..Len(bus) /\ bus'[i] = bus[i + k]
    BY <1>1, <1>2, <1>3
  <2>2. CASE j = Len(bus) + 1 - k
    BY <1>2, <1>3, <2>1, <2>2
  <2>3. CASE j # Len(bus) + 1 - k
    <3>1. j \in 1..(Len(bus) - k) /\ j + k \in 1..Len(bus) /\ bus'[j] = bus[j + k]
      BY <1>1, <1>2, <2>3
    <3>2. i + k < j + k
      <4>1. CASE k = 0
        BY <1>3, <4>1
      <4>2. CASE k = 1
        BY <1>3, <4>2
      <4> QED BY <4>1, <4>2
    <3> QED BY <1>3, <2>1, <3>1, <3>2 DEF OrderInv
  <2> QED BY <2>2, <2>3
<1>4. ASSUME NEW i \in 1..Len(wire'), NEW j \in 1..Len(bus'), bus'[j] # "work"
      PROVE  Precedes(wire'[i], bus'[j])
  <2>1. CASE j = Len(bus) + 1 - k
    BY <1>2, <1>4, <2>1
  <2>2. CASE j # Len(bus) + 1 - k
    <3>1. j \in 1..(Len(bus) - k) /\ j + k \in 1..Len(bus) /\ bus'[j] = bus[j + k]
      BY <1>1, <1>2, <1>4, <2>2
    <3> QED BY <1>4, <3>1 DEF OrderInv
  <2> QED BY <2>1, <2>2
<1> QED BY <1>2, <1>3, <1>4 DEF OrderInv

LEMMA WorkPublishesIInv ==
  ASSUME IInv, WorkPublishes
  PROVE  IInv'
<1>0. /\ MainTypes /\ TaskTypes /\ EventTypes
      /\ PhaseInv /\ OrderInv /\ TerminalInv
  BY TypeParts DEF IInv
<1>1. /\ phase \notin {"bind_pub", "bind_router", "unbound", "done"}
      /\ \/ phase \in Late /\ lateEvents < MaxLateEvents /\ lateEvents' = lateEvents + 1
         \/ phase \notin Late /\ lateEvents' = lateEvents
      /\ bus' = Publish(bus, "work")
      /\ UNCHANGED <<phase, requested, failed, result, tasks, publisher, cancelled>>
      /\ UNCHANGED <<pubCancelled, sockets, exitReq, exitBy, db, wire, reqs, sending>>
  BY DEF WorkPublishes, mainVars, taskVars
<1>2. OrderInv' /\ bus' \in Seq(Events) /\ Len(bus') <= BusCapacity
  BY <1>0, <1>1, PublishOrdered DEF Events, Unstarted
<1>3. lateEvents \in Nat /\ Len(bus) \in Nat /\ bus \in Seq(Events) /\ Len(bus) <= BusCapacity
  BY <1>0 DEF EventTypes, Events
<1>4. EventTypes'
  BY <1>0, <1>1, <1>2, ServerAssumption DEF EventTypes, Events
<1>5. PICK k \in {0, 1} :
            /\ Len(bus') = Len(bus) + 1 - k
            /\ bus'[Len(bus) + 1 - k] = "work"
            /\ \A i \in 1..(Len(bus) - k) : i + k \in 1..Len(bus) /\ bus'[i] = bus[i + k]
            /\ k = 1 => Len(bus) = BusCapacity
  BY <1>1, <1>3, PublishFacts DEF Events
<1>6. ASSUME NEW i \in 1..Len(bus'), bus'[i] # "work"
      PROVE  i + k \in 1..Len(bus) /\ bus'[i] = bus[i + k] /\ i \in 1..(Len(bus) - k)
  BY <1>3, <1>5, <1>6
\* The terminal event is not the one that falls off a full bus.
<1>7. ASSUME NEW i \in 1..Len(bus), bus[i] \in Terminal
      PROVE  i - k \in 1..Len(bus') /\ bus'[i - k] = bus[i]
  <2>1. Len(bus) - i <= lateEvents /\ lateEvents < BusCapacity - 1
    <3>1. phase \in Late
      BY <1>0, <1>1, <1>7 DEF TerminalInv, Late, Ended
    <3> QED BY <1>0, <1>1, <1>3, <1>7, <3>1, ServerAssumption DEF TerminalInv
  <2>2. i > k
    BY <1>3, <1>5, <1>7, <2>1, ServerAssumption
  <2>3. i - k \in 1..(Len(bus) - k)
    BY <1>3, <1>5, <2>2
  <2> QED BY <1>3, <1>5, <2>3
<1>8. TerminalInv'
  <2>1. ASSUME NEW i \in 1..Len(bus'), bus'[i] \in Terminal
        PROVE  /\ phase' \in {"stop_publisher", "await_publisher"} \union Ended
               /\ bus'[i] = "failed" => failed'
               /\ Len(bus') - i <= lateEvents'
    <3>1. i + k \in 1..Len(bus) /\ bus'[i] = bus[i + k]
      BY <1>6, <2>1 DEF Terminal
    <3>2. Len(bus) - (i + k) <= lateEvents
      BY <1>0, <2>1, <3>1 DEF TerminalInv
    <3>3. /\ phase \in {"stop_publisher", "await_publisher"} \union Ended
          /\ bus[i + k] = "failed" => failed
      BY <1>0, <2>1, <3>1 DEF TerminalInv
    <3>4. Len(bus') - i <= lateEvents'
      <4>1. phase \in Late
        BY <1>1, <3>3 DEF Late, Ended
      <4> QED BY <1>1, <1>3, <1>5, <3>2, <4>1
    <3> QED BY <1>1, <3>1, <3>3, <3>4
  <2>2. (\E i \in 1..Len(bus) : bus[i] \in Terminal)
          => \E i \in 1..Len(bus') : bus'[i] \in Terminal
    BY <1>7
  <2> QED BY <1>0, <1>1, <2>1, <2>2 DEF TerminalInv, Terminal
<1>9. MainTypes' /\ TaskTypes' /\ PhaseInv'
  BY <1>0, <1>1 DEF MainTypes, TaskTypes, PhaseInv
<1>10. RequestTypes' /\ RequestInv'
  BY <1>1, RequestsKept
<1> QED BY <1>2, <1>4, <1>8, <1>9, <1>10, TypeParts DEF IInv

LEMMA PublisherSendsIInv ==
  ASSUME IInv, PublisherSends
  PROVE  IInv'
<1>0. /\ MainTypes /\ TaskTypes /\ EventTypes
      /\ PhaseInv /\ OrderInv /\ TerminalInv
  BY TypeParts DEF IInv
<1>1. /\ publisher \in {"running", "draining"} /\ publisher' \in {"running", "draining"}
      /\ bus # <<>> /\ bus' = Tail(bus) /\ SendEvent(Head(bus))
      /\ UNCHANGED <<phase, requested, failed, result, tasks, cancelled, pubCancelled>>
      /\ UNCHANGED <<sockets, exitReq, exitBy, db, lateEvents, reqs, sending>>
  BY DEF PublisherSends, mainVars
<1>2. /\ bus \in Seq(Events) /\ Len(bus) \in Nat /\ Len(bus) <= BusCapacity
      /\ wire \in Seq(Lifecycle) /\ Len(wire) \in Nat
  BY <1>0 DEF EventTypes, Events
<1>3. /\ Head(bus) = bus[1] /\ bus[1] \in Events /\ Len(bus) \in Nat \ {0}
      /\ bus' \in Seq(Events) /\ Len(bus') = Len(bus) - 1
      /\ \A i \in 1..Len(bus') : i + 1 \in 1..Len(bus) /\ bus'[i] = bus[i + 1]
  BY <1>1, <1>2, HeadTail
<1>4. \/ bus[1] = "work" /\ wire' = wire
      \/ bus[1] # "work" /\ bus[1] \in Lifecycle /\ wire' = Append(wire, bus[1])
  BY <1>1, <1>3 DEF SendEvent, Events, Lifecycle
<1>5. /\ wire' \in Seq(Lifecycle) /\ Len(wire') \in {Len(wire), Len(wire) + 1}
      /\ \A i \in 1..Len(wire) : i \in 1..Len(wire') /\ wire'[i] = wire[i]
      /\ \A i \in 1..Len(wire') : \/ i \in 1..Len(wire)
                                  \/ i = Len(wire) + 1 /\ wire'[i] = bus[1] /\ bus[1] # "work"
      /\ bus[1] # "work" => /\ Len(wire) + 1 \in 1..Len(wire')
                            /\ wire'[Len(wire) + 1] = bus[1]
  <2>1. CASE bus[1] = "work" /\ wire' = wire
    BY <1>2, <2>1
  <2>2. CASE bus[1] # "work" /\ bus[1] \in Lifecycle /\ wire' = Append(wire, bus[1])
    <3>1. /\ wire' \in Seq(Lifecycle) /\ Len(wire') = Len(wire) + 1
          /\ wire'[Len(wire) + 1] = bus[1]
          /\ \A i \in 1..Len(wire) : wire'[i] = wire[i]
      BY <1>2, <2>2
    <3> QED BY <1>2, <2>2, <3>1
  <2> QED BY <1>4, <2>1, <2>2
<1>6. EventTypes'
  BY <1>0, <1>1, <1>2, <1>3, <1>5, ServerAssumption DEF EventTypes, Events
<1>7. OrderInv'
  <2>1. ASSUME NEW i \in 1..Len(wire'), NEW j \in 1..Len(wire'), i < j
        PROVE  Precedes(wire'[i], wire'[j])
    <3>1. CASE j \in 1..Len(wire)
      <4>1. i \in 1..Len(wire)
        BY <1>2, <1>5, <2>1, <3>1
      <4> QED BY <1>0, <1>5, <2>1, <3>1, <4>1 DEF OrderInv
    <3>2. CASE j \notin 1..Len(wire)
      <4>1. j = Len(wire) + 1 /\ wire'[j] = bus[1] /\ bus[1] # "work"
        BY <1>5, <2>1, <3>2
      <4>2. i \in 1..Len(wire) /\ 1 \in 1..Len(bus)
        BY <1>2, <1>3, <1>5, <2>1, <4>1
      <4> QED BY <1>0, <1>5, <4>1, <4>2 DEF OrderInv
    <3> QED BY <3>1, <3>2
  <2>2. ASSUME NEW i \in 1..Len(bus'), NEW j \in 1..Len(bus'), i < j,
               bus'[i] # "work", bus'[j] # "work"
        PROVE  Precedes(bus'[i], bus'[j])
    <3>1. i + 1 < j + 1
      BY <2>2
    <3> QED BY <1>0, <1>3, <2>2, <3>1 DEF OrderInv
  <2>3. ASSUME NEW i \in 1..Len(wire'), NEW j \in 1..Len(bus'), bus'[j] # "work"
        PROVE  Precedes(wire'[i], bus'[j])
    <3>1. j + 1 \in 1..Len(bus) /\ bus'[j] = bus[j + 1]
      BY <1>3, <2>3
    <3>2. CASE i \in 1..Len(wire)
      BY <1>0, <1>5, <2>3, <3>1, <3>2 DEF OrderInv
    <3>3. CASE i \notin 1..Len(wire)
      <4>1. wire'[i] = bus[1] /\ bus[1] # "work" /\ 1 \in 1..Len(bus) /\ 1 < j + 1
        BY <1>3, <1>5, <2>3, <3>3
      <4> QED BY <1>0, <2>3, <3>1, <4>1 DEF OrderInv
    <3> QED BY <3>2, <3>3
  <2>4. phase' \notin Unstarted
    BY <1>0, <1>1 DEF PhaseInv
  <2> QED BY <2>1, <2>2, <2>3, <2>4 DEF OrderInv
<1>8. TerminalInv'
  <2>1. ASSUME NEW i \in 1..Len(wire'), wire'[i] \in Terminal
        PROVE  /\ phase' \in {"stop_publisher", "await_publisher"} \union Ended
               /\ wire'[i] = "failed" => failed'
    <3>1. CASE i \in 1..Len(wire)
      BY <1>0, <1>1, <1>5, <2>1, <3>1 DEF TerminalInv
    <3>2. CASE i \notin 1..Len(wire)
      <4>1. wire'[i] = bus[1] /\ 1 \in 1..Len(bus)
        BY <1>3, <1>5, <2>1, <3>2
      <4> QED BY <1>0, <1>1, <2>1, <4>1 DEF TerminalInv
    <3> QED BY <3>1, <3>2
  <2>2. ASSUME NEW i \in 1..Len(bus'), bus'[i] \in Terminal
        PROVE  /\ phase' \in {"stop_publisher", "await_publisher"} \union Ended
               /\ bus'[i] = "failed" => failed'
               /\ Len(bus') - i <= lateEvents'
    <3>1. i + 1 \in 1..Len(bus) /\ bus'[i] = bus[i + 1]
      BY <1>3, <2>2
    <3>2. /\ phase \in {"stop_publisher", "await_publisher"} \union Ended
          /\ bus[i + 1] = "failed" => failed
          /\ Len(bus) - (i + 1) <= lateEvents
      BY <1>0, <2>2, <3>1 DEF TerminalInv
    <3>3. Len(bus') - i = Len(bus) - (i + 1)
      BY <1>2, <1>3
    <3> QED BY <1>1, <3>1, <3>2, <3>3
  \* Sending moves the terminal event from the bus to the wire.
  <2>3. ASSUME NEW i \in 1..Len(bus), bus[i] \in Terminal
        PROVE  \/ \E j \in 1..Len(bus') : bus'[j] \in Terminal
               \/ \E j \in 1..Len(wire') : wire'[j] \in Terminal
    <3>1. CASE i = 1
      <4>1. bus[1] # "work"
        BY <2>3, <3>1 DEF Terminal
      <4> QED BY <1>5, <2>3, <3>1, <4>1
    <3>2. CASE i # 1
      <4>1. i - 1 \in 1..Len(bus') /\ (i - 1) + 1 = i
        BY <1>2, <1>3, <3>2
      <4> QED BY <1>3, <2>3, <4>1
    <3> QED BY <3>1, <3>2
  <2>4. ASSUME NEW i \in 1..Len(wire), wire[i] \in Terminal
        PROVE  \E j \in 1..Len(wire') : wire'[j] \in Terminal
    BY <1>5, <2>4
  <2>5. phase' \notin Ended /\ publisher' # "ok"
    BY <1>0, <1>1 DEF PhaseInv
  <2> QED BY <1>0, <1>1, <2>1, <2>2, <2>3, <2>4, <2>5 DEF TerminalInv, Terminal
<1>9. MainTypes' /\ TaskTypes' /\ PhaseInv'
  BY <1>0, <1>1 DEF MainTypes, TaskTypes, PhaseInv, Finished
<1>10. RequestTypes' /\ RequestInv'
  BY <1>1, RequestsKept
<1> QED BY <1>6, <1>7, <1>8, <1>9, <1>10, TypeParts DEF IInv

LEMMA PublisherFailsIInv ==
  ASSUME IInv, PublisherFails
  PROVE  IInv'
<1>0. /\ MainTypes /\ TaskTypes /\ EventTypes
      /\ PhaseInv /\ OrderInv /\ TerminalInv
  BY TypeParts DEF IInv
<1>1. /\ publisher \in {"running", "draining"} /\ publisher' = "err"
      /\ bus # <<>> /\ bus' = Tail(bus) /\ sockets' = sockets \ {"pub"}
      /\ UNCHANGED <<phase, requested, failed, result, tasks, cancelled, pubCancelled>>
      /\ UNCHANGED <<exitReq, exitBy, db, wire, lateEvents, reqs, sending>>
  BY DEF PublisherFails, mainVars
<1>2. bus \in Seq(Events) /\ Len(bus) \in Nat /\ Len(bus) <= BusCapacity
  BY <1>0 DEF EventTypes, Events
<1>3. /\ bus' \in Seq(Events) /\ Len(bus') = Len(bus) - 1 /\ Len(bus) \in Nat \ {0}
      /\ \A i \in 1..Len(bus') : i + 1 \in 1..Len(bus) /\ bus'[i] = bus[i + 1]
  BY <1>1, <1>2, HeadTail
<1>4. EventTypes'
  BY <1>0, <1>1, <1>2, <1>3, ServerAssumption DEF EventTypes, Events
<1>5. phase \notin Unstarted \union Ended
  BY <1>0, <1>1 DEF PhaseInv
<1>6. OrderInv'
  <2>1. ASSUME NEW i \in 1..Len(bus'), NEW j \in 1..Len(bus'), i < j,
               bus'[i] # "work", bus'[j] # "work"
        PROVE  Precedes(bus'[i], bus'[j])
    <3>1. i + 1 < j + 1
      BY <2>1
    <3> QED BY <1>0, <1>3, <2>1, <3>1 DEF OrderInv
  <2>2. ASSUME NEW i \in 1..Len(wire'), NEW j \in 1..Len(bus'), bus'[j] # "work"
        PROVE  Precedes(wire'[i], bus'[j])
    BY <1>0, <1>1, <1>3, <2>2 DEF OrderInv
  <2> QED BY <1>0, <1>1, <1>5, <2>1, <2>2 DEF OrderInv
<1>7. TerminalInv'
  <2>1. ASSUME NEW i \in 1..Len(bus'), bus'[i] \in Terminal
        PROVE  /\ phase' \in {"stop_publisher", "await_publisher"} \union Ended
               /\ bus'[i] = "failed" => failed'
               /\ Len(bus') - i <= lateEvents'
    <3>1. i + 1 \in 1..Len(bus) /\ bus'[i] = bus[i + 1]
      BY <1>3, <2>1
    <3>2. /\ phase \in {"stop_publisher", "await_publisher"} \union Ended
          /\ bus[i + 1] = "failed" => failed
          /\ Len(bus) - (i + 1) <= lateEvents
      BY <1>0, <2>1, <3>1 DEF TerminalInv
    <3>3. Len(bus') - i = Len(bus) - (i + 1)
      BY <1>2, <1>3
    <3> QED BY <1>1, <3>1, <3>2, <3>3
  <2> QED BY <1>0, <1>1, <1>5, <2>1 DEF TerminalInv, Terminal
<1>8. MainTypes' /\ TaskTypes' /\ PhaseInv'
  BY <1>0, <1>1, <1>5 DEF MainTypes, TaskTypes, PhaseInv, Finished
<1>9. RequestTypes' /\ RequestInv'
  BY <1>1, RequestsKept
<1> QED BY <1>4, <1>6, <1>7, <1>8, <1>9, TypeParts DEF IInv

LEMMA PublisherStopsIInv ==
  ASSUME IInv, PublisherStops
  PROVE  IInv'
<1>0. /\ MainTypes /\ TaskTypes /\ EventTypes
      /\ PhaseInv /\ OrderInv /\ TerminalInv
  BY TypeParts DEF IInv
<1>1. /\ publisher \in {"running", "draining"} /\ publisher' \in Finished
      /\ bus = <<>> /\ pubCancelled /\ sockets' = sockets \ {"pub"}
      /\ UNCHANGED <<phase, requested, failed, result, tasks, cancelled, pubCancelled>>
      /\ UNCHANGED <<exitReq, exitBy, db, bus, wire, lateEvents, reqs, sending>>
  BY DEF PublisherStops, mainVars
<1>2. phase = "await_publisher"
  BY <1>0, <1>1 DEF PhaseInv
<1>3. EventTypes' /\ OrderInv'
  BY <1>0, <1>1 DEF EventTypes, OrderInv
<1>4. \E i \in 1..Len(wire) : wire[i] \in Terminal
  BY <1>0, <1>1, <1>2 DEF TerminalInv
<1>5. TerminalInv'
  BY <1>0, <1>1, <1>2, <1>4 DEF TerminalInv, Finished, Ended
<1>6. MainTypes' /\ TaskTypes' /\ PhaseInv'
  BY <1>0, <1>1, <1>2 DEF MainTypes, TaskTypes, PhaseInv, Finished, Unstarted, Ended
<1>7. RequestTypes' /\ RequestInv'
  BY <1>1, RequestsKept
<1> QED BY <1>3, <1>5, <1>6, <1>7, TypeParts DEF IInv

-----------------------------------------------------------------------------
(* The main function.                                                      *)

LEMMA BindIInv ==
  ASSUME IInv, BindPublisher \/ BindFails
  PROVE  IInv'
<1>0. /\ MainTypes /\ TaskTypes /\ EventTypes
      /\ PhaseInv /\ OrderInv /\ TerminalInv
  BY TypeParts DEF IInv
<1>1. /\ phase \in {"bind_pub", "bind_router"}
      /\ \/ phase' = "bind_router" /\ sockets' = {"pub"} /\ failed' = failed
         \/ phase' = "unbound" /\ sockets' = {} /\ failed' = TRUE
      /\ UNCHANGED <<requested, result, tasks, publisher, cancelled, pubCancelled>>
      /\ UNCHANGED <<exitReq, exitBy, db, bus, wire, lateEvents, reqs, sending>>
  BY DEF BindPublisher, BindFails
<1>2. EventTypes' /\ OrderInv' /\ TerminalInv'
  BY <1>0, <1>1 DEF EventTypes, OrderInv, TerminalInv, Unstarted, Ended
<1>3. MainTypes' /\ TaskTypes'
  BY <1>0, <1>1 DEF MainTypes, TaskTypes
<1>4. PhaseInv'
  BY <1>0, <1>1, ServerAssumption DEF PhaseInv, Unstarted, Drained, Closed, Ended, MainTypes
<1>5. RequestTypes' /\ RequestInv'
  BY <1>1, RequestsKept
<1> QED BY <1>2, <1>3, <1>4, <1>5, TypeParts DEF IInv

LEMMA BindRouterAndStartIInv ==
  ASSUME IInv, BindRouterAndStart
  PROVE  IInv'
<1>0. /\ MainTypes /\ TaskTypes /\ EventTypes
      /\ PhaseInv /\ OrderInv /\ TerminalInv
  BY TypeParts DEF IInv
<1>1. /\ phase = "bind_router" /\ phase' = "serving" /\ sockets' = {"pub", "router"}
      /\ tasks' = [t \in Tasks |-> "running"] /\ publisher' = "running"
      /\ bus' = Publish(Publish(bus, "starting"), "ready")
      /\ UNCHANGED <<requested, failed, result, cancelled, pubCancelled, exitReq>>
      /\ UNCHANGED <<exitBy, db, wire, lateEvents, reqs, sending>>
  BY DEF BindRouterAndStart
<1>2. bus = <<>> /\ wire = <<>>
  BY <1>0, <1>1 DEF OrderInv, Unstarted
<1>3. Publish(bus, "starting") = <<"starting">>
  BY <1>2, ServerAssumption DEF Publish
<1>4. /\ bus' \in Seq(Events) /\ Len(bus') <= BusCapacity
      /\ \/ Len(bus') = 2 /\ bus'[1] = "starting" /\ bus'[2] = "ready"
         \/ Len(bus') = 1 /\ bus'[1] = "ready"
  <2>1. <<"starting">> \in Seq(Events) /\ Len(<<"starting">>) = 1 /\ <<"starting">>[1] = "starting"
    BY DEF Events, Lifecycle
  <2>2. bus' = Publish(<<"starting">>, "ready") /\ "ready" \in Events
    BY <1>1, <1>3 DEF Events, Lifecycle
  <2> DEFINE q == <<"starting">>
  <2> HIDE DEF q
  <2>3. PICK k \in {0, 1} :
            /\ bus' \in Seq(Events) /\ Len(bus') <= BusCapacity
            /\ Len(bus') = Len(q) + 1 - k /\ bus'[Len(q) + 1 - k] = "ready"
            /\ \A i \in 1..(Len(q) - k) : i + k \in 1..Len(q) /\ bus'[i] = q[i + k]
    <3>1. /\ q \in Seq(Events) /\ Len(q) <= BusCapacity /\ bus' = Publish(q, "ready")
          /\ "ready" \in Events
      BY <2>1, <2>2, ServerAssumption DEF q
    <3> QED BY <3>1, PublishFacts
  <2>4. CASE k = 0
    BY <2>1, <2>3, <2>4 DEF q
  <2>5. CASE k = 1
    BY <2>1, <2>3, <2>5 DEF q
  <2> QED BY <2>3, <2>4, <2>5
<1>5. EventTypes'
  BY <1>0, <1>1, <1>4 DEF EventTypes, Events
<1>6. OrderInv'
  BY <1>1, <1>2, <1>4 DEF OrderInv, Precedes, Unstarted
<1>7. TerminalInv'
  BY <1>1, <1>2, <1>4 DEF TerminalInv, Terminal, Ended
<1>8. MainTypes' /\ TaskTypes'
  BY <1>0, <1>1 DEF MainTypes, TaskTypes
<1>9. PhaseInv'
  BY <1>0, <1>1 DEF PhaseInv, Unstarted, Drained, Closed, Ended, Tasks
<1>10. RequestTypes' /\ RequestInv'
  <2>1. tasks'["router"] = "running"
    BY <1>1 DEF Tasks
  <2> QED BY <1>1, <2>1, RequestsKept
<1> QED BY <1>5, <1>6, <1>7, <1>8, <1>9, <1>10, TypeParts DEF IInv

LEMMA ObserveExitIInv ==
  ASSUME IInv, ObserveExit
  PROVE  IInv'
<1>0. /\ MainTypes /\ TaskTypes /\ RequestTypes /\ PhaseInv /\ RequestInv
  BY TypeParts DEF IInv
<1>1. /\ phase = "serving" /\ phase' = "drain" /\ exitReq # None /\ requested' = exitReq
      /\ cancelled' = TRUE
      /\ UNCHANGED <<failed, result, tasks, publisher, pubCancelled, sockets, exitReq>>
      /\ UNCHANGED <<exitBy, db, bus, wire, lateEvents, reqs, sending>>
  BY DEF ObserveExit
<1>2. MainTypes' /\ TaskTypes'
  BY <1>0, <1>1 DEF MainTypes, TaskTypes, RequestTypes
<1>3. RequestTypes' /\ RequestInv'
  BY <1>0, <1>1 DEF RequestTypes, RequestInv
<1>4. EventTypes' /\ OrderInv' /\ TerminalInv'
  BY <1>1, EventsKept DEF Unstarted, Ended
<1>5. PhaseInv'
  BY <1>0, <1>1, ServerAssumption
  DEF PhaseInv, Unstarted, Drained, Closed, Ended, RequestTypes, Exits
<1> QED BY <1>2, <1>3, <1>4, <1>5, TypeParts DEF IInv

LEMMA ObserveTaskIInv ==
  ASSUME IInv, NEW t \in Tasks, ObserveTask(t)
  PROVE  IInv'
<1>0. /\ MainTypes /\ TaskTypes /\ RequestTypes /\ PhaseInv /\ RequestInv
  BY TypeParts DEF IInv
<1>1. /\ phase = "serving" /\ phase' = "drain" /\ tasks[t] \in Finished
      /\ tasks' = [tasks EXCEPT ![t] = "joined"] /\ cancelled' = TRUE
      /\ \/ requested' = "shutdown" /\ failed' = failed
         \/ requested' = requested /\ failed' = TRUE
      /\ UNCHANGED <<result, publisher, pubCancelled, sockets, exitReq>>
      /\ UNCHANGED <<exitBy, db, bus, wire, lateEvents, reqs, sending>>
  BY DEF ObserveTask
<1>2. MainTypes' /\ TaskTypes'
  BY <1>0, <1>1 DEF MainTypes, TaskTypes, Exits
<1>3. tasks["router"] = "running" => tasks'["router"] = "running"
  BY <1>0, <1>1 DEF TaskTypes, Tasks, Finished
<1>4. RequestTypes' /\ RequestInv'
  BY <1>0, <1>1, <1>3 DEF RequestTypes, RequestInv, Exits
<1>5. EventTypes' /\ OrderInv' /\ TerminalInv'
  BY <1>0, <1>1, EventsKept DEF Unstarted, Ended, MainTypes
<1>6. PhaseInv'
  BY <1>0, <1>1, <1>3, ServerAssumption
  DEF PhaseInv, Unstarted, Drained, Closed, Ended, MainTypes, Exits
<1> QED BY <1>2, <1>4, <1>5, <1>6, TypeParts DEF IInv

LEMMA ObservePublisherIInv ==
  ASSUME IInv, ObservePublisher
  PROVE  IInv'
<1>0. /\ MainTypes /\ TaskTypes /\ PhaseInv
  BY TypeParts DEF IInv
<1>1. /\ phase = "serving" /\ phase' = "drain" /\ publisher \in Finished
      /\ publisher' = "joined" /\ failed' = TRUE /\ cancelled' = TRUE
      /\ UNCHANGED <<requested, result, tasks, pubCancelled, sockets, exitReq>>
      /\ UNCHANGED <<exitBy, db, bus, wire, lateEvents, reqs, sending>>
  BY DEF ObservePublisher
<1>2. MainTypes' /\ TaskTypes'
  BY <1>0, <1>1 DEF MainTypes, TaskTypes
<1>3. RequestTypes' /\ RequestInv'
  BY <1>1, RequestsKept
<1>4. EventTypes' /\ OrderInv' /\ TerminalInv'
  BY <1>1, EventsKept DEF Unstarted, Ended
<1>5. PhaseInv'
  BY <1>0, <1>1, ServerAssumption
  DEF PhaseInv, Unstarted, Drained, Closed, Ended, MainTypes, Finished, Exits
<1> QED BY <1>2, <1>3, <1>4, <1>5, TypeParts DEF IInv

LEMMA DrainJoinsIInv ==
  ASSUME IInv, NEW t \in Tasks, DrainJoins(t)
  PROVE  IInv'
<1>0. /\ MainTypes /\ TaskTypes /\ PhaseInv
  BY TypeParts DEF IInv
<1>1. /\ phase = "drain" /\ tasks[t] \in Finished
      /\ tasks' = [tasks EXCEPT ![t] = "joined"] /\ failed' = (failed \/ tasks[t] = "err")
      /\ UNCHANGED <<phase, requested, result, publisher, cancelled, pubCancelled, sockets>>
      /\ UNCHANGED <<exitReq, exitBy, db, bus, wire, lateEvents, reqs, sending>>
  BY DEF DrainJoins
<1>2. MainTypes' /\ TaskTypes' /\ (failed => failed')
  BY <1>0, <1>1 DEF MainTypes, TaskTypes
<1>3. tasks["router"] = "running" => tasks'["router"] = "running"
  BY <1>0, <1>1 DEF TaskTypes, Tasks, Finished
<1>4. RequestTypes' /\ RequestInv'
  BY <1>1, <1>2, <1>3, RequestsKept
<1>5. EventTypes' /\ OrderInv' /\ TerminalInv'
  BY <1>1, <1>2, EventsKept
<1>6. PhaseInv'
  BY <1>0, <1>1, <1>2, <1>3, ServerAssumption
  DEF PhaseInv, Unstarted, Drained, Closed, Ended, Exits
<1> QED BY <1>2, <1>4, <1>5, <1>6, TypeParts DEF IInv

LEMMA DrainDoneIInv ==
  ASSUME IInv, DrainDone \/ DrainTimeout
  PROVE  IInv'
<1>0. /\ MainTypes /\ TaskTypes /\ RequestTypes /\ PhaseInv /\ RequestInv
  BY TypeParts DEF IInv
<1>1. CASE DrainDone
  <2>1. /\ phase = "drain" /\ phase' = "db" /\ \A t \in Tasks : tasks[t] = "joined"
        /\ UNCHANGED <<requested, failed, result, tasks, publisher, cancelled, pubCancelled>>
        /\ UNCHANGED <<sockets, exitReq, exitBy, db, bus, wire, lateEvents, reqs, sending>>
    BY <1>1 DEF DrainDone, taskVars
  <2>2. MainTypes' /\ TaskTypes'
    BY <1>0, <2>1 DEF MainTypes, TaskTypes
  <2>3. RequestTypes' /\ RequestInv'
    BY <2>1, RequestsKept
  <2>4. EventTypes' /\ OrderInv' /\ TerminalInv'
    BY <2>1, EventsKept DEF Unstarted, Ended
  <2>5. PhaseInv'
    BY <1>0, <2>1, ServerAssumption DEF PhaseInv, Unstarted, Drained, Closed, Ended, Exits
  <2> QED BY <2>2, <2>3, <2>4, <2>5, TypeParts DEF IInv
<1>2. CASE DrainTimeout
  <2>1. /\ phase = "drain" /\ phase' = "db" /\ tasks' = [t \in Tasks |-> "joined"]
        /\ failed' = TRUE
        /\ UNCHANGED <<requested, result, publisher, cancelled, pubCancelled>>
        /\ UNCHANGED <<exitReq, exitBy, db, bus, wire, lateEvents>>
    BY <1>2 DEF DrainTimeout
  <2>2. /\ sockets' \subseteq sockets /\ "router" \notin sockets'
        /\ RequestTypes' /\ RequestInv'
    <3>1. CASE tasks["router"] = "running"
      <4>1. reqs' = AbortRequests("aborting") /\ sockets' = sockets \ {"router"}
            /\ sending' = None
        BY <1>2, <3>1 DEF DrainTimeout
      <4> QED BY <2>1, <4>1, RequestsAborted
    <3>2. CASE tasks["router"] # "running"
      <4>1. UNCHANGED <<reqs, sockets, sending>>
        BY <1>2, <3>2 DEF DrainTimeout
      <4>2. "router" \notin sockets
        BY <1>0, <3>2 DEF PhaseInv
      <4> QED BY <2>1, <3>2, <4>1, <4>2, RequestsKept
    <3> QED BY <3>1, <3>2
  <2>3. MainTypes' /\ TaskTypes'
    BY <1>0, <2>1, <2>2 DEF MainTypes, TaskTypes
  <2>4. EventTypes' /\ OrderInv' /\ TerminalInv'
    BY <2>1, EventsKept DEF Unstarted, Ended
  <2>5. PhaseInv'
    BY <1>0, <2>1, <2>2, ServerAssumption
    DEF PhaseInv, Unstarted, Drained, Closed, Ended, Exits
  <2> QED BY <2>2, <2>3, <2>4, <2>5, TypeParts DEF IInv
<1> QED BY <1>1, <1>2

LEMMA DbShutdownIInv ==
  ASSUME IInv, DbShutdown
  PROVE  IInv'
<1>0. /\ MainTypes /\ TaskTypes /\ EventTypes /\ PhaseInv /\ OrderInv /\ TerminalInv
  BY TypeParts DEF IInv
<1>1. /\ \/ phase = "db" /\ phase' = "terminal"
         \/ phase = "unbound" /\ phase' = "return"
      /\ \/ db' = "closed" /\ failed' = failed
         \/ db' \in {"closed", "stopping"} /\ failed' = TRUE
      /\ UNCHANGED <<requested, result, tasks, publisher, cancelled, pubCancelled>>
      /\ UNCHANGED <<sockets, exitReq, exitBy, bus, wire, lateEvents, reqs, sending>>
  BY DEF DbShutdown, taskVars
<1>2. MainTypes' /\ TaskTypes' /\ (failed => failed')
  <2>1. failed' \in BOOLEAN /\ (failed => failed')
    <3>1. failed' = failed \/ failed' = TRUE
      BY <1>1
    <3> QED BY <1>0, <3>1, Zenon DEF MainTypes
  <2>2. db' \in {"open", "stopping", "closed"} /\ phase' \in {"terminal", "return"}
    BY <1>1
  <2> QED BY <1>0, <1>1, <2>1, <2>2 DEF MainTypes, TaskTypes
<1>3. RequestTypes' /\ RequestInv'
  BY <1>1, <1>2, RequestsKept
<1>4. EventTypes' /\ OrderInv'
  BY <1>0, <1>1 DEF EventTypes, OrderInv, Unstarted
<1>5. TerminalInv'
  <2>1. CASE phase = "unbound"
    <3>1. bus = <<>> /\ wire = <<>> /\ publisher = "idle" /\ failed'
      BY <1>0, <1>2, <2>1 DEF OrderInv, PhaseInv, Unstarted
    <3> QED BY <1>1, <3>1 DEF TerminalInv
  <2>2. CASE phase = "db"
    BY <1>0, <1>1, <1>2, <2>2 DEF TerminalInv, Ended
  <2> QED BY <1>1, <2>1, <2>2
<1>6. PhaseInv'
  BY <1>0, <1>1, <1>2, ServerAssumption DEF PhaseInv, Unstarted, Drained, Closed, Ended, Exits
<1> QED BY <1>2, <1>3, <1>4, <1>5, <1>6, TypeParts DEF IInv

LEMMA PublishTerminalIInv ==
  ASSUME IInv, PublishTerminal
  PROVE  IInv'
<1>0. /\ MainTypes /\ TaskTypes /\ EventTypes /\ PhaseInv /\ OrderInv /\ TerminalInv
  BY TypeParts DEF IInv
<1> DEFINE died == publisher \in Finished
           event == IF failed \/ died THEN "failed" ELSE "stopping"
<1>1. /\ phase = "terminal" /\ phase' = "stop_publisher" /\ failed' = (failed \/ died)
      /\ publisher' = IF died THEN "joined" ELSE publisher
      /\ bus' = Publish(bus, event)
      /\ UNCHANGED <<requested, result, tasks, cancelled, pubCancelled, sockets>>
      /\ UNCHANGED <<exitReq, exitBy, db, wire, lateEvents, reqs, sending>>
  BY Zenon DEF PublishTerminal
<1>2. MainTypes' /\ TaskTypes' /\ (failed => failed') /\ (died => failed')
  BY <1>0, <1>1 DEF MainTypes, TaskTypes
<1>3. RequestTypes' /\ RequestInv'
  BY <1>1, <1>2, RequestsKept
<1>4. /\ event \in Events /\ event \in Terminal /\ (event = "failed" => failed')
      /\ bus \in Seq(Events) /\ Len(bus) \in Nat /\ Len(bus) <= BusCapacity
      /\ wire \in Seq(Lifecycle) /\ lateEvents \in Nat
  <2>1. event \in Events /\ event \in Terminal
    BY DEF Events, Lifecycle, Terminal
  <2>2. event = "failed" => failed'
    BY <1>2
  <2> QED BY <1>0, <2>1, <2>2 DEF EventTypes, Events
<1>5. /\ \A i \in 1..Len(bus) : bus[i] \notin Terminal
      /\ \A i \in 1..Len(wire) : wire[i] \notin Terminal
  BY <1>0, <1>1 DEF TerminalInv, Ended
<1> HIDE DEF event
<1>6. OrderInv' /\ bus' \in Seq(Events) /\ Len(bus') <= BusCapacity
  <2>1. \A i \in 1..Len(bus) : bus[i] # "work" => Precedes(bus[i], event)
    BY <1>4, <1>5 DEF Precedes, Terminal, Events, Lifecycle
  <2>2. \A i \in 1..Len(wire) : Precedes(wire[i], event)
    BY <1>4, <1>5 DEF Precedes, Terminal, Lifecycle
  <2> QED BY <1>0, <1>1, <1>4, <2>1, <2>2, PublishOrdered DEF Unstarted
<1>7. EventTypes'
  BY <1>0, <1>1, <1>6 DEF EventTypes, Events
<1>8. TerminalInv'
  <2>1. PICK k \in {0, 1} :
            /\ Len(bus') = Len(bus) + 1 - k
            /\ bus'[Len(bus) + 1 - k] = event
            /\ \A i \in 1..(Len(bus) - k) : i + k \in 1..Len(bus) /\ bus'[i] = bus[i + k]
            /\ k = 1 => Len(bus) = BusCapacity
    BY <1>1, <1>4, PublishFacts
  <2>2. Len(bus') \in 1..Len(bus') /\ bus'[Len(bus')] = event
    BY <1>4, <2>1, ServerAssumption
  <2>3. ASSUME NEW i \in 1..Len(bus'), bus'[i] \in Terminal
        PROVE  i = Len(bus')
    <3>1. SUFFICES ASSUME i # Len(bus') PROVE FALSE
      OBVIOUS
    <3>2. i \in 1..(Len(bus) - k)
      BY <1>4, <2>1, <3>1
    <3> QED BY <1>5, <2>1, <2>3, <3>2
  <2>4. ASSUME NEW i \in 1..Len(bus'), bus'[i] \in Terminal
        PROVE  (bus'[i] = "failed" => failed') /\ Len(bus') - i <= lateEvents'
    BY <1>1, <1>4, <2>1, <2>2, <2>3, <2>4
  <2>5. publisher' # "ok"
    BY <1>0, <1>1 DEF Finished
  <2> QED BY <1>1, <1>4, <1>5, <2>2, <2>4, <2>5 DEF TerminalInv, Terminal, Ended
<1>9. PhaseInv'
  <2>1. CASE died
    BY <1>0, <1>1, <1>2, <2>1, ServerAssumption
    DEF PhaseInv, Unstarted, Drained, Closed, Ended, Exits, Finished
  <2>2. CASE ~died
    BY <1>0, <1>1, <1>2, <2>2, ServerAssumption
    DEF PhaseInv, Unstarted, Drained, Closed, Ended, Exits, Finished, MainTypes
  <2> QED BY <2>1, <2>2
<1> QED BY <1>2, <1>3, <1>6, <1>7, <1>8, <1>9, TypeParts DEF IInv

LEMMA StopPublisherIInv ==
  ASSUME IInv, StopPublisher
  PROVE  IInv'
<1>0. /\ MainTypes /\ TaskTypes /\ EventTypes /\ PhaseInv /\ OrderInv /\ TerminalInv
  BY TypeParts DEF IInv
<1>1. /\ phase = "stop_publisher"
      /\ \/ publisher = "joined" /\ phase' = "return" /\ pubCancelled' = pubCancelled
         \/ publisher # "joined" /\ phase' = "await_publisher" /\ pubCancelled' = TRUE
      /\ UNCHANGED <<requested, failed, result, tasks, publisher, cancelled, sockets>>
      /\ UNCHANGED <<exitReq, exitBy, db, bus, wire, lateEvents, reqs, sending>>
  BY DEF StopPublisher
<1>2. MainTypes' /\ TaskTypes'
  BY <1>0, <1>1 DEF MainTypes, TaskTypes
<1>3. RequestTypes' /\ RequestInv'
  BY <1>1, RequestsKept
<1>4. EventTypes' /\ OrderInv'
  BY <1>0, <1>1 DEF EventTypes, OrderInv, Unstarted
<1>5. TerminalInv'
  BY <1>0, <1>1 DEF TerminalInv, Ended, PhaseInv
<1>6. PhaseInv'
  BY <1>0, <1>1, ServerAssumption DEF PhaseInv, Unstarted, Drained, Closed, Ended, Exits
<1> QED BY <1>2, <1>3, <1>4, <1>5, <1>6, TypeParts DEF IInv

LEMMA AwaitPublisherIInv ==
  ASSUME IInv, AwaitPublisher
  PROVE  IInv'
<1>0. /\ MainTypes /\ TaskTypes /\ EventTypes /\ PhaseInv /\ OrderInv /\ TerminalInv
  BY TypeParts DEF IInv
<1>1. /\ phase = "await_publisher" /\ phase' = "return" /\ publisher' = "joined"
      /\ failed' = (failed \/ publisher # "ok") /\ sockets' = sockets \ {"pub"}
      /\ UNCHANGED <<requested, result, tasks, cancelled, pubCancelled>>
      /\ UNCHANGED <<exitReq, exitBy, db, bus, wire, lateEvents, reqs, sending>>
  BY DEF AwaitPublisher
<1>2. /\ MainTypes' /\ TaskTypes'
      /\ (failed => failed') /\ (~failed' => publisher = "ok" /\ ~failed)
  BY <1>0, <1>1 DEF MainTypes, TaskTypes
<1>3. RequestTypes' /\ RequestInv'
  BY <1>1, <1>2, RequestsKept
<1>4. EventTypes' /\ OrderInv'
  BY <1>0, <1>1 DEF EventTypes, OrderInv, Unstarted
<1>5. TerminalInv'
  BY <1>0, <1>1, <1>2 DEF TerminalInv, Ended
<1>6. PhaseInv'
  BY <1>0, <1>1, <1>2, ServerAssumption DEF PhaseInv, Unstarted, Drained, Closed, Ended, Exits
<1> QED BY <1>2, <1>3, <1>4, <1>5, <1>6, TypeParts DEF IInv

LEMMA ReturnIInv ==
  ASSUME IInv, Return
  PROVE  IInv'
<1>0. /\ MainTypes /\ TaskTypes /\ EventTypes /\ PhaseInv /\ OrderInv /\ TerminalInv
  BY TypeParts DEF IInv
<1>1. /\ phase = "return" /\ phase' = "done"
      /\ result' = IF failed THEN "error" ELSE IF requested = None THEN "shutdown" ELSE requested
      /\ UNCHANGED <<requested, failed, tasks, publisher, cancelled, pubCancelled, sockets>>
      /\ UNCHANGED <<exitReq, exitBy, db, bus, wire, lateEvents, reqs, sending>>
  BY DEF Return, taskVars
\* Without a failure something asked for the exit that is returned.
<1>2. IF failed THEN result' = "error" ELSE result' = requested /\ requested \in Exits
  BY <1>0, <1>1, ServerAssumption DEF PhaseInv
<1>3. MainTypes' /\ TaskTypes'
  BY <1>0, <1>1, <1>2 DEF MainTypes, TaskTypes
<1>4. RequestTypes' /\ RequestInv'
  BY <1>1, RequestsKept
<1>5. EventTypes' /\ OrderInv' /\ TerminalInv'
  BY <1>0, <1>1 DEF EventTypes, OrderInv, TerminalInv, Unstarted, Ended
<1>6. PhaseInv'
  BY <1>0, <1>1, <1>2, ServerAssumption DEF PhaseInv, Unstarted, Drained, Closed, Ended, Exits
<1> QED BY <1>3, <1>4, <1>5, <1>6, TypeParts DEF IInv

-----------------------------------------------------------------------------
LEMMA NextIInv == IInv /\ [Next]_vars => IInv'
<1> SUFFICES ASSUME IInv, [Next]_vars PROVE IInv'
  OBVIOUS
<1>1. CASE Main
  BY <1>1, BindIInv, BindRouterAndStartIInv, ObserveExitIInv, ObservePublisherIInv,
     ObserveTaskIInv, DrainJoinsIInv, DrainDoneIInv, DbShutdownIInv, PublishTerminalIInv,
     StopPublisherIInv, AwaitPublisherIInv, ReturnIInv
  DEF Main
<1>2. CASE Router
  BY <1>2, RouterJoinsIInv, RouterReceivesIInv, SendBackIInv, RouterStopsIInv DEF Router
<1>3. CASE Publisher
  BY <1>3, PublisherSendsIInv, PublisherFailsIInv, PublisherStopsIInv DEF Publisher
<1>4. CASE Environment
  BY <1>4, RequestDoneIInv, RequestLostIInv, TaskEndsIInv, WorkPublishesIInv,
     PostCommitRestartIInv
  DEF Environment
<1>5. CASE UNCHANGED vars
  <2>1. /\ UNCHANGED <<mainVars, taskVars, db, bus, wire, lateEvents>>
        /\ UNCHANGED <<reqs, sending, exitReq, exitBy, requested, failed, tasks>>
    BY <1>5 DEF vars, mainVars, taskVars
  <2> QED BY <2>1, RequestFrame, RequestsKept, TypeParts DEF IInv
<1> QED BY <1>1, <1>2, <1>3, <1>4, <1>5 DEF Next, Terminated

\* The inductive invariant holds in every reachable state of the server.
THEOREM ServerInvariant == Spec => []IInv
<1>1. Init => IInv
  BY InitIInv
<1>2. IInv /\ [Next]_vars => IInv'
  BY NextIInv
<1> QED BY <1>1, <1>2, PTL DEF Spec

\* run_router and EngineControl::request_exit: the engine leaves only for an
\* accepted and sent reply to an authorised request, a post-commit restart or a
\* signal, and returns what was asked for.
THEOREM ExitsAreWarranted == Spec => []ExitIsWarranted
<1>1. IInv => ExitIsWarranted
  <2> SUFFICES ASSUME IInv PROVE ExitIsWarranted
    OBVIOUS
  <2>1. exitBy \in Requests =>
          /\ reqs[exitBy].st = "answered"
          /\ AcceptedExit(reqs[exitBy].msg, reqs[exitBy].resp) = exitReq
          /\ reqs[exitBy].msg.signed /\ reqs[exitBy].msg.schema
          /\ exitReq = "shutdown" => OwnerAuthorized(reqs[exitBy].msg)
    BY DEF IInv, RequestInv, AcceptedExit, Exits
  <2>2. /\ exitBy = "post_commit" => exitReq = "restart"
        /\ requested = "restart" => exitReq = "restart"
        /\ result \in Exits => result = requested
    BY DEF IInv, RequestInv, PhaseInv
  <2> QED BY <2>1, <2>2 DEF ExitIsWarranted
<1> QED BY <1>1, ServerInvariant, PTL

\* run_bound_engine_sockets: bounded_db_shutdown begins once the work is over,
\* and a clean return leaves no socket, publisher or half-aborted request.
THEOREM DatabaseClosesLast == Spec => []DbClosesAfterWork
<1>1. IInv => DbClosesAfterWork
  <2> SUFFICES ASSUME IInv PROVE DbClosesAfterWork
    OBVIOUS
  <2>0. PhaseInv /\ RequestInv /\ MainTypes /\ TaskTypes
    BY TypeParts DEF IInv
  <2>1. db # "open" => phase \in Drained /\ \A t \in Tasks : tasks[t] \in {"idle", "joined"}
    BY <2>0 DEF PhaseInv, Closed
  <2>2. db # "open" => InState("running") \union InState("done") \union InState("sending") = {}
    <3>1. db # "open" => tasks["router"] # "running"
      BY <2>1 DEF Tasks
    <3> QED BY <2>0, <3>1 DEF RequestInv, InState, InFlight
  <2>3. ASSUME result # None PROVE sockets = {} /\ publisher \in {"idle", "joined"}
    <3>1. phase = "done" /\ publisher \in {"idle", "joined"} /\ tasks["router"] # "running"
      BY <2>0, <2>3 DEF PhaseInv, Ended, Drained, Tasks
    <3> QED BY <2>0, <3>1 DEF PhaseInv, TaskTypes
  <2>4. ASSUME result \in Exits PROVE db = "closed" /\ InState("aborting") = {}
    <3>1. ~failed /\ phase = "done"
      BY <2>0, <2>4, ServerAssumption DEF PhaseInv
    <3>2. db \in {"stopping", "closed"}
      BY <2>0, <3>1 DEF PhaseInv, Closed, Drained, MainTypes
    <3> QED BY <2>0, <3>1, <3>2 DEF PhaseInv, RequestInv, InState
  <2> QED BY <2>1, <2>2, <2>3, <2>4 DEF DbClosesAfterWork
<1> QED BY <1>1, ServerInvariant, PTL

\* publish_event, run_publisher_loop and drain_publisher: subscribers see the
\* lifecycle in order, and a clean return means they were sent "stopping" last.
THEOREM LifecycleReachesTheWire == Spec => []TerminalEventSent
<1>1. IInv => TerminalEventSent
  <2> SUFFICES ASSUME IInv PROVE TerminalEventSent
    OBVIOUS
  <2>0. PhaseInv /\ OrderInv /\ TerminalInv /\ EventTypes
    BY TypeParts DEF IInv
  <2>1. ASSUME NEW i \in 1..Len(wire), NEW j \in 1..Len(wire), i < j
        PROVE  wire[i] # wire[j] /\ wire[i] \notin {"stopping", "failed"}
               /\ wire[j] # "starting"
    <3>1. Precedes(wire[i], wire[j])
      BY <2>0, <2>1 DEF OrderInv
    <3> QED BY <3>1 DEF Precedes
  <2>2. ASSUME result \in Exits PROVE wire # <<>> /\ wire[Len(wire)] = "stopping"
    <3>1. ~failed /\ phase \in Ended
      BY <2>0, <2>2, ServerAssumption DEF PhaseInv, Ended
    <3>2. PICK i \in 1..Len(wire) : wire[i] \in Terminal
      BY <2>0, <3>1 DEF TerminalInv
    <3>3. wire[i] = "stopping"
      BY <2>0, <3>1, <3>2 DEF TerminalInv, Terminal
    <3>4. Len(wire) \in Nat
      BY <2>0 DEF EventTypes
    <3>5. i = Len(wire)
      <4>1. SUFFICES ASSUME i < Len(wire) PROVE FALSE
        BY <3>2, <3>4
      <4>2. Len(wire) \in 1..Len(wire)
        BY <3>2, <3>4
      <4> QED BY <2>1, <3>3, <4>1, <4>2
    <3> QED BY <3>2, <3>3, <3>5
  <2> QED BY <2>1, <2>2 DEF TerminalEventSent
<1> QED BY <1>1, ServerInvariant, PTL
-----------------------------------------------------------------------------
(* The database actor.                                                     *)

LEMMA InitActorInv == ActorInit => ActorInv
<1> SUFFICES ASSUME ActorInit PROVE ActorInv
  OBVIOUS
<1>1. ActorTypeOK
  <2>1. queue \in Seq(Commands) /\ Len(queue) <= QueueCap
    BY ActorAssumption DEF ActorInit
  <2>2. handles \in 0..MaxHandles
    BY ActorAssumption DEF ActorInit
  <2>3. waiters \in Seq(Callers)
    BY DEF ActorInit
  <2>4. /\ pc \in [Callers -> {"new", "done", "abandoned"} \cup Inside]
        /\ \A c \in Commands : pc[c] = "sending" <=> gate = c
    BY ActorAssumption DEF ActorInit, Callers
  <2> QED BY <2>1, <2>2, <2>3, <2>4, ActorAssumption DEF ActorInit, ActorTypeOK, Rank
<1>2. SentInv
  BY DEF ActorInit, SentInv, Callers
<1>3. EndInv
  BY ActorAssumption DEF ActorInit, EndInv
<1> QED BY <1>1, <1>2, <1>3 DEF ActorInv

\* A caller's or handle's step leaves the worker's state alone.
LEMMA HandleIInv ==
  ASSUME ActorInv, CloneHandle \/ DropHandle
  PROVE  ActorInv'
<1> USE ActorAssumption DEF ActorInv
<1>1. ActorTypeOK'
  <2>1. handles' \in 0..MaxHandles
    BY DEF ActorTypeOK, CloneHandle, DropHandle
  <2>2. actorPhase' \in DOMAIN Rank /\ tx' \in BOOLEAN
    BY DEF ActorTypeOK, CloneHandle, DropHandle, CloseSender, MarkClosing, Rank
  <2>3. UNCHANGED <<gate, waiters, queue, worker, current, poison, outcome, lease,
                    terminal, pc, reply>>
    BY DEF CloneHandle, DropHandle
  <2> QED BY <2>1, <2>2, <2>3 DEF ActorTypeOK
<1>2. SentInv'
  BY DEF SentInv, CloneHandle, DropHandle, Sent
<1>3. EndInv'
  BY DEF EndInv, CloneHandle, DropHandle, CloseSender, MarkClosing
<1> QED BY <1>1, <1>2, <1>3

\* Queueing for the gate, taking it and leaving the queue keep the queue one of callers.
LEMMA WaitersType ==
  ASSUME ActorTypeOK, NEW c \in Callers, Call(c) \/ TakesGate(c) \/ CancelCaller(c)
  PROVE  waiters' \in Seq(Callers)
<1>1. waiters \in Seq(Callers)
  BY DEF ActorTypeOK
<1>2. CASE Call(c)
  BY <1>1, <1>2 DEF Call
<1>3. CASE TakesGate(c)
  BY <1>1, <1>3 DEF TakesGate
<1>4. CASE CancelCaller(c) /\ waiters' # waiters
  <2>1. PICK i \in DOMAIN waiters : waiters' = RemoveAt(waiters, i)
    BY <1>4 DEF CancelCaller
  <2>2. /\ SubSeq(waiters, 1, i - 1) \in Seq(Callers)
        /\ SubSeq(waiters, i + 1, Len(waiters)) \in Seq(Callers)
    BY <1>1
  <2> QED BY <2>1, <2>2 DEF RemoveAt
<1> QED BY <1>1, <1>2, <1>3, <1>4

\* A caller that queues changes nothing but its place.
LEMMA CallIInv ==
  ASSUME ActorInv, NEW c \in Callers, Call(c)
  PROVE  ActorInv'
<1> USE DEF ActorInv
<1>1. ActorTypeOK'
  <2>1. pc' \in [Callers -> {"new", "done", "abandoned"} \cup Inside]
    BY DEF ActorTypeOK, Call, Inside
  <2>2. \A d \in Commands : pc'[d] = "sending" <=> gate' = d
    BY DEF ActorTypeOK, Call, Callers
  <2> QED BY <2>1, <2>2, WaitersType DEF ActorTypeOK, Call
<1>2. SentInv'
  BY DEF ActorTypeOK, SentInv, Call, Sent, Callers
<1>3. EndInv'
  BY DEF EndInv, Call
<1> QED BY <1>1, <1>2, <1>3

LEMMA CommandIInv ==
  ASSUME ActorInv, NEW c \in Commands, EnterGate(c) \/ Send(c) \/ TakeReply(c)
  PROVE  ActorInv'
<1> USE ActorAssumption DEF ActorInv
<1>1. ActorTypeOK'
  <2>1. CASE EnterGate(c)
    <3>1. waiters' \in Seq(Callers)
      BY <2>1, WaitersType DEF EnterGate, Callers
    <3>2. pc' \in [Callers -> {"new", "done", "abandoned"} \cup Inside]
      BY <2>1 DEF ActorTypeOK, EnterGate, Callers, Inside
    <3>3. gate' \in Commands \cup {Unset}
          /\ \A d \in Commands : pc'[d] = "sending" <=> gate' = d
      BY <2>1 DEF ActorTypeOK, EnterGate, TakesGate, Callers
    <3> QED BY <2>1, <3>1, <3>2, <3>3 DEF ActorTypeOK, EnterGate
  <2>2. CASE Send(c)
    <3>1. queue' \in Seq(Commands) /\ Len(queue') <= QueueCap
      BY <2>2 DEF ActorTypeOK, Send, HasRoom, ReceiverGone
    <3>2. pc' \in [Callers -> {"new", "done", "abandoned"} \cup Inside]
      BY <2>2 DEF ActorTypeOK, Send, HasRoom, ReceiverGone, Callers, Inside
    <3>3. \A d \in Commands : pc'[d] = "sending" <=> gate' = d
      BY <2>2 DEF ActorTypeOK, Send, HasRoom, ReceiverGone, Callers
    <3>4. actorPhase' \in DOMAIN Rank /\ tx' \in BOOLEAN
      BY <2>2 DEF ActorTypeOK, Send, HasRoom, ReceiverGone, CloseSender, MarkClosing, Rank
    <3> QED BY <2>2, <3>1, <3>2, <3>3, <3>4 DEF ActorTypeOK, Send, HasRoom, ReceiverGone
  <2>3. CASE TakeReply(c)
    BY <2>3 DEF ActorTypeOK, TakeReply, Rank, Callers, Inside
  <2> QED BY <2>1, <2>2, <2>3
<1>2. SentInv'
  <2>1. CASE EnterGate(c)
    BY <2>1 DEF ActorTypeOK, SentInv, EnterGate, TakesGate, Sent, Callers
  <2>2. CASE Send(c)
    <3>1. CASE queue' = queue
      BY <2>2, <3>1 DEF ActorTypeOK, SentInv, Send, ReceiverGone, Sent, Callers
    <3>2. CASE queue' = Append(queue, c)
      <4>1. Sent' = Sent \cup {c}
        BY <3>2 DEF ActorTypeOK, Sent
      <4> QED BY <2>2, <4>1 DEF ActorTypeOK, SentInv, Send, ReceiverGone, Callers
    <3> QED BY <2>2, <3>1, <3>2 DEF Send, HasRoom, ReceiverGone
  <2>3. CASE TakeReply(c)
    BY <2>3 DEF ActorTypeOK, SentInv, TakeReply, Sent, Callers
  <2> QED BY <2>1, <2>2, <2>3
<1>3. EndInv'
  BY DEF EndInv, EnterGate, TakesGate, Send, ReceiverGone, TakeReply, CloseSender, MarkClosing
<1> QED BY <1>1, <1>2, <1>3

LEMMA ShutdownIInv ==
  ASSUME ActorInv, NEW s \in Shutdowns, BeginShutdown(s) \/ EndShutdown(s)
  PROVE  ActorInv'
<1> USE ActorAssumption DEF ActorInv
<1>1. ActorTypeOK'
  <2>1. actorPhase' \in DOMAIN Rank /\ tx' \in BOOLEAN
    BY DEF ActorTypeOK, BeginShutdown, EndShutdown, CloseSender, MarkClosing, Rank
  <2>2. pc' \in [Callers -> {"new", "done", "abandoned"} \cup Inside]
    BY DEF ActorTypeOK, BeginShutdown, EndShutdown, Callers, Inside
  <2>3. \A c \in Commands : pc'[c] = pc[c]
    BY DEF ActorTypeOK, BeginShutdown, EndShutdown, Callers
  <2>4. UNCHANGED <<handles, gate, queue, worker, current, poison, outcome, lease,
                    terminal, reply>>
    BY DEF BeginShutdown, EndShutdown
  <2>5. waiters' \in Seq(Callers)
    BY WaitersType DEF ActorTypeOK, BeginShutdown, EndShutdown, Callers
  <2> QED BY <2>1, <2>2, <2>3, <2>4, <2>5 DEF ActorTypeOK
<1>2. SentInv'
  BY DEF ActorTypeOK, SentInv, BeginShutdown, EndShutdown, Sent, Callers
<1>3. EndInv'
  BY DEF EndInv, BeginShutdown, EndShutdown, CloseSender, MarkClosing
<1> QED BY <1>1, <1>2, <1>3

LEMMA CancelIInv ==
  ASSUME ActorInv, NEW c \in Callers, CancelCaller(c)
  PROVE  ActorInv'
<1> USE ActorAssumption DEF ActorInv
<1>1. ActorTypeOK'
  <2>1. waiters' \in Seq(Callers)
    BY WaitersType
  <2>2. pc' \in [Callers -> {"new", "done", "abandoned"} \cup Inside]
    BY DEF ActorTypeOK, CancelCaller, Inside
  <2>3. gate' \in Commands \cup {Unset}
        /\ \A d \in Commands : pc'[d] = "sending" <=> gate' = d
    BY DEF ActorTypeOK, CancelCaller, GateLeftBy, Callers
  <2> QED BY <2>1, <2>2, <2>3 DEF ActorTypeOK, CancelCaller
<1>2. SentInv'
  BY DEF ActorTypeOK, SentInv, CancelCaller, Sent, Callers, Inside
<1>3. EndInv'
  BY DEF EndInv, CancelCaller
<1> QED BY <1>1, <1>2, <1>3

\* Taking the head of the channel keeps every other sent command in it.
LEMMA TakeIInv ==
  ASSUME ActorInv, WorkerTake
  PROVE  ActorInv'
<1> USE ActorAssumption DEF ActorInv, WorkerTake
<1>0. /\ Head(queue) \in Commands /\ queue' \in Seq(Commands)
      /\ Len(queue') <= QueueCap /\ Sent = Sent' \cup {Head(queue)}
  <2>1. Len(queue) > 0 /\ queue' = Tail(queue) /\ Len(queue') = Len(queue) - 1
    BY DEF ActorTypeOK
  <2>2. Head(queue) = queue[1] /\ \A i \in 1..Len(queue') : queue'[i] = queue[i + 1]
    BY <2>1 DEF ActorTypeOK
  <2>3. \A i \in 1..Len(queue) :
            i = 1 \/ (i - 1 \in 1..Len(queue') /\ queue'[i - 1] = queue[i])
    BY <2>1, <2>2 DEF ActorTypeOK
  <2>4. Sent = Sent' \cup {Head(queue)}
    <3> HIDE DEF WorkerTake, ActorInv
    <3>1. queue \in Seq(Commands)
      BY DEF ActorInv, ActorTypeOK
    <3>2. ASSUME NEW c \in Sent PROVE c \in Sent' \cup {Head(queue)}
      <4>1. PICK i \in 1..Len(queue) : queue[i] = c
        BY DEF Sent
      <4> QED BY <2>2, <2>3, <4>1 DEF Sent
    <3>3. Head(queue) \in Sent
      BY <2>1, <2>2, <3>1 DEF Sent
    <3>4. ASSUME NEW c \in Sent' PROVE c \in Sent
      <4>1. PICK i \in 1..Len(queue') : queue'[i] = c
        BY DEF Sent
      <4>2. i + 1 \in 1..Len(queue)
        BY <2>1, <3>1
      <4> QED BY <2>2, <4>1, <4>2 DEF Sent
    <3> QED BY <3>2, <3>3, <3>4
  <2> QED BY <2>1, <2>4 DEF ActorTypeOK
<1>1. ActorTypeOK'
  BY <1>0 DEF ActorTypeOK
<1>2. SentInv'
  BY <1>0 DEF ActorTypeOK, SentInv, EndInv
<1>3. EndInv'
  BY <1>0 DEF ActorTypeOK, EndInv
<1> QED BY <1>1, <1>2, <1>3

LEMMA WorkerIInv ==
  ASSUME ActorInv, WorkerReply \/ WorkerFailBundle \/ WorkerPoison \/ WorkerFinish
               \/ WorkerPanic \/ DropLease
  PROVE  ActorInv'
<1> USE ActorAssumption DEF ActorInv
<1>1. ActorTypeOK'
  <2>1. reply' \in [Commands -> {Unset, "answered", "rejected", "dropped"}]
    BY DEF ActorTypeOK, WorkerReply, WorkerFailBundle, WorkerPoison, WorkerFinish,
           WorkerPanic, DropLease
  <2>2. queue' \in Seq(Commands) /\ Len(queue') <= QueueCap
    <3>1. queue' = queue \/ queue' = << >>
      BY DEF WorkerReply, WorkerFailBundle, WorkerPoison, WorkerFinish, WorkerPanic,
             DropLease
    <3>2. CASE queue' = << >>
      BY <3>2
    <3>3. CASE queue' = queue
      BY <3>3 DEF ActorTypeOK
    <3> QED BY <3>1, <3>2, <3>3
  <2>3. actorPhase' \in DOMAIN Rank /\ outcome' \in {Unset, "success", "failure"}
    BY DEF ActorTypeOK, WorkerReply, WorkerFailBundle, WorkerPoison, PhaseAfterPoison,
           WorkerFinish, WorkerPanic, DropLease, Rank
  <2>4. /\ worker' \in {"recv", "exec", "poisoning", "ended"}
        /\ current' \in Commands \cup {Unset}
        /\ poison' \in BOOLEAN /\ lease' \in BOOLEAN
    BY DEF ActorTypeOK, WorkerReply, WorkerFailBundle, WorkerPoison, WorkerFinish,
           WorkerPanic, DropLease
  <2>5. UNCHANGED <<tx, handles, gate, waiters, terminal, pc>>
    BY DEF WorkerReply, WorkerFailBundle, WorkerPoison, WorkerFinish, WorkerPanic,
           DropLease
  <2> QED BY <2>1, <2>2, <2>3, <2>4, <2>5 DEF ActorTypeOK
<1>2. SentInv'
  <2>1. CASE WorkerReply \/ WorkerFailBundle
    BY <2>1 DEF ActorTypeOK, SentInv, EndInv, WorkerReply, WorkerFailBundle, Sent
  <2>2. CASE WorkerPoison \/ WorkerFinish \/ DropLease
    BY <2>2 DEF SentInv, WorkerPoison, WorkerFinish, DropLease, Sent
  <2>3. CASE WorkerPanic
    BY <2>3 DEF ActorTypeOK, SentInv, WorkerPanic
  <2> QED BY <2>1, <2>2, <2>3
<1>3. EndInv'
  BY DEF ActorTypeOK, EndInv, WorkerReply, WorkerFailBundle, WorkerPoison, PhaseAfterPoison,
         WorkerFinish, Disconnected, WorkerPanic, DropLease, LeaseOver
<1> QED BY <1>1, <1>2, <1>3

LEMMA ReapIInv ==
  ASSUME ActorInv, Reap
  PROVE  ActorInv'
<1> USE ActorAssumption DEF ActorInv, Reap, ReapPhase, Joined, ReapTerminal
<1>1. ActorTypeOK'
  BY DEF ActorTypeOK, EndInv, Rank
<1>2. SentInv'
  BY DEF SentInv, Sent
<1>3. EndInv'
  BY DEF EndInv
<1> QED BY <1>1, <1>2, <1>3

LEMMA NextActorInv == ActorInv /\ [ActorNext]_actorVars => ActorInv'
<1> SUFFICES ASSUME ActorInv, [ActorNext]_actorVars PROVE ActorInv'
  OBVIOUS
<1>1. CASE UNCHANGED actorVars
  BY <1>1 DEF actorVars, ActorInv, ActorTypeOK, SentInv, EndInv, Sent
<1>2. CASE CloneHandle \/ DropHandle
  BY <1>2, HandleIInv
<1>3. CASE \E c \in Commands : EnterGate(c) \/ Send(c) \/ TakeReply(c)
  BY <1>3, CommandIInv
<1>4. CASE \E s \in Shutdowns : BeginShutdown(s) \/ EndShutdown(s)
  BY <1>4, ShutdownIInv
<1>5. CASE \E c \in Callers : Call(c) \/ CancelCaller(c)
  BY <1>5, CallIInv, CancelIInv
<1>6. CASE WorkerStep \/ WorkerFailBundle \/ WorkerPanic
  BY <1>6, TakeIInv, WorkerIInv DEF WorkerStep
<1>7. CASE Reap
  BY <1>7, ReapIInv
<1> QED
  BY <1>1, <1>2, <1>3, <1>4, <1>5, <1>6, <1>7 DEF ActorNext, CallerStep, ActorEnded

\* The inductive invariant of the actor holds in every reachable state.
THEOREM InvariantHolds == ActorSpec => []ActorInv
<1> QED BY InitActorInv, NextActorInv, PTL DEF ActorSpec

\* Type correctness: the channel respects its capacity and the gate its owner.
THEOREM TypeCorrect == ActorSpec => []ActorTypeOK
<1>1. ActorInv => ActorTypeOK
  BY DEF ActorInv
<1> QED BY <1>1, InvariantHolds, PTL

\* Every command that entered the channel has been answered when the worker ends,
\* also when its caller was cancelled; only a panic drops one.
THEOREM NothingForgotten == ActorSpec => []NoCommandForgotten
<1>1. ActorInv => NoCommandForgotten
  <2> SUFFICES ASSUME ActorInv, worker = "ended", NEW c \in Commands
               PROVE  /\ pc[c] \in {"awaiting", "abandoned"} => reply[c] # Unset
                      /\ outcome = "success" => reply[c] # "dropped"
    BY DEF NoCommandForgotten
  <2>1. queue = << >> /\ current = Unset
    BY DEF ActorInv, EndInv
  <2>2. Sent = {}
    BY <2>1 DEF Sent
  <2> QED BY <2>1, <2>2, ActorAssumption DEF ActorInv, SentInv, EndInv
<1> QED BY <1>1, InvariantHolds, PTL

\* The database lock is held as long as any command runs or waits.
THEOREM LeaseOutlivesWork == ActorSpec => []LeaseCoversWork
<1>1. ActorInv => LeaseCoversWork
  BY DEF ActorInv, EndInv, LeaseCoversWork
<1> QED BY <1>1, InvariantHolds, PTL

\* A published outcome, hence a returned shutdown(), means a released lease.
THEOREM OutcomeMeansReleased == ActorSpec => []ShutdownMeansReleased
<1>1. ActorInv => ShutdownMeansReleased
  BY DEF ActorInv, EndInv, ShutdownMeansReleased
<1> QED BY <1>1, InvariantHolds, PTL

\* The phase only advances, whichever of poison, close and reap come together.
THEOREM PhaseAdvances == ActorSpec => PhaseOnlyAdvances
<1>1. ActorInv /\ [ActorNext]_actorVars => [Rank[actorPhase'] >= Rank[actorPhase]]_actorPhase
  <2> SUFFICES ASSUME ActorInv, ActorNext, actorPhase' # actorPhase
               PROVE  Rank[actorPhase'] >= Rank[actorPhase]
    BY DEF actorVars
  <2>0. ActorNext /\ actorPhase' # actorPhase
    OBVIOUS
  <2>1. \/ actorPhase = "Open" /\ actorPhase' = "Poisoned"
        \/ actorPhase \in {"Open", "Poisoned"} /\ actorPhase' = "Closing"
        \/ actorPhase' = "Closed"
    <3>1. actorPhase \in {"Open", "Poisoned", "Closing", "Closed"}
      BY DEF ActorInv, ActorTypeOK, Rank
    <3>2. CASE CloseSender \/ ReapPhase \/ WorkerPoison
      BY <2>0, <3>1, <3>2 DEF CloseSender, MarkClosing, ReapPhase,
                            WorkerPoison, PhaseAfterPoison
    <3>3. CASE CloneHandle \/ DropHandle
      BY <2>0, <3>2, <3>3 DEF CloneHandle, DropHandle
    <3>4. ASSUME NEW c \in Callers,
                 Call(c) \/ EnterGate(c) \/ Send(c) \/ TakeReply(c)
                 \/ BeginShutdown(c) \/ EndShutdown(c) \/ CancelCaller(c)
          PROVE  CloseSender
      BY <2>0, <3>4 DEF Call, EnterGate, Send, TakeReply, BeginShutdown, EndShutdown, CancelCaller
    <3>5. CASE WorkerTake \/ WorkerReply \/ WorkerFinish \/ DropLease \/ WorkerFailBundle
               \/ WorkerPanic \/ ReapTerminal \/ ActorEnded
      BY <2>0, <3>5 DEF WorkerTake, WorkerReply, WorkerFinish, DropLease, WorkerFailBundle,
                        WorkerPanic, ReapTerminal, ActorEnded, actorVars
    <3>6. CASE \E c \in Callers : Call(c) \/ CallerStep(c) \/ CancelCaller(c)
      BY <3>2, <3>4, <3>6 DEF CallerStep
    <3>7. CASE WorkerStep
      BY <3>2, <3>5, <3>7 DEF WorkerStep
    <3>8. CASE Reap
      BY <3>2, <3>5, <3>8 DEF Reap
    <3>9. CASE WorkerFailBundle \/ WorkerPanic \/ ActorEnded
      BY <3>5, <3>9
    <3> QED BY <2>0, <3>2, <3>3, <3>6, <3>7, <3>8, <3>9 DEF ActorNext
  <2>2. actorPhase \in {"Open", "Poisoned", "Closing", "Closed"}
    BY DEF ActorInv, ActorTypeOK, Rank
  <2> QED BY <2>1, <2>2 DEF Rank
<1> QED BY <1>1, InvariantHolds, PTL DEF ActorSpec, PhaseOnlyAdvances
=============================================================================
