------------------------ MODULE ClientSession_proofs ------------------------
(***************************************************************************)
(* For any set of calls and closers and any outbox capacity: a call only   *)
(* ever returns its own response, a waiting call always has somebody who   *)
(* will answer it, and a close that returned left nothing running.         *)
(***************************************************************************)
EXTENDS ClientSession, TLAPS

\* The replies a oneshot may hold, told apart by their kind.
LEMMA ReplyFacts ==
  /\ Empty \in Replies /\ [kind |-> "abandoned"] \in Replies
  /\ \A c \in Calls : Response(c) \in Replies /\ Response(c) # Empty
                      /\ Response(c).kind = "response" /\ Response(c).to = c
  /\ \A why \in Failures : Failed(why) \in Replies /\ Failed(why) # Empty
                           /\ Failed(why).kind = "failed"
  /\ \A r \in Replies : r.kind # "response" \/ r.to \in Calls
<1>1. Empty.kind = "empty" /\ Empty \in Replies /\ [kind |-> "abandoned"] \in Replies
  BY DEF Empty, Replies
<1>2. ASSUME NEW c \in Calls
      PROVE  Response(c) \in Replies /\ Response(c) # Empty
             /\ Response(c).kind = "response" /\ Response(c).to = c
  BY DEF Empty, Replies, Response
<1>3. ASSUME NEW why \in Failures
      PROVE  Failed(why) \in Replies /\ Failed(why) # Empty
             /\ Failed(why).kind = "failed"
  BY DEF Empty, Replies, Failed
<1>4. ASSUME NEW r \in Replies PROVE r.kind # "response" \/ r.to \in Calls
  BY DEF Replies
<1> QED BY <1>1, <1>2, <1>3, <1>4

\* The record of a call, built from and taken apart into its fields.
LEMMA CallStateFacts ==
  /\ \A at \in {"idle", "sending", "waiting", "returned"}, id \in Nat \union {None},
        r \in Replies : [at |-> at, id |-> id, result |-> r] \in CallStates
  /\ \A s \in CallStates : /\ s.at \in {"idle", "sending", "waiting", "returned"}
                           /\ s.id \in Nat \union {None} /\ s.result \in Replies
                           /\ s = [at |-> s.at, id |-> s.id, result |-> s.result]
BY DEF CallStates

\* The type invariant in three parts, so that a step cites the part it can disturb.
CallTypes ==
    /\ nextId \in Nat
    /\ call \in [Calls -> CallStates]
    /\ slot \in [Calls -> Replies]
    /\ DOMAIN entries \subseteq Nat /\ \A id \in DOMAIN entries : entries[id] \in Calls
QueueTypes ==
    /\ terminal \in Failures \union {None}
    /\ failing \subseteq Calls /\ failer \in Closers \union {"supervisor", None}
    /\ outbox \in Seq(Calls) /\ Len(outbox) <= OutboxCapacity
    /\ network \subseteq [dir : {"request", "response"}, from : Calls, valid : BOOLEAN]
SessionTypes ==
    /\ task \in [SessionTasks -> {"running", "ended", "joined"}]
    /\ supervisor \in {"select", "fail", "abort", "ended"}
    /\ shutdown \in BOOLEAN /\ done \in BOOLEAN
    /\ closer \in [Closers -> {"idle", "fail_all", "waiting", "returned"}]

LEMMA TypeParts == /\ TypeOK <=> CallTypes /\ QueueTypes /\ SessionTypes
                   /\ TypeOK' <=> CallTypes' /\ QueueTypes' /\ SessionTypes'
BY DEF TypeOK, CallTypes, QueueTypes, SessionTypes

LEMMA InitIInv == Init => IInv
<1> SUFFICES ASSUME Init PROVE IInv
  OBVIOUS
<1>1. TypeOK
  <2>1. CallTypes
    <3>1. call \in [Calls -> CallStates] /\ slot \in [Calls -> Replies]
      BY ReplyFacts, CallStateFacts DEF Init
    <3> QED BY <3>1 DEF Init, CallTypes
  <2>2. QueueTypes
    BY SessionAssumption DEF Init, QueueTypes
  <2>3. SessionTypes
    BY DEF Init, SessionTypes, SessionTasks
  <2> QED BY <2>1, <2>2, <2>3, TypeParts
<1>2. IdInv /\ OwnResponse
  BY SessionAssumption DEF Init, IdInv, OwnResponse, Empty
<1>3. WaiterReachable
  BY DEF Init, WaiterReachable, Live
<1>4. FailureInv
  BY SessionAssumption DEF Init, FailureInv, FailAllReturned
<1> QED BY <1>1, <1>2, <1>3, <1>4 DEF IInv

\* The updates of one call, pointwise.
LEMMA CallMoves ==
  ASSUME CallTypes, NEW c \in Calls,
         NEW at \in {"idle", "sending", "waiting", "returned"},
         call' = [call EXCEPT ![c].at = at]
  PROVE  /\ call' \in [Calls -> CallStates]
         /\ call'[c].at = at /\ call'[c].id = call[c].id /\ call'[c].result = call[c].result
         /\ \A d \in Calls : d # c => call'[d] = call[d]
BY DEF CallTypes, CallStates

LEMMA CallStarts ==
  ASSUME CallTypes, NEW c \in Calls, NEW id \in Nat,
         call' = [call EXCEPT ![c].at = "sending", ![c].id = id]
  PROVE  /\ call' \in [Calls -> CallStates]
         /\ call'[c].at = "sending" /\ call'[c].id = id /\ call'[c].result = call[c].result
         /\ \A d \in Calls : d # c => call'[d] = call[d]
BY DEF CallTypes, CallStates

LEMMA CallReturns ==
  ASSUME CallTypes, NEW c \in Calls, NEW r \in Replies,
         call' = [call EXCEPT ![c].at = "returned", ![c].result = r]
  PROVE  /\ call' \in [Calls -> CallStates]
         /\ call'[c].at = "returned" /\ call'[c].id = call[c].id /\ call'[c].result = r
         /\ \A d \in Calls : d # c => call'[d] = call[d]
BY DEF CallTypes, CallStates

-----------------------------------------------------------------------------
(* The steps of a call.                                                    *)

LEMMA RegisterIInv ==
  ASSUME IInv, NEW c \in Calls, Register(c)
  PROVE  IInv'
<1>0. CallTypes /\ QueueTypes /\ SessionTypes
  BY TypeParts DEF IInv
<1>1. /\ call[c].at = "idle" /\ nextId \notin DOMAIN entries /\ nextId' = nextId + 1
      /\ call[c] \in CallStates
      /\ UNCHANGED <<slot, terminal, failing, failer, outbox, network, task, supervisor,
                     shutdown, done, closer>>
  BY <1>0 DEF Register, CorrelationId, CallTypes
<1>2. QueueTypes' /\ SessionTypes' /\ FailureInv'
  BY <1>0, <1>1 DEF QueueTypes, SessionTypes, FailureInv, FailAllReturned, IInv
<1>3. CASE terminal # None
  <2>1. Failed(terminal) \in Replies /\ Failed(terminal).kind = "failed"
    BY <1>0, <1>3, ReplyFacts DEF QueueTypes
  <2>2. call' = [call EXCEPT ![c].at = "returned", ![c].result = Failed(terminal)]
    BY <1>3 DEF Register
  <2>3. /\ call' \in [Calls -> CallStates]
        /\ call'[c].at = "returned" /\ call'[c].id = call[c].id
        /\ call'[c].result = Failed(terminal)
        /\ \A d \in Calls : d # c => call'[d] = call[d]
    BY <1>0, <2>1, <2>2, CallReturns
  <2>4. entries' = entries
    BY <1>3 DEF Register
  <2>5. CallTypes'
    BY <1>0, <1>1, <2>3, <2>4 DEF CallTypes
  <2>6. IdInv'
    <3>1. \A d \in Calls : call'[d].id = call[d].id /\ (call[d].id # None => call[d].id \in Nat)
      BY <1>0, <2>3, CallStateFacts DEF CallTypes
    <3>2. nextId \in Nat /\ nextId' = nextId + 1 /\ slot' = slot /\ IdInv
      BY <1>0, <1>1 DEF CallTypes, IInv
    <3>3. ASSUME NEW d \in Calls, call'[d].id # None PROVE call'[d].id < nextId'
      BY <3>1, <3>2, <3>3 DEF IdInv
    <3> QED BY <3>1, <3>2, <3>3 DEF IdInv
  <2>7. OwnResponse'
    BY <2>1, <2>3 DEF OwnResponse, IInv
  <2>8. WaiterReachable'
    BY <1>0, <1>1, <2>3, <2>4 DEF WaiterReachable, Live, CallTypes, IInv
  <2> QED BY <1>2, <2>5, <2>6, <2>7, <2>8, TypeParts DEF IInv
<1>4. CASE terminal = None
  <2>1. nextId \in Nat /\ call' = [call EXCEPT ![c].at = "sending", ![c].id = nextId]
    BY <1>0, <1>4 DEF Register, CallTypes, CorrelationId
  <2>2. /\ call' \in [Calls -> CallStates]
        /\ call'[c].at = "sending" /\ call'[c].id = nextId
        /\ call'[c].result = call[c].result
        /\ \A d \in Calls : d # c => call'[d] = call[d]
    BY <1>0, <2>1, CallStarts
  <2>3. /\ DOMAIN entries' = DOMAIN entries \union {nextId} /\ entries'[nextId] = c
        /\ \A id \in DOMAIN entries : entries'[id] = entries[id]
    BY <1>1, <1>4 DEF Register, CorrelationId
  <2>4. CallTypes'
    BY <1>0, <1>1, <2>2, <2>3 DEF CallTypes
  <2>5. IdInv'
    <3>1. \A d \in Calls : call[d].id # None => call[d].id \in Nat /\ call[d].id < nextId
      BY <1>0, CallStateFacts DEF CallTypes, IdInv, IInv
    <3>2. ASSUME NEW d \in Calls, call'[d].id # None PROVE call'[d].id < nextId'
      <4>1. nextId \in Nat /\ nextId' = nextId + 1
        BY <1>0, <1>1 DEF CallTypes
      <4>2. CASE d = c
        BY <2>2, <4>1, <4>2
      <4>3. CASE d # c
        BY <2>2, <3>1, <3>2, <4>1, <4>3
      <4> QED BY <4>2, <4>3
    <3>3. ASSUME NEW d \in Calls, NEW e \in Calls, call'[d].id # None, call'[d].id = call'[e].id
          PROVE  d = e
      BY <1>0, <2>2, <3>1, <3>3 DEF CallTypes, IdInv, IInv
    <3>4. slot' = slot /\ IdInv
      BY <1>1 DEF IInv
    <3> QED BY <3>2, <3>3, <3>4 DEF IdInv
  <2>6. OwnResponse'
    BY <2>2 DEF OwnResponse, IInv
  <2>7. WaiterReachable'
    <3>1. \A id \in DOMAIN entries : entries[id] \in Calls /\ entries[id] # c
      BY <1>0, <1>1 DEF CallTypes, WaiterReachable, Live, IInv
    <3>2. Live(c)' /\ \A d \in Calls : d # c => Live(d)' = Live(d)
      BY <2>2 DEF Live
    <3>3. \A d \in Calls : Live(d)' /\ slot'[d] = Empty =>
             \/ d \in failing'
             \/ terminal' = None /\ \E id \in DOMAIN entries' : entries'[id] = d
      BY <1>1, <1>4, <2>3, <3>2 DEF WaiterReachable, IInv
    <3>4. ASSUME NEW id \in DOMAIN entries'
          PROVE  (Live(entries[id]) /\ call[entries[id]].id = id)'
      <4>1. CASE id = nextId
        BY <2>2, <2>3, <3>2, <4>1
      <4>2. CASE id # nextId
        <5>1. entries'[id] = entries[id] /\ entries[id] \in Calls /\ entries[id] # c
              /\ Live(entries[id]) /\ call[entries[id]].id = id
          BY <2>3, <3>1, <3>4, <4>2 DEF WaiterReachable, IInv
        <5> QED BY <2>2, <5>1 DEF Live
      <4> QED BY <4>1, <4>2
    <3> QED BY <3>3, <3>4 DEF WaiterReachable
  <2> QED BY <1>2, <2>4, <2>5, <2>6, <2>7, TypeParts DEF IInv
<1> QED BY <1>3, <1>4

LEMMA EnqueueIInv ==
  ASSUME IInv, NEW c \in Calls, Enqueue(c)
  PROVE  IInv'
<1>0. CallTypes /\ QueueTypes /\ SessionTypes
  BY TypeParts DEF IInv
<1>1. /\ call[c].at = "sending" /\ call[c] \in CallStates
      /\ outbox' = Append(outbox, c) /\ Len(outbox) < OutboxCapacity
      /\ UNCHANGED <<nextId, slot, entries, terminal, failing, failer, network, task,
                     supervisor, shutdown, done, closer>>
  BY <1>0 DEF Enqueue, CallTypes, registry
<1>2. call' = [call EXCEPT ![c].at = "waiting"]
  BY DEF Enqueue
<1>3. /\ call' \in [Calls -> CallStates]
      /\ call'[c].at = "waiting" /\ call'[c].id = call[c].id
      /\ call'[c].result = call[c].result
      /\ \A d \in Calls : d # c => call'[d] = call[d]
  BY <1>0, <1>2, CallMoves
<1>4. CallTypes' /\ SessionTypes'
  BY <1>0, <1>1, <1>3 DEF CallTypes, SessionTypes
<1>5. QueueTypes'
  BY <1>0, <1>1, SessionAssumption DEF QueueTypes
<1>6. \A d \in Calls : /\ call'[d].id = call[d].id /\ call'[d].result = call[d].result
                       /\ Live(d)' = Live(d)
  BY <1>1, <1>3 DEF Live
<1>7. IdInv' /\ OwnResponse'
  BY <1>1, <1>6 DEF IdInv, OwnResponse, IInv
<1>8. WaiterReachable' /\ FailureInv'
  BY <1>0, <1>1, <1>6 DEF WaiterReachable, FailureInv, FailAllReturned, CallTypes, IInv
<1> QED BY <1>4, <1>5, <1>7, <1>8, TypeParts DEF IInv

\* What ending a call does, for a result that is not somebody else's response.
LEMMA FinishIInv ==
  ASSUME IInv, NEW c \in Calls, NEW r \in Replies, Finish(c, r),
         r.kind = "response" => r.to = c
  PROVE  IInv'
<1>0. CallTypes /\ QueueTypes /\ SessionTypes
  BY TypeParts DEF IInv
<1>1. UNCHANGED <<nextId, terminal, failing, failer, outbox, network, task, supervisor,
                  shutdown, done, closer>>
  BY DEF Finish
<1>2. /\ call' \in [Calls -> CallStates]
      /\ call'[c].at = "returned" /\ call'[c].id = call[c].id /\ call'[c].result = r
      /\ \A d \in Calls : d # c => call'[d] = call[d]
  BY <1>0, CallReturns DEF Finish
<1>3. /\ slot' \in [Calls -> Replies] /\ slot'[c] = Empty /\ Empty.kind # "response"
      /\ \A d \in Calls : d # c => slot'[d] = slot[d]
  BY <1>0, ReplyFacts DEF Finish, CallTypes, Empty
<1>4. /\ DOMAIN entries' \subseteq DOMAIN entries
      /\ \A id \in DOMAIN entries' : entries'[id] = entries[id] /\ entries[id] # c
      /\ \A id \in DOMAIN entries : entries[id] # c => id \in DOMAIN entries'
  BY DEF Finish, DropLease, Without, WaiterReachable, IInv
<1>5. CallTypes' /\ QueueTypes' /\ SessionTypes' /\ FailureInv'
  BY <1>0, <1>1, <1>2, <1>3, <1>4
  DEF CallTypes, QueueTypes, SessionTypes, FailureInv, FailAllReturned, IInv
<1>6. IdInv' /\ OwnResponse'
  <2>1. \A d \in Calls : call'[d].id = call[d].id
    BY <1>2
  <2> QED BY <1>1, <1>2, <1>3, <2>1 DEF IdInv, OwnResponse, IInv
<1>7. WaiterReachable'
  <2>1. ~Live(c)' /\ \A d \in Calls : d # c => Live(d)' = Live(d) /\ call'[d].id = call[d].id
    BY <1>2 DEF Live
  <2>2. \A d \in Calls : Live(d)' /\ slot'[d] = Empty =>
           \/ d \in failing'
           \/ terminal' = None /\ \E id \in DOMAIN entries' : entries'[id] = d
    BY <1>1, <1>3, <1>4, <2>1 DEF WaiterReachable, IInv
  <2>3. ASSUME NEW id \in DOMAIN entries'
        PROVE  (Live(entries[id]) /\ call[entries[id]].id = id)'
    <3>1. /\ entries'[id] = entries[id] /\ entries[id] \in Calls /\ entries[id] # c
          /\ Live(entries[id]) /\ call[entries[id]].id = id
      BY <1>0, <1>4, <2>3 DEF CallTypes, WaiterReachable, IInv
    <3> QED BY <1>2, <3>1 DEF Live
  <2> QED BY <2>2, <2>3 DEF WaiterReachable
<1> QED BY <1>5, <1>6, <1>7, TypeParts DEF IInv

LEMMA CallEndsIInv ==
  ASSUME IInv, NEW c \in Calls, EnqueueFails(c) \/ Receive(c) \/ Abandon(c)
  PROVE  IInv'
<1>1. CASE EnqueueFails(c)
  BY <1>1, ReplyFacts, FinishIInv DEF EnqueueFails, Failures
<1>2. CASE Receive(c)
  <2>1. slot[c] \in Replies /\ (slot[c].kind = "response" => slot[c].to = c)
    BY TypeParts DEF CallTypes, IdInv, IInv
  <2> QED BY <1>2, <2>1, FinishIInv DEF Receive
<1>3. CASE Abandon(c)
  <2>1. [kind |-> "abandoned"].kind # "response"
    OBVIOUS
  <2> QED BY <1>3, <2>1, ReplyFacts, FinishIInv DEF Abandon
<1> QED BY <1>1, <1>2, <1>3

-----------------------------------------------------------------------------
(* The session tasks.                                                      *)

LEMMA SendIInv ==
  ASSUME IInv, Send
  PROVE  IInv'
<1>0. CallTypes /\ QueueTypes /\ SessionTypes
  BY TypeParts DEF IInv
<1>1. /\ UNCHANGED <<nextId, call, slot, entries, terminal, failing, failer, task, supervisor,
                     shutdown, done, closer>>
      /\ outbox # <<>> /\ outbox' = Tail(outbox)
      /\ network' = network \union {[dir |-> "request", from |-> Head(outbox), valid |-> TRUE]}
  BY DEF Send, registry
<1>2. QueueTypes'
  <2>1. Head(outbox) \in Calls /\ outbox' \in Seq(Calls) /\ Len(outbox') <= OutboxCapacity
    BY <1>0, <1>1, SessionAssumption DEF QueueTypes
  <2>2. [dir |-> "request", from |-> Head(outbox), valid |-> TRUE]
          \in [dir : {"request", "response"}, from : Calls, valid : BOOLEAN]
    BY <2>1, Zenon
  <2>3. network' \subseteq [dir : {"request", "response"}, from : Calls, valid : BOOLEAN]
    BY <1>0, <1>1, <2>2, Zenon DEF QueueTypes
  <2> QED BY <1>0, <1>1, <2>1, <2>3 DEF QueueTypes
<1>3. CallTypes' /\ SessionTypes' /\ FailureInv'
  BY <1>0, <1>1 DEF CallTypes, SessionTypes, FailureInv, FailAllReturned, IInv
<1>4. IdInv' /\ OwnResponse' /\ WaiterReachable'
  BY <1>1 DEF IdInv, OwnResponse, WaiterReachable, Live, IInv
<1> QED BY <1>2, <1>3, <1>4, TypeParts DEF IInv

LEMMA AnswerIInv ==
  ASSUME IInv, NEW m \in network, Answer(m)
  PROVE  IInv'
<1>0. CallTypes /\ QueueTypes /\ SessionTypes
  BY TypeParts DEF IInv
<1>1. UNCHANGED <<nextId, call, slot, entries, terminal, failing, failer, outbox, task,
                  supervisor, shutdown, done, closer>>
  BY DEF Answer, registry
<1>2. QueueTypes'
  <2>1. PICK ok \in BOOLEAN :
          network' = (network \ {m}) \union {[dir |-> "response", from |-> m.from, valid |-> ok]}
    BY DEF Answer
  <2>2. m.from \in Calls
    BY <1>0 DEF QueueTypes
  <2>3. [dir |-> "response", from |-> m.from, valid |-> ok]
          \in [dir : {"request", "response"}, from : Calls, valid : BOOLEAN]
    BY <2>1, <2>2, Zenon
  <2>4. network' \subseteq [dir : {"request", "response"}, from : Calls, valid : BOOLEAN]
    BY <1>0, <2>1, <2>3, Zenon DEF QueueTypes
  <2> QED BY <1>0, <1>1, <2>4 DEF QueueTypes
<1>3. CallTypes' /\ SessionTypes' /\ FailureInv'
  BY <1>0, <1>1 DEF CallTypes, SessionTypes, FailureInv, FailAllReturned, IInv
<1>4. IdInv' /\ OwnResponse' /\ WaiterReachable'
  BY <1>1 DEF IdInv, OwnResponse, WaiterReachable, Live, IInv
<1> QED BY <1>2, <1>3, <1>4, TypeParts DEF IInv

LEMMA TaskEndsIInv ==
  ASSUME IInv, NEW t \in SessionTasks, TaskEnds(t)
  PROVE  IInv'
<1>0. CallTypes /\ QueueTypes /\ SessionTypes
  BY TypeParts DEF IInv
<1>1. UNCHANGED <<nextId, call, slot, entries, terminal, failing, failer, outbox, network,
                  supervisor, shutdown, done, closer>>
  BY DEF TaskEnds, registry
<1>2. SessionTypes'
  BY <1>0, <1>1 DEF SessionTypes, TaskEnds
<1>3. CallTypes' /\ QueueTypes'
  BY <1>0, <1>1 DEF CallTypes, QueueTypes
<1>4. IdInv' /\ OwnResponse' /\ WaiterReachable'
  BY <1>1 DEF IdInv, OwnResponse, WaiterReachable, Live, IInv
<1>5. FailureInv'
  BY <1>0, <1>1 DEF FailureInv, FailAllReturned, SessionTypes, TaskEnds, IInv
<1> QED BY <1>2, <1>3, <1>4, <1>5, TypeParts DEF IInv

LEMMA ReceiveResponseIInv ==
  ASSUME IInv, NEW m \in network, ReceiveResponse(m)
  PROVE  IInv'
<1>0. CallTypes /\ QueueTypes /\ SessionTypes
  BY TypeParts DEF IInv
<1>1. /\ UNCHANGED <<nextId, call, terminal, failing, failer, outbox, supervisor, shutdown,
                     done, closer>>
      /\ m.from \in Calls
  BY <1>0 DEF ReceiveResponse, QueueTypes
<1>2. QueueTypes'
  BY <1>0, <1>1 DEF QueueTypes, ReceiveResponse
<1>3. \/ task' = task
      \/ task' = [task EXCEPT !["rpc_receive"] = "ended"] /\ task["rpc_receive"] = "running"
  BY DEF ReceiveResponse
<1>4. SessionTypes' /\ FailureInv'
  BY <1>0, <1>1, <1>3
  DEF SessionTypes, SessionTasks, FailureInv, FailAllReturned, IInv
<1>5. CASE UNCHANGED <<entries, slot>>
  BY <1>0, <1>1, <1>2, <1>4, <1>5, TypeParts
  DEF CallTypes, IdInv, OwnResponse, WaiterReachable, Live, IInv
<1>6. CASE ~UNCHANGED <<entries, slot>>
  \* The entry of the response's id is the entry of the call that sent the request.
  <2>1. PICK id \in Addressee(call[m.from].id) :
           /\ entries' = Without(entries, id)
           /\ slot' = [slot EXCEPT ![entries[id]] = Response(m.from)]
    BY <1>6 DEF ReceiveResponse
  <2>2. id \in DOMAIN entries /\ id = call[m.from].id /\ entries[id] = m.from
    <3>1. id \in DOMAIN entries /\ id = call[m.from].id
      BY <2>1 DEF Addressee
    <3>2. id \in Nat /\ entries[id] \in Calls /\ call[entries[id]].id = id
      BY <1>0, <3>1 DEF CallTypes, WaiterReachable, IInv
    <3>3. id # None
      BY <3>2, SessionAssumption
    <3> QED BY <1>1, <3>1, <3>2, <3>3 DEF IdInv, IInv
  <2>3. /\ DOMAIN entries' = DOMAIN entries \ {id}
        /\ \A x \in DOMAIN entries' : entries'[x] = entries[x]
    BY <2>1 DEF Without
  <2>4. /\ slot' \in [Calls -> Replies] /\ slot'[m.from] = Response(m.from)
        /\ \A d \in Calls : d # m.from => slot'[d] = slot[d]
    BY <1>0, <1>1, <2>1, <2>2, ReplyFacts DEF CallTypes
  <2>5. CallTypes'
    BY <1>0, <1>1, <2>3, <2>4 DEF CallTypes
  <2>6. IdInv' /\ OwnResponse'
    BY <1>1, <2>4, ReplyFacts DEF IdInv, OwnResponse, IInv
  <2>7. WaiterReachable'
    <3>1. \A d \in Calls : Live(d)' = Live(d) /\ call'[d].id = call[d].id
      BY <1>1 DEF Live
    <3>2. ASSUME NEW d \in Calls, Live(d)', slot'[d] = Empty
          PROVE  \/ d \in failing'
                 \/ terminal' = None /\ \E x \in DOMAIN entries' : entries'[x] = d
      <4>1. d # m.from /\ slot[d] = Empty /\ Live(d)
        BY <1>1, <2>4, <3>1, <3>2, ReplyFacts
      <4>2. \A x \in DOMAIN entries : entries[x] = d => x # id
        BY <2>2, <4>1
      <4> QED BY <1>1, <2>3, <4>1, <4>2 DEF WaiterReachable, IInv
    <3>3. ASSUME NEW x \in DOMAIN entries'
          PROVE  (Live(entries[x]) /\ call[entries[x]].id = x)'
      BY <1>1, <2>3, <3>3 DEF WaiterReachable, Live, IInv
    <3> QED BY <3>2, <3>3 DEF WaiterReachable
  <2> QED BY <1>2, <1>4, <2>5, <2>6, <2>7, TypeParts DEF IInv
<1> QED BY <1>5, <1>6

-----------------------------------------------------------------------------
(* Ending the session.                                                     *)

\* The critical section of fail_all keeps everything about the calls.
LEMMA FailAllKeeps ==
  ASSUME IInv, NEW why \in Failures, NEW by \in Closers \union {"supervisor"},
         FailAll(why, by), UNCHANGED <<nextId, call, slot, outbox, network>>
  PROVE  /\ CallTypes' /\ QueueTypes' /\ IdInv' /\ OwnResponse' /\ WaiterReachable'
         /\ terminal' # None
         /\ failing' # {} => failer' # None
         /\ terminal # None => UNCHANGED <<terminal, failing, failer>>
<1>0. CallTypes /\ QueueTypes
  BY TypeParts DEF IInv
<1>1. CASE terminal # None
  BY <1>0, <1>1 DEF FailAll, registry, CallTypes, QueueTypes, IdInv, OwnResponse,
                    WaiterReachable, Live, IInv, FailureInv
<1>2. CASE terminal = None
  <2>1. /\ terminal' = why /\ failer' = by /\ entries' = <<>>
        /\ failing' = {entries[id] : id \in DOMAIN entries}
    BY <1>2 DEF FailAll
  <2>2. DOMAIN entries' = {} /\ failing = {} /\ why # None /\ by # None
    <3>1. DOMAIN entries' = {} /\ failing = {} /\ why # None
      BY <1>2, <2>1, SessionAssumption DEF FailureInv, IInv
    <3>2. by # None
      BY SessionAssumption
    <3> QED BY <3>1, <3>2
  <2>3. CallTypes'
    BY <1>0, <2>2 DEF CallTypes
  <2>4. QueueTypes'
    BY <1>0, <2>1 DEF CallTypes, QueueTypes
  <2>5. IdInv' /\ OwnResponse'
    BY DEF IdInv, OwnResponse, IInv
  <2>6. WaiterReachable'
    BY <2>1, <2>2 DEF WaiterReachable, Live, IInv
  <2> QED BY <2>1, <2>2, <2>3, <2>4, <2>5, <2>6, <1>2
<1> QED BY <1>1, <1>2

LEMMA FailOneIInv ==
  ASSUME IInv, NEW c \in Calls, FailOne(c)
  PROVE  IInv'
<1>0. CallTypes /\ QueueTypes /\ SessionTypes
  BY TypeParts DEF IInv
<1>1. /\ UNCHANGED <<nextId, call, entries, terminal, failer, outbox, network, task,
                     supervisor, shutdown, done, closer>>
      /\ c \in failing /\ failing' = failing \ {c}
  BY DEF FailOne
<1>2. terminal \in Failures
  BY <1>0, <1>1 DEF QueueTypes, FailureInv, IInv
<1>3. /\ slot' \in [Calls -> Replies]
      /\ \A d \in Calls : d # c => slot'[d] = slot[d]
      /\ slot'[c] = slot[c] \/ slot'[c].kind = "failed"
      /\ Live(c) => slot'[c] # Empty
  BY <1>0, <1>2, ReplyFacts DEF FailOne, CallTypes
<1>4. CallTypes' /\ QueueTypes' /\ SessionTypes' /\ FailureInv'
  BY <1>0, <1>1, <1>3
  DEF CallTypes, QueueTypes, SessionTypes, FailureInv, FailAllReturned, IInv
<1>5. IdInv' /\ OwnResponse'
  <2>1. \A d \in Calls : slot'[d].kind = "response" => slot'[d] = slot[d]
    BY <1>3
  <2> QED BY <1>1, <2>1 DEF IdInv, OwnResponse, IInv
<1>6. WaiterReachable'
  <2>1. \A d \in Calls : Live(d)' = Live(d)
    BY <1>1 DEF Live
  <2>2. \A d \in Calls : Live(d)' /\ slot'[d] = Empty =>
           \/ d \in failing'
           \/ terminal' = None /\ \E id \in DOMAIN entries' : entries'[id] = d
    BY <1>1, <1>3, <2>1 DEF WaiterReachable, IInv
  <2> QED BY <1>1, <2>2 DEF WaiterReachable, Live, IInv
<1> QED BY <1>4, <1>5, <1>6, TypeParts DEF IInv

LEMMA SupervisorIInv ==
  ASSUME IInv, SupervisorSelects \/ SupervisorFailed \/ SupervisorCompletes
                 \/ \E t \in SessionTasks : SupervisorJoins(t)
  PROVE  IInv'
<1>0. CallTypes /\ QueueTypes /\ SessionTypes
  BY TypeParts DEF IInv
<1>1. CASE SupervisorSelects
  <2>1. PICK why \in Failures : FailAll(why, "supervisor")
    BY <1>1 DEF SupervisorSelects, Failures
  <2>2. /\ supervisor = "select" /\ supervisor' = "fail"
        /\ UNCHANGED <<nextId, call, slot, outbox, network, shutdown, done, closer>>
    BY <1>1 DEF SupervisorSelects
  <2>3. SessionTypes'
    BY <1>0, <1>1, <2>2 DEF SupervisorSelects, SessionTypes
  <2>4. FailureInv'
    BY <2>1, <2>2, FailAllKeeps DEF FailureInv, IInv
  <2> QED BY <2>1, <2>2, <2>3, <2>4, FailAllKeeps, TypeParts DEF IInv
<1>2. CASE SupervisorFailed
  <2>1. /\ UNCHANGED <<nextId, call, slot, entries, terminal, failing, failer, outbox, network,
                       task, shutdown, done, closer>>
        /\ supervisor = "fail" /\ supervisor' = "abort" /\ FailAllReturned("supervisor")
    BY <1>2 DEF SupervisorFailed, registry
  <2>2. CallTypes' /\ QueueTypes' /\ SessionTypes' /\ FailureInv'
    BY <1>0, <2>1
    DEF CallTypes, QueueTypes, SessionTypes, FailureInv, FailAllReturned, IInv
  <2>3. IdInv' /\ OwnResponse' /\ WaiterReachable'
    BY <2>1 DEF IdInv, OwnResponse, WaiterReachable, Live, IInv
  <2> QED BY <2>2, <2>3, TypeParts DEF IInv
<1>3. CASE SupervisorCompletes
  <2>1. /\ FailAll("task", "supervisor") /\ "task" \in Failures
        /\ supervisor = "abort" /\ supervisor' = "ended" /\ done' = TRUE
        /\ \A t \in SessionTasks : task[t] = "joined"
        /\ UNCHANGED <<nextId, call, slot, outbox, network, task, shutdown, closer>>
    BY <1>3 DEF SupervisorCompletes, Failures
  <2>2. terminal # None /\ UNCHANGED <<terminal, failing, failer>>
    BY <2>1, FailAllKeeps DEF FailureInv, IInv
  <2>3. SessionTypes' /\ FailureInv'
    BY <1>0, <2>1, <2>2 DEF SessionTypes, FailureInv, FailAllReturned, IInv
  <2> QED BY <2>1, <2>3, FailAllKeeps, TypeParts DEF IInv
<1>4. ASSUME NEW t \in SessionTasks, SupervisorJoins(t) PROVE IInv'
  <2>1. /\ UNCHANGED <<nextId, call, slot, entries, terminal, failing, failer, network,
                       supervisor, shutdown, done, closer>>
        /\ supervisor = "abort" /\ task' = [task EXCEPT ![t] = "joined"]
        /\ outbox' = <<>> \/ outbox' = outbox
    BY <1>4 DEF SupervisorJoins, registry
  <2>2. CallTypes' /\ QueueTypes'
    <3>1. outbox' \in Seq(Calls) /\ Len(outbox') <= OutboxCapacity
      <4>1. CASE outbox' = <<>>
        BY <4>1, SessionAssumption
      <4>2. CASE outbox' = outbox
        BY <1>0, <4>2 DEF QueueTypes
      <4> QED BY <2>1, <4>1, <4>2
    <3> QED BY <1>0, <2>1, <3>1 DEF CallTypes, QueueTypes
  <2>3. SessionTypes' /\ FailureInv'
    <3>1. SessionTypes'
      BY <1>0, <2>1 DEF SessionTypes
    <3>2. done' => \A u \in SessionTasks : task'[u] = "joined"
      BY <1>0, <2>1 DEF SessionTypes, FailureInv, IInv
    <3> QED BY <2>1, <3>1, <3>2 DEF FailureInv, FailAllReturned, IInv
  <2>4. IdInv' /\ OwnResponse' /\ WaiterReachable'
    BY <2>1 DEF IdInv, OwnResponse, WaiterReachable, Live, IInv
  <2> QED BY <2>2, <2>3, <2>4, TypeParts DEF IInv
<1> QED BY <1>1, <1>2, <1>3, <1>4

LEMMA CloserIInv ==
  ASSUME IInv, NEW k \in Closers, CloseBegins(k) \/ CloseSignals(k) \/ CloseReturns(k)
  PROVE  IInv'
<1>0. CallTypes /\ QueueTypes /\ SessionTypes
  BY TypeParts DEF IInv
<1>1. CASE CloseBegins(k)
  <2>1. /\ FailAll("closed", k) /\ "closed" \in Failures
        /\ closer' = [closer EXCEPT ![k] = "fail_all"]
        /\ UNCHANGED <<nextId, call, slot, outbox, network, task, supervisor, shutdown, done>>
    BY <1>1 DEF CloseBegins, Failures
  <2>2. SessionTypes'
    BY <1>0, <2>1 DEF SessionTypes
  \* Calls are taken only from a registry that has not failed, and then the
  \* supervisor still selects.
  <2>3. FailureInv'
    <3>1. CASE terminal = None
      BY <2>1, <3>1, FailAllKeeps DEF FailureInv, IInv, SessionTypes
    <3>2. CASE terminal # None
      BY <2>1, <3>2, FailAllKeeps DEF FailureInv, FailAllReturned, IInv
    <3> QED BY <3>1, <3>2
  <2> QED BY <2>1, <2>2, <2>3, FailAllKeeps, TypeParts DEF IInv
<1>2. CASE CloseSignals(k) \/ CloseReturns(k)
  <2>1. /\ UNCHANGED <<nextId, call, slot, entries, terminal, failing, failer, outbox, network,
                       task, supervisor, done>>
        /\ shutdown' \in BOOLEAN
        /\ \E at \in {"waiting", "returned"} : closer' = [closer EXCEPT ![k] = at]
    BY <1>0, <1>2 DEF CloseSignals, CloseReturns, registry, SessionTypes
  <2>2. CallTypes' /\ QueueTypes' /\ SessionTypes' /\ FailureInv'
    BY <1>0, <2>1
    DEF CallTypes, QueueTypes, SessionTypes, FailureInv, FailAllReturned, IInv
  <2>3. IdInv' /\ OwnResponse' /\ WaiterReachable'
    BY <2>1 DEF IdInv, OwnResponse, WaiterReachable, Live, IInv
  <2> QED BY <2>2, <2>3, TypeParts DEF IInv
<1> QED BY <1>1, <1>2

LEMMA DropClientIInv ==
  ASSUME IInv, DropClient
  PROVE  IInv'
<1>0. CallTypes /\ QueueTypes /\ SessionTypes
  BY TypeParts DEF IInv
<1>1. /\ \A c \in Calls : ~Live(c)
      /\ FailAll("closed", None) /\ failing = {} /\ shutdown' = TRUE
      /\ call' = [c \in Calls |-> [call[c] EXCEPT !.at = "returned"]]
      /\ closer' = [k \in Closers |-> "returned"]
      /\ UNCHANGED <<nextId, slot, outbox, network, task, supervisor, done>>
  BY DEF DropClient
<1>2. DOMAIN entries = {}
  BY <1>0, <1>1 DEF CallTypes, WaiterReachable, IInv
<1>3. /\ DOMAIN entries' = {} /\ failing' = {} /\ terminal' \in Failures
      /\ failer' \in Closers \union {"supervisor", None}
      /\ terminal # None => failer' = failer
  <2>1. CASE terminal = None
    BY <1>1, <1>2, <2>1 DEF FailAll, Failures
  <2>2. CASE terminal # None
    BY <1>0, <1>1, <1>2, <2>2 DEF FailAll, registry, QueueTypes
  <2> QED BY <2>1, <2>2
<1>4. /\ call' \in [Calls -> CallStates]
      /\ \A c \in Calls : /\ call'[c].at = "returned" /\ call'[c].id = call[c].id
                          /\ call'[c].result = call[c].result
  BY <1>0, <1>1 DEF CallTypes, CallStates
<1>5. CallTypes' /\ QueueTypes' /\ SessionTypes'
  BY <1>0, <1>1, <1>3, <1>4 DEF CallTypes, QueueTypes, SessionTypes
<1>6. IdInv' /\ OwnResponse'
  BY <1>1, <1>4 DEF IdInv, OwnResponse, IInv
<1>7. WaiterReachable'
  BY <1>3, <1>4 DEF WaiterReachable, Live
<1>8. FailureInv'
  BY <1>1, <1>3, SessionAssumption DEF FailureInv, FailAllReturned, IInv
<1> QED BY <1>5, <1>6, <1>7, <1>8, TypeParts DEF IInv

-----------------------------------------------------------------------------
LEMMA NextIInv == IInv /\ [Next]_vars => IInv'
<1> SUFFICES ASSUME IInv, [Next]_vars PROVE IInv'
  OBVIOUS
<1>1. ASSUME NEW c \in Calls, CallStep(c) PROVE IInv'
  BY <1>1, RegisterIInv, EnqueueIInv, CallEndsIInv DEF CallStep
<1>2. CASE Send
  BY <1>2, SendIInv
<1>3. ASSUME NEW m \in network, Answer(m) \/ ReceiveResponse(m) PROVE IInv'
  BY <1>3, AnswerIInv, ReceiveResponseIInv
<1>4. ASSUME NEW t \in SessionTasks, TaskEnds(t) PROVE IInv'
  BY <1>4, TaskEndsIInv
<1>5. CASE Ending
  BY <1>5, FailOneIInv, SupervisorIInv, CloserIInv DEF Ending
<1>6. ASSUME NEW k \in Closers, CloseBegins(k) PROVE IInv'
  BY <1>6, CloserIInv
<1>7. CASE DropClient
  BY <1>7, DropClientIInv
<1>8. CASE UNCHANGED vars
  BY <1>8 DEF vars, registry, IInv, TypeOK, IdInv, OwnResponse, WaiterReachable, Live,
              FailureInv, FailAllReturned
<1> QED BY <1>1, <1>2, <1>3, <1>4, <1>5, <1>6, <1>7, <1>8 DEF Next

\* The inductive invariant holds in every reachable state of the session, for
\* any calls, closers and outbox capacity.
THEOREM SessionInvariant == Spec => []IInv
<1>1. Init => IInv
  BY InitIInv
<1>2. IInv /\ [Next]_vars => IInv'
  BY NextIInv
<1> QED BY <1>1, <1>2, PTL DEF Spec

\* run_rpc_receiver and PendingRegistry::complete: a response reaches only the
\* call whose request it answers, late answers to abandoned calls included.
THEOREM ResponsesAreOwn == Spec => []OwnResponse
<1>1. IInv => OwnResponse
  BY DEF IInv
<1> QED BY <1>1, SessionInvariant, PTL

\* PendingRegistry and fail_all: no call waits on a oneshot nobody will fill,
\* and no entry outlives its call.
THEOREM WaitersAreReachable == Spec => []WaiterReachable
<1>1. IInv => WaiterReachable
  BY DEF IInv
<1> QED BY <1>1, SessionInvariant, PTL

\* ClientSession::close and SessionCompletion: a close that returned left no
\* task running and no call behind that its own fail_all is not answering.
THEOREM CloseStopsTheSession == Spec => []ClosedMeansStopped
<1>1. IInv => ClosedMeansStopped
  <2> SUFFICES ASSUME IInv, done
               PROVE  /\ \A t \in SessionTasks : task[t] = "joined"
                      /\ \A c \in Calls : Live(c) /\ slot[c] = Empty
                                            => c \in failing /\ failer \in Closers
    BY DEF ClosedMeansStopped
  <2>1. /\ \A t \in SessionTasks : task[t] = "joined"
        /\ terminal # None /\ (failer = "supervisor" => failing = {})
        /\ failing # {} => failer # None
    BY DEF IInv, FailureInv, FailAllReturned
  <2>2. failer \in Closers \union {"supervisor", None}
    BY DEF IInv, TypeOK
  <2> QED BY <2>1, <2>2 DEF IInv, WaiterReachable
<1> QED BY <1>1, SessionInvariant, PTL
=============================================================================
