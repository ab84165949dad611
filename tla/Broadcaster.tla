----------------------------- MODULE Broadcaster -----------------------------
(***************************************************************************)
(* The realtime side of agent_controller.py: websocket_agent_events (one   *)
(* coroutine per WebSocket connection, plus the relay task it creates),    *)
(* the process-wide dict active_connections, and                           *)
(* broadcast_websocket_message, which the control handlers await.          *)
(*                                                                         *)
(* active_connections is a CPython dict.  Its keys live in an entry array  *)
(* in insertion order; pop leaves a hole, insertion appends (no resize     *)
(* happens below five entries, and client ids are never reused).  A       *)
(* "for k, v in d.items()" iterator keeps its position, the size of the   *)
(* dict when it started and the number of items it may still yield; the   *)
(* next() raises RuntimeError when the size has changed, or when it finds *)
(* one more key than it may yield.                                         *)
(***************************************************************************)
EXTENDS Integers, SequencesExt

CONSTANTS
    Conns,     \* WebSocket connections (their uuid4 client ids)
    Bcasts,    \* calls of broadcast_websocket_message, one message each
    Events,    \* messages published on the Redis channel agent_events
    Stuck,     \* clients that never read their socket: a send to them blocks
    FailSubscribe, \* connections whose pubsub.subscribe may raise
    Hole, Unsubscribed, Established

VARIABLES
    slots,        \* entry array of active_connections: Conns or Hole
    phase,        \* phase[c]: where websocket_agent_events(c) is
    clientClosed, \* connections the client has closed
    subscribed,   \* connections whose pubsub is subscribed to agent_events
    queue,        \* queue[c]: messages Redis has pushed to c's pubsub
    relay,        \* relay[c]: the process_redis_messages task of c
    received,     \* received[c]: what the client of c has been sent
    published,    \* events published on agent_events so far
    bc            \* bc[b]: the coroutine of broadcast b
vars == <<slots, phase, clientClosed, subscribed, queue, relay, received, published, bc>>

Live == Range(slots) \ {Hole}
IsOpen(c) == c \notin clientClosed

\* active_connections.pop(client_id, None)
Pop(s, c) == [k \in DOMAIN s |-> IF s[k] = c THEN Hole ELSE s[k]]

IdleBc == [pc |-> "idle", pos |-> 1, len |-> 0, used |-> 0, target |-> Hole,
           disconnected |-> {}, startLive |-> {}]

(***************************************************************************)
(* websocket_agent_events(c)                                               *)
(***************************************************************************)
\* await websocket.accept(); client_id = uuid4();
\* active_connections[client_id] = websocket
Accept(c) ==
    /\ phase[c] = "new"
    /\ slots' = Append(slots, c)
    /\ phase' = [phase EXCEPT ![c] = "subscribe"]
    /\ UNCHANGED <<clientClosed, subscribed, queue, relay, received, published, bc>>

\* await pubsub.subscribe("agent_events")
Subscribe(c) ==
    /\ phase[c] = "subscribe"
    /\ subscribed' = subscribed \cup {c}
    /\ phase' = [phase EXCEPT ![c] = "greet"]
    /\ UNCHANGED <<slots, clientClosed, queue, relay, received, published, bc>>

\* pubsub.subscribe raises (the Redis connection fails; the command may have
\* reached Redis).  The call is outside the try block: the handler ends
\* without popping the entry or unsubscribing, and the server closes the
\* socket.
SubscribeFails(c) ==
    /\ phase[c] = "subscribe"
    /\ c \in FailSubscribe
    /\ subscribed' = subscribed \/ subscribed' = subscribed \cup {c}
    /\ phase' = [phase EXCEPT ![c] = "done"]
    /\ clientClosed' = clientClosed \cup {c}
    /\ UNCHANGED <<slots, queue, relay, received, published, bc>>

\* A faulty greeting, for mutation: asyncio.create_task placed after the
\* receive loop, so the relay task never starts.
GreetWithoutRelay(c) ==
    /\ phase[c] = "greet"
    /\ IF IsOpen(c)
         THEN /\ received' = [received EXCEPT ![c] = Append(@, Established)]
              /\ phase' = [phase EXCEPT ![c] = "loop"]
              /\ UNCHANGED <<slots, relay>>
         ELSE /\ slots' = Pop(slots, c)
              /\ phase' = [phase EXCEPT ![c] = "unsubscribe"]
              /\ UNCHANGED <<received, relay>>
    /\ UNCHANGED <<clientClosed, subscribed, queue, published, bc>>

\* A faulty greeting, for mutation: the generic except branch forgets the pop.
GreetFailureKeepsEntry(c) ==
    /\ phase[c] = "greet"
    /\ IF IsOpen(c)
         THEN /\ received' = [received EXCEPT ![c] = Append(@, Established)]
              /\ relay' = [relay EXCEPT ![c] = "running"]
              /\ phase' = [phase EXCEPT ![c] = "loop"]
              /\ UNCHANGED slots
         ELSE /\ phase' = [phase EXCEPT ![c] = "unsubscribe"]
              /\ UNCHANGED <<slots, received, relay>>
    /\ UNCHANGED <<clientClosed, subscribed, queue, published, bc>>

\* await websocket.send_json({"type": "connection_established", ...}), then
\* asyncio.create_task(process_redis_messages()).  A send on a socket the
\* client closed raises: the except branch pops the connection.
Greet(c) ==
    /\ phase[c] = "greet"
    /\ IF IsOpen(c)
         THEN /\ received' = [received EXCEPT ![c] = Append(@, Established)]
              /\ relay' = [relay EXCEPT ![c] = "running"]
              /\ phase' = [phase EXCEPT ![c] = "loop"]
              /\ UNCHANGED slots
         ELSE /\ slots' = Pop(slots, c)
              /\ phase' = [phase EXCEPT ![c] = "unsubscribe"]
              /\ UNCHANGED <<received, relay>>
    /\ UNCHANGED <<clientClosed, subscribed, queue, published, bc>>

\* data = await websocket.receive_text() raises WebSocketDisconnect once the
\* client has closed: active_connections.pop(client_id, None)
ReceiveDisconnect(c) ==
    /\ phase[c] = "loop"
    /\ ~IsOpen(c)
    /\ slots' = Pop(slots, c)
    /\ phase' = [phase EXCEPT ![c] = "unsubscribe"]
    /\ UNCHANGED <<clientClosed, subscribed, queue, relay, received, published, bc>>

\* await pubsub.unsubscribe("agent_events"); await redis_client.close().
\* The relay's listen() reads the unsubscribe confirmation after whatever
\* was already pushed, and then ends.
Unsubscribe(c) ==
    /\ phase[c] = "unsubscribe"
    /\ subscribed' = subscribed \ {c}
    /\ queue' = [queue EXCEPT ![c] = Append(@, Unsubscribed)]
    /\ phase' = [phase EXCEPT ![c] = "done"]
    /\ UNCHANGED <<slots, clientClosed, relay, received, published, bc>>

\* process_redis_messages: async for message in pubsub.listen(), then
\* await websocket.send_json(data).  On a closed socket both that send and
\* the one of the except branch raise, and the task dies.
Relay(c) ==
    /\ relay[c] = "running"
    /\ queue[c] # <<>>
    /\ queue' = [queue EXCEPT ![c] = Tail(@)]
    /\ IF Head(queue[c]) = Unsubscribed
         THEN relay' = [relay EXCEPT ![c] = "ended"] /\ UNCHANGED received
         ELSE IF IsOpen(c)
           THEN received' = [received EXCEPT ![c] = Append(@, Head(queue[c]))]
                /\ UNCHANGED relay
           ELSE relay' = [relay EXCEPT ![c] = "crashed"] /\ UNCHANGED received
    /\ UNCHANGED <<slots, phase, clientClosed, subscribed, published, bc>>

(***************************************************************************)
(* broadcast_websocket_message(message)                                    *)
(***************************************************************************)
\* next() of the items() iterator it: RuntimeError when the dict changed
\* size, StopIteration (to the cleanup) when no key is left, RuntimeError
\* when a key is found beyond the number it may yield, otherwise the next
\* key, whose send starts the loop body.
IterNext(it) ==
    LET rest == {k \in it.pos..Len(slots) : slots[k] # Hole} IN
      IF Cardinality(Live) # it.used THEN [it EXCEPT !.pc = "raised"]
      ELSE IF rest = {} THEN [it EXCEPT !.pc = "cleanup"]
      ELSE IF it.len = 0 THEN [it EXCEPT !.pc = "raised"]
      ELSE [it EXCEPT !.pc = "send", !.target = slots[Min(rest)],
                      !.pos = Min(rest) + 1, !.len = @ - 1]

\* disconnected = []; for client_id, websocket in active_connections.items():
\* the iterator is created and its first next() taken with no await between.
BroadcastStart(b) ==
    /\ bc[b].pc = "idle"
    /\ bc' = [bc EXCEPT ![b] = IterNext([IdleBc EXCEPT !.len = Cardinality(Live),
                                           !.used = Cardinality(Live), !.startLive = Live])]
    /\ UNCHANGED <<slots, phase, clientClosed, subscribed, queue, relay, received, published>>

\* try: await websocket.send_json(message)
\* except Exception: disconnected.append(client_id)
\* then the loop's next next(), before any other coroutine runs.  The send
\* to a client that is open but never reads does not return.
BroadcastSend(b) ==
    /\ bc[b].pc = "send"
    /\ LET c == bc[b].target IN
         /\ c \notin Stuck \/ ~IsOpen(c)
         /\ IF IsOpen(c)
              THEN /\ received' = [received EXCEPT ![c] = Append(@, b)]
                   /\ bc' = [bc EXCEPT ![b] = IterNext(@)]
              ELSE /\ bc' = [bc EXCEPT ![b] = IterNext([@ EXCEPT !.disconnected = @ \cup {c}])]
                   /\ UNCHANGED received
    /\ UNCHANGED <<slots, phase, clientClosed, subscribed, queue, relay, published>>

\* for client_id in disconnected: active_connections.pop(client_id, None)
BroadcastCleanup(b) ==
    /\ bc[b].pc = "cleanup"
    /\ slots' = FoldSet(LAMBDA c, s : Pop(s, c), slots, bc[b].disconnected)
    /\ bc' = [bc EXCEPT ![b].pc = "done"]
    /\ UNCHANGED <<phase, clientClosed, subscribed, queue, relay, received, published>>

(***************************************************************************)
(* The environment: clients closing, and events published on agent_events *)
(* by the control handlers (publish_agent_event).                          *)
(***************************************************************************)
ClientClose(c) ==
    /\ phase[c] # "new" /\ IsOpen(c)
    /\ clientClosed' = clientClosed \cup {c}
    /\ UNCHANGED <<slots, phase, subscribed, queue, relay, received, published, bc>>

\* Redis pushes the message to every pubsub subscribed at that moment.
PublishEvent(e) ==
    /\ e \notin published
    /\ published' = published \cup {e}
    /\ queue' = [c \in Conns |-> IF c \in subscribed THEN Append(queue[c], e) ELSE queue[c]]
    /\ UNCHANGED <<slots, phase, clientClosed, subscribed, relay, received, bc>>

Init ==
    /\ slots = <<>>
    /\ phase = [c \in Conns |-> "new"]
    /\ clientClosed = {}
    /\ subscribed = {}
    /\ queue = [c \in Conns |-> <<>>]
    /\ relay = [c \in Conns |-> "none"]
    /\ received = [c \in Conns |-> <<>>]
    /\ published = {}
    /\ bc = [b \in Bcasts |-> IdleBc]

ConnStep(c) ==
    Subscribe(c) \/ SubscribeFails(c) \/ Greet(c) \/ ReceiveDisconnect(c) \/ Unsubscribe(c) \/ Relay(c)

BcStep(b) == BroadcastSend(b) \/ BroadcastCleanup(b)

Next ==
    \/ \E c \in Conns : Accept(c) \/ ConnStep(c) \/ ClientClose(c)
    \/ \E b \in Bcasts : BroadcastStart(b) \/ BcStep(b)
    \/ \E e \in Events : PublishEvent(e)

\* The event loop resumes every coroutine and task whose await completed;
\* Redis delivers to subscribers.  Clients connect, close and publishers
\* publish when they like.
Fairness ==
    /\ \A c \in Conns : WF_vars(ConnStep(c))
    /\ \A b \in Bcasts : WF_vars(BcStep(b))

Spec == Init /\ [][Next]_vars /\ Fairness

(***************************************************************************)
(* Properties                                                              *)
(***************************************************************************)
Phases == {"new", "subscribe", "greet", "loop", "unsubscribe", "done"}
BcPcs == {"idle", "send", "cleanup", "done", "raised"}

(* Spec section 5: a broadcast reaches every observer connected for the    *)
(* whole of it.  A connection in active_connections when                   *)
(* broadcast_websocket_message started, still there and open when it has  *)
(* returned or raised, has been sent the message.  Client ids are never    *)
(* reused and a close is final, so such a connection was there throughout. *)
BroadcastReachesStableObservers ==
    \A b \in Bcasts : bc[b].pc \in {"done", "raised"} =>
        \A c \in bc[b].startLive \cap Live : IsOpen(c) => Contains(received[c], b)

(* Spec section 6: the first message on every WebSocket is               *)
(* connection_established, sent by websocket_agent_events after it has    *)
(* registered the connection and subscribed.                               *)
FirstMessageIsConnectionEstablished ==
    \A c \in Conns : received[c] # <<>> => Head(received[c]) = Established

\* c is gone for good: out of active_connections, unsubscribed from
\* agent_events, and its relay task finished.
CleanedUp(c) == c \notin Live /\ c \notin subscribed /\ relay[c] # "running"

(* Spec sections 4.2 and 6: a closed connection releases its registry     *)
(* slot.  A connection the client has closed is eventually gone for good, *)
(* popped by its own handler or by a broadcast, for connections whose     *)
(* pubsub.subscribe succeeded (FailedSubscribeEventuallyClean is about     *)
(* the others).                                                            *)
RegistryEventuallyClean ==
    \A c \in Conns \ FailSubscribe : c \in clientClosed ~> CleanedUp(c)

(* The same for a connection whose pubsub.subscribe raised: its handler   *)
(* has ended, the socket is closed, and it is eventually gone for good.    *)
FailedSubscribeEventuallyClean ==
    \A c \in FailSubscribe : c \in clientClosed ~> CleanedUp(c)

(* Every event Redis has pushed to a connection's pubsub is eventually     *)
(* forwarded by process_redis_messages to the client, unless the client   *)
(* closes: the relay task keeps running while the socket is open.          *)
SubscribedObserversGetEveryEvent ==
    \A c \in Conns, e \in Events :
        Contains(queue[c], e) ~> (Contains(received[c], e) \/ c \in clientClosed)

(* Spec section 8: an observer that never reads its socket must not keep  *)
(* the others from their messages.  Every broadcast eventually reaches     *)
(* each other connection registered when it started, unless that one      *)
(* closes or the iteration raises (BroadcastReachesStableObservers is     *)
(* about that).                                                            *)
BroadcastNotBlockedByStuckObserver ==
    \A b \in Bcasts, c \in Conns \ Stuck :
        (bc[b].pc # "idle" /\ c \in bc[b].startLive)
            ~> (Contains(received[c], b) \/ c \in clientClosed \/ bc[b].pc = "raised")

=============================================================================
