------------------------------ MODULE ControlAPI ------------------------------
(***************************************************************************)
(* The agent control API of src/cursor_compatible/src/api/agent_controller *)
(* .py: the Redis documents it reads and writes, the Redis channels it     *)
(* publishes on, and its HTTP handlers running concurrently on one asyncio *)
(* event loop.                                                             *)
(*                                                                         *)
(* A handler runs without interruption between two awaits, so each await   *)
(* of a handler (one Redis command, or the WebSocket broadcast) is one     *)
(* step, and the steps of different requests interleave freely.  Redis     *)
(* executes commands one at a time, so every PUBLISH, on the shared        *)
(* agent_events channel or on an agent's command channel, is appended to   *)
(* one totally ordered log.  The WebSocket fan-out of                      *)
(* broadcast_websocket_message is one step here that appends to wsLog; the *)
(* Broadcaster module models its iteration over the connections.          *)
(***************************************************************************)
EXTENDS ConfigDoc, Integers, SequencesExt

CONSTANTS
    Agents,       \* agent ids
    Reqs,         \* HTTP requests (each serves one call)
    Ops,          \* the endpoints the requests may call
    Patches,      \* config patches sent to inject-config
    InitConfigs,  \* registration configs an agent may have registered with
    InitStates,   \* raw states an agent may have written
    MaxFaults,    \* how many awaits may raise in one behaviour
    NoReg, NoState, NoReq, NoView, NoCall, NoDraft

VARIABLES
    reg,          \* reg[a]: config of agent:{a}:registration, or NoReg
    state,        \* state[a]: value of agent:{a}:state, or NoState
    published,    \* every Redis PUBLISH, in the order Redis executed them
    wsLog,        \* every message handed to broadcast_websocket_message
    req,          \* req[r]: the handler coroutine serving request r
    lastWriter,   \* lastWriter[a]: request whose SET is agent a's registration
    faults,       \* awaits that have raised so far
    applied       \* requests whose SET of a state or registration Redis executed
vars == <<reg, state, published, wsLog, req, lastWriter, faults, applied>>
storeVars == <<reg, state, published, wsLog, lastWriter, faults, applied>>

RawStates == {"running", "paused", "disabled", "initializing"}
AllOps == {"pause", "resume", "restart", "inject", "promote", "getConfig", "list"}

(***************************************************************************)
(* Reading a registration config, as list_agents and promote_canary do.    *)
(***************************************************************************)
\* Python truthiness of a JSON value (strings only in this model).
Truthy(v) == IF IsDoc(v) THEN DOMAIN v.fields # {} ELSE v.val \notin {"false", ""}
HasExecConfig(cfg) == "executionConfig" \in DOMAIN cfg
\* exec_config.get("mode") == "canary" or exec_config.get("canaryMode", False)
IsCanaryExec(e) ==
    /\ IsDoc(e)
    /\ \/ "mode" \in DOMAIN e.fields /\ e.fields["mode"] = Scalar("canary")
       \/ "canaryMode" \in DOMAIN e.fields /\ Truthy(e.fields["canaryMode"])
CanaryConfig(cfg) == HasExecConfig(cfg) /\ IsCanaryExec(cfg["executionConfig"])
\* exec_config.get raises AttributeError when executionConfig is not a dict.
MalformedExec(cfg) == HasExecConfig(cfg) /\ ~IsDoc(cfg["executionConfig"])

pause_agent ==
    [steps |-> <<"exists", "event", "command", "write_state", "broadcast">>,
     event |-> "pause_requested", topic |-> "pause", newState |-> "paused",
     wsType |-> "agent_status_changed", wsStatus |-> "paused"]

resume_agent ==
    [steps |-> <<"exists", "event", "command", "write_state", "broadcast">>,
     event |-> "resume_requested", topic |-> "resume", newState |-> "running",
     wsType |-> "agent_status_changed", wsStatus |-> "running"]

\* A faulty restart, for mutation: a state name list_agents does not know.
restart_agent_restarting ==
    [steps |-> <<"exists", "event", "command", "write_state", "broadcast">>,
     event |-> "restart_requested", topic |-> "restart", newState |-> "restarting",
     wsType |-> "agent_status_changed", wsStatus |-> "restarting"]

restart_agent ==
    [steps |-> <<"exists", "event", "command", "write_state", "broadcast">>,
     event |-> "restart_requested", topic |-> "restart", newState |-> "initializing",
     wsType |-> "agent_status_changed", wsStatus |-> "initializing"]

inject_config ==
    [steps |-> <<"read", "event", "command", "write_reg", "broadcast">>,
     event |-> "config_update_requested", topic |-> "inject_config", newState |-> "none",
     wsType |-> "agent_config_updated", wsStatus |-> "none"]

promote_canary ==
    [steps |-> <<"read", "write_reg", "event", "command", "broadcast">>,
     event |-> "canary_promoted", topic |-> "inject_config", newState |-> "none",
     wsType |-> "agent_status_changed", wsStatus |-> "running"]

get_agent_config ==
    [steps |-> <<"read">>, event |-> "none", topic |-> "none", newState |-> "none",
     wsType |-> "none", wsStatus |-> "none"]

list_agents ==
    [steps |-> <<"keys", "list_reg", "list_state">>, event |-> "none", topic |-> "none",
     newState |-> "none", wsType |-> "none", wsStatus |-> "none"]

Handler == [pause |-> pause_agent, resume |-> resume_agent, restart |-> restart_agent,
            inject |-> inject_config, promote |-> promote_canary,
            getConfig |-> get_agent_config, list |-> list_agents]

\* promote_canary's validation, in the order of its early returns.
promote_check(cfg) ==
    CASE cfg = NoReg                          -> "NotFound"
      [] ~HasExecConfig(cfg)                  -> "NoExecutionConfig"
      [] ~IsDoc(cfg["executionConfig"])       -> "ServerError"
      [] ~IsCanaryExec(cfg["executionConfig"]) -> "NotInCanary"
      [] OTHER                                -> "ok"

\* A faulty promotion, for mutation: only the mode is switched to live.
PromotedConfigModeOnly(cfg) ==
    [cfg EXCEPT !["executionConfig"] = Doc(Assign(@.fields, "mode", Scalar("live")))]

\* exec_config["mode"] = "live"; exec_config["canaryMode"] = False
PromotedConfig(cfg) ==
    [cfg EXCEPT !["executionConfig"] =
        Doc(Assign(Assign(@.fields, "mode", Scalar("live")), "canaryMode", Scalar("false")))]

\* The status list_agents derives: canary overrides paused.
list_status(cfg, st) ==
    IF CanaryConfig(cfg) THEN "canary"
    ELSE IF st \in {"paused", "disabled"} THEN "paused" ELSE "running"

list_actions(status) ==
    CASE status = "running" -> {"pause", "restart"}
      [] status = "paused"  -> {"resume", "restart"}
      [] status = "canary"  -> {"promote", "pause", "restart"}
      [] OTHER              -> {}

(***************************************************************************)
(* Request coroutines.                                                     *)
(***************************************************************************)
IdleReq == [op |-> "none", agent |-> CHOOSE a \in Agents : TRUE, patch |-> NoFields,
            status |-> "idle", i |-> 0, snap |-> NoReg, result |-> "none",
            todo |-> {}, view |-> [a \in Agents |-> NoView], after |-> {}]

Agent(r)  == req[r].agent
H(r)      == Handler[req[r].op]
AtStep(r, s) == req[r].status = "running" /\ H(r).steps[req[r].i] = s
Goto(r)      == req' = [req EXCEPT ![r].i = @ + 1]
Return(r, res) == req' = [req EXCEPT ![r].status = "done", ![r].result = res]

\* publish_agent_event(r, type, agentId, data) and the PUBLISHes of a
\* command: one message of the log.
Message(ch, type, a, payload, r) ==
    [ch |-> ch, type |-> type, agent |-> a, payload |-> payload, req |-> r]

\* The data of the shared event: the patch for config_update_requested.
EventPayload(r) == IF req[r].op = "inject" THEN req[r].patch ELSE NoFields

\* The command payload: "" for pause/resume/restart, the patch for
\* inject_config, {"executionConfig": exec_config} after a promotion.
CommandPayload(r) ==
    CASE req[r].op = "inject"  -> req[r].patch
      [] req[r].op = "promote" -> ("executionConfig" :> req[r].snap["executionConfig"])
      [] OTHER                 -> NoFields

\* A client calls one endpoint on one agent.
StartRequest(r) ==
    /\ req[r].status = "idle"
    /\ \E op \in Ops, a \in Agents, p \in Patches :
          req' = [req EXCEPT ![r] = [IdleReq EXCEPT
                     !.op = op, !.agent = a, !.status = "running", !.i = 1,
                     !.patch = IF op = "inject" THEN p ELSE NoFields,
                     !.after = IF op = "promote" THEN {q \in Reqs : req[q].status = "done"} ELSE {}]]
    /\ UNCHANGED storeVars

\* A faulty existence check, for mutation: the 404 early return is missing.
CheckExistsUnchecked(r) ==
    /\ AtStep(r, "exists")
    /\ Goto(r)
    /\ UNCHANGED storeVars

\* exists = await r.exists(reg_key); if not exists: raise 404
CheckExists(r) ==
    /\ AtStep(r, "exists")
    /\ IF reg[Agent(r)] = NoReg THEN Return(r, "NotFound") ELSE Goto(r)
    /\ UNCHANGED storeVars

\* inject_config: agent_data = await r.get(reg_key); 404 if absent.  The
\* document read here is the one merged and written back later.
ReadForInject(r) ==
    /\ AtStep(r, "read") /\ req[r].op = "inject"
    /\ IF reg[Agent(r)] = NoReg THEN Return(r, "NotFound")
       ELSE req' = [req EXCEPT ![r].snap = reg[Agent(r)], ![r].i = @ + 1]
    /\ UNCHANGED storeVars

\* promote_canary: read, validate, and switch the read copy to live.
ReadForPromote(r) ==
    /\ AtStep(r, "read") /\ req[r].op = "promote"
    /\ LET cfg == reg[Agent(r)] IN
         IF promote_check(cfg) = "ok"
           THEN req' = [req EXCEPT ![r].snap = PromotedConfig(cfg), ![r].i = @ + 1]
           ELSE Return(r, promote_check(cfg))
    /\ UNCHANGED storeVars

\* get_agent_config: one GET, 404 if absent, else the config.
ReadForGetConfig(r) ==
    /\ AtStep(r, "read") /\ req[r].op = "getConfig"
    /\ Return(r, IF reg[Agent(r)] = NoReg THEN "NotFound" ELSE "ok")
    /\ UNCHANGED storeVars

\* The message of publish_agent_event(r, <event>, agentId, ...), and of
\* r.publish(f"agent:{agentId}:<topic>", payload).
EventMsg(r)   == Message("agent_events", H(r).event, Agent(r), EventPayload(r), r)
CommandMsg(r) == Message(H(r).topic, "command", Agent(r), CommandPayload(r), r)

\* The registration written back: the copy read earlier, merged with the
\* patch (inject_config) or switched to live (promote_canary).
NewRegistration(r) ==
    IF req[r].op = "inject" THEN deep_update(req[r].snap, req[r].patch) ELSE req[r].snap

\* What Redis does when it executes the command of step s of request r.
Effect(r, s) ==
    CASE s = "event"       -> /\ published' = Append(published, EventMsg(r))
                              /\ UNCHANGED <<reg, state, lastWriter, applied>>
      [] s = "command"     -> /\ published' = Append(published, CommandMsg(r))
                              /\ UNCHANGED <<reg, state, lastWriter, applied>>
      [] s = "write_state" -> /\ state' = [state EXCEPT ![Agent(r)] = H(r).newState]
                              /\ applied' = applied \cup {r}
                              /\ UNCHANGED <<reg, published, lastWriter>>
      [] s = "write_reg"   -> /\ reg' = [reg EXCEPT ![Agent(r)] = NewRegistration(r)]
                              /\ lastWriter' = [lastWriter EXCEPT ![Agent(r)] = r]
                              /\ applied' = applied \cup {r}
                              /\ UNCHANGED <<state, published>>
      [] OTHER             -> UNCHANGED <<reg, state, published, lastWriter, applied>>

\* await publish_agent_event(r, <event>, agentId, ...)
PublishEvent(r) ==
    /\ AtStep(r, "event")
    /\ Effect(r, "event")
    /\ Goto(r)
    /\ UNCHANGED <<wsLog, faults>>

\* await r.publish(f"agent:{agentId}:<topic>", payload)
PublishCommand(r) ==
    /\ AtStep(r, "command")
    /\ Effect(r, "command")
    /\ Goto(r)
    /\ UNCHANGED <<wsLog, faults>>

\* await r.set(f"agent:{agentId}:state", <new state>)
WriteState(r) ==
    /\ AtStep(r, "write_state")
    /\ Effect(r, "write_state")
    /\ Goto(r)
    /\ UNCHANGED <<wsLog, faults>>

\* await r.set(reg_key, json.dumps(agent_json))
WriteRegistration(r) ==
    /\ AtStep(r, "write_reg")
    /\ Effect(r, "write_reg")
    /\ Goto(r)
    /\ UNCHANGED <<wsLog, faults>>

\* await broadcast_websocket_message({...}), the handler's last await.
Broadcast(r) ==
    /\ AtStep(r, "broadcast")
    /\ wsLog' = Append(wsLog, [type |-> H(r).wsType, agent |-> Agent(r),
                               status |-> H(r).wsStatus, req |-> r])
    /\ Return(r, "ok")
    /\ UNCHANGED <<reg, state, published, lastWriter, faults, applied>>

\* registrations = await r.keys("agent:*:registration")
ListKeys(r) ==
    /\ AtStep(r, "keys")
    /\ LET keys == {a \in Agents : reg[a] # NoReg} IN
         IF keys = {} THEN Return(r, "ok")
         ELSE req' = [req EXCEPT ![r].todo = keys, ![r].i = @ + 1]
    /\ UNCHANGED storeVars

\* agent_data = await r.get(reg_key), for the keys in any order.
ListReadRegistration(r) ==
    /\ AtStep(r, "list_reg")
    /\ \E a \in req[r].todo :
          req' = [req EXCEPT ![r].agent = a, ![r].snap = reg[a], ![r].i = @ + 1]
    /\ UNCHANGED storeVars

\* state_data = await r.get(state_key) (then the metrics and last_signal
\* GETs, whose values only feed pnl24h and lastSignal): build the panel
\* entry, or skip the agent when its executionConfig is not a dict.
ListReadState(r) ==
    /\ AtStep(r, "list_state")
    /\ LET a   == Agent(r)
           cfg == req[r].snap
           st  == IF state[a] = NoState THEN "unknown" ELSE state[a]
           status == list_status(cfg, st)
           entry  == IF MalformedExec(cfg) THEN NoView
                     ELSE [raw |-> st, canary |-> CanaryConfig(cfg),
                           status |-> status, actions |-> list_actions(status)]
           todo == req[r].todo \ {a}
       IN  req' = [req EXCEPT ![r].view[a] = entry, ![r].todo = todo,
                              ![r].status = IF todo = {} THEN "done" ELSE "running",
                              ![r].result = IF todo = {} THEN "ok" ELSE "none",
                              ![r].i = 2]
    /\ UNCHANGED storeVars

(***************************************************************************)
(* Faults.  Any Redis command may raise (ConnectionError, TimeoutError),   *)
(* before Redis ran it or after, when only the reply was lost.  Nothing    *)
(* catches the error in the mutating handlers: the call ends with a 500    *)
(* and keeps what it did before.  In list_agents the GETs of one agent are *)
(* inside "try: ... except Exception", so that agent is skipped.           *)
(***************************************************************************)
RedisSteps == {"exists", "read", "event", "command", "write_state", "write_reg",
               "keys", "list_reg", "list_state"}

\* list_agents' except branch: the agent is left out, the loop goes on.
ListSkip(r, a) ==
    LET todo == req[r].todo \ {a} IN
      req' = [req EXCEPT ![r].todo = todo, ![r].i = 2,
                         ![r].status = IF todo = {} THEN "done" ELSE "running",
                         ![r].result = IF todo = {} THEN "ok" ELSE "none"]

RedisFails(r) ==
    /\ req[r].status = "running"
    /\ faults < MaxFaults
    /\ LET s == H(r).steps[req[r].i] IN
         /\ s \in RedisSteps
         /\ Effect(r, "none") \/ Effect(r, s)
         /\ CASE s = "list_reg"   -> \E a \in req[r].todo : ListSkip(r, a)
              [] s = "list_state" -> ListSkip(r, Agent(r))
              [] OTHER            -> Return(r, "ServerError")
    /\ faults' = faults + 1
    /\ UNCHANGED wsLog

\* broadcast_websocket_message raises (the RuntimeError of its iteration,
\* see Broadcaster) after it may have sent the message to some observers.
BroadcastRaises(r) ==
    /\ AtStep(r, "broadcast")
    /\ faults < MaxFaults
    /\ \/ wsLog' = Append(wsLog, [type |-> H(r).wsType, agent |-> Agent(r),
                                  status |-> H(r).wsStatus, req |-> r])
       \/ UNCHANGED wsLog
    /\ Return(r, "ServerError")
    /\ faults' = faults + 1
    /\ UNCHANGED <<reg, state, published, lastWriter, applied>>

RequestStep(r) ==
    \/ CheckExists(r)
    \/ ReadForInject(r) \/ ReadForPromote(r) \/ ReadForGetConfig(r)
    \/ PublishEvent(r) \/ PublishCommand(r)
    \/ WriteState(r) \/ WriteRegistration(r) \/ Broadcast(r)
    \/ ListKeys(r) \/ ListReadRegistration(r) \/ ListReadState(r)
    \/ RedisFails(r) \/ BroadcastRaises(r)

\* Every request has been served; the bounded run stops here.
Served == (\A r \in Reqs : req[r].status = "done") /\ UNCHANGED vars

Init ==
    /\ reg \in [Agents -> InitConfigs \cup {NoReg}]
    /\ state \in [Agents -> InitStates \cup {NoState}]
    /\ \A a \in Agents : reg[a] = NoReg => state[a] = NoState
    /\ published = <<>>
    /\ wsLog = <<>>
    /\ req = [r \in Reqs |-> IdleReq]
    /\ lastWriter = [a \in Agents |-> NoReq]
    /\ faults = 0
    /\ applied = {}

Next ==
    \/ \E r \in Reqs : StartRequest(r) \/ RequestStep(r)
    \/ Served

\* The event loop runs every coroutine whose await has completed; Redis
\* answers every command.  Clients are not obliged to send requests.
Fairness == \A r \in Reqs : WF_vars(RequestStep(r))

Spec == Init /\ [][Next]_vars
FairSpec == Spec /\ Fairness

(***************************************************************************)
(* Properties.                                                             *)
(***************************************************************************)
TypeOK ==
    /\ \A a \in Agents : reg[a] = NoReg \/ DOMAIN reg[a] \subseteq {"executionConfig", "risk"}
    /\ state \in [Agents -> RawStates \cup {NoState}]
    /\ \A k \in 1..Len(published) :
          published[k].agent \in Agents /\ published[k].req \in Reqs
    /\ \A k \in 1..Len(wsLog) : wsLog[k].agent \in Agents /\ wsLog[k].req \in Reqs
    /\ \A r \in Reqs :
          /\ req[r].status \in {"idle", "running", "done"}
          /\ req[r].op \in AllOps \cup {"none"}
          /\ req[r].todo \subseteq Agents /\ req[r].after \subseteq Reqs
    /\ lastWriter \in [Agents -> Reqs \cup {NoReq}]
    /\ faults \in 0..MaxFaults
    /\ applied \subseteq Reqs

\* What the spec (section 4.4) says a successful call publishes, in order:
\* the event on the shared topic, then the command on the agent's topic.
SpecPublications(op) ==
    CASE op = "pause"   -> <<<<"agent_events", "pause_requested">>, <<"pause", "command">>>>
      [] op = "resume"  -> <<<<"agent_events", "resume_requested">>, <<"resume", "command">>>>
      [] op = "restart" -> <<<<"agent_events", "restart_requested">>, <<"restart", "command">>>>
      [] op = "inject"  -> <<<<"agent_events", "config_update_requested">>,
                            <<"inject_config", "command">>>>
      [] op = "promote" -> <<<<"agent_events", "canary_promoted">>,
                            <<"inject_config", "command">>>>
      [] OTHER          -> <<>>

PublishedBy(r) ==
    LET mine == SelectSeq(published, LAMBDA m : m.req = r)
    IN  [k \in 1..Len(mine) |-> <<mine[k].ch, mine[k].type>>]

NotFoundHasNoEffect ==
    \A a \in Agents : reg[a] = NoReg =>
       /\ state[a] = NoState
       /\ \A k \in 1..Len(published) : published[k].agent # a
       /\ \A k \in 1..Len(wsLog) : wsLog[k].agent # a
       /\ \A r \in Reqs :
             (req[r].agent = a /\ req[r].status = "done" /\ req[r].op # "list")
                => req[r].result \in {"NotFound", "ServerError"}

\* Request p has written its promoted registration.
PromotionWritten(p) ==
    /\ req[p].op = "promote"
    /\ \/ req[p].status = "running" /\ req[p].i > 2
       \/ req[p].status = "done" /\ req[p].result = "ok"

PatchSetsCanary(p) == HasExecConfig(p) /\ IsCanaryExec(p["executionConfig"])

(* Once promote_canary has written an agent's registration as live, the    *)
(* agent is back in canary only through inject_config writing back a copy  *)
(* it read while the agent was still in canary (or a patch that itself     *)
(* sets canary): the promotion is lost to a stale read-modify-write, never *)
(* undone by the promotion or the merge themselves.                        *)
PromotionLostOnlyToStaleInject ==
    \A a \in Agents :
       (reg[a] # NoReg /\ CanaryConfig(reg[a]) /\ \E p \in Reqs : req[p].agent = a /\ PromotionWritten(p))
          => LET w == lastWriter[a] IN
               /\ w # NoReq
               /\ req[w].op = "inject"
               /\ CanaryConfig(req[w].snap) \/ PatchSetsCanary(req[w].patch)

(* Spec section 8: calling promote_canary again on an agent that an       *)
(* earlier call already promoted fails with NotInCanary.  Checked with     *)
(* patches that never set canary mode.                                     *)
PromoteIdempotent ==
    \A p, q \in Reqs :
       ~ /\ req[p].op = "promote" /\ req[q].op = "promote"
         /\ req[p].agent = req[q].agent
         /\ req[p].result = "ok" /\ req[q].result = "ok"
         /\ q \in req[p].after

InFlight == \E r \in Reqs : req[r].status = "running"

\* Index of the last agent_status_changed broadcast about agent a (0: none).
LastStatusBroadcast(a) ==
    LET ks == {k \in 1..Len(wsLog) :
                 wsLog[k].agent = a /\ wsLog[k].type = "agent_status_changed"}
    IN  IF ks = {} THEN 0 ELSE Max(ks)

(* Whenever no call is in flight, the status in the last                 *)
(* agent_status_changed the observers were sent for an agent is the state *)
(* stored for it: pause_agent, resume_agent and restart_agent each write  *)
(* the state and then broadcast it, with nothing ordering two such pairs. *)
ObserversMatchStore ==
    ~InFlight =>
       \A a \in Agents :
          LastStatusBroadcast(a) # 0 => wsLog[LastStatusBroadcast(a)].status = state[a]

(* Spec sections 4.4 and 8: a promotion that persisted the live            *)
(* registration also publishes the live executionConfig on the agent's     *)
(* inject_config topic.  Once no call is in flight, the agent whose        *)
(* registration was last written by promote_canary has been sent that     *)
(* command.  promote_canary writes the registration first and publishes   *)
(* after, so an await that raises in between leaves the agent on canary   *)
(* while the store says live, and a retry answers NotInCanary.             *)
PromotionReachesAgent ==
    ~InFlight =>
       \A a \in Agents :
          LET w == lastWriter[a] IN
            (w # NoReq /\ req[w].op = "promote")
               => \E k \in 1..Len(published) :
                     published[k].req = w /\ published[k].ch = "inject_config"

(***************************************************************************)
(* Refinement.  The handlers implement AgentStatusAbstract: a call         *)
(* validates at the await that reads the registration (exists or get) and *)
(* takes effect at the step where Redis executes its SET; getConfig and    *)
(* list answer when they return.  The messages and broadcasts are hidden.  *)
(* list_agents moves over the agents; the abstract call names a fixed one. *)
(* The draft of a validated call is the document it will write: the new   *)
(* state, the copy it read merged with the patch as the spec defines the   *)
(* merge, or the copy promote_canary switched to live.                     *)
(***************************************************************************)
ListAgent == CHOOSE a \in Agents : TRUE

CallOf(r) ==
    IF req[r].status = "idle" THEN NoCall
    ELSE [op |-> req[r].op, agent |-> IF req[r].op = "list" THEN ListAgent ELSE req[r].agent,
          patch |-> req[r].patch]

\* Past its first await, a mutating call has passed its validation.
DraftOf(r) ==
    CASE req[r].op \notin {"pause", "resume", "restart", "inject", "promote"}
           \/ req[r].i < 2               -> NoDraft
      [] req[r].op = "inject"            -> ReferenceMerge(req[r].snap, req[r].patch)
      [] req[r].op = "promote"           -> req[r].snap
      [] OTHER                           -> H(r).newState

Abstract == INSTANCE AgentStatusAbstract WITH
    areg <- reg, astate <- state,
    calls <- [r \in Reqs |-> CallOf(r)],
    draft <- [r \in Reqs |-> DraftOf(r)],
    effected <- [r \in Reqs |-> r \in applied],
    reply <- [r \in Reqs |-> IF req[r].status = "done" THEN req[r].result ELSE "none"],
    afaults <- faults

(* Every behaviour of the concurrent handlers, with Redis commands failing *)
(* before or after they ran, is one the spec allows: each call answers     *)
(* the user error its atomic read of the registration calls for, and a    *)
(* mutating call later writes, last writer wins, the state it names or     *)
(* the registration it read deep-merged with the patch or promoted to     *)
(* live (pause_agent ... promote_canary); a 500 is answered only when      *)
(* Redis or the broadcast failed.                                          *)
ImplementsAbstract == Abstract!Spec
=============================================================================
