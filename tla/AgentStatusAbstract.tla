------------------------- MODULE AgentStatusAbstract -------------------------
(***************************************************************************)
(* What the control API promises its callers (spec sections 4.1, 4.4, 5   *)
(* and 7).  A call validates its preconditions on one atomic read of the   *)
(* store and answers a user error from it; a mutating call then writes,    *)
(* in one later atomic step, the document it derived from that read (the   *)
(* state it names, the deep-merged or promoted registration): last writer *)
(* wins, and other calls may run in between.  A call fails with a server  *)
(* error only when the store is unavailable, each time spending one of    *)
(* MaxFaults; a command the store executed may still be reported as       *)
(* failed.  Publications and broadcasts are not part of this view.         *)
(***************************************************************************)
EXTENDS ConfigDoc

CONSTANTS Agents, Reqs, Ops, Patches, InitConfigs, InitStates, MaxFaults,
          NoReg, NoState, NoCall, NoDraft

VARIABLES
    areg,      \* areg[a]: the registration config of agent a, or NoReg
    astate,    \* astate[a]: its raw state, or NoState
    calls,     \* calls[r]: the call request r makes, or NoCall
    draft,     \* draft[r]: what the validated call of r will write, or NoDraft
    effected,  \* effected[r]: the call of r has taken effect
    reply,     \* reply[r]: the answer r got, or "none"
    afaults    \* how often the store has been unavailable
absVars == <<areg, astate, calls, draft, effected, reply, afaults>>

NewState == [pause |-> "paused", resume |-> "running", restart |-> "initializing"]

HasExec(cfg)  == "executionConfig" \in DOMAIN cfg /\ IsDoc(cfg["executionConfig"])
InCanary(cfg) ==
    LET e == cfg["executionConfig"].fields IN
      \/ "mode" \in DOMAIN e /\ e["mode"] = Scalar("canary")
      \/ "canaryMode" \in DOMAIN e /\ e["canaryMode"] \notin {Scalar("false"), Scalar(""), Doc(NoFields)}
Promoted(cfg) ==
    [cfg EXCEPT !["executionConfig"] =
        Doc([k \in DOMAIN @.fields \cup {"mode", "canaryMode"} |->
               IF k = "mode" THEN Scalar("live")
               ELSE IF k = "canaryMode" THEN Scalar("false") ELSE @.fields[k]])]

\* The user error the spec prescribes for call c on the store as read.
Refusal(c) ==
    CASE c.op = "list"                             -> "none"
      [] areg[c.agent] = NoReg                     -> "NotFound"
      [] c.op = "promote" /\ ~HasExec(areg[c.agent]) -> "NoExecutionConfig"
      [] c.op = "promote" /\ ~InCanary(areg[c.agent]) -> "NotInCanary"
      [] OTHER                                     -> "none"

\* The document a validated call writes, derived from the copy it read.
Derived(c) ==
    CASE c.op \in DOMAIN NewState -> NewState[c.op]
      [] c.op = "inject"          -> ReferenceMerge(areg[c.agent], c.patch)
      [] c.op = "promote"         -> Promoted(areg[c.agent])

Pending(r) == calls[r] # NoCall /\ reply[r] = "none"

\* The store is unavailable once more.
Unavailable == afaults < MaxFaults /\ afaults' = afaults + 1

\* A client calls one endpoint.
Call(r) ==
    /\ calls[r] = NoCall
    /\ \E op \in Ops, a \in Agents, p \in Patches :
          calls' = [calls EXCEPT ![r] = [op |-> op, agent |-> a,
                                         patch |-> IF op = "inject" THEN p ELSE NoFields]]
    /\ UNCHANGED <<areg, astate, draft, effected, reply, afaults>>

\* The call reads the store and checks its preconditions: a user error is
\* answered at once; getConfig answers the config; a mutating call keeps
\* the document it will write.
Validate(r) ==
    LET c == calls[r] IN
    /\ Pending(r) /\ draft[r] = NoDraft
    /\ c.op # "list"
    /\ IF Refusal(c) # "none"
         THEN reply' = [reply EXCEPT ![r] = Refusal(c)] /\ UNCHANGED draft
       ELSE IF c.op = "getConfig"
         THEN reply' = [reply EXCEPT ![r] = "ok"] /\ UNCHANGED draft
         ELSE draft' = [draft EXCEPT ![r] = Derived(c)] /\ UNCHANGED reply
    /\ UNCHANGED <<areg, astate, calls, effected, afaults>>

\* The validated call writes its document, over whatever is there now; the
\* reply may be lost with it.
Apply(r) ==
    LET c == calls[r] IN
    /\ Pending(r) /\ draft[r] # NoDraft /\ ~effected[r]
    /\ IF c.op \in DOMAIN NewState
         THEN astate' = [astate EXCEPT ![c.agent] = draft[r]] /\ UNCHANGED areg
         ELSE areg' = [areg EXCEPT ![c.agent] = draft[r]] /\ UNCHANGED astate
    /\ effected' = [effected EXCEPT ![r] = TRUE]
    /\ \/ UNCHANGED <<reply, afaults>>
       \/ reply' = [reply EXCEPT ![r] = "ServerError"] /\ Unavailable
    /\ UNCHANGED <<calls, draft>>

\* The answer to a call that has taken effect: ok, or a server error when
\* a later publication fails.
Acknowledge(r) ==
    /\ Pending(r) /\ effected[r]
    /\ \/ reply' = [reply EXCEPT ![r] = "ok"] /\ UNCHANGED afaults
       \/ reply' = [reply EXCEPT ![r] = "ServerError"] /\ Unavailable
    /\ UNCHANGED <<areg, astate, calls, draft, effected>>

\* list skips an agent whose documents it cannot read (spec section 7),
\* and answers once it has gone over them all.
ListSkip(r) ==
    /\ Pending(r) /\ calls[r].op = "list"
    /\ Unavailable
    /\ UNCHANGED <<areg, astate, calls, draft, effected, reply>>

ListAnswer(r) ==
    /\ Pending(r) /\ calls[r].op = "list"
    /\ reply' = [reply EXCEPT ![r] = "ok"]
    /\ UNCHANGED afaults \/ Unavailable
    /\ UNCHANGED <<areg, astate, calls, draft, effected>>

\* The store is unavailable: the call fails without effect.
Fail(r) ==
    /\ Pending(r) /\ ~effected[r]
    /\ reply' = [reply EXCEPT ![r] = "ServerError"]
    /\ Unavailable
    /\ UNCHANGED <<areg, astate, calls, draft, effected>>

Init ==
    /\ areg \in [Agents -> InitConfigs \cup {NoReg}]
    /\ astate \in [Agents -> InitStates \cup {NoState}]
    /\ \A a \in Agents : areg[a] = NoReg => astate[a] = NoState
    /\ calls = [r \in Reqs |-> NoCall]
    /\ draft = [r \in Reqs |-> NoDraft]
    /\ effected = [r \in Reqs |-> FALSE]
    /\ reply = [r \in Reqs |-> "none"]
    /\ afaults = 0

Next ==
    \E r \in Reqs :
       \/ Call(r) \/ Validate(r) \/ Apply(r) \/ Acknowledge(r) \/ Fail(r)
       \/ ListSkip(r) \/ ListAnswer(r)

Spec == Init /\ [][Next]_absVars
=============================================================================
