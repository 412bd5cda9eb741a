---------------------------- MODULE PluginProcess ----------------------------
(***************************************************************************)
(* One child process of a plugin: the daemon's side of it                   *)
(* (internal/pluginhost/process*.go), the runtime the plugin is linked with *)
(* (sdk/plugin/plugin.go) and the JSON-RPC connection between the two       *)
(* (sdk/rpc).                                                               *)
(*                                                                          *)
(* The daemon issues one lifecycle call at a time (its supervisor is one    *)
(* goroutine) and may give up on it; the child runs the callbacks of the    *)
(* calls it received one at a time, in any order, whether or not the daemon *)
(* still waits.  Meanwhile the workers of the plugin ask the daemon for     *)
(* effects (publish, withdraw, save, complete, begin) on behalf of one      *)
(* incarnation of an instance, and the daemon admits them against the       *)
(* instance set it has committed and the one it is about to commit.         *)
(***************************************************************************)
EXTENDS Integers

CONSTANTS Ids,            \* instance identifiers
          MaxGeneration,  \* generations are 1 .. MaxGeneration, 0 is absent
          Desired,        \* instance sets the daemon may want
          Workers,        \* goroutines of the plugin that ask for effects
          MaxCalls        \* bound on the calls the daemon makes

ProcessAssumption ==
    /\ Ids # {} /\ MaxGeneration \in Nat /\ MaxCalls \in Nat
    /\ Desired \subseteq [Ids -> 0 .. MaxGeneration]

VARIABLES
    host,       \* what the daemon is doing with the process
    started,    \* Start has returned the process
    instances,  \* Process.instances: the committed set
    pending,    \* Process.pending: the proposed set, or Nil
    outcome,    \* how the last ReplaceInstances ended
    calls,      \* requests written to the child
    link,       \* the connection: "open" or "closed"
    signal,     \* the last signal sent to the process group
    child,      \* "up", "gone" (exited) or "reaped"
    sdk,        \* the fields of the plugin's runtime
    effects     \* the effect each worker asks for

vars == <<host, started, instances, pending, outcome, calls, link, signal, child, sdk, effects>>

Nil == [i \in Ids |-> -1]
Empty == [i \in Ids |-> 0]
NoEffect == [step |-> "none", id |-> CHOOSE i \in Ids : TRUE, gen |-> 0]
NoCall == [n |-> 0, method |-> "none", set |-> Empty, step |-> "done", cancelled |-> FALSE]

\* process.go, Start: the child runs and plugin.initialize has been written.
Init ==
    /\ host = "initialize" /\ started = FALSE
    /\ instances = Empty /\ pending = Nil /\ outcome = "none"
    /\ calls = {[NoCall EXCEPT !.n = 1, !.method = "initialize", !.step = "sent"]}
    /\ link = "open" /\ signal = "none" /\ child = "up"
    /\ sdk = [initialized |-> FALSE, ready |-> FALSE, wasReady |-> FALSE, held |-> Empty,
              running |-> 0, stopped |-> FALSE]
    /\ effects = [w \in Workers |-> NoEffect]

----------------------------------------------------------------------------
(* The connection (sdk/rpc)                                                 *)

Current == CHOOSE c \in calls : \A d \in calls : d.n <= c.n
NextId == Current.n + 1
Put(c) == calls' = {d \in calls : d.n # c.n} \cup {c}

\* Peer.Call up to the completed write: the request has an id and the caller
\* waits for the response of that id.
Call(method, set) ==
    /\ NextId <= MaxCalls /\ link = "open"
    /\ calls' = {c \in calls : c.step \in {"sent", "running"}}
                \cup {[n |-> NextId, method |-> method, set |-> set, step |-> "sent",
                        cancelled |-> FALSE]}

\* A response of the child arrived for the call the daemon waits for.
Responded(step) == link = "open" /\ Current.step = step

\* The wait ends without a response: the deadline passed, and rpc.cancel is
\* sent; or the connection is gone.  The caller learns ErrOutcomeUnknown.
Unanswered ==
    \/ link = "closed" /\ UNCHANGED calls
    \/ link = "open" /\ Put([Current EXCEPT !.cancelled = TRUE])

\* Peer.finish: a protocol violation, a failed or late write, an end of file.
LinkFails ==
    /\ link = "open" /\ link' = "closed"
    /\ UNCHANGED <<host, started, instances, pending, outcome, calls, signal, child, sdk, effects>>

----------------------------------------------------------------------------
(* The runtime of the plugin (sdk/plugin/plugin.go)                         *)

\* dispatch refuses a request: the queue of inbound methods is full, the
\* parameters do not decode, or the runtime is not initialized.
Refuse(c) ==
    /\ child = "up" /\ link = "open" /\ c.step = "sent"
    /\ Put([c EXCEPT !.step = IF c.cancelled THEN "dropped" ELSE "failed"])
    /\ UNCHANGED <<host, started, instances, pending, outcome, link, signal, child, sdk, effects>>

\* runtime.initialize; a second one, or an identity that is not the
\* plugin's, is a failure.
Initialize(c) ==
    /\ child = "up" /\ c.method = "initialize" /\ c.step = "sent"
    /\ sdk' = [sdk EXCEPT !.initialized = TRUE]
    /\ Put([c EXCEPT !.step = IF sdk.initialized THEN "failed" ELSE "done"])
    /\ UNCHANGED <<host, started, instances, pending, outcome, link, signal, child, effects>>

\* A callback of the plugin takes callbackMu.
BeginCallback(c) ==
    /\ child = "up" /\ sdk.initialized /\ sdk.running = 0
    /\ c.method # "initialize" /\ c.step = "sent"
    /\ c.method = "shutdown" => ~sdk.stopped
    /\ sdk' = [sdk EXCEPT !.running = c.n,
                          !.wasReady = sdk.ready,
                          !.ready = IF c.method = "replace" THEN FALSE ELSE @]
    /\ Put([c EXCEPT !.step = "running"])
    /\ UNCHANGED <<host, started, instances, pending, outcome, link, signal, child, effects>>

\* The callback returns.  The plugin replaces its instances or leaves them
\* as they were; a response is written unless the request was cancelled.
EndCallback(c) ==
    /\ child = "up" /\ c.step = "running" /\ sdk.running = c.n
    /\ \E ok \in BOOLEAN :
        /\ sdk' = [sdk EXCEPT
                     !.running = 0,
                     !.held = IF c.method = "replace" /\ ok THEN c.set ELSE @,
                     !.ready = IF c.method = "replace" THEN ok \/ sdk.wasReady ELSE @,
                     !.stopped = @ \/ c.method = "shutdown"]
        /\ Put([c EXCEPT !.step = IF c.cancelled THEN "dropped" ELSE IF ok THEN "done" ELSE "failed"])
    /\ UNCHANGED <<host, started, instances, pending, outcome, link, signal, child, effects>>

\* serveAndShutdown and Run: the connection is gone, or SIGTERM cancelled the
\* context; the plugin's Shutdown runs once, for two seconds at most, and the
\* process exits.  A crash, or SIGKILL, needs neither.
Exit ==
    /\ child = "up" /\ child' = "gone"
    /\ UNCHANGED <<host, started, instances, pending, outcome, calls, link, signal, sdk, effects>>

\* A worker of the plugin holds a reference to an incarnation: one the plugin
\* has, or one it is just being given.
Capture(w) ==
    /\ child = "up" /\ effects[w].step = "none"
    /\ \E i \in Ids, set \in {sdk.held} \cup {c.set : c \in {d \in calls : d.n = sdk.running}} :
        /\ set[i] # 0
        /\ effects' = [effects EXCEPT ![w] = [step |-> "captured", id |-> i, gen |-> set[i]]]
    /\ UNCHANGED <<host, started, instances, pending, outcome, calls, link, signal, child, sdk>>

\* Host.requireReady and the call that follows it.
Ask(w) ==
    /\ child = "up" /\ link = "open" /\ effects[w].step = "captured"
    /\ effects' = [effects EXCEPT ![w] = IF sdk.ready THEN [@ EXCEPT !.step = "sent"] ELSE NoEffect]
    /\ UNCHANGED <<host, started, instances, pending, outcome, calls, link, signal, child, sdk>>

----------------------------------------------------------------------------
(* The daemon's side: effects (process_handlers.go)                         *)

\* instanceMatches.  The policies of an instance belong to its generation.
InstanceMatches(set, e) == set[e.id] = e.gen

InFlight(e) == e.step = "admitted"

RetiringIgnored(proposed) == FALSE
\* retiringEffectInFlightLocked
RetiringEffectInFlight(proposed) ==
    \E w \in Workers : InFlight(effects[w]) /\ ~InstanceMatches(proposed, effects[w])

\* applyActiveEffect: during a replacement an effect must belong to both sets.
Admission(e) ==
    LET active == InstanceMatches(instances, e)
        proposed == InstanceMatches(pending, e)
    IN IF active /\ (pending = Nil \/ proposed) THEN "admitted"
       ELSE IF pending # Nil /\ (active \/ proposed) THEN "not_ready" ELSE "conflict"

\* register: the handler of one effect is dispatched and admits it, or answers
\* that the replacement is not over or that the generation is not known.
Admit(w) ==
    /\ effects[w].step = "sent" /\ link = "open"
    /\ effects' = [effects EXCEPT ![w] = IF Admission(@) = "admitted"
                                         THEN [@ EXCEPT !.step = "admitted"] ELSE NoEffect]
    /\ UNCHANGED <<host, started, instances, pending, outcome, calls, link, signal, child, sdk>>

\* runAdmittedEffect and finishAdmittedEffect: the callback of the daemon has
\* been applied (or failed), whether or not the child still lives.
Finish(w) ==
    /\ InFlight(effects[w])
    /\ effects' = [effects EXCEPT ![w] = NoEffect]
    /\ UNCHANGED <<host, started, instances, pending, outcome, calls, link, signal, child, sdk>>

\* translateRemoteError: the worker learns that there will be no answer.
Unserved(w) ==
    /\ effects[w].step \in {"captured", "sent"} /\ (link = "closed" \/ child # "up")
    /\ effects' = [effects EXCEPT ![w] = NoEffect]
    /\ UNCHANGED <<host, started, instances, pending, outcome, calls, link, signal, child, sdk>>

----------------------------------------------------------------------------
(* The daemon's side: the life of the process (process.go, process_client.go)*)

\* matchesInitializeResult and the comparison of the contract: either fails
\* for a plugin that is not what its package says.
Initialized ==
    /\ host = "initialize"
    /\ \/ Responded("done") /\ host' = "idle" /\ UNCHANGED <<calls, signal>>
       \/ Responded("done") /\ host' = "kill" /\ signal' = "KILL" /\ UNCHANGED calls
       \/ Responded("failed") /\ host' = "kill" /\ signal' = "KILL" /\ UNCHANGED calls
       \/ Unanswered /\ host' = "kill" /\ signal' = "KILL"
    /\ UNCHANGED <<started, instances, pending, outcome, link, child, sdk, effects>>

\* ReplaceInstances: the proposed set is published to the effects first.
BeginReplace(proposed) ==
    /\ host = "idle" /\ outcome # "unknown" /\ NextId <= MaxCalls
    /\ pending' = proposed /\ host' = "drain"
    /\ UNCHANGED <<started, instances, outcome, calls, link, signal, child, sdk, effects>>

Drained ==
    /\ host = "drain" /\ ~RetiringEffectInFlight(pending)
    /\ Call("replace", pending) /\ host' = "replace"
    /\ UNCHANGED <<started, instances, pending, outcome, link, signal, child, sdk, effects>>

\* How Start goes on after its replacement, and the supervisor after one of
\* its own: a process that never became ready is killed.
AfterReplace(result) ==
    /\ outcome' = result /\ pending' = Nil
    /\ started' = (started \/ result = "done")
    /\ IF started' THEN host' = "idle" /\ UNCHANGED signal
       ELSE host' = "kill" /\ signal' = "KILL"

\* The context ends, or nothing can be written, before the request is out.
ReplaceAbandoned ==
    /\ host = "drain" /\ AfterReplace("failed")
    /\ UNCHANGED <<instances, calls, link, child, sdk, effects>>

ReplaceCommitted ==
    /\ host = "replace" /\ Responded("done")
    /\ AfterReplace("done") /\ instances' = pending
    /\ UNCHANGED <<calls, link, child, sdk, effects>>

ReplaceRejected ==
    /\ host = "replace" /\ Responded("failed") /\ AfterReplace("failed")
    /\ UNCHANGED <<instances, calls, link, child, sdk, effects>>

LostOutcomeFailed == "failed"
\* mapPluginRPCError keeps ErrOutcomeUnknown.
LostOutcome == "unknown"
ReplaceLost ==
    /\ host = "replace" /\ Unanswered /\ AfterReplace(LostOutcome)
    /\ UNCHANGED <<instances, link, child, sdk, effects>>

\* Invoke, EndSession, SessionInput, Operation and Ping: a call that changes
\* no instance, and whose callback may outlive the daemon's interest in it.
Request ==
    /\ host = "idle" /\ started /\ outcome # "unknown"
    /\ Call("call", Empty) /\ host' = "call"
    /\ UNCHANGED <<started, instances, pending, outcome, link, signal, child, sdk, effects>>

RequestReturns ==
    /\ host = "call" /\ host' = "idle"
    /\ \/ (Responded("done") \/ Responded("failed")) /\ UNCHANGED calls
       \/ Unanswered
    /\ UNCHANGED <<started, instances, pending, outcome, link, signal, child, sdk, effects>>

\* Stop, once: the shutdown call, a grace period, SIGTERM, SIGKILL.
Stop ==
    /\ host = "idle" /\ started
    /\ \/ Call("shutdown", Empty) /\ host' = "shutdown"
       \/ link = "closed" /\ host' = "grace" /\ UNCHANGED calls
    /\ UNCHANGED <<started, instances, pending, outcome, link, signal, child, sdk, effects>>

ShutdownReturns ==
    /\ host = "shutdown" /\ host' = "grace"
    /\ \/ (Responded("done") \/ Responded("failed")) /\ UNCHANGED calls
       \/ Unanswered
    /\ UNCHANGED <<started, instances, pending, outcome, link, signal, child, sdk, effects>>

NeverKilled ==
    /\ child # "reaped" /\ host = "grace" /\ host' = "term" /\ signal' = "TERM"
    /\ UNCHANGED <<started, instances, pending, outcome, calls, link, child, sdk, effects>>

Escalate ==
    /\ child # "reaped"
    /\ \/ host = "grace" /\ host' = "term" /\ signal' = "TERM"
       \/ host = "term" /\ host' = "kill" /\ signal' = "KILL"
    /\ UNCHANGED <<started, instances, pending, outcome, calls, link, child, sdk, effects>>

\* The goroutine of Start that waits for the child: the connection is closed
\* and its transport joined, not the handlers of effects.
Reap ==
    /\ child = "gone" /\ child' = "reaped" /\ link' = "closed"
    /\ UNCHANGED <<host, started, instances, pending, outcome, calls, signal, sdk, effects>>

Stopped ==
    /\ host \in {"grace", "term", "kill"} /\ child = "reaped" /\ host' = "stopped"
    /\ UNCHANGED <<started, instances, pending, outcome, calls, link, signal, child, sdk, effects>>

----------------------------------------------------------------------------
Runtime == \E c \in calls : Refuse(c) \/ Initialize(c) \/ BeginCallback(c) \/ EndCallback(c)
Effect == \E w \in Workers : Capture(w) \/ Ask(w) \/ Admit(w) \/ Finish(w) \/ Unserved(w)
Replace ==
    \/ \E set \in Desired : BeginReplace(set)
    \/ Drained \/ ReplaceAbandoned \/ ReplaceCommitted \/ ReplaceRejected \/ ReplaceLost
Ending == ShutdownReturns \/ Escalate \/ Stopped
Next ==
    \/ Initialized \/ Replace \/ Request \/ RequestReturns \/ Stop \/ Ending
    \/ Runtime \/ Effect \/ Exit \/ Reap \/ LinkFails

DrainEnds == Drained \/ ReplaceAbandoned
ReplaceEnds == ReplaceCommitted \/ ReplaceRejected \/ ReplaceLost
KilledExits == signal = "KILL" /\ Exit

\* Timers of the daemon end its waits; a killed child dies and is reaped.
Fairness ==
    /\ WF_vars(Initialized) /\ WF_vars(DrainEnds) /\ WF_vars(ReplaceEnds)
    /\ WF_vars(RequestReturns) /\ WF_vars(Ending)
    /\ WF_vars(KilledExits) /\ WF_vars(Reap)

Spec == Init /\ [][Next]_vars /\ Fairness

----------------------------------------------------------------------------
TypeOK ==
    /\ host \in {"initialize", "idle", "drain", "replace", "call", "shutdown", "grace", "term",
                 "kill", "stopped"}
    /\ instances \in [Ids -> 0 .. MaxGeneration]
    /\ pending \in [Ids -> 0 .. MaxGeneration] \cup {Nil}
    /\ outcome \in {"none", "done", "failed", "unknown"}
    /\ sdk.held \in [Ids -> 0 .. MaxGeneration]

\* applyActiveEffect: "keeps authorization valid until the admitted effect
\* finishes".  However a replacement, its failure and the effects interleave,
\* an effect the daemon is applying belongs to the committed instance set.
EffectsAuthorized ==
    \A w \in Workers : InFlight(effects[w]) => InstanceMatches(instances, effects[w])

\* A replacement is all or nothing across the two processes: while the daemon
\* is not replacing and the last outcome is known, the plugin holds exactly
\* the instances the daemon committed, whatever calls were abandoned.
SidesAgree ==
    host \in {"idle", "call"} /\ started /\ outcome # "unknown" => sdk.held = instances

\* The daemon and the plugin agree on the instances.
InstancesAgree == EffectsAuthorized /\ SidesAgree

\* Nothing the daemon does with a child waits forever, not even for a plugin
\* that answers nothing and ignores SIGTERM.
Waits == host \in {"initialize", "drain", "replace", "call", "shutdown", "grace", "term", "kill"}
ProcessWaitsEnd == Waits ~> ~Waits
=============================================================================
