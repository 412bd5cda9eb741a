----------------------------- MODULE Supervisor -----------------------------
(***************************************************************************)
(* The supervisor of one plugin package (internal/pluginhost/supervisor*.go)*)
(* and the child process it owns.  One goroutine takes commands, timers,    *)
(* completions and exits one at a time, so a handler is one action; the     *)
(* child may die, and complete a session, between any two of them.          *)
(*                                                                          *)
(* The fields of the goroutine are one record v.  A helper that cannot fail *)
(* is a function from a record to a record; one that calls the child is a   *)
(* function from a record to the set of records its outcomes lead to.       *)
(***************************************************************************)
EXTENDS Integers, Sequences, FiniteSets, FiniteSetsExt, SequencesExt

CONSTANTS Instances,
          Specs,                      \* specifications that may be applied
          maxPendingSessionCleanups,
          HealthMissLimit,            \* 3 in the code
          ExitLimit,                  \* 5 in the code
          MaxRuns,                    \* bound on the run counter
          MaxTokens                   \* bound on the sessions that are started

VARIABLES
    s,              \* the fields of the supervisor, and its child
    completions,    \* session completions admitted and not yet handled
    issued          \* every session that was ever requested

vars == <<s, completions, issued>>

NoSpec == [instances |-> [i \in Instances |-> 0], resident |-> FALSE, startup |-> 0]

(* alive, held: the child process and the sessions it has.  reaped: the     *)
(* exit commands in the queue.  core: the sessions the core was given and   *)
(* not told to be gone.  untold: ghost, sessions dropped by an input error  *)
(* or a new specification, of which the child is not told.                  *)
Init ==
    /\ s = [mode |-> "run", desired |-> FALSE, spec |-> NoSpec, child |-> FALSE,
            childSpec |-> NoSpec, stopping |-> FALSE, postStop |-> "none", runID |-> 0,
            sessions |-> {}, pending |-> <<>>, phase |-> "stopped", misses |-> 0,
            health |-> FALSE, retry |-> FALSE, exits |-> 0, unsupported |-> FALSE,
            alive |-> FALSE, held |-> {}, reaped |-> {}, core |-> {}, untold |-> {}]
    /\ completions = {} /\ issued = {}

----------------------------------------------------------------------------
(* Helpers                                                                  *)

Resident(v) == v.spec.resident
WantsChild(v) == Resident(v) \/ v.sessions # {}
Hosts(spec, x) == spec.instances[x.inst] = x.gen
IdleTransient(v) == v.child /\ ~Resident(v) /\ v.sessions = {}

DropSilently(v, gone) == [v EXCEPT !.sessions = @ \ gone]

(* invalidateSession: forget the session and tell the core.                 *)
InvalidateSessions(v, gone) == [v EXCEPT !.sessions = @ \ gone, !.core = @ \ gone]

PruneSessions(v) ==
    LET gone == {x \in v.sessions : ~Hosts(v.spec, x)}
    IN [InvalidateSessions(v, gone) EXCEPT !.untold = @ \cup gone]

ScheduleRetry(v) == [v EXCEPT !.phase = "backoff", !.retry = TRUE]

Quarantine(v, unsupported) ==
    [v EXCEPT !.retry = FALSE, !.phase = "quarantined", !.unsupported = unsupported]

QueuePostStop(v, action) ==
    IF action = "retry" \/ v.postStop = "none" THEN [v EXCEPT !.postStop = action] ELSE v

RecordFailure(v) ==
    LET w == [v EXCEPT !.retry = FALSE, !.unsupported = FALSE] IN
    IF w.stopping THEN [QueuePostStop(w, "retry") EXCEPT !.phase = "stopping"]
    ELSE ScheduleRetry(w)

ClearFailures(v) ==
    [v EXCEPT !.exits = 0, !.misses = 0, !.retry = FALSE, !.unsupported = FALSE,
              !.phase = IF v.stopping THEN "stopping"
                        ELSE IF v.child THEN "running" ELSE "stopped"]

(* finishStop, once the process is reaped: its exit command is, or will be, *)
(* in the queue with a run that is over.                                    *)
FinishStop(v) ==
    [v EXCEPT !.runID = @ + 1, !.child = FALSE, !.stopping = FALSE, !.postStop = "none",
              !.pending = <<>>, !.phase = "stopped", !.alive = FALSE, !.held = {},
              !.reaped = @ \cup {v.runID}]

(* startChild: it starts, cannot ever start, or fails to.                   *)
StartChild(v) ==
    IF ~v.desired \/ v.child \/ v.stopping \/ v.phase = "quarantined" THEN {v}
    ELSE {Quarantine(v, unsupported) : unsupported \in BOOLEAN} \cup {RecordFailure(v)} \cup
         (IF v.runID >= MaxRuns THEN {}
          ELSE {[v EXCEPT !.child = TRUE, !.childSpec = v.spec, !.runID = @ + 1,
                          !.pending = <<>>, !.phase = "running", !.misses = 0,
                          !.health = TRUE, !.alive = TRUE, !.held = {}]})

ContinueAfterStop(v, action) ==
    CASE ~v.desired \/ ~WantsChild(v) -> {v}
      [] v.desired /\ WantsChild(v) /\ action = "retry" -> {ScheduleRetry(v)}
      [] v.desired /\ WantsChild(v) /\ action = "restart" -> StartChild(v)
      [] v.desired /\ WantsChild(v) /\ action = "none" -> {v}

(* stopCurrent: the child is reaped in time, whatever action was queued; it *)
(* is not, and its exit will continue; or Stop fails and it is reaped.      *)
StopCurrent(v) ==
    LET w == IF v.stopping THEN v
             ELSE [v EXCEPT !.health = FALSE, !.stopping = TRUE, !.phase = "stopping"]
    IN IF ~v.child THEN {[v |-> v, ok |-> TRUE]}
       ELSE {[v |-> FinishStop(w), ok |-> TRUE], [v |-> w, ok |-> FALSE]} \cup
            {[v |-> x, ok |-> FALSE] : x \in ContinueAfterStop(FinishStop(w), w.postStop)}

Stopped(v) == {o.v : o \in StopCurrent(v)}

(* failAmbiguousLifecycle *)
FailAmbiguousLifecycle(v) ==
    {RecordFailure(w) : w \in Stopped(InvalidateSessions(v, v.sessions))}

(* failClosedSessionCleanup *)
FailClosedSessionCleanup(v) ==
    LET w == InvalidateSessions(v, v.sessions)
        queued == IF Resident(v) THEN QueuePostStop(w, "restart") ELSE w
    IN UNION {IF o.ok /\ Resident(v) THEN StartChild(o.v) ELSE {o.v} : o \in StopCurrent(queued)}

----------------------------------------------------------------------------
(* Session cleanup                                                          *)

(* enqueueSessionCleanup: result is the error, if any.                      *)
EnqueueSessionCleanup(v, x) ==
    IF ~v.child \/ Contains(v.pending, x) THEN {[v |-> v, result |-> "ok"]}
    ELSE IF Len(v.pending) >= maxPendingSessionCleanups
    THEN {[v |-> w, result |-> "limit"] : w \in FailClosedSessionCleanup(v)}
    ELSE {[v |-> [v EXCEPT !.pending = Append(@, x)], result |-> "ok"]}

ForgetFailedCleanup(v, x) == {[v |-> v, result |-> "failed"]}

(* A plain error of EndSession queues the cleanup.                          *)
CleanupFailed(v, x) ==
    {[v |-> o.v, result |-> IF o.result = "ok" THEN "failed" ELSE o.result] :
        o \in EnqueueSessionCleanup(v, x)}

(* deliverSessionCleanup *)
DeliverSessionCleanup(v, x) ==
    IF ~v.child THEN {[v |-> v, result |-> "ok"]}
    ELSE {[v |-> w, result |-> "unknown"] : w \in FailAmbiguousLifecycle(v)} \cup
         CleanupFailed(v, x) \cup
         (IF v.alive
          THEN {[v |-> [v EXCEPT !.pending = Remove(@, x), !.held = @ \ {x}], result |-> "ok"]}
          ELSE {})

(* retryPendingSessionCleanup *)
RetryPendingSessionCleanup(v) ==
    IF v.pending = <<>> THEN {v}
    ELSE IF ~v.child THEN {[v EXCEPT !.pending = <<>>]}
    ELSE FailAmbiguousLifecycle(v) \cup
         {[v EXCEPT !.pending = Append(Tail(@), Head(@))]} \cup
         (IF v.alive THEN {[v EXCEPT !.pending = Tail(@), !.held = @ \ {Head(v.pending)}]}
                     ELSE {})

----------------------------------------------------------------------------
(* Configuration                                                            *)

(* replaceChildInstances: accepted, ambiguous, rejected or failed.  The     *)
(* child ends the sessions of the instances it no longer hosts.             *)
ReplaceChildInstances(v) ==
    {[v |-> w, ok |-> FALSE] : w \in FailAmbiguousLifecycle(v)} \cup
    {[v |-> Quarantine(v, FALSE), ok |-> FALSE], [v |-> RecordFailure(v), ok |-> FALSE]} \cup
    (IF v.alive
     THEN {[v |-> ClearFailures([v EXCEPT !.childSpec = v.spec,
                                   !.held = {x \in @ : Hosts(v.spec, x)}]), ok |-> TRUE]}
     ELSE {})

(* A step of apply either returns or hands the record to the next step.     *)
Then(outcomes, Step(_)) == UNION {IF o.ok THEN Step(o.v) ELSE {o.v} : o \in outcomes}

ApplyStart(v) ==
    IF ~v.child /\ WantsChild(v) /\ v.phase \notin {"backoff", "quarantined"}
    THEN StartChild(v) ELSE {v}

ApplyIdle(v) == IF IdleTransient(v) THEN Stopped(v) ELSE ApplyStart(v)

ApplyCleanup(v) ==
    UNION {ApplyIdle(w) : w \in IF v.child THEN RetryPendingSessionCleanup(v) ELSE {v}}

ApplyInstances(v) ==
    IF v.child /\ v.childSpec.instances # v.spec.instances
    THEN Then(ReplaceChildInstances(v), ApplyCleanup)
    ELSE ApplyCleanup(v)

ForgetQueue(v) == v

(* The child that is being stopped is needed again.                         *)
QueueRestart(v) == IF WantsChild(v) THEN QueuePostStop(v, "restart") ELSE v

ApplyStartup(v, changed) ==
    IF v.child /\ changed
    THEN Then(StopCurrent(QueueRestart(InvalidateSessions(v, v.sessions))), ApplyInstances)
    ELSE ApplyInstances(v)

Applied(v, spec) ==
    LET fresh == IF ~v.desired \/ v.spec # spec THEN ClearFailures(v) ELSE v
        w == PruneSessions([fresh EXCEPT !.desired = TRUE, !.spec = spec])
        Startup(x) == ApplyStartup(x, v.spec.startup # spec.startup)
    IN IF w.stopping THEN Then(StopCurrent(QueueRestart(w)), Startup) ELSE Startup(w)

Apply(spec) ==
    /\ s.mode = "run"
    /\ \A i \in Instances : spec.instances[i] = 0 \/ spec.instances[i] >= s.spec.instances[i]
    /\ s' \in Applied(s, spec)
    /\ UNCHANGED <<completions, issued>>

(* restart *)
Restart ==
    LET v == ClearFailures(s)
        w == InvalidateSessions(v, v.sessions)
        queued == IF Resident(w) THEN [w EXCEPT !.postStop = "restart"] ELSE w
        Start(x) == IF Resident(x) THEN StartChild(x) ELSE {[x EXCEPT !.phase = "stopped"]}
    IN /\ s.mode = "run" /\ s.desired
       /\ ~(s.phase = "quarantined" /\ s.unsupported)
       /\ s' \in IF s.child THEN Then(StopCurrent(queued), Start) ELSE Start(w)
       /\ UNCHANGED <<completions, issued>>

----------------------------------------------------------------------------
(* Sessions                                                                 *)

Unavailable(v) == v.phase \in {"backoff", "quarantined", "stopping"}

(* The reply of an accepted invocation makes the session the core's.        *)
Recorded(v, x) ==
    LET same == {y \in v.sessions \cup v.core : y.inst = x.inst}
    IN [v EXCEPT !.sessions = (@ \ same) \cup {x}, !.core = (@ \ same) \cup {x}]

Accepted(v, x) ==
    LET previous == {y \in v.sessions : y.inst = x.inst}
        w == [v EXCEPT !.held = @ \cup {x}]
    IN IF previous = {} THEN {Recorded(w, x)}
       ELSE {IF o.result = "limit" THEN o.v ELSE Recorded(o.v, x) :
                o \in DeliverSessionCleanup(w, CHOOSE y \in previous : TRUE)}

InvokeFailed(v) == IF IdleTransient(v) THEN Stopped(v) ELSE {v}

Invoked(v, x) ==
    IF ~v.child THEN {v}
    ELSE UNION {InvokeFailed(w) : w \in FailAmbiguousLifecycle(v) \cup {v}} \cup
         (IF v.alive THEN Accepted(v, x) ELSE {})

Invoke(i) ==
    LET x == [inst |-> i, gen |-> s.spec.instances[i], token |-> Cardinality(issued) + 1]
    IN /\ s.mode = "run" /\ Cardinality(issued) < MaxTokens
       /\ s.desired /\ ~Unavailable(s) /\ x.gen # 0
       /\ s' \in UNION {Invoked(w, x) : w \in IF s.child THEN {s} ELSE StartChild(s)}
       /\ issued' = issued \cup {x}
       /\ UNCHANGED completions

(* endSession, also of a session that is long gone or whose caller has left *)
EndSession(x, expired) ==
    LET v == [s EXCEPT !.sessions = @ \ {x}, !.core = @ \ {x}]
        ended == IF x \notin s.sessions \/ ~s.child THEN {v}
                 ELSE {o.v : o \in IF expired THEN EnqueueSessionCleanup(v, x)
                                             ELSE DeliverSessionCleanup(v, x)}
    IN /\ s.mode = "run"
       /\ s' \in UNION {IF IdleTransient(w) THEN Stopped(w) ELSE {w} : w \in ended}
       /\ UNCHANGED <<completions, issued>>

(* completeSession, of a completion the child asked for                     *)
CompleteSession(x) ==
    LET v == [s EXCEPT !.sessions = @ \ {x}, !.core = @ \ ({x} \cap s.sessions)] IN
    /\ s.mode = "run" /\ x \in completions
    /\ s' \in IF IdleTransient(v) THEN Stopped(v) ELSE {v}
    /\ completions' = completions \ {x}
    /\ UNCHANGED issued

(* sessionInput: delivered, ambiguous, or failed.                           *)
SessionInput(x) ==
    LET v == [InvalidateSessions(s, {x}) EXCEPT !.untold = @ \cup {x}] IN
    /\ s.mode = "run" /\ s.desired /\ s.child /\ s.phase # "stopping"
    /\ x \in s.sessions
    /\ s' \in FailAmbiguousLifecycle(s) \cup (IF Resident(s) THEN {v} ELSE Stopped(v))
    /\ UNCHANGED <<completions, issued>>

(* operation, which may start a transient child and stops it again          *)
Operation(i) ==
    /\ s.mode = "run" /\ s.desired /\ ~Unavailable(s) /\ s.spec.instances[i] # 0
    /\ s' \in UNION {IF IdleTransient(w) THEN Stopped(w) ELSE {w} :
                        w \in IF s.child THEN {s} ELSE StartChild(s)}
    /\ UNCHANGED <<completions, issued>>

----------------------------------------------------------------------------
(* The child                                                                *)

(* It dies, by itself or because it was told to, and its exit is queued.    *)
ChildExit ==
    /\ s.alive
    /\ LET v == [s EXCEPT !.alive = FALSE, !.held = {}, !.reaped = @ \cup {s.runID}]
       IN s' = IF s.mode = "joining" THEN [FinishStop(v) EXCEPT !.mode = "closed"] ELSE v
    /\ UNCHANGED <<completions, issued>>

(* It completes a session by itself.                                        *)
ChildComplete(x) ==
    /\ s.alive /\ x \in s.held
    /\ s' = [s EXCEPT !.held = @ \ {x}]
    /\ completions' = completions \cup {x}
    /\ UNCHANGED issued

ExitOfAnyRun(run) == s.child

ExitBeforeCurrent(run) == s.child /\ run < s.runID

ExitIsCurrent(run) == s.child /\ run = s.runID

(* exited: of a stopping child, or unexpectedly.  addExit forgets the exits *)
(* that have left the failure window.                                       *)
Exited(run) ==
    LET gone == [s EXCEPT !.reaped = @ \ {run}]
        v == InvalidateSessions([gone EXCEPT !.health = FALSE, !.child = FALSE, !.pending = <<>>],
                                s.sessions)
        Count(n) == [v EXCEPT !.exits = n, !.retry = FALSE, !.unsupported = FALSE]
    IN /\ s.mode = "run" /\ run \in s.reaped
       /\ s' \in IF ~ExitIsCurrent(run) THEN {gone}
                 ELSE IF s.stopping
                 THEN ContinueAfterStop([FinishStop(gone) EXCEPT !.reaped = gone.reaped], s.postStop)
                 ELSE IF ~s.desired THEN {[v EXCEPT !.phase = "stopped"]}
                 ELSE {IF n >= ExitLimit THEN [Count(n) EXCEPT !.phase = "quarantined"]
                       ELSE ScheduleRetry(Count(n)) : n \in 1 .. s.exits + 1}
       /\ UNCHANGED <<completions, issued>>

----------------------------------------------------------------------------
(* Timers and shutdown                                                      *)

Pinged(v) ==
    LET missed == [v EXCEPT !.misses = @ + 1] IN
    (IF v.alive THEN {[v EXCEPT !.misses = 0, !.phase = p, !.health = TRUE] : p \in {"running", "unhealthy"}}
     ELSE {}) \cup
    (IF missed.misses < HealthMissLimit THEN {[missed EXCEPT !.health = TRUE]}
     ELSE {RecordFailure(w) : w \in Stopped(InvalidateSessions(
              [missed EXCEPT !.phase = "unhealthy"], v.sessions))})

Health ==
    LET v == [s EXCEPT !.health = FALSE] IN
    /\ s.mode = "run" /\ s.health
    /\ s' \in IF ~s.desired \/ ~s.child THEN {v}
              ELSE UNION {IF ~w.child \/ w.stopping THEN {w} ELSE Pinged(w) :
                             w \in RetryPendingSessionCleanup(v)}
    /\ UNCHANGED <<completions, issued>>

Retry ==
    LET v == [s EXCEPT !.retry = FALSE] IN
    /\ s.mode = "run" /\ s.retry
    /\ s' \in IF ~v.desired \/ v.phase = "quarantined" THEN {v}
              ELSE IF v.stopping THEN {[QueuePostStop(v, "retry") EXCEPT !.phase = "stopping"]}
              ELSE IF v.child /\ v.childSpec.instances # v.spec.instances
              THEN Then(ReplaceChildInstances(v), RetryPendingSessionCleanup)
              ELSE IF WantsChild(v) THEN StartChild(v)
              ELSE {[v EXCEPT !.phase = "stopped"]}
    /\ UNCHANGED <<completions, issued>>

(* shutdownNow: a child that is not reaped in time is waited for.           *)
Shutdown ==
    LET v == InvalidateSessions([s EXCEPT !.desired = FALSE, !.postStop = "none",
                                          !.health = FALSE, !.retry = FALSE], s.sessions)
    IN /\ s.mode = "run"
       /\ s' \in {IF w.alive THEN [w EXCEPT !.mode = "joining"]
                  ELSE [(IF w.child THEN FinishStop(w) ELSE w)
                           EXCEPT !.phase = "stopped", !.mode = "closed"] : w \in Stopped(v)}
       /\ UNCHANGED <<completions, issued>>

Next ==
    \/ \E spec \in Specs : Apply(spec)
    \/ Restart
    \/ \E i \in Instances : Invoke(i) \/ Operation(i)
    \/ \E x \in issued :
          \/ \E expired \in BOOLEAN : EndSession(x, expired)
          \/ CompleteSession(x) \/ SessionInput(x) \/ ChildComplete(x)
    \/ ChildExit
    \/ \E run \in s.reaped : Exited(run)
    \/ Health \/ Retry \/ Shutdown

Spec == Init /\ [][Next]_vars

----------------------------------------------------------------------------
(* Properties                                                               *)

Session == [inst : Instances, gen : Nat, token : 1 .. MaxTokens]
(* A desired resident plugin is never forgotten: it has a child, or a retry *)
(* is scheduled, or it is quarantined; and a child being stopped has its    *)
(* successor queued.                                                        *)
ResidentRecovers ==
    s.mode = "run" /\ s.desired /\ Resident(s) =>
        /\ ~s.child => s.retry \/ s.phase = "quarantined"
        /\ s.stopping => s.postStop # "none"

(* A live process is always owned, and a dead one has its exit queued: no   *)
(* exit of an earlier run, no restart and no shutdown makes the supervisor  *)
(* forget the child it has, or keep one for ever.                           *)
NoOrphanProcess ==
    /\ s.alive => s.child
    /\ s.child /\ ~s.alive => s.runID \in s.reaped
    /\ s.mode = "closed" => ~s.child

(* The core is told of every session that is lost: what it holds is always  *)
(* tracked here.                                                            *)
LossReported == s.core \subseteq s.sessions

(* A session that the child holds is tracked, its cleanup or completion is  *)
(* under way, or the child is on its way out: none leaks in the child.  The *)
(* exceptions are the sessions dropped without telling the child.           *)
HeldSessionsTracked ==
    s.mode = "run" /\ s.child /\ s.alive /\ ~s.stopping =>
        s.held \subseteq s.sessions \cup ToSet(s.pending) \cup s.untold

(* What the core holds can receive input: there is a child that is not      *)
(* being stopped, or whose exit is about to be noticed.                     *)
SessionsServed == s.core # {} => s.child /\ ~s.stopping

----------------------------------------------------------------------------
StoppedChildExits == ChildExit /\ s.stopping

(* Process.stop ends in SIGKILL, so a child that is being stopped exits;    *)
(* the goroutine keeps taking exit commands.                                *)
Fairness ==
    /\ WF_vars(StoppedChildExits)
    /\ \A run \in 1 .. MaxRuns : WF_vars(Exited(run))

FairSpec == Spec /\ Fairness

(* Stopping always ends, also when Stop timed out and its caller is gone.   *)
Stopping == s.stopping /\ s.mode # "closed"
StoppingEnds == Stopping ~> ~Stopping

============================================================================
