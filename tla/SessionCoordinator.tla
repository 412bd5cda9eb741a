------------------------- MODULE SessionCoordinator -------------------------
(***************************************************************************)
(* Foreground ownership of the bsbctl daemon.                              *)
(*                                                                         *)
(* internal/daemon/session_owner.go keeps one foreground session, one      *)
(* pending admission, an "executing" flag and the critical presentation,   *)
(* all behind one mutex.  Around it run, concurrently:                     *)
(*   - launches (Reconciler.launch), one at a time under launchMu, which   *)
(*     drop every other lock while the plugin runs Invoke;                 *)
(*   - configuration transactions, one at a time under desired.mu;         *)
(*   - the attention engine, which acquires and releases the critical      *)
(*     presentation;                                                       *)
(*   - supervisor callbacks (session invalidated, session completed);      *)
(*   - plugin requests to begin an atomic execution;                       *)
(*   - input, which clears the foreground and opens the launcher.          *)
(* One action is one critical section of the code.                         *)
(***************************************************************************)
EXTENDS Integers, FiniteSets

CONSTANTS Apps,           \* app instance ids
          Plugins,        \* plugin ids
          Identities,     \* ids of critical presentation candidates
          NoSession,      \* empty foreground or pending slot
          NoApp,          \* an app id absent from the document
          NoCritical,     \* criticalIdentity == ""
          MaxSession,     \* bound on nextSession
          MaxGeneration,  \* bound on the document generation
          MaxCritical     \* bound on criticalSequence

ASSUME EmptyValues ==
    /\ NoCritical \notin Identities
    /\ MaxSession \in Nat /\ MaxGeneration \in Nat \ {0} /\ MaxCritical \in Nat

(* A session, an admission and a termination carry the same four fields.   *)
Session == [app : Apps, plugin : Plugins, gen : Nat, token : Nat]

AppRecord == [plugin : Plugins, gen : Nat, enabled : BOOLEAN]

ASSUME EmptyRecords == NoSession \notin Session /\ NoApp \notin AppRecord

VARIABLES
    foreground,       \* foreground* fields
    executing,
    pending,          \* pending* fields
    nextSession,
    criticalIdentity,
    criticalSequence,
    document,         \* live.document.Apps
    docGen,           \* live.document.Generation
    generations,      \* live.generations: the accepted instances
    specs,            \* live.specs: the instances of the last accepted plan
    config,           \* the transaction that holds desired.mu
    retiring,         \* deleted apps whose sessions are not detached yet
    plan,             \* instances being applied to the supervisors
    hosted,           \* instances the supervisors are configured with
    launch,           \* the launch that holds launchMu
    execution,        \* a BeginExecution between its two critical sections
    opened,           \* sessions the supervisors hold
    callbacks,        \* supervisor callbacks that have not reached us yet
    ending,           \* sessions whose endSession is running
    launcher,         \* admission the open launcher was granted
    abandoned,        \* history: sessions whose caller gave up on the plugin
    unnoticed         \* history: sessions whose end the coordinator overlooks

owner == <<foreground, executing, pending, nextSession,
           criticalIdentity, criticalSequence>>
live == <<document, docGen, generations, specs, config, retiring, plan>>
host == <<hosted, opened, callbacks>>
history == <<abandoned, unnoticed>>
vars == <<owner, live, host, launch, execution, ending, launcher, history>>

----------------------------------------------------------------------------
(* Configuration transactions                                              *)

AppOf(a, p) == [app |-> a, plugin |-> p]
IdleConfig == [step |-> "idle", target |-> NoApp]
IdleLaunch == [step |-> "idle", session |-> NoSession]
IdlePlan == [doc |-> 0, specs |-> {}, left |-> {}, busy |-> FALSE]
NoLauncher == [open |-> FALSE, sequence |-> 0, interrupted |-> FALSE]

Exists(a) == document[a] # NoApp
Enabled(a) == Exists(a) /\ document[a].enabled
Retiring(a) == \E r \in retiring : r.app = a

(* The live checks of PluginSessionCompleted, launch and BeginExecution.    *)
Ref(s) == [app |-> s.app, plugin |-> s.plugin, gen |-> s.gen]
GenerationMatches(s) ==
    Exists(s.app) /\ document[s.app].plugin = s.plugin /\ Ref(s) \in generations
GenerationReady(s) == Enabled(s.app) /\ GenerationMatches(s)

(* acceptDocument keeps an accepted generation only while the app keeps it. *)
EnabledInstances(doc) ==
    {[app |-> a, plugin |-> doc[a].plugin, gen |-> doc[a].gen] :
        a \in {b \in Apps : doc[b] # NoApp /\ doc[b].enabled}}

Init ==
    /\ foreground = NoSession /\ pending = NoSession /\ executing = FALSE
    /\ nextSession = 0
    /\ criticalIdentity = NoCritical /\ criticalSequence = 0
    /\ document \in
         [Apps -> [plugin : Plugins, gen : {1}, enabled : BOOLEAN] \cup {NoApp}]
    /\ docGen = 1
    /\ generations = {} /\ specs = {} /\ hosted = {}
    /\ config = IdleConfig /\ retiring = {} /\ plan = IdlePlan
    /\ launch = IdleLaunch /\ execution = NoSession
    /\ opened = {} /\ callbacks = {} /\ ending = {}
    /\ launcher = NoLauncher /\ abandoned = {} /\ unnoticed = {}

(* Store.Update commits the next generation and acceptDocument installs it  *)
(* under live.mu, where a changed app gets the new generation.              *)
AcceptDocument(next, step, target) ==
    /\ config.step = "idle" /\ docGen < MaxGeneration
    /\ document' = next /\ docGen' = docGen + 1
    /\ generations' = generations \cap EnabledInstances(next)
    /\ config' = [step |-> step, target |-> target]
    /\ UNCHANGED <<owner, specs, plan, retiring, host, launch, execution, ending,
                   launcher, history>>

SetEnabled(a, enabled) ==
    /\ ~Retiring(a) /\ Exists(a) /\ document[a].enabled # enabled
    /\ AcceptDocument(
         [document EXCEPT ![a].enabled = enabled, ![a].gen = docGen + 1],
         IF enabled THEN "applying" ELSE "disabling", AppOf(a, document[a].plugin))

ReplaceAppConfiguration(a) ==
    /\ ~Retiring(a) /\ Exists(a)
    /\ AcceptDocument([document EXCEPT ![a].gen = docGen + 1], "applying", NoApp)

ActivatePlugin(p) ==
    AcceptDocument(
        [a \in Apps |-> IF Exists(a) /\ document[a].plugin = p
                        THEN [document[a] EXCEPT !.gen = docGen + 1]
                        ELSE document[a]],
        "applying", NoApp)

CreateAppInstance(a) ==
    /\ ~Retiring(a) /\ ~Exists(a)
    /\ \E p \in Plugins, e \in BOOLEAN :
         AcceptDocument(
            [document EXCEPT ![a] = [plugin |-> p, gen |-> docGen + 1, enabled |-> e]],
            "applying", NoApp)

DeleteAppInstance(a) ==
    /\ ~Retiring(a) /\ Exists(a)
    /\ AcceptDocument([document EXCEPT ![a] = NoApp], "deleting",
                      AppOf(a, document[a].plugin))

(* configurationChanged drops a pending admission of another incarnation.   *)
PendingStillCurrent ==
    /\ Enabled(pending.app)
    /\ document[pending.app].plugin = pending.plugin
    /\ document[pending.app].gen = pending.gen

(* The second half of acceptDocument, still inside the transaction.  Then a *)
(* disable goes on to detach under desired.mu, a deletion detaches after    *)
(* releasing it, behind its retirement fence.                               *)
ApplyConfiguration ==
    /\ config.step \in {"applying", "disabling", "deleting"}
    /\ pending' = IF pending # NoSession /\ ~PendingStillCurrent
                  THEN NoSession ELSE pending
    /\ config' = IF config.step = "disabling"
                 THEN [config EXCEPT !.step = "detaching"] ELSE IdleConfig
    /\ retiring' = IF config.step = "deleting"
                   THEN retiring \cup {config.target} ELSE retiring
    /\ UNCHANGED <<foreground, executing, nextSession, criticalIdentity,
                   criticalSequence, document, docGen, generations, specs,
                   plan, host,
                   launch, execution, ending, launcher, history>>

----------------------------------------------------------------------------
(* Terminal transitions of the coordinator                                  *)

ClearForegroundEndsEmpty ==
    foreground' = NoSession /\ executing' = FALSE /\ ending' = ending \cup {foreground}

(* clearForegroundLocked, and the termination its callers pass endSession.  *)
ClearForegroundLocked ==
    /\ foreground' = NoSession /\ executing' = FALSE
    /\ ending' = IF foreground = NoSession THEN ending ELSE ending \cup {foreground}

Holds(slot, target) ==
    slot # NoSession /\ slot.app = target.app /\ slot.plugin = target.plugin

Detach(target) ==
    /\ pending' = IF Holds(pending, target) THEN NoSession ELSE pending
    /\ IF Holds(foreground, target)
       THEN ClearForegroundLocked
       ELSE UNCHANGED <<foreground, executing, ending>>
    /\ UNCHANGED <<nextSession, criticalIdentity, criticalSequence>>

DetachDisabled ==
    /\ config.step = "detaching"
    /\ Detach(config.target)
    /\ config' = IdleConfig
    /\ UNCHANGED <<document, docGen, generations, specs, retiring, plan, host,
                   launch, execution, launcher, history>>

DetachDeleted(r) ==
    /\ r \in retiring
    /\ Detach(r)
    /\ retiring' = retiring \ {r}
    /\ UNCHANGED <<document, docGen, generations, specs, config, plan, host,
                   launch, execution, launcher, history>>

(* clear(expected, expectedToken), where an empty argument matches any slot. *)
Matches(slot, a, t) ==
    /\ slot # NoSession
    /\ a = NoApp \/ slot.app = a
    /\ t = 0 \/ slot.token = t

ClearForeground(a, t) ==
    /\ Matches(foreground, a, t) \/ Matches(pending, a, t)
    /\ pending' = IF Matches(pending, a, t) THEN NoSession ELSE pending
    /\ IF Matches(foreground, a, t)
       THEN ClearForegroundLocked
       ELSE UNCHANGED <<foreground, executing, ending>>
    /\ UNCHANGED <<nextSession, criticalIdentity, criticalSequence, live, host,
                   launch, execution, launcher, history>>

(* A supervisor is one goroutine: it does nothing else while a callback of  *)
(* its own has not returned.                                                *)
Quiet(p) == \A c \in callbacks : c.session.plugin # p

(* endSession: the supervisor handles the EndSession command.               *)
EndSession(s) ==
    /\ s \in ending /\ Quiet(s.plugin)
    /\ ending' = ending \ {s}
    /\ opened' = opened \ {s}
    /\ UNCHANGED <<owner, live, hosted, callbacks, launch, execution, launcher,
                   history>>

(* endSession: its five seconds pass while the command queue is full.       *)
EndSessionNotQueued(s) ==
    /\ s \in ending
    /\ ending' = ending \ {s}
    /\ abandoned' = abandoned \cup {s}
    /\ UNCHANGED <<owner, live, host, launch, execution, launcher, unnoticed>>

----------------------------------------------------------------------------
(* Launches                                                                 *)

(* launch reads the app and its accepted generation under live.mu.          *)
LaunchRead(a) ==
    /\ launch.step = "idle" /\ Enabled(a) /\ nextSession < MaxSession
    /\ \E i \in generations :
         /\ i.app = a /\ i.plugin = document[a].plugin
         /\ launch' = [step |-> "begin",
                       session |-> [app |-> a, plugin |-> i.plugin, gen |-> i.gen,
                                    token |-> 0]]
    /\ UNCHANGED <<owner, live, host, execution, ending, launcher, history>>

AvailableWhileExecuting == criticalIdentity # NoCritical

ForegroundUnavailable == criticalIdentity # NoCritical \/ executing

(* begin refuses while a critical presentation or an execution owns the     *)
(* foreground, and otherwise issues a fresh token.                          *)
Begin ==
    /\ launch.step = "begin"
    /\ IF ForegroundUnavailable
       THEN launch' = IdleLaunch /\ UNCHANGED <<pending, nextSession>>
       ELSE /\ nextSession' = nextSession + 1
            /\ pending' = [launch.session EXCEPT !.token = nextSession + 1]
            /\ launch' = [step |-> "invoke", session |-> pending']
    /\ UNCHANGED <<foreground, executing, criticalIdentity, criticalSequence,
                   live, host, execution, ending, launcher, history>>

(* The supervisor runs Invoke when it hosts that generation; a session the  *)
(* instance already had is replaced and ended by the supervisor itself.     *)
Invoke ==
    /\ launch.step = "invoke" /\ Quiet(launch.session.plugin)
    /\ Ref(launch.session) \in hosted
    /\ LET replaced == {s \in opened : s.app = launch.session.app}
       IN  /\ opened' = (opened \ replaced) \cup {launch.session}
           /\ unnoticed' = unnoticed \cup replaced
    /\ \/ launch' = [launch EXCEPT !.step = "recheck"] /\ UNCHANGED abandoned
       \/ (* the caller's context ended first: success is reported as failure *)
          /\ launch' = [launch EXCEPT !.step = "failed"]
          /\ abandoned' = abandoned \cup {launch.session}
    /\ UNCHANGED <<owner, live, hosted, callbacks, execution, ending, launcher>>

InvokeFails ==
    /\ launch.step = "invoke"
    /\ launch' = [launch EXCEPT !.step = "failed"]
    /\ UNCHANGED <<owner, live, host, execution, ending, launcher, history>>

LaunchSkipsRecheck ==
    /\ launch.step = "recheck"
    /\ launch' = [launch EXCEPT !.step = "promote"]
    /\ UNCHANGED <<owner, live, host, execution, ending, launcher, history>>

(* The second look at the live state, after Invoke returned.                *)
LaunchRecheck ==
    /\ launch.step = "recheck"
    /\ launch' = [launch EXCEPT !.step =
                    IF GenerationReady(launch.session) THEN "promote" ELSE "discard"]
    /\ UNCHANGED <<owner, live, host, execution, ending, launcher, history>>

PendingSurvives(s) == pending

(* pendingMatchesAdmission: only the exact admission is cleared.            *)
PendingWithout(s) == IF pending = s THEN NoSession ELSE pending

(* cancel(admission); a discarded launch also ends what Invoke started.     *)
Cancel ==
    /\ launch.step \in {"failed", "discard"}
    /\ pending' = PendingWithout(launch.session)
    /\ IF launch.step = "discard"
       THEN /\ ending' = ending \cup {launch.session}
            /\ launch' = [launch EXCEPT !.step = "ending"]
       ELSE launch' = IdleLaunch /\ UNCHANGED ending
    /\ UNCHANGED <<foreground, executing, nextSession, criticalIdentity,
                   criticalSequence, live, host, execution, launcher, history>>

PromoteLeavesRejectedOpen ==
    /\ launch.step = "promote"
    /\ launch' = [step |-> "ending", session |-> NoSession]
    /\ IF pending = launch.session
       THEN /\ pending' = NoSession /\ foreground' = launch.session /\ executing' = FALSE
            /\ ending' = IF foreground = NoSession THEN ending
                         ELSE ending \cup {foreground}
       ELSE UNCHANGED <<foreground, executing, pending, ending>>
    /\ UNCHANGED <<nextSession, criticalIdentity, criticalSequence, live, host,
                   execution, launcher, history>>

(* promote takes the foreground over only while the admission is pending;   *)
(* the session it displaces, or the rejected one, is ended.                 *)
Promote ==
    /\ launch.step = "promote"
    /\ launch' = [step |-> "ending",
                  session |-> IF pending = launch.session THEN foreground
                              ELSE launch.session]
    /\ IF pending = launch.session
       THEN /\ pending' = NoSession /\ foreground' = launch.session /\ executing' = FALSE
            /\ ending' = IF foreground = NoSession THEN ending
                         ELSE ending \cup {foreground}
       ELSE /\ ending' = ending \cup {launch.session}
            /\ UNCHANGED <<foreground, executing, pending>>
    /\ UNCHANGED <<nextSession, criticalIdentity, criticalSequence, live, host,
                   execution, launcher, history>>

(* launch returns, and releases launchMu, once its endSession is over.      *)
LaunchReturn ==
    /\ launch.step = "ending" /\ launch.session \notin ending
    /\ launch' = IdleLaunch
    /\ UNCHANGED <<owner, live, host, execution, ending, launcher, history>>

----------------------------------------------------------------------------
(* Atomic execution and critical presentation                               *)

(* BeginExecution checks the live generation, then the coordinator.  Of the *)
(* sessions a plugin may name only these can still be, or get to be, the    *)
(* foreground; the coordinator rejects any other.                           *)
BeginExecutionRead(s) ==
    /\ execution = NoSession /\ s \in opened \cup unnoticed /\ GenerationReady(s)
    /\ execution' = s
    /\ UNCHANGED <<owner, live, host, launch, ending, launcher, history>>

BeginExecution ==
    /\ execution # NoSession
    /\ execution' = NoSession
    /\ IF criticalIdentity = NoCritical /\ ~executing /\ foreground = execution
       THEN pending' = NoSession /\ executing' = TRUE
       ELSE UNCHANGED <<pending, executing>>
    /\ UNCHANGED <<foreground, nextSession, criticalIdentity, criticalSequence,
                   live, host, launch, ending, launcher, history>>

(* acquireCritical is refused by an execution; the first acquisition takes  *)
(* the foreground and ends its session.                                     *)
AcquireCritical(id) ==
    /\ ~executing /\ criticalSequence < MaxCritical
    /\ criticalIdentity' = id /\ criticalSequence' = criticalSequence + 1
    /\ IF criticalIdentity # NoCritical
       THEN UNCHANGED <<foreground, executing, pending, ending>>
       ELSE pending' = NoSession /\ ClearForegroundLocked
    /\ launcher' = [launcher EXCEPT !.interrupted = launcher.open]
    /\ UNCHANGED <<nextSession, live, host, launch, execution, history>>

ReleaseCritical ==
    /\ criticalIdentity # NoCritical
    /\ criticalIdentity' = NoCritical
    /\ UNCHANGED <<foreground, executing, pending, nextSession, criticalSequence,
                   live, host, launch, execution, ending, launcher, history>>

(* The launcher opens under the current critical sequence, and is closed    *)
(* when that admission is no longer current.                                *)
BeginLauncherAdmission ==
    /\ ~launcher.open /\ ~ForegroundUnavailable
    /\ launcher' = [open |-> TRUE, sequence |-> criticalSequence, interrupted |-> FALSE]
    /\ UNCHANGED <<owner, live, host, launch, execution, ending, history>>

LauncherIgnoresSequence == ~ForegroundUnavailable

LauncherAdmissionCurrent ==
    /\ ~ForegroundUnavailable
    /\ criticalSequence = launcher.sequence

CloseLauncher ==
    /\ launcher.open /\ ~LauncherAdmissionCurrent
    /\ launcher' = NoLauncher
    /\ UNCHANGED <<owner, live, host, launch, execution, ending, history>>

----------------------------------------------------------------------------
(* Supervisors: reconciliation of hosted instances, and session callbacks   *)

(* A reconciliation attempt plans the enabled apps whose secrets and assets *)
(* are ready; quiescing plans the accepted instances of the other plugins.  *)
PlanAttempt ==
    /\ ~plan.busy
    /\ \/ \E ready \in SUBSET EnabledInstances(document) :
            plan' = [doc |-> docGen, specs |-> ready, left |-> Plugins, busy |-> TRUE]
       \/ \E blocked \in SUBSET Plugins :
            plan' = [doc |-> docGen, specs |-> {i \in specs : i.plugin \notin blocked},
                     left |-> Plugins, busy |-> TRUE]
    /\ UNCHANGED <<owner, document, docGen, generations, specs, config, retiring,
                   host, launch, execution, ending, launcher, history>>

(* supervisor.apply takes its instances over and prunes the sessions of     *)
(* every instance that lost its generation.                                 *)
HostApply(p) ==
    LET pruned == {s \in opened : s.plugin = p /\ Ref(s) \notin plan.specs}
    IN  /\ p \in plan.left /\ Quiet(p)
        /\ hosted' = {i \in hosted : i.plugin # p} \cup {i \in plan.specs : i.plugin = p}
        /\ opened' = opened \ pruned
        /\ callbacks' = callbacks \cup {[kind |-> "pruned", session |-> s] : s \in pruned}
        /\ plan' = [plan EXCEPT !.left = @ \ {p}]
        /\ UNCHANGED <<owner, document, docGen, generations, specs, config, retiring,
                       launch, execution, ending, launcher, history>>

(* The attempt's outcome is accepted unless a newer document replaced it.   *)
AcceptPlan ==
    /\ plan.busy /\ plan.left = {}
    /\ \A c \in callbacks : c.kind # "pruned"
    /\ IF plan.doc = docGen
       THEN generations' = plan.specs /\ specs' = plan.specs
       ELSE UNCHANGED <<generations, specs>>
    /\ plan' = IdlePlan
    /\ UNCHANGED <<owner, document, docGen, config, retiring, host, launch,
                   execution, ending, launcher, history>>

(* The supervisor drops a session (child exit, missed health checks, failed *)
(* input) or the plugin completes it; the callback follows.                 *)
DropSession(s, kind) ==
    /\ s \in opened /\ Quiet(s.plugin)
    /\ opened' = opened \ {s}
    /\ callbacks' = callbacks \cup {[kind |-> kind, session |-> s]}
    /\ UNCHANGED <<owner, live, hosted, launch, execution, ending, launcher, history>>

(* PluginSessionInvalidated *)
Invalidated(c) ==
    /\ c \in callbacks /\ c.kind \in {"pruned", "invalidated"}
    /\ callbacks' = callbacks \ {c}
    /\ pending' = PendingWithout(c.session)
    /\ IF foreground = c.session
       THEN foreground' = NoSession /\ executing' = FALSE
       ELSE UNCHANGED <<foreground, executing>>
    /\ UNCHANGED <<nextSession, criticalIdentity, criticalSequence, live, hosted,
                   opened, launch, execution, ending, launcher, history>>

(* PluginSessionCompleted reads the live generation, then completes.        *)
CompletedRead(c) ==
    /\ c \in callbacks /\ c.kind = "completed"
    /\ callbacks' = (callbacks \ {c}) \cup
          {[c EXCEPT !.kind = IF GenerationMatches(c.session) THEN "eligible" ELSE "ineligible"]}
    /\ UNCHANGED <<owner, live, hosted, opened, launch, execution, ending, launcher,
                   history>>

Completed(c) ==
    /\ c \in callbacks /\ c.kind \in {"eligible", "ineligible"}
    /\ callbacks' = callbacks \ {c}
    /\ pending' = IF c.kind = "eligible" THEN PendingWithout(c.session) ELSE pending
    /\ IF foreground = c.session
       THEN foreground' = NoSession /\ executing' = FALSE
       ELSE UNCHANGED <<foreground, executing>>
    /\ unnoticed' = IF c.kind = "ineligible" /\ pending = c.session
                    THEN unnoticed \cup {c.session} ELSE unnoticed
    /\ UNCHANGED <<nextSession, criticalIdentity, criticalSequence, live, hosted,
                   opened, launch, execution, ending, launcher, abandoned>>

----------------------------------------------------------------------------
Configure ==
    \/ \E a \in Apps :
        \/ \E e \in BOOLEAN : SetEnabled(a, e)
        \/ ReplaceAppConfiguration(a) \/ CreateAppInstance(a) \/ DeleteAppInstance(a)
    \/ \E p \in Plugins : ActivatePlugin(p)
    \/ ApplyConfiguration \/ DetachDisabled \/ \E r \in retiring : DetachDeleted(r)

LaunchContinues ==
    Begin \/ Invoke \/ InvokeFails \/ LaunchRecheck \/ Cancel \/ Promote \/ LaunchReturn

Launch == LaunchContinues \/ \E a \in Apps : LaunchRead(a)

DeliverCallback == \E c \in callbacks : Invalidated(c) \/ CompletedRead(c) \/ Completed(c)
RunEndSession == \E s \in ending : EndSession(s) \/ EndSessionNotQueued(s)

Supervise ==
    \/ PlanAttempt \/ AcceptPlan \/ \E p \in Plugins : HostApply(p)
    \/ \E s \in opened : DropSession(s, "invalidated") \/ DropSession(s, "completed")
    \/ DeliverCallback \/ RunEndSession

Own ==
    \/ \E s \in opened \cup unnoticed : BeginExecutionRead(s)
    \/ BeginExecution
    \/ \E id \in Identities : AcquireCritical(id)
    \/ ReleaseCritical \/ BeginLauncherAdmission \/ CloseLauncher
    \/ \E a \in Apps, t \in 1 .. nextSession : ClearForeground(a, t)

Next == Configure \/ Launch \/ Supervise \/ Own

Spec == Init /\ [][Next]_vars

(* A launch in progress is a goroutine whose waits all have deadlines, a    *)
(* callback runs inline in its supervisor, and endSession gives up after    *)
(* five seconds: each of them goes on.                                      *)
FairSpec ==
    /\ Spec
    /\ WF_vars(LaunchContinues) /\ WF_vars(DeliverCallback) /\ WF_vars(RunEndSession)

----------------------------------------------------------------------------
(* Properties *)

Callback == [kind : {"pruned", "invalidated", "completed", "eligible", "ineligible"},
             session : Session]
Instance == [app : Apps, plugin : Plugins, gen : Nat]

OwnerOK ==
    /\ foreground \in Session \cup {NoSession}
    /\ pending \in Session \cup {NoSession}
    /\ executing \in BOOLEAN
    /\ nextSession \in 0 .. MaxSession
    /\ criticalIdentity \in Identities \cup {NoCritical}
    /\ criticalSequence \in 0 .. MaxCritical

LiveOK ==
    /\ document \in [Apps -> AppRecord \cup {NoApp}]
    /\ docGen \in 1 .. MaxGeneration
    /\ generations \subseteq Instance /\ specs \subseteq Instance
    /\ config \in [step : {"idle", "applying", "disabling", "deleting", "detaching"},
                   target : [app : Apps, plugin : Plugins] \cup {NoApp}]
    /\ config.step \in {"disabling", "deleting", "detaching"} =>
           config.target \in [app : Apps, plugin : Plugins]
    /\ retiring \subseteq [app : Apps, plugin : Plugins]
    /\ plan \in [doc : Nat, specs : SUBSET Instance, left : SUBSET Plugins, busy : BOOLEAN]

HostOK ==
    /\ hosted \subseteq Instance /\ opened \subseteq Session /\ callbacks \subseteq Callback

ProcessOK ==
    /\ launch \in [step : {"idle", "begin", "invoke", "recheck", "failed", "promote",
                           "discard", "ending"},
                   session : Session \cup {NoSession}]
    /\ launch.step \notin {"idle", "ending"} => launch.session \in Session
    /\ launch.step = "begin" => nextSession < MaxSession
    /\ execution \in Session \cup {NoSession}
    /\ ending \subseteq Session /\ abandoned \subseteq Session /\ unnoticed \subseteq Session
    /\ launcher \in [open : BOOLEAN, sequence : Nat, interrupted : BOOLEAN]

(* Every field of the coordinator, the live state and the processes around  *)
(* them stays within its declared values.                                   *)
TypeOK == OwnerOK /\ LiveOK /\ HostOK /\ ProcessOK

(* While a critical presentation owns the display no session is in the      *)
(* foreground, admitted or executing (acquireCritical detaches them all);   *)
(* and an atomic execution belongs to the foreground session with no        *)
(* admission waiting to displace it: promote would end the execution.       *)
ForegroundExclusive ==
    /\ criticalIdentity # NoCritical =>
         foreground = NoSession /\ pending = NoSession /\ ~executing
    /\ executing => foreground # NoSession /\ pending = NoSession

(* A launcher whose admission is still current was not interrupted by a     *)
(* critical presentation since it opened, even one already released again   *)
(* (beginLauncherAdmission and launcherAdmissionCurrent).                   *)
LauncherAdmissionSound ==
    launcher.open /\ LauncherAdmissionCurrent => ~launcher.interrupted

(* Every session a supervisor holds has an owner that will end it: it is    *)
(* the foreground, a launch is about to promote or end it, or endSession is *)
(* running for it.  Sessions whose caller ran out of time are the exception.*)
NoOrphanedSession ==
    \A s \in opened \ abandoned :
        \/ s = foreground
        \/ s \in ending
        \/ s = launch.session /\ launch.step \in {"recheck", "promote", "discard"}

(* The foreground never names a session its supervisor dropped, unless the  *)
(* callback that reports it is on its way: promote refuses an admission that*)
(* was invalidated or completed meanwhile.  The exceptions are a session    *)
(* that a later launch of its app replaced, and a completion that arrived   *)
(* for a pending admission of a generation not accepted at that moment.     *)
ForegroundNotStale ==
    foreground # NoSession =>
        \/ foreground \in opened \cup unnoticed
        \/ \E c \in callbacks : c.session = foreground

(* The foreground app is enabled in the live document, except inside the    *)
(* transaction that disables or deletes it, before it detaches.             *)
ForegroundAppEnabled ==
    foreground # NoSession =>
        LET target == AppOf(foreground.app, foreground.plugin) IN
        \/ Enabled(foreground.app) /\ document[foreground.app].plugin = foreground.plugin
        \/ config.target = target /\ config.step # "applying"
        \/ target \in retiring

(* The foreground is a session its supervisor still has, or is about to     *)
(* hear about, of an app that is still to run (the two properties above).   *)
ForegroundCurrent == ForegroundNotStale /\ ForegroundAppEnabled

(* A session that was opened does not stay open behind the foreground: it   *)
(* becomes the foreground, or it is closed, or its caller gave up on it.    *)
Unsettled(s) == s \in opened /\ s # foreground /\ s \notin abandoned
SessionSettles ==
    \A a \in Apps, p \in Plugins, g \in 1 .. MaxGeneration, t \in 1 .. MaxSession :
        LET s == [app |-> a, plugin |-> p, gen |-> g, token |-> t]
        IN  Unsettled(s) ~> ~Unsettled(s)

====
