---------------------- MODULE SessionCoordinatorProofs ----------------------
(***************************************************************************)
(* Proofs about SessionCoordinator, for every set of apps, plugins and     *)
(* critical identities and every bound.                                    *)
(***************************************************************************)
EXTENDS SessionCoordinator, TLAPS

USE EmptyValues, EmptyRecords

----------------------------------------------------------------------------
(* Which steps touch which part of the state                                *)

AcceptsDocument ==
    \/ \E a \in Apps :
        \/ \E e \in BOOLEAN : SetEnabled(a, e)
        \/ ReplaceAppConfiguration(a) \/ CreateAppInstance(a) \/ DeleteAppInstance(a)
    \/ \E p \in Plugins : ActivatePlugin(p)
Detaches == DetachDisabled \/ \E r \in retiring : DetachDeleted(r)
Clears == \E a \in Apps, t \in 1 .. nextSession : ClearForeground(a, t)
Acquires == \E id \in Identities : AcquireCritical(id)
Drops == \E s \in opened : DropSession(s, "invalidated") \/ DropSession(s, "completed")
Applies == \E p \in Plugins : HostApply(p)

OwnerSteps ==
    \/ ApplyConfiguration \/ Detaches \/ Clears \/ Acquires \/ ReleaseCritical
    \/ Begin \/ Cancel \/ Promote \/ BeginExecution \/ DeliverCallback

PlanSteps == PlanAttempt \/ AcceptPlan \/ Applies
Reads ==
    \/ \E a \in Apps : LaunchRead(a)
    \/ \E s \in opened \cup unnoticed : BeginExecutionRead(s)
    \/ InvokeFails \/ LaunchRecheck \/ LaunchReturn
    \/ BeginLauncherAdmission \/ CloseLauncher

(* A transaction's first half changes the live state only.                  *)
LEMMA AcceptsDocumentFrame ==
    ASSUME AcceptsDocument
    PROVE  /\ UNCHANGED <<owner, host, specs, plan, retiring>>
           /\ UNCHANGED <<launch, execution, ending, launcher, history>>
           /\ config.step = "idle" /\ docGen < MaxGeneration /\ docGen' = docGen + 1
           /\ generations' \subseteq generations
BY ZenonT(30) DEF AcceptsDocument, SetEnabled, ReplaceAppConfiguration, CreateAppInstance,
       DeleteAppInstance, ActivatePlugin, AcceptDocument

(* Every step belongs to one of these groups.                               *)
LEMMA Steps ==
    ASSUME Next
    PROVE  \/ AcceptsDocument \/ OwnerSteps \/ PlanSteps \/ Reads
           \/ Invoke \/ Drops \/ RunEndSession
BY DEF Next, Configure, Launch, LaunchContinues, Supervise, Own, AcceptsDocument,
       OwnerSteps, PlanSteps, Reads, Detaches, Clears, Acquires, Drops, Applies

(* What the other groups leave alone.                                       *)
LEMMA ReadsFrame ==
    ASSUME Reads PROVE UNCHANGED <<owner, live, host, ending, history>>
BY DEF Reads, LaunchRead, BeginExecutionRead, InvokeFails, LaunchRecheck, LaunchReturn,
       BeginLauncherAdmission, CloseLauncher

LEMMA PlanFrame ==
    ASSUME PlanSteps
    PROVE  /\ UNCHANGED <<owner, document, docGen, config, retiring>>
           /\ UNCHANGED <<launch, execution, ending, launcher, history>>
BY DEF PlanSteps, PlanAttempt, AcceptPlan, Applies, HostApply

LEMMA SessionFrame ==
    ASSUME Invoke \/ Drops \/ RunEndSession
    PROVE  UNCHANGED <<owner, live, hosted, execution, launcher>>
BY DEF Invoke, Drops, DropSession, RunEndSession, EndSession, EndSessionNotQueued, host

LEMMA OwnerStepsFrame ==
    ASSUME OwnerSteps
    PROVE  UNCHANGED <<document, docGen, generations, specs, plan, hosted, opened>>
<1> USE DEF live, host
<1>1. CASE ApplyConfiguration \/ Detaches \/ Clears
  BY <1>1 DEF ApplyConfiguration, Detaches, DetachDisabled, DetachDeleted, Clears,
              ClearForeground
<1>2. CASE Acquires \/ ReleaseCritical \/ BeginExecution
  BY <1>2 DEF Acquires, AcquireCritical, ReleaseCritical, BeginExecution
<1>3. CASE Begin \/ Cancel \/ Promote
  BY <1>3 DEF Begin, Cancel, Promote
<1>4. CASE DeliverCallback
  BY <1>4 DEF DeliverCallback, Invalidated, CompletedRead, Completed
<1> QED BY <1>1, <1>2, <1>3, <1>4 DEF OwnerSteps

----------------------------------------------------------------------------
(* Type correctness                                                         *)

LEMMA OwnerType == ASSUME TypeOK, Next PROVE OwnerOK'
<1> USE DEF TypeOK, OwnerOK
<1>1. CASE ApplyConfiguration
  BY <1>1 DEF ApplyConfiguration
<1>2. CASE Detaches
  BY Zenon, <1>2 DEF Detaches, DetachDisabled, DetachDeleted, Detach, ClearForegroundLocked
<1>3. CASE Clears
  BY Zenon, <1>3 DEF Clears, ClearForeground, ClearForegroundLocked
<1>4. CASE Acquires
  <2>1. PICK id \in Identities : AcquireCritical(id)
    BY <1>4 DEF Acquires
  <2>2. criticalIdentity' \in Identities \cup {NoCritical} /\ nextSession' = nextSession
    BY <2>1 DEF AcquireCritical
  <2>3. criticalSequence' \in 0 .. MaxCritical
    BY <2>1 DEF AcquireCritical
  <2>4. /\ foreground' \in {foreground, NoSession} /\ pending' \in {pending, NoSession}
        /\ executing' \in {executing, FALSE}
    BY Zenon, <2>1 DEF AcquireCritical, ClearForegroundLocked
  <2> QED BY Zenon, <2>2, <2>3, <2>4
<1>5. CASE ReleaseCritical \/ BeginExecution
  BY Zenon, <1>5 DEF ReleaseCritical, BeginExecution
<1>6. CASE Begin
  BY <1>6 DEF Begin, ProcessOK, Session
<1>7. CASE Cancel \/ Promote
  BY Zenon, <1>7 DEF Cancel, Promote, PendingWithout, ProcessOK
<1>8. CASE DeliverCallback
  BY Zenon, <1>8 DEF DeliverCallback, Invalidated, CompletedRead, Completed, PendingWithout, owner
<1>9. CASE ~OwnerSteps
  BY <1>9, Steps, AcceptsDocumentFrame, ReadsFrame, PlanFrame, SessionFrame DEF owner
<1> QED BY <1>1, <1>2, <1>3, <1>4, <1>5, <1>6, <1>7, <1>8, <1>9 DEF OwnerSteps

LEMMA AcceptsDocumentType == ASSUME TypeOK, AcceptsDocument PROVE LiveOK'
<1> DEFINE Documents == [Apps -> AppRecord \cup {NoApp}]
           Targets == [app : Apps, plugin : Plugins] \cup {NoApp}
           Steps3 == {"applying", "disabling", "deleting"}
<1> USE DEF TypeOK, LiveOK
<1>1. docGen + 1 \in Nat /\ \A a \in Apps : Exists(a) => document[a] \in AppRecord
  BY DEF Exists
<1>2. \E next \in Documents, step \in Steps3, target \in Targets :
         /\ AcceptDocument(next, step, target)
         /\ step # "applying" => target \in [app : Apps, plugin : Plugins]
  <2>1. CASE \E a \in Apps, e \in BOOLEAN : SetEnabled(a, e)
    <3>1. PICK a \in Apps, e \in BOOLEAN : SetEnabled(a, e)
      BY <2>1
    <3>2. [document EXCEPT ![a].enabled = e, ![a].gen = docGen + 1] \in Documents
      BY <3>1, <1>1 DEF SetEnabled, AppRecord
    <3>3. AppOf(a, document[a].plugin) \in [app : Apps, plugin : Plugins]
      BY <3>1, <1>1 DEF SetEnabled, AppOf, AppRecord
    <3> QED BY Zenon, <3>1, <3>2, <3>3 DEF SetEnabled
  <2>2. CASE \E a \in Apps : ReplaceAppConfiguration(a)
    <3>1. PICK a \in Apps : ReplaceAppConfiguration(a)
      BY <2>2
    <3>2. [document EXCEPT ![a].gen = docGen + 1] \in Documents
      BY <3>1, <1>1 DEF ReplaceAppConfiguration, AppRecord
    <3> QED BY Zenon, <3>1, <3>2 DEF ReplaceAppConfiguration
  <2>3. CASE \E a \in Apps : CreateAppInstance(a)
    <3>1. PICK a \in Apps, p \in Plugins, e \in BOOLEAN :
             AcceptDocument(
               [document EXCEPT ![a] = [plugin |-> p, gen |-> docGen + 1, enabled |-> e]],
               "applying", NoApp)
      BY Zenon, <2>3 DEF CreateAppInstance
    <3>2. [document EXCEPT ![a] = [plugin |-> p, gen |-> docGen + 1, enabled |-> e]]
            \in Documents
      BY <1>1 DEF AppRecord
    <3> QED BY Zenon, <3>1, <3>2
  <2>4. CASE \E a \in Apps : DeleteAppInstance(a)
    <3>1. PICK a \in Apps : DeleteAppInstance(a)
      BY <2>4
    <3>2. [document EXCEPT ![a] = NoApp] \in Documents
      OBVIOUS
    <3>3. AppOf(a, document[a].plugin) \in [app : Apps, plugin : Plugins]
      BY <3>1, <1>1 DEF DeleteAppInstance, AppOf, AppRecord
    <3> QED BY Zenon, <3>1, <3>2, <3>3 DEF DeleteAppInstance
  <2>5. CASE \E p \in Plugins : ActivatePlugin(p)
    <3>1. PICK p \in Plugins : ActivatePlugin(p)
      BY <2>5
    <3>2. [a \in Apps |-> IF Exists(a) /\ document[a].plugin = p
                          THEN [document[a] EXCEPT !.gen = docGen + 1]
                          ELSE document[a]] \in Documents
      BY <1>1 DEF AppRecord
    <3> QED BY <3>1, <3>2 DEF ActivatePlugin
  <2> QED BY <2>1, <2>2, <2>3, <2>4, <2>5 DEF AcceptsDocument
<1>3. PICK next \in Documents, step \in Steps3, target \in Targets :
         /\ document' = next /\ config' = [step |-> step, target |-> target]
         /\ step # "applying" => target \in [app : Apps, plugin : Plugins]
  BY Zenon, <1>2 DEF AcceptDocument
<1> QED BY <1>3, AcceptsDocumentFrame DEF host

LEMMA LiveType == ASSUME TypeOK, Next PROVE LiveOK'
<1> USE DEF TypeOK, LiveOK
<1>1. CASE ApplyConfiguration
  BY <1>1 DEF ApplyConfiguration, IdleConfig
<1>2. CASE Detaches
  BY <1>2 DEF Detaches, DetachDisabled, DetachDeleted, IdleConfig
<1>3. CASE OwnerSteps /\ ~ApplyConfiguration /\ ~Detaches
  <2>1. CASE Clears \/ Acquires \/ ReleaseCritical \/ BeginExecution
    BY <2>1 DEF Clears, ClearForeground, Acquires, AcquireCritical, ReleaseCritical,
                BeginExecution, live
  <2>2. CASE Begin \/ Cancel \/ Promote
    BY <2>2 DEF Begin, Cancel, Promote, live
  <2>3. CASE DeliverCallback
    BY <2>3 DEF DeliverCallback, Invalidated, CompletedRead, Completed, live
  <2> QED BY <1>3, <2>1, <2>2, <2>3 DEF OwnerSteps
<1>4. CASE AcceptsDocument
  BY <1>4, AcceptsDocumentType
<1>5. CASE PlanAttempt
  <2>1. EnabledInstances(document) \subseteq Instance
    <3> SUFFICES ASSUME NEW a \in Apps, document[a] # NoApp
                 PROVE  [app |-> a, plugin |-> document[a].plugin, gen |-> document[a].gen]
                          \in Instance
      BY DEF EnabledInstances
    <3>1. document[a] \in AppRecord
      OBVIOUS
    <3> QED BY <3>1 DEF AppRecord, Instance
  <2>2. plan' \in [doc : Nat, specs : SUBSET Instance, left : SUBSET Plugins, busy : BOOLEAN]
    <3>1. docGen \in Nat
      OBVIOUS
    <3>2. PICK planned \in SUBSET Instance :
             plan' = [doc |-> docGen, specs |-> planned, left |-> Plugins, busy |-> TRUE]
      BY <1>5, <2>1 DEF PlanAttempt
    <3> QED BY <3>1, <3>2
  <2> QED BY <1>5, <2>2 DEF PlanAttempt
<1>6. CASE AcceptPlan
  BY <1>6 DEF AcceptPlan, IdlePlan
<1>7. CASE Applies
  BY <1>7 DEF Applies, HostApply
<1>8. CASE Reads \/ Invoke \/ Drops \/ RunEndSession
  BY <1>8, ReadsFrame, SessionFrame DEF live
<1> QED BY <1>1, <1>2, <1>3, <1>4, <1>5, <1>6, <1>7, <1>8, Steps DEF PlanSteps

LEMMA HostType == ASSUME TypeOK, Next PROVE HostOK'
<1> USE DEF TypeOK, HostOK
<1>1. CASE Applies
  <2>1. PICK p \in Plugins : HostApply(p)
    BY <1>1 DEF Applies
  <2>2. plan.specs \subseteq Instance
    BY DEF LiveOK
  <2>3. hosted' \subseteq Instance /\ opened' \subseteq Session
    BY <2>1, <2>2 DEF HostApply
  <2>4. callbacks' \subseteq Callback
    BY <2>1 DEF HostApply, Callback
  <2> QED BY <2>3, <2>4
<1>2. CASE PlanAttempt \/ AcceptPlan
  BY <1>2 DEF PlanAttempt, AcceptPlan, host
<1>3. CASE Drops
  BY <1>3 DEF Drops, DropSession, Callback
<1>4. CASE Invoke
  BY <1>4 DEF Invoke, ProcessOK
<1>5. CASE RunEndSession
  BY <1>5 DEF RunEndSession, EndSession, EndSessionNotQueued, host
<1>6. CASE DeliverCallback
  <2>1. callbacks' \subseteq Callback
    BY <1>6 DEF DeliverCallback, Invalidated, CompletedRead, Completed, Callback
  <2> QED BY <1>6, <2>1, OwnerStepsFrame DEF OwnerSteps
<1>7. CASE OwnerSteps /\ ~DeliverCallback
  <2>1. CASE ApplyConfiguration \/ Detaches \/ Clears \/ Acquires
    BY <2>1 DEF ApplyConfiguration, Detaches, DetachDisabled, DetachDeleted, Clears,
                ClearForeground, Acquires, AcquireCritical, host
  <2>2. CASE ReleaseCritical \/ BeginExecution \/ Begin \/ Cancel \/ Promote
    BY <2>2 DEF ReleaseCritical, BeginExecution, Begin, Cancel, Promote, host
  <2> QED BY <1>7, <2>1, <2>2 DEF OwnerSteps
<1>8. CASE AcceptsDocument \/ Reads
  BY <1>8, AcceptsDocumentFrame, ReadsFrame DEF host
<1> QED BY <1>1, <1>2, <1>3, <1>4, <1>5, <1>6, <1>7, <1>8, Steps DEF PlanSteps

LEMMA ProcessType == ASSUME TypeOK, Next PROVE ProcessOK'
<1> USE DEF TypeOK, ProcessOK
<1>1. CASE AcceptsDocument \/ PlanSteps
  BY <1>1, AcceptsDocumentFrame, PlanFrame DEF owner, history
<1>2. CASE \E a \in Apps : LaunchRead(a)
  <2>1. PICK a \in Apps, i \in generations :
           launch' = [step |-> "begin",
                      session |-> [app |-> a, plugin |-> i.plugin, gen |-> i.gen,
                                   token |-> 0]]
    BY Zenon, <1>2 DEF LaunchRead
  <2>2. launch'.session \in Session /\ launch'.step = "begin"
    BY <2>1 DEF LiveOK, Instance, Session
  <2> QED BY <1>2, <2>1, <2>2 DEF LaunchRead, owner, history
<1>3. CASE Begin
  <2>1. CASE ForegroundUnavailable
    BY <1>3, <2>1 DEF Begin, IdleLaunch, history
  <2>2. CASE ~ForegroundUnavailable
    <3>1. launch'.step = "invoke" /\ launch'.session = [launch.session EXCEPT !.token = nextSession + 1]
      BY <1>3, <2>2 DEF Begin
    <3>2. launch'.session \in Session
      BY <1>3, <3>1 DEF Begin, OwnerOK, Session
    <3> QED BY <1>3, <2>2, <3>1, <3>2 DEF Begin, history
  <2> QED BY <2>1, <2>2
<1>4. CASE Invoke
  <2>1. launch' \in {[launch EXCEPT !.step = "recheck"], [launch EXCEPT !.step = "failed"]}
    BY <1>4 DEF Invoke
  <2>2. unnoticed' \subseteq Session /\ abandoned' \subseteq Session
    BY <1>4 DEF Invoke, HostOK
  <2> QED BY <1>4, <2>1, <2>2 DEF Invoke, owner
<1>5. CASE InvokeFails \/ LaunchRecheck \/ LaunchReturn
  BY <1>5 DEF InvokeFails, LaunchRecheck, LaunchReturn, IdleLaunch, owner, history
<1>6. CASE Cancel
  BY <1>6 DEF Cancel, IdleLaunch, history
<1>7. CASE Promote
  BY <1>7 DEF Promote, history, OwnerOK
<1>8. CASE Detaches
  BY <1>8 DEF Detaches, DetachDisabled, DetachDeleted, Detach, ClearForegroundLocked,
              OwnerOK, history
<1>9. CASE Clears
  BY <1>9 DEF Clears, ClearForeground, ClearForegroundLocked, OwnerOK, history
<1>10. CASE Acquires
  BY <1>10 DEF Acquires, AcquireCritical, ClearForegroundLocked, OwnerOK, history
<1>11. CASE ApplyConfiguration \/ ReleaseCritical \/ BeginExecution
  BY <1>11 DEF ApplyConfiguration, ReleaseCritical, BeginExecution, history
<1>12. CASE DeliverCallback
  <2>1. unnoticed' \subseteq Session
    BY <1>12 DEF DeliverCallback, Invalidated, CompletedRead, Completed, history, HostOK,
                 Callback
  <2> QED BY <1>12, <2>1 DEF DeliverCallback, Invalidated, CompletedRead, Completed,
                             owner, history
<1>13. CASE Drops \/ RunEndSession
  BY <1>13 DEF Drops, DropSession, RunEndSession, EndSession, EndSessionNotQueued, owner,
               history
<1>14. CASE \E s \in opened \cup unnoticed : BeginExecutionRead(s)
  BY <1>14 DEF BeginExecutionRead, owner, history, HostOK
<1>15. CASE BeginLauncherAdmission \/ CloseLauncher
  <2>1. criticalSequence \in Nat /\ 0 \in Nat
    BY DEF OwnerOK
  <2>2. launcher' \in [open : BOOLEAN, sequence : Nat, interrupted : BOOLEAN]
    <3>1. CASE BeginLauncherAdmission
      BY <2>1, <3>1 DEF BeginLauncherAdmission
    <3>2. CASE CloseLauncher
      BY <3>2 DEF CloseLauncher, NoLauncher
    <3> QED BY <1>15, <3>1, <3>2
  <2> QED BY <1>15, <2>2 DEF BeginLauncherAdmission, CloseLauncher, owner, history
<1> QED BY <1>1, <1>2, <1>3, <1>4, <1>5, <1>6, <1>7, <1>8, <1>9, <1>10, <1>11, <1>12,
           <1>13, <1>14, <1>15, Steps DEF OwnerSteps, Reads

(* The type invariant holds in every reachable state.                       *)
THEOREM TypeCorrect == Spec => []TypeOK
<1>1. Init => TypeOK
  <2> SUFFICES ASSUME Init PROVE TypeOK
    OBVIOUS
  <2>1. OwnerOK
    <3>1. 0 \in 0 .. MaxSession /\ 0 \in 0 .. MaxCritical
      OBVIOUS
    <3> QED BY Zenon, <3>1 DEF Init, OwnerOK
  <2>4. HostOK
    BY DEF Init, HostOK
  <2>2. LiveOK
    BY DEF Init, LiveOK, IdleConfig, IdlePlan, AppRecord
  <2>3. ProcessOK
    BY DEF Init, ProcessOK, IdleLaunch, NoLauncher
  <2> QED BY <2>1, <2>2, <2>3, <2>4 DEF TypeOK
<1>2. TypeOK /\ [Next]_vars => TypeOK'
  <2>1. TypeOK /\ UNCHANGED vars => TypeOK'
    BY DEF TypeOK, OwnerOK, LiveOK, HostOK, ProcessOK, vars, owner, live, host, history
  <2> QED BY <2>1, OwnerType, LiveType, HostType, ProcessType DEF TypeOK
<1> QED BY <1>1, <1>2, PTL DEF Spec

----------------------------------------------------------------------------
(* Exclusive ownership                                                      *)

LEMMA ExclusiveStep == ASSUME TypeOK, ForegroundExclusive, Next PROVE ForegroundExclusive'
<1> USE DEF ForegroundExclusive
<1>1. CASE ApplyConfiguration
  BY <1>1 DEF ApplyConfiguration
<1>2. CASE Detaches
  BY <1>2 DEF Detaches, DetachDisabled, DetachDeleted, Detach, ClearForegroundLocked
<1>3. CASE Clears
  BY <1>3 DEF Clears, ClearForeground, ClearForegroundLocked
<1>4. CASE Acquires
  <2>1. ~executing' /\ pending' = NoSession /\ foreground' = NoSession
    BY <1>4 DEF Acquires, AcquireCritical, ClearForegroundLocked
  <2> QED BY <2>1
<1>5. CASE ReleaseCritical
  BY <1>5 DEF ReleaseCritical
<1>6. CASE Begin
  BY <1>6 DEF Begin, ForegroundUnavailable
<1>7. CASE Cancel
  BY <1>7 DEF Cancel, PendingWithout
<1>8. CASE Promote
  <2>1. launch.session # NoSession
    BY <1>8 DEF Promote, TypeOK, ProcessOK
  <2> QED BY <1>8, <2>1 DEF Promote
<1>9. CASE BeginExecution
  BY <1>9 DEF BeginExecution
<1>10. CASE DeliverCallback
  BY <1>10 DEF DeliverCallback, Invalidated, CompletedRead, Completed, PendingWithout, owner
<1>11. CASE ~OwnerSteps
  BY <1>11, Steps, AcceptsDocumentFrame, ReadsFrame, PlanFrame, SessionFrame DEF owner
<1> QED BY <1>1, <1>2, <1>3, <1>4, <1>5, <1>6, <1>7, <1>8, <1>9, <1>10, <1>11
        DEF OwnerSteps

(* A critical presentation never shares the coordinator with a session, a   *)
(* pending admission or an execution, and an execution never with a pending *)
(* admission.                                                               *)
THEOREM OwnershipExclusive == Spec => []ForegroundExclusive
<1>1. Init => ForegroundExclusive
  BY DEF Init, ForegroundExclusive
<1>2. TypeOK /\ ForegroundExclusive /\ [Next]_vars => ForegroundExclusive'
  <2>1. ForegroundExclusive /\ UNCHANGED vars => ForegroundExclusive'
    BY DEF ForegroundExclusive, vars, owner
  <2> QED BY <2>1, ExclusiveStep
<1> QED BY <1>1, <1>2, TypeCorrect, PTL DEF Spec

----------------------------------------------------------------------------
(* Launcher admission                                                       *)

(* The sequence only grows, and grows past the admission of a launcher that *)
(* a critical presentation interrupts.                                      *)
LauncherBehind ==
    /\ launcher.sequence <= criticalSequence
    /\ launcher.interrupted => launcher.sequence < criticalSequence

LEMMA LauncherStep == ASSUME TypeOK, LauncherBehind, Next PROVE LauncherBehind'
<1> USE DEF TypeOK, OwnerOK, ProcessOK, LauncherBehind
<1>1. CASE Acquires
  <2>1. criticalSequence' = criticalSequence + 1 /\ launcher'.sequence = launcher.sequence
    BY <1>1 DEF Acquires, AcquireCritical
  <2> QED BY <2>1
<1>2. CASE BeginLauncherAdmission \/ CloseLauncher
  <2>1. criticalSequence' = criticalSequence /\ ~launcher'.interrupted
    BY <1>2 DEF BeginLauncherAdmission, CloseLauncher, NoLauncher, owner
  <2>2. launcher'.sequence \in {criticalSequence, 0}
    BY <1>2 DEF BeginLauncherAdmission, CloseLauncher, NoLauncher
  <2> QED BY <2>1, <2>2
<1>3. CASE UNCHANGED <<criticalSequence, launcher>>
  BY <1>3
<1>4. CASE OwnerSteps /\ ~Acquires
  <2>1. CASE ApplyConfiguration \/ Detaches \/ Clears
    BY <1>3, <2>1 DEF ApplyConfiguration, Detaches, DetachDisabled, DetachDeleted, Detach,
                      Clears, ClearForeground
  <2>2. CASE ReleaseCritical \/ BeginExecution \/ Begin \/ Cancel \/ Promote
    BY <1>3, <2>2 DEF ReleaseCritical, BeginExecution, Begin, Cancel, Promote
  <2>3. CASE DeliverCallback
    BY <1>3, <2>3 DEF DeliverCallback, Invalidated, CompletedRead, Completed, owner
  <2> QED BY <1>4, <2>1, <2>2, <2>3 DEF OwnerSteps
<1>5. CASE Reads /\ ~BeginLauncherAdmission /\ ~CloseLauncher
  BY <1>3, <1>5 DEF Reads, LaunchRead, BeginExecutionRead, InvokeFails, LaunchRecheck,
                    LaunchReturn, owner
<1>6. CASE AcceptsDocument \/ PlanSteps \/ Invoke \/ Drops \/ RunEndSession
  BY <1>3, <1>6, AcceptsDocumentFrame, PlanFrame, SessionFrame DEF owner
<1> QED BY <1>1, <1>2, <1>4, <1>5, <1>6, Steps

(* An open launcher whose admission is current was never interrupted by a   *)
(* critical presentation.                                                   *)
THEOREM LauncherAdmission == Spec => []LauncherAdmissionSound
<1>1. Init => LauncherBehind
  BY DEF Init, LauncherBehind, NoLauncher
<1>2. TypeOK /\ LauncherBehind /\ [Next]_vars => LauncherBehind'
  <2>1. LauncherBehind /\ UNCHANGED vars => LauncherBehind'
    BY DEF LauncherBehind, vars, owner
  <2> QED BY <2>1, LauncherStep
<1>3. TypeOK /\ LauncherBehind => LauncherAdmissionSound
  BY DEF TypeOK, OwnerOK, ProcessOK, LauncherBehind, LauncherAdmissionSound,
         LauncherAdmissionCurrent
<1> QED BY <1>1, <1>2, <1>3, TypeCorrect, PTL DEF Spec

----------------------------------------------------------------------------
(* Sessions have an owner                                                   *)

(* A callback is about a session its supervisor has already dropped.        *)
CallbackClosed == \A c \in callbacks : c.session \notin opened

LEMMA CallbackClosedStep == ASSUME TypeOK, CallbackClosed, Next PROVE CallbackClosed'
<1> USE DEF CallbackClosed
<1>1. CASE Applies
  BY <1>1 DEF Applies, HostApply
<1>2. CASE Drops
  BY <1>2 DEF Drops, DropSession
<1>3. CASE Invoke
  BY <1>3 DEF Invoke, Quiet
<1>4. CASE DeliverCallback
  <2>1. opened' = opened
    BY <1>4, OwnerStepsFrame DEF OwnerSteps
  <2>2. \A c \in callbacks' : \E b \in callbacks : c.session = b.session
    <3>1. \A b \in Callback, k \in {"eligible", "ineligible"} :
             [b EXCEPT !.kind = k].session = b.session
      BY DEF Callback
    <3>2. CASE \E b \in callbacks : Invalidated(b) \/ Completed(b)
      BY <3>2 DEF Invalidated, Completed
    <3>3. CASE \E b \in callbacks : CompletedRead(b)
      <4>1. PICK b \in callbacks : CompletedRead(b)
        BY <3>3
      <4>2. PICK k \in {"eligible", "ineligible"} :
               callbacks' = (callbacks \ {b}) \cup {[b EXCEPT !.kind = k]}
        BY <4>1 DEF CompletedRead
      <4>3. [b EXCEPT !.kind = k].session = b.session
        BY <3>1 DEF TypeOK, HostOK
      <4> QED BY Zenon, <4>2, <4>3
    <3> QED BY <1>4, <3>2, <3>3 DEF DeliverCallback
  <2> QED BY <2>1, <2>2
<1>5. CASE RunEndSession
  BY <1>5 DEF RunEndSession, EndSession, EndSessionNotQueued, host
<1>6. CASE UNCHANGED <<opened, callbacks>>
  BY <1>6
<1>7. CASE OwnerSteps /\ ~DeliverCallback
  <2>1. CASE ApplyConfiguration \/ Detaches \/ Clears \/ Acquires
    BY <1>6, <2>1 DEF ApplyConfiguration, Detaches, DetachDisabled, DetachDeleted, Clears,
                      ClearForeground, Acquires, AcquireCritical, host
  <2>2. CASE ReleaseCritical \/ BeginExecution \/ Begin \/ Cancel \/ Promote
    BY <1>6, <2>2 DEF ReleaseCritical, BeginExecution, Begin, Cancel, Promote, host
  <2> QED BY <1>7, <2>1, <2>2 DEF OwnerSteps
<1>8. CASE AcceptsDocument \/ Reads \/ PlanAttempt \/ AcceptPlan
  BY <1>6, <1>8, AcceptsDocumentFrame, ReadsFrame DEF host, PlanAttempt, AcceptPlan
<1> QED BY <1>1, <1>2, <1>3, <1>4, <1>5, <1>7, <1>8, Steps DEF PlanSteps

(* What owns a session: the foreground, a launch, or its endSession.        *)
OwnedBy(s) ==
    \/ s = foreground
    \/ s \in ending
    \/ s = launch.session /\ launch.step \in {"recheck", "promote", "discard"}

LEMMA OwnedStep ==
    ASSUME TypeOK, CallbackClosed, NoOrphanedSession, Next
    PROVE  NoOrphanedSession'
<1> SUFFICES ASSUME NEW s \in opened', s \notin abandoned'
             PROVE  OwnedBy(s)'
  BY DEF NoOrphanedSession, OwnedBy
<1> USE DEF OwnedBy, NoOrphanedSession
<1>1. CASE Invoke
  <2>1. CASE s \in opened
    BY <1>1, <2>1 DEF Invoke, owner
  <2>2. CASE s = launch.session
    BY <1>1, <2>2 DEF Invoke, TypeOK, ProcessOK
  <2> QED BY <1>1, <2>1, <2>2 DEF Invoke
<1>2. CASE RunEndSession
  <2>1. PICK e \in ending : EndSession(e) \/ EndSessionNotQueued(e)
    BY <1>2 DEF RunEndSession
  <2>2. CASE EndSession(e)
    BY <2>2 DEF EndSession, owner, history
  <2>3. CASE EndSessionNotQueued(e)
    BY <2>3 DEF EndSessionNotQueued, owner, host
  <2> QED BY <2>1, <2>2, <2>3
<1>3. CASE Detaches
  <2>1. /\ UNCHANGED <<opened, launch, abandoned>> /\ ending \subseteq ending'
        /\ foreground' = foreground \/ foreground \in ending' \/ foreground = NoSession
    BY <1>3 DEF Detaches, DetachDisabled, DetachDeleted, Detach, ClearForegroundLocked, host,
                history
  <2> QED BY <2>1 DEF TypeOK, HostOK
<1>4. CASE Clears
  <2>1. /\ UNCHANGED <<opened, launch, abandoned>> /\ ending \subseteq ending'
        /\ foreground' = foreground \/ foreground \in ending' \/ foreground = NoSession
    BY Zenon, <1>4 DEF Clears, ClearForeground, ClearForegroundLocked, host, history
  <2> QED BY <2>1 DEF TypeOK, HostOK
<1>5. CASE Acquires
  <2>1. /\ UNCHANGED <<opened, launch, abandoned>> /\ ending \subseteq ending'
        /\ foreground' = foreground \/ foreground \in ending' \/ foreground = NoSession
    BY <1>5 DEF Acquires, AcquireCritical, ClearForegroundLocked, host, history
  <2> QED BY <2>1 DEF TypeOK, HostOK
<1>6. CASE Cancel
  BY <1>6 DEF Cancel, host, history
<1>7. CASE Promote
  BY <1>7 DEF Promote, host, history, TypeOK, HostOK
<1>8. CASE DeliverCallback
  BY <1>8 DEF DeliverCallback, Invalidated, CompletedRead, Completed, CallbackClosed, owner,
              history
<1>9. CASE ApplyConfiguration \/ ReleaseCritical \/ BeginExecution
  BY <1>9 DEF ApplyConfiguration, ReleaseCritical, BeginExecution, host, history
<1>10. CASE Begin
  BY <1>10 DEF Begin, host, history
<1>11. CASE Drops
  BY <1>11 DEF Drops, DropSession, owner, history
<1>12. CASE PlanSteps
  <2>1. opened' \subseteq opened
    BY <1>12 DEF PlanSteps, PlanAttempt, AcceptPlan, Applies, HostApply, host
  <2> QED BY <1>12, <2>1, PlanFrame DEF owner, history
<1>13. CASE AcceptsDocument
  BY <1>13, AcceptsDocumentFrame DEF owner, host, history
<1>14. CASE Reads
  <2>1. /\ UNCHANGED <<foreground, ending, opened, abandoned>>
        /\ launch.step \in {"recheck", "promote", "discard"} =>
             /\ launch'.session = launch.session
             /\ launch'.step \in {"recheck", "promote", "discard"}
    BY <1>14, ReadsFrame DEF Reads, LaunchRead, BeginExecutionRead, InvokeFails,
          LaunchRecheck, LaunchReturn, BeginLauncherAdmission, CloseLauncher, owner, host,
          history, TypeOK, ProcessOK
  <2> QED BY <2>1
<1> QED BY <1>1, <1>2, <1>3, <1>4, <1>5, <1>6, <1>7, <1>8, <1>9, <1>10, <1>11, <1>12,
           <1>13, <1>14, Steps DEF OwnerSteps

(* No open session is left without an owner that will end it, other than    *)
(* one whose caller gave up on the plugin.                                  *)
THEOREM SessionsOwned == Spec => []NoOrphanedSession
<1>1. Init => CallbackClosed /\ NoOrphanedSession
  BY DEF Init, CallbackClosed, NoOrphanedSession
<1>2. /\ TypeOK /\ CallbackClosed /\ NoOrphanedSession /\ [Next]_vars
      => CallbackClosed' /\ NoOrphanedSession'
  <2>1. CallbackClosed /\ NoOrphanedSession /\ UNCHANGED vars
          => CallbackClosed' /\ NoOrphanedSession'
    BY DEF CallbackClosed, NoOrphanedSession, vars, owner, host, history
  <2> QED BY <2>1, CallbackClosedStep, OwnedStep
<1> QED BY <1>1, <1>2, TypeCorrect, PTL DEF Spec

----------------------------------------------------------------------------
(* The foreground is current                                                *)

(* A launch between begin and its return holds a session of its own, with a *)
(* token that was issued; no other process ends it.                         *)
Launching == launch.step \in {"invoke", "recheck", "promote", "discard", "failed"}

TokensIssued ==
    /\ foreground # NoSession => foreground.token <= nextSession
    /\ \A s \in ending : s.token <= nextSession
    /\ Launching => launch.session.token <= nextSession

LaunchOwnsSession ==
    Launching => launch.session \notin ending /\ launch.session # foreground

ForegroundNotEnding == foreground \notin ending

(* A session some supervisor has, or whose end the coordinator is about to  *)
(* hear of or has overlooked.                                               *)
Known(s) == s \in opened \cup unnoticed \/ \E c \in callbacks : c.session = s

AdmissionKnown ==
    launch.step \in {"recheck", "promote"} /\ pending = launch.session => Known(pending)

(* A session of an app that runs, or that is about to be detached.          *)
Leaving(target) ==
    \/ config.target = target /\ config.step \in {"disabling", "deleting", "detaching"}
    \/ target \in retiring
AppCurrent(s) ==
    \/ Enabled(s.app) /\ document[s.app].plugin = s.plugin
    \/ Leaving(AppOf(s.app, s.plugin))

ForegroundAppCurrent == foreground # NoSession => AppCurrent(foreground)
AdmissionAppCurrent ==
    launch.step = "promote" /\ pending = launch.session => AppCurrent(pending)

ForegroundInv ==
    /\ TokensIssued /\ LaunchOwnsSession /\ ForegroundNotEnding
    /\ ForegroundNotStale /\ AdmissionKnown
    /\ ForegroundAppCurrent /\ AdmissionAppCurrent

(* How a step moves sessions: the foreground goes to the foreground of a    *)
(* promoted admission or to nothing, and only the former foreground and the *)
(* session of a launch that is over are handed to endSession.               *)
Promotes == Promote /\ pending = launch.session
HandsOver(s) ==
    \/ s = foreground /\ foreground # NoSession /\ foreground' # foreground
    \/ /\ s = launch.session /\ launch.step \in {"discard", "promote"}
       /\ launch'.step = "ending" /\ foreground' = foreground

LEMMA ForegroundMoves ==
    ASSUME TypeOK, Next
    PROVE  /\ foreground' \in {foreground, NoSession} \/ Promotes
           /\ pending' \in {pending, NoSession} \/ Begin
           /\ Promotes => foreground' = launch.session
<1> SUFFICES /\ foreground' \in {foreground, NoSession} \/ Promotes
             /\ pending' \in {pending, NoSession} \/ Begin
  BY DEF Promotes, Promote
<1>1. CASE ApplyConfiguration \/ ReleaseCritical \/ BeginExecution
  BY <1>1 DEF ApplyConfiguration, ReleaseCritical, BeginExecution
<1>2. CASE Detaches
  BY <1>2 DEF Detaches, DetachDisabled, DetachDeleted, Detach, ClearForegroundLocked
<1>3. CASE Clears
  BY <1>3 DEF Clears, ClearForeground, ClearForegroundLocked
<1>4. CASE Acquires
  BY <1>4 DEF Acquires, AcquireCritical, ClearForegroundLocked
<1>5. CASE Begin \/ Cancel
  BY <1>5 DEF Begin, Cancel, PendingWithout
<1>6. CASE DeliverCallback
  BY <1>6 DEF DeliverCallback, Invalidated, CompletedRead, Completed, PendingWithout, owner
<1>7. CASE ~OwnerSteps
  BY <1>7, Steps, AcceptsDocumentFrame, ReadsFrame, PlanFrame, SessionFrame DEF owner
<1>8. CASE Promote
  BY <1>8 DEF Promote, Promotes
<1> QED BY <1>1, <1>2, <1>3, <1>4, <1>5, <1>6, <1>7, <1>8 DEF OwnerSteps

LEMMA EndingMoves ==
    ASSUME TypeOK, Next, NEW s \in ending', s \notin ending
    PROVE  HandsOver(s)
<1> USE DEF HandsOver
<1>1. CASE Detaches
  BY <1>1 DEF Detaches, DetachDisabled, DetachDeleted, Detach, ClearForegroundLocked
<1>2. CASE Clears
  BY Zenon, <1>2 DEF Clears, ClearForeground, ClearForegroundLocked
<1>3. CASE Acquires
  BY <1>3 DEF Acquires, AcquireCritical, ClearForegroundLocked
<1>4. CASE Cancel
  BY <1>4 DEF Cancel, TypeOK, ProcessOK
<1>5. CASE Promote
  <2>1. launch.session # NoSession
    BY <1>5 DEF Promote, TypeOK, ProcessOK
  <2> QED BY <1>5, <2>1 DEF Promote, TypeOK, ProcessOK
<1>6. CASE OwnerSteps /\ ~Detaches /\ ~Clears /\ ~Acquires /\ ~Cancel /\ ~Promote
  BY <1>6 DEF OwnerSteps, ApplyConfiguration, ReleaseCritical, BeginExecution, Begin,
              DeliverCallback, Invalidated, CompletedRead, Completed
<1>7. CASE Invoke \/ Drops \/ RunEndSession
  BY <1>7 DEF Invoke, Drops, DropSession, RunEndSession, EndSession, EndSessionNotQueued
<1>8. CASE AcceptsDocument \/ PlanSteps \/ Reads
  BY <1>8, AcceptsDocumentFrame, PlanFrame, ReadsFrame
<1> QED BY <1>1, <1>2, <1>3, <1>4, <1>5, <1>6, <1>7, <1>8, Steps

(* A launch keeps its session from begin to its end.                        *)
LEMMA LaunchMoves ==
    ASSUME TypeOK, Next
    PROVE  /\ Launching' => \/ Launching /\ launch'.session = launch.session
                            \/ Begin /\ ~ForegroundUnavailable
           /\ launch'.step \in {"recheck", "promote"} =>
                \/ Invoke
                \/ /\ launch.step \in {"recheck", "promote"}
                   /\ launch'.session = launch.session
           /\ launch'.step = "promote" =>
                \/ launch.step = "promote" /\ launch'.session = launch.session
                \/ /\ LaunchRecheck /\ GenerationReady(launch.session)
                   /\ launch'.session = launch.session
<1> USE DEF TypeOK, ProcessOK, Launching
<1>1. CASE UNCHANGED launch
  BY <1>1
<1>2. CASE Begin
  BY <1>2 DEF Begin, IdleLaunch
<1>3. CASE Invoke
  BY <1>3 DEF Invoke
<1>4. CASE LaunchRecheck
  BY <1>4 DEF LaunchRecheck
<1>5. CASE InvokeFails \/ LaunchReturn \/ \E a \in Apps : LaunchRead(a)
  BY <1>5 DEF InvokeFails, LaunchReturn, LaunchRead, IdleLaunch
<1>6. CASE Cancel \/ Promote
  BY <1>6 DEF Cancel, Promote, IdleLaunch
<1>7. CASE OwnerSteps /\ ~Begin /\ ~Cancel /\ ~Promote
  <2>1. UNCHANGED launch
    BY <1>7 DEF OwnerSteps, ApplyConfiguration, Detaches, DetachDisabled, DetachDeleted,
                Clears, ClearForeground, Acquires, AcquireCritical, ReleaseCritical,
                BeginExecution, DeliverCallback, Invalidated, CompletedRead, Completed
  <2> QED BY <1>1, <2>1
<1>8. CASE \/ \E s \in opened \cup unnoticed : BeginExecutionRead(s)
           \/ BeginLauncherAdmission \/ CloseLauncher
  BY <1>1, <1>8 DEF BeginExecutionRead, BeginLauncherAdmission, CloseLauncher
<1>9. CASE AcceptsDocument \/ PlanSteps
  BY <1>1, <1>9, AcceptsDocumentFrame, PlanFrame
<1>10. CASE Drops \/ RunEndSession
  BY <1>1, <1>10 DEF Drops, DropSession, RunEndSession, EndSession, EndSessionNotQueued
<1> QED BY ZenonT(30), <1>2, <1>3, <1>4, <1>5, <1>6, <1>7, <1>8, <1>9, <1>10, Steps DEF Reads

(* Tokens are issued by begin only.                                         *)
LEMMA TokenMoves ==
    ASSUME TypeOK, Next, ~Begin \/ ForegroundUnavailable PROVE nextSession' = nextSession
<1>1. CASE OwnerSteps /\ ~Begin
  BY <1>1 DEF OwnerSteps, ApplyConfiguration, Detaches, DetachDisabled, DetachDeleted, Detach,
              Clears, ClearForeground, Acquires, AcquireCritical, ReleaseCritical, Cancel,
              Promote, BeginExecution, DeliverCallback, Invalidated, CompletedRead,
              Completed, owner
<1>2. CASE Begin
  BY <1>2 DEF Begin
<1>3. CASE ~OwnerSteps
  BY <1>3, Steps, AcceptsDocumentFrame, ReadsFrame, PlanFrame, SessionFrame DEF owner
<1> QED BY <1>1, <1>2, <1>3

LEMMA LaunchSteps ==
    ASSUME TypeOK, TokensIssued, LaunchOwnsSession, ForegroundNotEnding, Next
    PROVE  TokensIssued' /\ LaunchOwnsSession' /\ ForegroundNotEnding'
<1> USE DEF TokensIssued, LaunchOwnsSession, ForegroundNotEnding
<1>1. Launching => launch.session \in Session
  BY DEF TypeOK, ProcessOK, Launching
<1>2. OwnerOK' /\ ProcessOK'
  BY OwnerType, ProcessType
<1>3. NoSession \notin ending'
  BY <1>2 DEF ProcessOK
<1>4. CASE Begin /\ ~ForegroundUnavailable
  <2>1. /\ nextSession' = nextSession + 1 /\ launch'.session.token = nextSession + 1
        /\ UNCHANGED <<foreground, ending>> /\ nextSession \in Nat
    BY <1>4 DEF Begin, TypeOK, OwnerOK, ProcessOK, Session
  <2>2. \A s \in Session : s.token \in Nat
    BY DEF Session
  <2>3. (foreground # NoSession => foreground \in Session) /\ ending \subseteq Session
    BY DEF TypeOK, OwnerOK, ProcessOK
  <2>4. TokensIssued'
    BY <2>1, <2>2, <2>3
  <2>5. LaunchOwnsSession'
    <3>1. launch'.session # NoSession
      BY <1>2, <1>4 DEF Begin, ProcessOK
    <3> QED BY <2>1, <2>2, <2>3, <3>1
  <2> QED BY <2>1, <2>4, <2>5
<1>5. CASE ~Begin \/ ForegroundUnavailable
  <2>1. nextSession' = nextSession
    BY <1>5, TokenMoves
  <2>2. Launching' => Launching /\ launch'.session = launch.session
    BY <1>5, LaunchMoves
  <2>3. Promotes => Launching /\ ~Launching' /\ foreground' = launch.session
    BY ForegroundMoves DEF Promotes, Promote, Launching
  <2>4. \A s \in ending' \ ending : HandsOver(s)
    BY EndingMoves
  <2>5. TokensIssued'
    <3>1. \A s : HandsOver(s) => s.token <= nextSession
      BY DEF HandsOver, Launching
    <3> QED BY <2>1, <2>2, <2>3, <2>4, <3>1, ForegroundMoves
  <2>6. LaunchOwnsSession'
    <3>1. Launching' => ~HandsOver(launch.session)
      BY <2>2 DEF HandsOver, Launching
    <3> QED BY <1>1, <2>2, <2>3, <2>4, <3>1, ForegroundMoves
  <2>7. ForegroundNotEnding'
    <3>1. CASE foreground' = foreground
      BY <2>4, <3>1 DEF HandsOver, Launching
    <3>2. CASE foreground' = NoSession
      BY <1>3, <3>2
    <3>3. CASE Promotes
      <4>1. ~HandsOver(launch.session)
        BY <2>3, <3>3 DEF HandsOver
      <4> QED BY <2>3, <2>4, <3>3, <4>1
    <3> QED BY <3>1, <3>2, <3>3, ForegroundMoves
  <2> QED BY <2>5, <2>6, <2>7
<1> QED BY <1>4, <1>5

(* A session stays known until it is neither the foreground nor pending, as *)
(* long as endSession does not run for it.                                  *)
LEMMA KnownStep ==
    ASSUME TypeOK, Next, NEW s \in Session, Known(s), s \notin ending
    PROVE  Known(s)' \/ (foreground' # s /\ (Begin \/ pending' # s))
<1> USE DEF Known
<1>1. CASE UNCHANGED <<opened, callbacks, unnoticed>>
  BY <1>1
<1>2. CASE Invoke
  BY <1>2 DEF Invoke
<1>3. CASE Drops
  <2>1. PICK d \in opened, k \in {"invalidated", "completed"} : DropSession(d, k)
    BY <1>3 DEF Drops
  <2>2. [kind |-> k, session |-> d].session = d
    OBVIOUS
  <2> QED BY Zenon, <2>1, <2>2 DEF DropSession, history
<1>4. CASE RunEndSession
  BY <1>4 DEF RunEndSession, EndSession, EndSessionNotQueued, host, history
<1>5. CASE Applies
  <2>1. PICK p \in Plugins : HostApply(p)
    BY <1>5 DEF Applies
  <2>2. [kind |-> "pruned", session |-> s].session = s
    OBVIOUS
  <2> QED BY Zenon, <2>1, <2>2 DEF HostApply, history
<1>6. CASE \E c \in callbacks : Invalidated(c)
  BY <1>6 DEF Invalidated, PendingWithout, history
<1>7. CASE \E c \in callbacks : CompletedRead(c)
  <2>1. PICK c \in callbacks : CompletedRead(c)
    BY <1>7
  <2>2. PICK k \in {"eligible", "ineligible"} :
           callbacks' = (callbacks \ {c}) \cup {[c EXCEPT !.kind = k]}
    BY <2>1 DEF CompletedRead
  <2>3. [c EXCEPT !.kind = k].session = c.session
    BY DEF TypeOK, HostOK, Callback
  <2> QED BY Zenon, <2>1, <2>2, <2>3 DEF CompletedRead, history
<1>8. CASE \E c \in callbacks : Completed(c)
  BY <1>8 DEF Completed, PendingWithout
<1>9. CASE OwnerSteps /\ ~DeliverCallback
  <2>1. CASE ApplyConfiguration \/ Detaches \/ Clears \/ Acquires
    BY <1>1, <2>1 DEF ApplyConfiguration, Detaches, DetachDisabled, DetachDeleted, Clears,
                      ClearForeground, Acquires, AcquireCritical, host, history
  <2>2. CASE ReleaseCritical \/ BeginExecution \/ Begin \/ Cancel \/ Promote
    BY <1>1, <2>2 DEF ReleaseCritical, BeginExecution, Begin, Cancel, Promote, host, history
  <2> QED BY <1>9, <2>1, <2>2 DEF OwnerSteps
<1>10. CASE AcceptsDocument \/ Reads \/ PlanAttempt \/ AcceptPlan
  BY <1>1, <1>10, AcceptsDocumentFrame, ReadsFrame DEF host, history, PlanAttempt, AcceptPlan
<1> QED BY <1>2, <1>3, <1>4, <1>5, <1>6, <1>7, <1>8, <1>9, <1>10, Steps
        DEF DeliverCallback, PlanSteps

LEMMA StaleStep ==
    ASSUME TypeOK, LaunchOwnsSession, ForegroundNotEnding, ForegroundNotStale,
           AdmissionKnown, Next
    PROVE  ForegroundNotStale' /\ AdmissionKnown'
<1> USE DEF LaunchOwnsSession, ForegroundNotEnding, AdmissionKnown
<1>1. ForegroundNotStale <=> (foreground # NoSession => Known(foreground))
  BY DEF ForegroundNotStale, Known
<1>2. (ForegroundNotStale <=> (foreground # NoSession => Known(foreground)))'
  BY DEF ForegroundNotStale, Known
<1>3. launch.step \in {"recheck", "promote"} =>
        /\ Launching /\ launch.session \in Session /\ launch.session \notin ending
  BY DEF TypeOK, ProcessOK, Launching
<1>4. ForegroundNotStale'
  <2>1. CASE Promotes
    <3>1. Known(launch.session) /\ foreground' = launch.session /\ ~Begin
      BY <2>1, ForegroundMoves DEF Promotes, Promote, Begin
    <3>2. PICK s \in Session : s = launch.session /\ s \notin ending
      BY <1>3, <2>1 DEF Promotes, Promote
    <3>3. Known(s)'
      BY <3>1, <3>2, KnownStep
    <3> QED BY <1>2, <3>1, <3>2, <3>3 DEF Known
  <2>2. CASE foreground' = foreground /\ foreground # NoSession
    <3>1. foreground \in Session
      BY <2>2 DEF TypeOK, OwnerOK
    <3> QED BY <1>1, <1>2, <2>2, <3>1, KnownStep
  <2> QED BY <1>2, <2>1, <2>2, ForegroundMoves
<1>5. AdmissionKnown'
  <2> SUFFICES ASSUME launch'.step \in {"recheck", "promote"}, pending' = launch'.session
               PROVE  Known(pending)'
    OBVIOUS
  <2>1. CASE Invoke
    <3>1. launch'.session = launch.session /\ launch.session \in opened'
      BY <2>1 DEF Invoke, TypeOK, ProcessOK
    <3> QED BY <3>1 DEF Known
  <2>2. CASE ~Invoke
    <3>1. launch.step \in {"recheck", "promote"} /\ launch'.session = launch.session
      BY <2>2, LaunchMoves
    <3>2. ~Begin /\ launch.session # NoSession
      BY <1>3, <3>1 DEF Begin
    <3>3. pending' = pending
      BY <3>1, <3>2, ForegroundMoves
    <3> QED BY <1>3, <3>1, <3>2, <3>3, KnownStep
  <2> QED BY <2>1, <2>2
<1> QED BY <1>4, <1>5

(* An app that gets a new configuration keeps its plugin and its switch.    *)
LEMMA RecordRenewed ==
    ASSUME NEW r \in AppRecord, NEW g \in Nat, NEW d, d = [r EXCEPT !.gen = g]
    PROVE  d # NoApp /\ d.plugin = r.plugin /\ d.enabled = r.enabled
<1>1. d \in AppRecord
  BY Zenon DEF AppRecord
<1>2. d # NoApp
  BY <1>1
<1> QED BY <1>2 DEF AppRecord

(* A new document keeps an app that was enabled, or says that it leaves.    *)
LEMMA AcceptsKeeps ==
    ASSUME TypeOK, AcceptsDocument, NEW s \in Session,
           Enabled(s.app), document[s.app].plugin = s.plugin
    PROVE  \/ document'[s.app] # NoApp /\ document'[s.app].enabled /\ document'[s.app].plugin = s.plugin
           \/ config'.target = AppOf(s.app, s.plugin) /\ config'.step \in {"disabling", "deleting"}
<1>1. s.app \in Apps /\ document \in [Apps -> AppRecord \cup {NoApp}] /\ docGen + 1 \in Nat
  BY DEF Session, TypeOK, LiveOK
<1>2. document[s.app] \in AppRecord /\ document[s.app].enabled /\ document[s.app] # NoApp
  BY <1>1 DEF Enabled, Exists
<1>3. document'[s.app] = [document[s.app] EXCEPT !.gen = docGen + 1]
      => document'[s.app] # NoApp /\ document'[s.app].enabled /\ document'[s.app].plugin = s.plugin
  BY <1>1, <1>2, RecordRenewed
<1>4. ASSUME NEW a \in Apps, SetEnabled(a, TRUE)
      PROVE  document'[s.app] = document[s.app]
  <2>1. s.app # a
    BY Zenon, <1>2, <1>4 DEF SetEnabled
  <2> QED BY <1>1, <1>4, <2>1 DEF SetEnabled, AcceptDocument
<1>5. ASSUME NEW a \in Apps, SetEnabled(a, FALSE)
      PROVE  \/ document'[s.app] = document[s.app]
             \/ config' = [step |-> "disabling", target |-> AppOf(s.app, s.plugin)]
  BY <1>1, <1>5 DEF SetEnabled, AcceptDocument
<1>6. ASSUME NEW a \in Apps, ReplaceAppConfiguration(a)
      PROVE  \/ document'[s.app] = document[s.app]
             \/ document'[s.app] = [document[s.app] EXCEPT !.gen = docGen + 1]
  BY <1>1, <1>6 DEF ReplaceAppConfiguration, AcceptDocument
<1>7. ASSUME NEW a \in Apps, CreateAppInstance(a)
      PROVE  document'[s.app] = document[s.app]
  <2>1. s.app # a
    BY <1>2, <1>7 DEF CreateAppInstance, Exists
  <2> QED BY <1>1, <1>7, <2>1 DEF CreateAppInstance, AcceptDocument
<1>8. ASSUME NEW a \in Apps, DeleteAppInstance(a)
      PROVE  \/ document'[s.app] = document[s.app]
             \/ config' = [step |-> "deleting", target |-> AppOf(s.app, s.plugin)]
  BY <1>1, <1>8 DEF DeleteAppInstance, AcceptDocument
<1>9. ASSUME NEW p \in Plugins, ActivatePlugin(p)
      PROVE  \/ document'[s.app] = document[s.app]
             \/ document'[s.app] = [document[s.app] EXCEPT !.gen = docGen + 1]
  BY <1>1, <1>9 DEF ActivatePlugin, AcceptDocument
<1>10. \/ \E a \in Apps : SetEnabled(a, TRUE) \/ SetEnabled(a, FALSE)
       \/ \E a \in Apps : ReplaceAppConfiguration(a) \/ CreateAppInstance(a) \/ DeleteAppInstance(a)
       \/ \E p \in Plugins : ActivatePlugin(p)
  BY Zenon DEF AcceptsDocument
<1>11. \/ document'[s.app] = document[s.app]
       \/ document'[s.app] = [document[s.app] EXCEPT !.gen = docGen + 1]
       \/ config' = [step |-> "disabling", target |-> AppOf(s.app, s.plugin)]
       \/ config' = [step |-> "deleting", target |-> AppOf(s.app, s.plugin)]
  BY Zenon, <1>4, <1>5, <1>6, <1>7, <1>8, <1>9, <1>10
<1>12. CASE document'[s.app] = document[s.app]
  BY <1>2, <1>12
<1>13. CASE config' = [step |-> "disabling", target |-> AppOf(s.app, s.plugin)]
  BY Zenon, <1>13
<1>14. CASE config' = [step |-> "deleting", target |-> AppOf(s.app, s.plugin)]
  BY Zenon, <1>14
<1> QED BY Zenon, <1>3, <1>11, <1>12, <1>13, <1>14

(* The app of a session stays current until the session is detached.        *)
LEMMA AppCurrentStep ==
    ASSUME TypeOK, Next, NEW s \in Session, AppCurrent(s)
    PROVE  AppCurrent(s)' \/ (foreground' # s /\ pending' # s)
<1> DEFINE app == AppOf(s.app, s.plugin)
<1>0. AppOf(s.app, s.plugin)' = app
  BY DEF AppOf
<1> HIDE DEF app
<1>1. CASE AcceptsDocument
  <2>1. config.step = "idle" /\ retiring' = retiring
    BY <1>1, AcceptsDocumentFrame
  <2>2. CASE app \in retiring
    BY <1>0, <2>1, <2>2 DEF AppCurrent, Leaving
  <2>3. CASE Enabled(s.app) /\ document[s.app].plugin = s.plugin
    BY <1>0, <1>1, <2>3, AcceptsKeeps DEF AppCurrent, Leaving, Enabled, Exists, app
  <2> QED BY <2>1, <2>2, <2>3 DEF AppCurrent, Leaving, app
<1>2. CASE ApplyConfiguration
  <2>1. document' = document
    BY <1>2, OwnerStepsFrame DEF OwnerSteps
  <2>2. /\ retiring \subseteq retiring'
        /\ config.step = "disabling" => config' = [config EXCEPT !.step = "detaching"]
        /\ config.step = "deleting" => config.target \in retiring'
        /\ config.step # "detaching"
    BY <1>2 DEF ApplyConfiguration
  <2> QED BY <1>0, <2>1, <2>2 DEF AppCurrent, Leaving, Enabled, Exists, app, TypeOK, LiveOK
<1>3. CASE Detaches
  <2>1. document' = document
    BY <1>3, OwnerStepsFrame DEF OwnerSteps
  <2>2. Detach(app) => foreground' # s /\ pending' # s
    BY DEF Detach, Holds, AppOf, ClearForegroundLocked, app
  <2>3. CASE DetachDisabled
    BY <1>0, <2>1, <2>2, <2>3 DEF DetachDisabled, AppCurrent, Leaving, Enabled, Exists, app
  <2>4. ASSUME NEW r \in retiring, DetachDeleted(r)
        PROVE  AppCurrent(s)' \/ (foreground' # s /\ pending' # s)
    BY <1>0, <2>1, <2>2, <2>4 DEF DetachDeleted, AppCurrent, Leaving, Enabled, Exists, app
  <2> QED BY <1>3, <2>3, <2>4 DEF Detaches
<1>4. CASE UNCHANGED <<document, config, retiring>>
  BY <1>4 DEF AppCurrent, Leaving, Enabled, Exists, AppOf
<1>5. CASE OwnerSteps /\ ~ApplyConfiguration /\ ~Detaches
  <2>1. UNCHANGED <<document, config, retiring>>
    BY <1>5 DEF OwnerSteps, Clears, ClearForeground, Acquires, AcquireCritical,
                ReleaseCritical, Begin, Cancel, Promote, BeginExecution, DeliverCallback,
                Invalidated, CompletedRead, Completed, live
  <2> QED BY <1>4, <2>1
<1>6. CASE PlanSteps \/ Reads \/ Invoke \/ Drops \/ RunEndSession
  BY ZenonT(30), <1>4, <1>6, PlanFrame, ReadsFrame, SessionFrame DEF live
<1> QED BY ZenonT(30), <1>1, <1>2, <1>3, <1>5, <1>6, Steps

LEMMA AppStep ==
    ASSUME TypeOK, ForegroundAppCurrent, AdmissionAppCurrent, Next
    PROVE  ForegroundAppCurrent' /\ AdmissionAppCurrent'
<1> USE DEF ForegroundAppCurrent, AdmissionAppCurrent
<1>1. launch.step \in {"recheck", "promote"} => launch.session \in Session
  BY DEF TypeOK, ProcessOK
<1>2. \A s, t : s = t => (AppCurrent(s) <=> AppCurrent(t))
  OBVIOUS
<1>3. ForegroundAppCurrent'
  <2>1. CASE Promotes
    <3>1. PICK s \in Session : s = launch.session /\ AppCurrent(s) /\ foreground' = s
      BY Zenon, <1>1, <2>1, ForegroundMoves DEF Promotes, Promote
    <3>2. AppCurrent(s)'
      BY <3>1, AppCurrentStep
    <3> QED BY <3>1, <3>2 DEF AppCurrent, Leaving, Enabled, Exists, AppOf
  <2>2. CASE foreground' = foreground /\ foreground # NoSession
    <3>1. PICK s \in Session : s = foreground /\ AppCurrent(s)
      BY <2>2 DEF TypeOK, OwnerOK
    <3>2. AppCurrent(s)'
      BY <2>2, <3>1, AppCurrentStep
    <3> QED BY <2>2, <3>1, <3>2 DEF AppCurrent, Leaving, Enabled, Exists, AppOf
  <2> QED BY <2>1, <2>2, ForegroundMoves
<1>4. AdmissionAppCurrent'
  <2> SUFFICES ASSUME launch'.step = "promote", pending' = launch'.session
               PROVE  AppCurrent(pending)'
    OBVIOUS
  <2>1. CASE LaunchRecheck /\ GenerationReady(launch.session)
    <3>1. UNCHANGED <<document, pending>> /\ launch'.session = launch.session
      BY <2>1 DEF LaunchRecheck, live, owner, TypeOK, ProcessOK
    <3> QED BY ZenonT(30), <2>1, <3>1 DEF GenerationReady, GenerationMatches, AppCurrent, Enabled, Exists
  <2>2. CASE launch.step = "promote" /\ launch'.session = launch.session
    <3>1. PICK s \in Session : s = launch.session /\ pending' = s
      BY <1>1, <2>2
    <3>2. pending = s
      BY <2>2, <3>1, ForegroundMoves DEF Begin
    <3>3. AppCurrent(s)'
      BY <2>2, <3>1, <3>2, AppCurrentStep
    <3> QED BY Zenon, <3>1, <3>3 DEF AppCurrent, Leaving, Enabled, Exists, AppOf
  <2> QED BY ZenonT(30), <2>1, <2>2, LaunchMoves
<1> QED BY <1>3, <1>4

(* The foreground never names a session that its supervisor no longer has   *)
(* and has told the coordinator about, nor an app that is neither enabled   *)
(* nor on its way to be detached.                                           *)
THEOREM ForegroundStaysCurrent == Spec => []ForegroundCurrent
<1>1. Init => ForegroundInv
  BY DEF Init, ForegroundInv, TokensIssued, LaunchOwnsSession, ForegroundNotEnding,
         ForegroundNotStale, AdmissionKnown, ForegroundAppCurrent, AdmissionAppCurrent,
         Launching, IdleLaunch
<1>2. TypeOK /\ ForegroundInv /\ [Next]_vars => ForegroundInv'
  <2>1. ForegroundInv /\ UNCHANGED vars => ForegroundInv'
    BY ZenonT(30) DEF ForegroundInv, TokensIssued, LaunchOwnsSession, ForegroundNotEnding,
           ForegroundNotStale, AdmissionKnown, Known, ForegroundAppCurrent,
           AdmissionAppCurrent, AppCurrent, Leaving, Enabled, Exists, AppOf, Launching,
           vars, owner, live, host, history
  <2> QED BY <2>1, LaunchSteps, StaleStep, AppStep DEF ForegroundInv
<1>3. ForegroundInv => ForegroundCurrent
  BY Zenon DEF ForegroundInv, ForegroundAppCurrent, AppCurrent, Leaving, ForegroundCurrent,
         ForegroundAppEnabled
<1> QED BY <1>1, <1>2, <1>3, TypeCorrect, PTL DEF Spec

=============================================================================
