----------------------------- MODULE Reconciler -----------------------------
(***************************************************************************)
(* The reconciler (internal/daemon/reconciler*.go): committed documents are *)
(* moved towards the plugin host by attempts that client operations, the    *)
(* retry loop and the asset loop start concurrently.  Every critical        *)
(* section of LiveState.mu, every call of the host and every asset I/O is   *)
(* one action.  An app and its package are one thing here, and an app that  *)
(* does not exist is a disabled one.                                        *)
(***************************************************************************)
EXTENDS Integers, FiniteSets, TLC

CONSTANTS Apps,
          InitiallyEnabled,     \* the apps that the stored document enables
          AssetApps,            \* apps whose package declares assets
          SecretApps,           \* apps that need a secret
          Clients,              \* callers of the operations
          Kinds,                \* operations they call
          MaxCommits,           \* bound on the document generation
          MaxDisturbances       \* bound on failures of host, secrets and device,
                                \* clients that leave early, status changes and close

ASSUME ReconcilerAssumption ==
    /\ InitiallyEnabled \subseteq Apps /\ AssetApps \subseteq Apps /\ SecretApps \subseteq Apps
    /\ {"retry", "assets", "nobody"} \cap Clients = {}
    /\ MaxCommits \in Nat \ {0} /\ MaxDisturbances \in Nat
    /\ Kinds \subseteq {"enable", "disable", "delete", "replace", "activate"}

(* Callers of the operations are interchangeable.                           *)
AnyClient == Permutations(Clients)

VARIABLES
    live,       \* LiveState
    host,       \* the generation of each app the plugin host is told to run
    assets,     \* the apps whose assets are ready on the device
    assetMu,    \* the process that holds assetMu
    proc,       \* the operation each process is in
    retryWake,  \* the asset loop is signalled, or its timer is armed
    stopped,    \* ghost: the apps that attempts have stopped since the last plan
                \* that LiveState accepted
    quiesced,   \* ghost: quiescing reached the host or LiveState after the last plan
                \* that the host has and LiveState accepted
    disturbances

vars == <<live, host, assets, assetMu, proc, retryWake, stopped, quiesced, disturbances>>

Procs == Clients \cup {"retry", "assets"}
Nobody == "nobody"
Nothing == [a \in Apps |-> 0]
NoCandidate == [revision |-> 0, specs |-> Nothing, phase |-> [a \in Apps |-> "disabled"]]

Status(phase, retry, failed) == [phase |-> phase, retry |-> retry, failed |-> failed]
Pending == Status("reconcile", FALSE, FALSE)

(* pc: the next step; after: the step that follows asset I/O; enabled: the  *)
(* apps that its copy of the document enables; retires: the app whose       *)
(* deletion fences its operations.                                          *)
Idle == [pc |-> "idle", after |-> "begin", epoch |-> 0, retained |-> {}, resolve |-> {},
         attempted |-> {}, replace |-> FALSE, revision |-> 0, specs |-> Nothing,
         blocked |-> {}, enabled |-> {}, drops |-> FALSE, retires |-> {}, err |-> FALSE,
         report |-> FALSE, left |-> FALSE, cancelled |-> FALSE]

Init ==
    /\ live = [loaded |-> FALSE, closing |-> FALSE, version |-> 1, epoch |-> 0,
               doc |-> [a \in Apps |-> [generation |-> 1, enabled |-> a \in InitiallyEnabled]],
               generations |-> Nothing, specs |-> Nothing,
               readiness |-> [a \in Apps |-> Status("disabled", FALSE, FALSE)],
               active |-> Nobody, candidate |-> NoCandidate, revisions |-> 0,
               accepted |-> 0, finalized |-> 0, correction |-> 0, hostClosed |-> FALSE]
    /\ host = Nothing /\ assets = {} /\ assetMu = Nobody
    /\ proc = [p \in Procs |-> Idle]
    /\ retryWake = FALSE /\ stopped = {} /\ quiesced = FALSE /\ disturbances = 0

Enabled(l) == {a \in Apps : l.doc[a].enabled}
Hosted(specs) == {a \in Apps : specs[a] # 0}
Without(specs, gone) == [a \in Apps |-> IF a \in gone THEN 0 ELSE specs[a]]
IsCancelled(p) == proc[p].left \/ proc[p].cancelled

At(p, pc) == proc[p].pc = pc
Goto(p, pc) == proc' = [proc EXCEPT ![p].pc = pc]
Fail(p, pc) == proc' = [proc EXCEPT ![p].pc = pc, ![p].err = TRUE]
Disturbs == disturbances < MaxDisturbances /\ disturbances' = disturbances + 1
Interrupted(p) == IF IsCancelled(p) THEN UNCHANGED disturbances ELSE Disturbs

CancelActive(procs) ==
    IF live.active = Nobody THEN procs ELSE [procs EXCEPT ![live.active].cancelled = TRUE]

----------------------------------------------------------------------------
(* Committing a document                                                    *)

KeepEveryGeneration(l, doc) == l.generations

PreservedGenerations(l, doc) ==
    [a \in Apps |-> IF doc[a].enabled /\ l.generations[a] = doc[a].generation
                    THEN doc[a].generation ELSE 0]

(* acceptDocument *)
AcceptDocument(l, doc) ==
    [l EXCEPT !.loaded = TRUE, !.epoch = @ + 1, !.doc = doc,
              !.generations = PreservedGenerations(l, doc),
              !.candidate = NoCandidate, !.accepted = 0, !.finalized = 0, !.correction = 0,
              !.readiness = [a \in Apps |->
                  IF l.loaded /\ l.doc[a].generation = doc[a].generation THEN l.readiness[a]
                  ELSE IF doc[a].enabled THEN Pending ELSE Status("disabled", FALSE, FALSE)]]

YieldingOperation(retained, pc, resolve, attempted, report) ==
    [Idle EXCEPT !.pc = pc, !.epoch = live.epoch + 1, !.retained = retained,
                 !.resolve = resolve, !.attempted = attempted, !.report = report]

(* What follows the commit: shouldResolve = nil resolves what is not        *)
(* retained, attempted = nil restarts every pending secret.                 *)
Operation(retained, pc, resolve, attempted, report) ==
    [Idle EXCEPT !.pc = pc, !.epoch = live.epoch + 1, !.retained = retained,
                 !.resolve = resolve, !.attempted = attempted, !.replace = TRUE,
                 !.report = report]

Load(p) ==
    /\ p \in Clients /\ At(p, "idle") /\ ~live.loaded /\ ~live.closing
    /\ live' = AcceptDocument(live, live.doc)
    /\ proc' = [proc EXCEPT ![p] =
                   [Operation({}, "lock", Apps, Apps, FALSE) EXCEPT !.enabled = Enabled(live)]]
    /\ UNCHANGED <<host, assets, assetMu, retryWake, stopped, quiesced, disturbances>>

(* The control socket and the device loops start after Load has returned.   *)
Served == live.loaded /\ \A p \in Clients : At(p, "idle") \/ proc[p].report

Fenced(a) == \E q \in Procs : a \in proc[q].retires

Steps(kind, a) ==
    LET retained == Hosted(live.specs) IN
    CASE kind = "enable"   -> Operation(retained, "lock", {a}, {a}, TRUE)
      [] kind = "disable"  -> Operation(retained, "begin", {}, {}, TRUE)
      [] kind = "replace"  -> Operation(retained, "begin", {a}, {a}, TRUE)
      [] kind = "activate" -> Operation(retained, "quiesce", Apps \ retained, Apps, TRUE)
      [] kind = "delete"   -> [Operation(retained, "begin", Apps \ retained, Apps, TRUE)
                                  EXCEPT !.retires = {a}]

(* SetEnabled, CreateAppInstance, DeleteAppInstance,                        *)
(* ReplaceAppConfiguration and ActivatePlugin up to the end of their        *)
(* transaction.                                                             *)
Commit(p, kind, a) ==
    LET version == live.version + 1
        doc == [live.doc EXCEPT ![a] =
                   [generation |-> version,
                    enabled |-> IF kind = "enable" THEN TRUE
                                ELSE IF kind \in {"disable", "delete"} THEN FALSE ELSE @.enabled]]
    IN /\ p \in Clients /\ At(p, "idle") /\ Served /\ ~live.closing
       /\ version <= MaxCommits
       /\ kind = "enable" => ~live.doc[a].enabled
       /\ kind \in {"disable", "delete"} => live.doc[a].enabled
       /\ kind # "activate" => ~Fenced(a)
       /\ live' = AcceptDocument([live EXCEPT !.version = version], doc)
       /\ proc' = [CancelActive(proc) EXCEPT
                       ![p] = [Steps(kind, a) EXCEPT !.enabled = Enabled([doc |-> doc])]]
       /\ assets' = IF kind = "activate" THEN assets \ {a} ELSE assets
       /\ UNCHANGED <<host, assetMu, retryWake, stopped, quiesced, disturbances>>

----------------------------------------------------------------------------
(* The plugin host                                                          *)

(* Manager.Apply: removed apps are shut down; of the others each may have   *)
(* got its specification when one of them fails.                            *)
PartlyApplied(target) ==
    {h \in [Apps -> {host[a] : a \in Apps} \cup {target[a] : a \in Apps}] :
        \A a \in Apps : h[a] \in IF target[a] = 0 THEN {0} ELSE {host[a], target[a]}}

ApplyPlugins(p, ok) ==
    IF ok THEN /\ ~IsCancelled(p) /\ ~live.hostClosed
               /\ host' = proc[p].specs /\ UNCHANGED disturbances
    ELSE \/ (IsCancelled(p) \/ live.hostClosed) /\ UNCHANGED <<host, disturbances>>
         \/ ~IsCancelled(p) /\ ~live.hostClosed /\ Disturbs /\ host' \in PartlyApplied(proc[p].specs)

----------------------------------------------------------------------------
(* quiesceUnreadyPackagePlugins                                             *)

QuiesceRead(p) ==
    LET blocked == (Enabled(live) \cap AssetApps) \ assets
        current == ~live.closing /\ live.epoch = proc[p].epoch
    IN /\ At(p, "quiesce")
       /\ proc' = IF current /\ Hosted(live.specs) \cap blocked # {}
                  THEN [proc EXCEPT ![p].pc = "quiesce_apply", ![p].blocked = blocked,
                                    ![p].specs = Without(live.specs, blocked)]
                  ELSE [proc EXCEPT ![p].pc = "lock"]
       /\ UNCHANGED <<live, host, assets, assetMu, retryWake, stopped, quiesced, disturbances>>

(* The operation returns; the asset loop still has to arm its timer.        *)
Abandon(p) ==
    proc' = [proc EXCEPT ![p] = IF p = "assets" THEN [Idle EXCEPT !.pc = "arm"] ELSE Idle]

QuiesceApply(p) ==
    /\ At(p, "quiesce_apply")
    /\ \/ ApplyPlugins(p, TRUE) /\ Goto(p, "quiesce_settle")
       \/ ApplyPlugins(p, FALSE) /\ Abandon(p)
    /\ quiesced' = TRUE
    /\ UNCHANGED <<live, assets, assetMu, retryWake, stopped>>

QuiesceSettle(p) ==
    LET blocked == proc[p].blocked IN
    /\ At(p, "quiesce_settle")
    /\ IF live.closing \/ live.epoch # proc[p].epoch
       THEN Abandon(p) /\ UNCHANGED <<live, quiesced, disturbances>>
       ELSE /\ quiesced' = TRUE
            /\ live' = [live EXCEPT !.specs = proc[p].specs, !.generations = proc[p].specs,
                            !.readiness = [a \in Apps |-> IF a \in blocked
                                THEN [@[a] EXCEPT !.phase = "reconcile"] ELSE @[a]]]
            /\ \/ Goto(p, "lock") /\ UNCHANGED disturbances
               \/ Interrupted(p) /\ Abandon(p)
    /\ UNCHANGED <<host, assets, assetMu, retryWake, stopped>>

----------------------------------------------------------------------------
(* Asset I/O, under assetMu                                                 *)

WithoutLock(p) == UNCHANGED assetMu

AcquireAssets(p) == assetMu = Nobody /\ assetMu' = p

SkipAssetCheck(p) == TRUE

AssetsCurrent(p) ==
    /\ live.epoch = proc[p].epoch
    /\ proc[p].after = "finish" => ~live.closing /\ live.accepted = proc[p].revision

MayDrop(p) == \/ proc[p].after = "finish"
              \/ proc[p].after = "reapply" /\ live.accepted # 0 /\ live.finalized = live.accepted

(* reconcileEnabledAssetsForEpoch, ReconcileAssets and finalizeAccepted     *)
(* take assetMu and check that they are still current.                      *)
LockAssets(p) ==
    /\ At(p, "lock") /\ assetMu = Nobody
    /\ IF AssetsCurrent(p)
       THEN /\ proc' = [proc EXCEPT ![p].pc = "upload", ![p].drops = MayDrop(p)]
            /\ AcquireAssets(p)
       ELSE /\ proc' = [proc EXCEPT ![p].pc = proc[p].after,
                                    ![p].err = proc[p].after = "finish"]
            /\ UNCHANGED assetMu
    /\ UNCHANGED <<live, host, assets, retryWake, stopped, quiesced, disturbances>>

(* AssetController.Reconcile; finalizeAccepted then marks its revision.     *)
UploadAssets(p) ==
    LET enabled == proc[p].enabled
        kept == assets \ IF proc[p].drops THEN Apps \ enabled ELSE {}
        marked == ~live.closing /\ live.epoch = proc[p].epoch /\ live.accepted = proc[p].revision
    IN /\ At(p, "upload")
       /\ \/ assets' = kept \cup enabled /\ UNCHANGED disturbances
          \/ Interrupted(p) /\ assets' = kept \cup (enabled \ AssetApps)
       /\ assetMu' = Nobody
       /\ IF proc[p].after = "finish"
          THEN /\ live' = [live EXCEPT !.finalized = IF marked THEN proc[p].revision ELSE @]
               /\ proc' = [proc EXCEPT ![p].pc = "finish",
                                       ![p].err = live'.finalized # proc[p].revision]
          ELSE Goto(p, proc[p].after) /\ UNCHANGED live
       /\ UNCHANGED <<host, retryWake, stopped, quiesced>>

(* OnConnected: the device reconnects.                                      *)
InvalidateConnection ==
    /\ assets \cap AssetApps # {} /\ Disturbs
    /\ assets' = assets \ AssetApps /\ retryWake' = TRUE
    /\ UNCHANGED <<live, host, assetMu, proc, stopped, quiesced>>

(* signalChange: the status stream reports something.                       *)
DeviceEdge ==
    /\ ~retryWake /\ Disturbs
    /\ retryWake' = TRUE
    /\ UNCHANGED <<live, host, assets, assetMu, proc, stopped, quiesced>>

----------------------------------------------------------------------------
(* Attempts                                                                 *)

(* beginAttempt; an attempt of a plan that is staged goes on to check it.   *)
BeginAttempt(p) ==
    /\ At(p, "begin")
    /\ IF \/ live.closing \/ live.epoch # proc[p].epoch
          \/ live.active # Nobody /\ ~proc[p].replace
       THEN Fail(p, "report") /\ UNCHANGED live
       ELSE /\ live' = [live EXCEPT !.active = p]
            /\ proc' = [CancelActive(proc) EXCEPT
                           ![p].pc = IF proc[p].revision = 0 THEN "stage" ELSE "check"]
    /\ UNCHANGED <<host, assets, assetMu, retryWake, stopped, quiesced, disturbances>>

Owns(p) == ~live.closing /\ live.epoch = proc[p].epoch /\ live.active = p
OwnsRevision(p) == Owns(p) /\ live.candidate.revision = proc[p].revision

(* buildPlan: the phase of an app, given the secrets that do not resolve.   *)
PlannedPhase(p, a, failing) ==
    IF ~live.doc[a].enabled THEN "disabled"
    ELSE IF a \in (proc[p].resolve \ failing) \cup (proc[p].retained \ proc[p].resolve)
    THEN "ready" ELSE "secret"

StagedStatus(p, a, phase) ==
    LET previous == live.readiness[a] IN
    CASE phase = "disabled" -> Status("disabled", FALSE, FALSE)
      [] phase = "secret" -> IF previous.phase = "secret" /\ a \notin proc[p].attempted
                             THEN previous ELSE Status("secret", TRUE, FALSE)
      [] phase = "ready" -> IF previous.phase = "ready" /\ live.generations[a] # 0
                            THEN previous ELSE Pending

(* buildPlan and stagePlan *)
StagePlan(p) ==
    /\ At(p, "stage")
    /\ IF ~Owns(p) THEN Fail(p, "finish") /\ UNCHANGED <<live, disturbances>>
       ELSE \E failing \in SUBSET (proc[p].resolve \cap SecretApps \cap Enabled(live)) :
            LET phase == [a \in Apps |-> PlannedPhase(p, a, failing)]
                revision == live.revisions + 1
            IN /\ IF failing = {} THEN UNCHANGED disturbances ELSE Interrupted(p)
               /\ live' = [live EXCEPT !.revisions = revision, !.correction = 0,
                      !.candidate = [revision |-> revision, phase |-> phase,
                          specs |-> [a \in Apps |-> IF phase[a] = "ready"
                                                    THEN live.doc[a].generation ELSE 0]],
                      !.readiness = [a \in Apps |-> StagedStatus(p, a, phase[a])]]
               /\ proc' = [proc EXCEPT ![p].pc = "check", ![p].revision = revision]
    /\ UNCHANGED <<host, assets, assetMu, retryWake, stopped, quiesced>>

(* readySpecs and attemptCurrent *)
CheckAttempt(p) ==
    /\ At(p, "check")
    /\ IF OwnsRevision(p)
       THEN proc' = [proc EXCEPT ![p].pc = "apply",
                         ![p].specs = Without(live.candidate.specs, Apps \ assets)]
       ELSE Fail(p, "finish")
    /\ UNCHANGED <<live, host, assets, assetMu, retryWake, stopped, quiesced, disturbances>>

ApplyPlan(p) ==
    /\ At(p, "apply")
    /\ \/ ApplyPlugins(p, TRUE) /\ Goto(p, "settle")
       \/ ApplyPlugins(p, FALSE) /\ Fail(p, "settle")
    /\ stopped' = stopped \cup {a \in Apps : host[a] # 0 /\ host'[a] = 0}
    /\ UNCHANGED <<live, assets, assetMu, retryWake, quiesced>>

Superseded(l) ==
    IF ~l.closing /\ l.candidate.revision # 0 /\ l.accepted = l.candidate.revision
    THEN [l EXCEPT !.correction = l.candidate.revision] ELSE l

ForgetFailure(l, revision) == l

(* An accepted plan is corrected later, another retries its pending apps.   *)
ApplyFailed(l, revision) ==
    IF l.accepted = revision THEN [l EXCEPT !.correction = revision]
    ELSE [l EXCEPT !.readiness = [a \in Apps |->
             IF @[a].phase = "reconcile" THEN Status("reconcile", TRUE, TRUE) ELSE @[a]]]

StatusOfPlan(l, specs, a) ==
    CASE l.candidate.phase[a] = "disabled" -> Status("disabled", FALSE, FALSE)
      [] l.candidate.phase[a] = "secret" -> l.readiness[a]
      [] l.candidate.phase[a] = "ready" -> Status("ready", FALSE, FALSE)

AcceptedStatus(l, specs, a) ==
    CASE l.candidate.phase[a] = "disabled" -> Status("disabled", FALSE, FALSE)
      [] l.candidate.phase[a] = "secret" -> l.readiness[a]
      [] l.candidate.phase[a] = "ready" ->
            IF specs[a] # 0 THEN Status("ready", FALSE, FALSE) ELSE Pending

Accepted(l, revision, specs) ==
    [l EXCEPT !.generations = specs, !.specs = specs, !.accepted = revision, !.correction = 0,
              !.readiness = [a \in Apps |-> AcceptedStatus(l, specs, a)]]

StaleAttempt(p) == ~OwnsRevision(p)

(* applyPlanForAttempt, after the call of the host                          *)
SettleAttempt(p) ==
    LET revision == proc[p].revision IN
    /\ At(p, "settle")
    /\ \/ StaleAttempt(p) /\ live' = Superseded(live) /\ Fail(p, "finish") /\ UNCHANGED <<stopped, quiesced>>
       \/ ~StaleAttempt(p) /\ proc[p].err /\ live' = ApplyFailed(live, revision)
          /\ Goto(p, "finish") /\ UNCHANGED <<stopped, quiesced>>
       \/ ~StaleAttempt(p) /\ ~proc[p].err /\ live' = Accepted(live, revision, proc[p].specs)
          /\ Goto(p, "final") /\ stopped' = {} /\ quiesced' = (quiesced /\ host # proc[p].specs)
    /\ UNCHANGED <<host, assets, assetMu, retryWake, disturbances>>

(* finalizeAccepted up to its asset I/O, with the error path of its caller  *)
Finalize(p) ==
    LET current == ~live.closing /\ live.epoch = proc[p].epoch /\ live.accepted = proc[p].revision
    IN /\ At(p, "final")
       /\ \/ ~current /\ Fail(p, "finish") /\ UNCHANGED <<live, disturbances>>
          \/ current /\ UNCHANGED <<live, disturbances>>
             /\ proc' = [proc EXCEPT ![p].pc = "lock", ![p].after = "finish",
                                     ![p].enabled = Enabled(live)]
          \/ current /\ Interrupted(p) /\ Fail(p, "finish")
             /\ live' = [live EXCEPT !.correction = proc[p].revision]
       /\ UNCHANGED <<host, assets, assetMu, retryWake, stopped, quiesced>>

FinishAttempt(p) ==
    /\ At(p, "finish")
    /\ live' = [live EXCEPT !.active = IF @ = p THEN Nobody ELSE @]
    /\ Goto(p, "report")
    /\ UNCHANGED <<host, assets, assetMu, retryWake, stopped, quiesced, disturbances>>

(* operationReconciliationError: work of a client that left is taken over.  *)
TakenOver(l) ==
    IF l.candidate.revision # 0
    THEN IF l.correction = l.candidate.revision \/ \E a \in Apps : l.readiness[a].retry
         THEN l ELSE [l EXCEPT !.correction = l.candidate.revision]
    ELSE [l EXCEPT !.readiness = [a \in Apps |->
             IF l.doc[a].enabled /\ ~@[a].retry THEN Status("reconcile", TRUE, TRUE) ELSE @[a]]]

Report(p) ==
    /\ At(p, "report")
    /\ live' = IF proc[p].report /\ proc[p].left /\ ~live.closing /\ live.epoch = proc[p].epoch
               THEN TakenOver(live) ELSE live
    /\ Abandon(p)
    /\ UNCHANGED <<host, assets, assetMu, retryWake, stopped, quiesced, disturbances>>

(* The context of an operation ends.                                        *)
Leave(p) ==
    /\ p \in Clients /\ proc[p].report /\ ~proc[p].left /\ Disturbs
    /\ proc' = [proc EXCEPT ![p].left = TRUE]
    /\ UNCHANGED <<live, host, assets, assetMu, retryWake, stopped, quiesced>>

----------------------------------------------------------------------------
(* The loops                                                                *)

Retriable(a) == \/ live.readiness[a].phase = "secret"
                \/ live.readiness[a].phase = "reconcile" /\ live.readiness[a].failed

Corrective == live.correction # 0 /\ live.correction = live.candidate.revision

(* runDueRetry, once nextRetry has come for some of what waits.             *)
RunDueRetry(due, corrective) ==
    LET secrets == {a \in due : live.readiness[a].phase = "secret"}
        retryApply == due \ secrets # {}
        none == live.candidate.revision = 0
        specs == IF none THEN live.specs ELSE live.candidate.specs
        Resolve(resolve, attempted) ==
            [Idle EXCEPT !.pc = "begin", !.epoch = live.epoch, !.retained = Hosted(specs),
                         !.resolve = resolve, !.attempted = attempted]
    IN /\ At("retry", "idle") /\ live.loaded /\ ~live.closing /\ live.active = Nobody
       /\ due \subseteq {a \in Apps : live.readiness[a].retry /\ Retriable(a)}
       /\ corrective => Corrective
       /\ \/ secrets # {} /\ proc' = [proc EXCEPT !["retry"] = Resolve(secrets, secrets)]
          \/ /\ secrets = {} /\ retryApply /\ none
             /\ proc' = [proc EXCEPT !["retry"] = Resolve(Apps \ Hosted(specs), Apps)]
          \/ /\ secrets = {} /\ (retryApply \/ corrective) /\ ~none
             /\ proc' = [proc EXCEPT !["retry"] = [Idle EXCEPT !.pc = "begin",
                             !.epoch = live.epoch, !.revision = live.candidate.revision]]
       /\ UNCHANGED <<live, host, assets, assetMu, retryWake, stopped, quiesced, disturbances>>

(* RunAssetRetry: ReconcileAssets begins, and the timer is set after it.    *)
ReconcileAssets ==
    /\ retryWake /\ At("assets", "idle") /\ Served
    /\ retryWake' = FALSE
    /\ proc' = [proc EXCEPT !["assets"] = [Idle EXCEPT !.pc = "quiesce", !.after = "reapply",
                                      !.epoch = live.epoch, !.enabled = Enabled(live)]]
    /\ UNCHANGED <<live, host, assets, assetMu, stopped, quiesced, disturbances>>

Waiting == (Enabled(live) \cap AssetApps) \ assets

ArmRetry ==
    /\ At("assets", "arm")
    /\ proc' = [proc EXCEPT !["assets"] = Idle]
    /\ retryWake' = (retryWake \/ Waiting # {})
    /\ UNCHANGED <<live, host, assets, assetMu, stopped, quiesced, disturbances>>

ReapplyCandidate ==
    /\ At("assets", "reapply")
    /\ IF live.candidate.revision = 0 \/ live.active # Nobody THEN Abandon("assets")
       ELSE proc' = [proc EXCEPT !["assets"].pc = "begin", !["assets"].epoch = live.epoch,
                                 !["assets"].revision = live.candidate.revision]
    /\ UNCHANGED <<live, host, assets, assetMu, retryWake, stopped, quiesced, disturbances>>

(* Close, and the close of the host that it starts                          *)
Close ==
    /\ ~live.closing /\ Disturbs
    /\ live' = [live EXCEPT !.closing = TRUE, !.epoch = @ + 1]
    /\ proc' = CancelActive(proc)
    /\ UNCHANGED <<host, assets, assetMu, retryWake, stopped, quiesced>>

ClosePlugins ==
    /\ live.closing /\ ~live.hostClosed
    /\ live' = [live EXCEPT !.hostClosed = TRUE] /\ host' = Nothing
    /\ UNCHANGED <<assets, assetMu, proc, retryWake, stopped, quiesced, disturbances>>

(* One step of the operation p is in                                        *)
Step(p) ==
    \/ QuiesceRead(p) \/ QuiesceApply(p) \/ QuiesceSettle(p) \/ LockAssets(p) \/ UploadAssets(p)
    \/ BeginAttempt(p) \/ StagePlan(p) \/ CheckAttempt(p) \/ ApplyPlan(p) \/ SettleAttempt(p)
    \/ Finalize(p) \/ FinishAttempt(p) \/ Report(p)

RetryLoop == \E due \in SUBSET Apps, corrective \in BOOLEAN : RunDueRetry(due, corrective)

AssetLoop == ReconcileAssets \/ ReapplyCandidate \/ ArmRetry

Next ==
    \/ \E p \in Clients : Load(p) \/ Leave(p)
    \/ \E p \in Clients, kind \in Kinds, a \in Apps : Commit(p, kind, a)
    \/ \E p \in Procs : Step(p)
    \/ RetryLoop \/ AssetLoop
    \/ InvalidateConnection \/ DeviceEdge \/ Close \/ ClosePlugins

Spec == Init /\ [][Next]_vars

----------------------------------------------------------------------------
(* Properties                                                               *)

Generation == 0 .. MaxCommits
Phases == {"disabled", "secret", "reconcile", "ready"}

(* Every field has its type; assetMu is held by the process in asset I/O.   *)
TypeOK ==
    /\ live.doc \in [Apps -> [generation : Generation, enabled : BOOLEAN]]
    /\ {live.specs, live.generations, live.candidate.specs, host} \subseteq [Apps -> Generation]
    /\ live.readiness \in [Apps -> [phase : Phases, retry : BOOLEAN, failed : BOOLEAN]]
    /\ live.active \in Procs \cup {Nobody} /\ assets \subseteq Apps
    /\ live.correction \in 0 .. live.revisions
    /\ \A p \in Procs : At(p, "upload") <=> assetMu = p

AtRest == live.loaded /\ ~live.closing /\ ~retryWake /\ \A p \in Procs : At(p, "idle")

RetryOwned == Corrective \/ \E a \in Apps : live.readiness[a].retry

(* The host runs what is reported: once all work is done and no retry is    *)
(* due, an app that is reported ready runs with its current generation,     *)
(* whatever attempts and commits have overtaken each other.                 *)
ReadyIsHosted ==
    AtRest /\ ~RetryOwned =>
        \A a \in Apps : live.readiness[a].phase = "ready" => host[a] = live.doc[a].generation

(* At all times, what is reported ready runs with its current generation,   *)
(* unless quiescing, which works from an old snapshot, has followed the     *)
(* last plan that was accepted, or an attempt has stopped the app and was   *)
(* not accepted: its failure is recorded for pending apps only.             *)
PlanIsHosted ==
    ~live.closing /\ ~quiesced =>
        \A a \in Apps \ stopped :
            live.readiness[a].phase = "ready" => host[a] = live.doc[a].generation

(* Observations are accepted for current app configurations only, unless    *)
(* quiescing has restored the generations of the last accepted plan.        *)
GenerationsCurrent ==
    ~quiesced => \A a \in Hosted(live.generations) :
        live.doc[a] = [generation |-> live.generations[a], enabled |-> TRUE]

(* An enabled app that does not run is retried, or is in the plan that the  *)
(* asset loop applies again when it is woken, unless quiescing, after which *)
(* an operation may give up, was the last to reach the host.                *)
EnabledPlanned ==
    AtRest /\ ~quiesced => \A a \in Enabled(live) : host[a] # live.doc[a].generation =>
                  RetryOwned \/ live.candidate.specs[a] = live.doc[a].generation

(* The plan, the host and the reports agree: what is reported ready runs,   *)
(* what is accepted is current, and what is enabled is not forgotten.       *)
PlanAgrees == TypeOK /\ PlanIsHosted /\ GenerationsCurrent /\ EnabledPlanned

(* An older disable does not remove the assets of a newer enable, unless    *)
(* the enable is still to upload them.                                      *)
KeepsAssets ==
    \A a \in Apps :
        /\ a \in assets \ assets' /\ live.doc[a].enabled
        /\ live'.doc = live.doc /\ proc' # proc
        => \E p \in Procs : At(p, "lock") /\ proc[p].after = "begin"
AssetsKept == [][KeepsAssets]_vars

----------------------------------------------------------------------------
(* Every goroutine keeps running; the retry loop and the asset loop keep    *)
(* coming back while they have reason to.                                   *)
Fairness ==
    /\ \A p \in Clients : WF_vars(Load(p))
    /\ \A p \in Procs : WF_vars(Step(p))
    /\ WF_vars(RetryLoop)
    /\ WF_vars(AssetLoop)

FairSpec == Spec /\ Fairness

(* Once commits and failures have ended, what is enabled and has its assets *)
(* runs, and what is disabled does not, unless the reconciler is closed.    *)
Converged ==
    \/ live.closing
    \/ \A a \in Apps : host[a] = IF live.doc[a].enabled /\ a \in assets
                                 THEN live.doc[a].generation ELSE 0
Converges == <>[]Converged
============================================================================
