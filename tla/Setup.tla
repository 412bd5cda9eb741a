-------------------------------- MODULE Setup --------------------------------
(***************************************************************************)
(* bsbctl setup with a bootstrap credential (cmd/bsbctl/setup.go): mint an *)
(* access token on the device, put it in the keychain, point the           *)
(* configuration at it, install and restart the service, and have the      *)
(* daemon install the selected plugins and create their apps.  None of the *)
(* parties can be rolled back together, every call may fail before or      *)
(* after its effect, and two setup commands may run at once.               *)
(*                                                                         *)
(* A run mints at most one token, named after the run.  The keychain never *)
(* replaces an item (secrets.Keychain.Store adds).                         *)
(***************************************************************************)
EXTENDS Integers, FiniteSets

CONSTANTS Runs, Apps, MaxFaults, None

VARIABLES
    world,   \* device: its tokens; keychain: the token of the reference, or None;
             \* config: generation (0: no file) and whether it names the reference;
             \* service, plugins, apps: what is installed
    run,     \* run -> its state
    faults,
    late     \* ghost: the runs whose mint took effect after they had looked for it

vars == <<world, run, faults, late>>

Old == "old"

Begun == [step |-> "load", loaded |-> [generation |-> 0, ref |-> FALSE], token |-> "none",
          changed |-> FALSE, todo |-> Apps, pending |-> FALSE, answer |-> "none", did |-> {}]

Init ==
    /\ \E item \in {None, Old}, tokens \in {{}, {Old}}, g \in {0, 1} :
          world = [device |-> tokens, keychain |-> item,
                   config |-> [generation |-> g, ref |-> g = 1 /\ item = Old],
                   service |-> FALSE, plugins |-> {}, apps |-> {}]
    /\ run = [r \in Runs |-> Begun]
    /\ faults = 0
    /\ late = {}

----------------------------------------------------------------------------
At(r, step) == run[r].step = step
Fault == faults < MaxFaults /\ faults' = faults + 1
NoFault == UNCHANGED faults

Go(r, step) == run' = [run EXCEPT ![r].step = step]
Did(r, what, step) == run' = [run EXCEPT ![r].step = step, ![r].changed = TRUE,
                                         ![r].did = @ \cup {what}]

(* finishSetupRun: a failure is reported as one only when nothing changed; *)
(* otherwise, and when the failing step says so itself, it is partial.     *)
CodeAsGiven(r, code) == code
Code(r, code) == IF run[r].changed THEN "partial" ELSE code
Finish(r, code, token) ==
    [run EXCEPT ![r].step = "done", ![r].answer = Code(r, code), ![r].token = token]
Undone(r) == [run EXCEPT ![r].step = "done", ![r].answer = "failed", ![r].did = {}]

Load(r) ==
    /\ At(r, "load")
    /\ run' = [run EXCEPT ![r].step = "resolve", ![r].loaded = world.config]
    /\ UNCHANGED <<world, faults, late>>

(* provisionSetupToken: an item that is there is validated against the     *)
(* device and reused; only a missing one is provisioned.                   *)
Resolve(r) ==
    /\ At(r, "resolve")
    /\ \/ Fault /\ run' = Finish(r, "failed", "none")
       \/ /\ NoFault /\ world.keychain # None
          /\ run' = IF world.keychain \in world.device
                    THEN [run EXCEPT ![r].step = "config", ![r].token = "existing"]
                    ELSE Finish(r, "failed", "none")
       \/ NoFault /\ world.keychain = None /\ Go(r, "mint")
    /\ UNCHANGED <<world, late>>

(* The answer of the device may be lost, with or without the token made,   *)
(* or the token made only later; or it may not be usable.                  *)
Mint(r) ==
    /\ At(r, "mint")
    /\ LET minted == [world EXCEPT !.device = @ \cup {r}] IN
       \/ NoFault /\ world' = minted /\ run' = [run EXCEPT ![r].step = "validate", ![r].did = {"token"}]
       \/ /\ Fault
          /\ \/ UNCHANGED world /\ Go(r, "reconcile")
             \/ UNCHANGED world /\ run' = [run EXCEPT ![r].step = "reconcile", ![r].pending = TRUE]
             \/ world' = minted /\ run' = [run EXCEPT ![r].step = "reconcile", ![r].did = {"token"}]
             \/ world' = minted /\ run' = [run EXCEPT ![r].step = "cleanup", ![r].did = {"token"}]
             \/ /\ world' = minted
                /\ run' = [Finish(r, "partial", "cleanup_required") EXCEPT ![r].did = {"token"}]
    /\ UNCHANGED late

LateMint(r) ==
    /\ run[r].pending
    /\ world' = [world EXCEPT !.device = @ \cup {r}]
    /\ run' = [run EXCEPT ![r].pending = FALSE,
                          ![r].did = IF At(r, "reconcile") THEN {"token"} ELSE @]
    /\ late' = IF At(r, "reconcile") THEN late ELSE late \cup {r}
    /\ UNCHANGED faults

(* reconcileSetupMintFailure: a token of the run's name that was not there *)
(* before is revoked.                                                      *)
Reconcile(r) ==
    /\ At(r, "reconcile")
    /\ \/ Fault /\ run' = Finish(r, "partial", "unknown")
       \/ NoFault /\ run' = IF r \in world.device THEN [run EXCEPT ![r].step = "cleanup"]
                            ELSE Finish(r, "failed", "none")
    /\ UNCHANGED <<world, late>>

(* cleanupSetupToken                                                       *)
Skipped(r) ==
    /\ At(r, "cleanup")
    /\ run' = Finish(r, "failed", "none")
    /\ UNCHANGED <<world, faults, late>>
Cleanup(r) ==
    /\ At(r, "cleanup")
    /\ LET revoked == [world EXCEPT !.device = @ \ {r}] IN
       \/ NoFault /\ world' = revoked /\ run' = Undone(r)
       \/ /\ Fault /\ world' \in {world, revoked}
          /\ run' = Finish(r, "partial", "cleanup_required")
    /\ UNCHANGED late

ValidateMinted(r) ==
    /\ At(r, "validate")
    /\ \/ NoFault /\ Go(r, "store")
       \/ Fault /\ Go(r, "cleanup")
    /\ UNCHANGED <<world, late>>

Store(r) ==
    /\ At(r, "store")
    /\ LET stored == [world EXCEPT !.keychain = r] IN
       \/ world.keychain # None /\ NoFault /\ UNCHANGED world /\ Go(r, "recheck")
       \/ world.keychain = None /\ NoFault /\ world' = stored /\ Go(r, "created")
       \/ world.keychain = None /\ Fault /\ world' \in {world, stored} /\ Go(r, "recheck")
    /\ UNCHANGED late

(* resolveSetupTokenAfterStoreError: what the keychain holds decides, and  *)
(* a run that was canceled meanwhile stops there.                          *)
Recheck(r) ==
    /\ At(r, "recheck")
    /\ \/ Fault /\ run' = Finish(r, "partial", "unknown")
       \/ /\ world.keychain = r
          /\ \/ NoFault /\ Go(r, "created")
             \/ Fault /\ run' = Finish(r, "partial", "created")
       \/ world.keychain # r /\ NoFault /\ Go(r, "cleanup")
    /\ UNCHANGED <<world, late>>

Created(r) ==
    /\ At(r, "created")
    /\ run' = [run EXCEPT ![r].step = "config", ![r].token = "created", ![r].changed = TRUE]
    /\ UNCHANGED <<world, faults, late>>

(* ensureSetupConfiguration: nothing to write when the document that was   *)
(* read names the reference; else replaced at the generation read.  When   *)
(* the replacement is not known to be durable the service is installed and *)
(* restarted all the same, which may fail too.                             *)
Configure(r) ==
    /\ At(r, "config")
    /\ LET written == [world EXCEPT !.config = [generation |-> @.generation + 1, ref |-> TRUE]] IN
       \/ run[r].loaded.ref /\ Go(r, "service") /\ NoFault /\ UNCHANGED world
       \/ /\ ~run[r].loaded.ref /\ run[r].loaded.generation # world.config.generation
          /\ run' = Finish(r, "failed", run[r].token) /\ NoFault /\ UNCHANGED world
       \/ /\ ~run[r].loaded.ref /\ run[r].loaded.generation = world.config.generation
          /\ \/ NoFault /\ world' = written /\ Did(r, "config", "service")
             \/ Fault /\ UNCHANGED world /\ run' = Finish(r, "failed", run[r].token)
             \/ /\ Fault /\ world' \in {written} \cup
                      (IF run[r].loaded.generation = 0 THEN {} ELSE {[written EXCEPT !.service = TRUE]})
                /\ run' = [Finish(r, "partial", run[r].token) EXCEPT ![r].did = @ \cup {"config"}]
    /\ UNCHANGED late

(* service install: a definite failure, or one that is partial itself.     *)
Service(r) ==
    /\ At(r, "service")
    /\ LET loaded == [world EXCEPT !.service = TRUE] IN
       \/ NoFault /\ world' = loaded /\ Did(r, "service", "ready")
       \/ Fault /\ UNCHANGED world /\ run' = Finish(r, "failed", run[r].token)
       \/ /\ Fault /\ world' \in {world, loaded}
          /\ run' = [Finish(r, "partial", run[r].token) EXCEPT ![r].did = @ \cup {"service"}]
    /\ UNCHANGED late

(* service restart and waitSetupStatus, before and after the apps.         *)
Ready(r) ==
    /\ At(r, "ready")
    /\ \/ Fault /\ run' = Finish(r, "failed", run[r].token)
       \/ /\ NoFault
          /\ run' = IF run[r].todo # {} THEN [run EXCEPT ![r].step = "apps"]
                    ELSE [run EXCEPT ![r].step = "done", ![r].answer = "ok"]
    /\ UNCHANGED <<world, late>>

(* reconcileSetupApps: per app the plugin is installed when it is not      *)
(* there, then the app created.                                            *)
App(r) ==
    /\ At(r, "apps")
    /\ \E a \in run[r].todo :
          LET plugin == [world EXCEPT !.plugins = @ \cup {a}]
              both   == [plugin EXCEPT !.apps = @ \cup {a}] IN
          \/ /\ NoFault /\ world' = both
             /\ run' = [run EXCEPT ![r].todo = @ \ {a}, ![r].did = @ \cup {"apps"},
                                   ![r].step = IF run[r].todo = {a} THEN "ready" ELSE "apps"]
          \/ /\ Fault /\ world' \in {world, plugin, both}
             /\ run' = [Finish(r, "failed", run[r].token) EXCEPT ![r].did = @ \cup {"apps"}]
    /\ UNCHANGED late

(* The command is killed.                                                  *)
Killed(r) ==
    /\ ~At(r, "done") /\ Fault
    /\ run' = [run EXCEPT ![r].step = "done", ![r].answer = "killed"]
    /\ UNCHANGED <<world, late>>

(* The daemon, meanwhile, replaces the configuration too.                  *)
DaemonWrites ==
    /\ world.config.generation = 1 /\ Fault
    /\ world' = [world EXCEPT !.config.generation = 2]
    /\ UNCHANGED <<run, late>>

Next ==
    \/ \E r \in Runs : \/ Load(r) \/ Resolve(r) \/ Mint(r) \/ LateMint(r) \/ Reconcile(r)
                       \/ Cleanup(r) \/ ValidateMinted(r) \/ Store(r) \/ Recheck(r) \/ Created(r)
                       \/ Configure(r) \/ Service(r) \/ Ready(r) \/ App(r) \/ Killed(r)
    \/ DaemonWrites

Spec == Init /\ [][Next]_vars

----------------------------------------------------------------------------
Answered(r) == At(r, "done") /\ run[r].answer # "killed"

(* What setup answers is so: a run that failed (and not partially) left     *)
(* nothing of its own behind; a token a run made is the keychain's, or      *)
(* revoked, or reported in its answer as unknown or to be cleaned up; and a *)
(* run that succeeded leaves a configuration that names a token of the      *)
(* keychain the device knows, the service loaded and every selected app     *)
(* with its plugin.  This for two runs at once, each call failing before or *)
(* after its effect; a mint the device carried out only after the run had   *)
(* looked for it is excepted.                                               *)
SetupTruthful ==
    \A r \in Runs : Answered(r) =>
       /\ run[r].answer = "failed" => run[r].did = {}
       /\ r \in world.device \ late =>
             r = world.keychain \/ run[r].token \in {"unknown", "cleanup_required"}
       /\ run[r].answer = "ok" =>
             /\ world.config.ref /\ world.keychain \in world.device
             /\ world.service /\ Apps \subseteq world.apps \cap world.plugins
=============================================================================
