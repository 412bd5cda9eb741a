------------------------------ MODULE Installer ------------------------------
(***************************************************************************)
(* Installation of catalog packages (internal/installer) of one plugin:     *)
(* promotion of the package directory, the operation journal (the intent),  *)
(* activation in the configuration document, the install state, and the     *)
(* recovery the daemon runs before anything else starts.  Every write is a  *)
(* rename that a directory sync makes durable (internal/localstate), so     *)
(* each file has the content every reader sees and the older contents that  *)
(* a loss of power may still bring back.  A step ends at a rename and its   *)
(* sync; the process may die and the power may fail between any two steps,  *)
(* and between a rename and its sync.                                       *)
(***************************************************************************)
EXTENDS Integers, FiniteSets

CONSTANTS Releases,                 \* ReleaseRefs of the plugin
          Catalogs,                 \* verified catalogs: [sequence, sha256, plugins]
          None,
          Local,                    \* a registration made by bsbctl init
          maxInstalledReleases

Digests == {c.sha256 : c \in Catalogs}
Sequences == {c.sequence : c \in Catalogs}
Ref == Releases \cup {None}
Checkpoint == [sequence : Sequences \cup {0}, sha256 : Digests \cup {None}]

InstallState ==
    [active : Ref, previous : Ref, installed : SUBSET Releases, catalog : Checkpoint]

Intent ==
    [kind : {"install", "rollback"}, target : Releases,
     before : [active : Ref, previous : Ref],
     beforeCatalog : Checkpoint, catalog : Checkpoint,
     targetWasInstalled : BOOLEAN]

InstallerAssumption ==
    /\ None \notin Releases /\ Local \notin Releases /\ None # Local
    /\ None \notin Digests /\ None \notin Intent /\ None \notin InstallState
    /\ \A c \in Catalogs : c.sequence \in Nat \ {0} /\ c.plugins \subseteq Releases
    /\ maxInstalledReleases \in Nat

VARIABLES
    files,          \* what a reader finds: the plugin's entry in config.json,
                    \* install-state.json, operation-journal.json
    older,          \* contents a loss of power may restore, per file
    packages,       \* package directories
    damaged,        \* those whose content no longer verifies
    unsynced,       \* those whose directory entry is not durable
    phase,          \* the next step of the operation that holds Installer.mu
    job,            \* its intent and next state; starting during recovery
    relied,         \* history: recovery relied on a configuration that was not
                    \* durable ("pending"), and the power failed ("undone")
    expected        \* history: what the plugin may run and the catalog sequence
                    \* that goes with it, after the operations reported so far

vars == <<files, older, packages, damaged, unsynced, phase, job, relied, expected>>

Names == {"config", "state", "intent"}
Directory == [f \in Names |-> IF f = "config" THEN "home" ELSE "installer"]
NothingOlder == [f \in Names |-> {}]
EmptyState ==
    [active |-> None, previous |-> None, installed |-> {},
     catalog |-> [sequence |-> 0, sha256 |-> None]]
NoJob == [intent |-> None, next |-> None, starting |-> FALSE]

Phases == {"down", "idle", "promote", "intent", "activate", "state", "clear"}

Init ==
    /\ \E registered \in {None, Local} :
           files = [config |-> registered, state |-> EmptyState, intent |-> None]
    /\ older = NothingOlder
    /\ packages = {} /\ damaged = {}
    /\ unsynced = {}
    /\ phase = "down"
    /\ job = NoJob
    /\ relied = "none"
    /\ expected = {<<files.config, 0>>}

-----------------------------------------------------------------------------
(* Writes.                                                                  *)

(* A sync of a directory makes every entry of it durable.                   *)
Sync(directories) ==
    /\ older' = [f \in Names |-> IF Directory[f] \in directories THEN {} ELSE older[f]]
    /\ relied' = IF relied = "pending" /\ "home" \in directories THEN "none" ELSE relied

(* Renamed, and the directory synced.                                       *)
Committed(f, v) ==
    /\ files' = [files EXCEPT ![f] = v]
    /\ Sync({Directory[f]})

(* Renamed, and the sync failed or never came.                              *)
DurabilityUncertain(f, v) ==
    /\ files' = [files EXCEPT ![f] = v]
    /\ older' = [older EXCEPT ![f] = @ \cup {files[f]}]
    /\ UNCHANGED relied

NotCommitted == UNCHANGED <<files, older, relied>>

(* The operation holds the lock no more: a failed recovery ends the daemon, *)
(* every other one returns to the client.                                   *)
Fail ==
    /\ phase' = IF job.starting THEN "down" ELSE "idle"
    /\ job' = NoJob

Advance(to) == phase' = to /\ UNCHANGED job

Finish == phase' = "idle" /\ job' = NoJob

-----------------------------------------------------------------------------
(* The states an operation moves between.                                   *)

ApplyTargetState(state, intent) ==
    [active |-> intent.target,
     previous |-> IF intent.before.active \notin {None, intent.target}
                  THEN intent.before.active ELSE intent.before.previous,
     installed |-> state.installed \cup {intent.target},
     catalog |-> IF intent.kind = "install" THEN intent.catalog ELSE state.catalog]

(* Variant: the checkpoint of the abandoned install is kept.                *)
RestoreKeepingCatalog(state, intent) ==
    [active |-> intent.before.active,
     previous |-> intent.before.previous,
     installed |-> IF intent.targetWasInstalled
                   THEN state.installed ELSE state.installed \ {intent.target},
     catalog |-> intent.catalog]

RestorePriorState(state, intent) ==
    [active |-> intent.before.active,
     previous |-> intent.before.previous,
     installed |-> IF intent.targetWasInstalled
                   THEN state.installed ELSE state.installed \ {intent.target},
     catalog |-> intent.beforeCatalog]

ValidInstallState(state) ==
    /\ Cardinality(state.installed) <= maxInstalledReleases
    /\ {state.active, state.previous} \subseteq state.installed \cup {None}
    /\ state.active = None \/ state.active # state.previous

VerifyInstalled(r) == r \in packages \ damaged

(* Variant: the prior release is taken from the configuration.              *)
MakeIntentFromConfig(kind, r, checkpoint) ==
    [kind |-> kind, target |-> r,
     before |-> [active |-> files.config, previous |-> files.state.previous],
     beforeCatalog |-> files.state.catalog, catalog |-> checkpoint,
     targetWasInstalled |-> r \in files.state.installed]

MakeIntent(kind, r, checkpoint) ==
    [kind |-> kind, target |-> r,
     before |-> [active |-> files.state.active, previous |-> files.state.previous],
     beforeCatalog |-> files.state.catalog, catalog |-> checkpoint,
     targetWasInstalled |-> r \in files.state.installed]

MakeJob(kind, r, checkpoint) ==
    LET intent == MakeIntent(kind, r, checkpoint)
    IN  [intent |-> intent, next |-> ApplyTargetState(files.state, intent),
         starting |-> FALSE]

LastSequence(c) ==
    IF files.state.catalog.sha256 = c.sha256
    THEN files.state.catalog.sequence - 1 ELSE files.state.catalog.sequence

(* Signature, times and entries are those of a published catalog.           *)
VerifyCatalog(c) == c.sequence > LastSequence(c)

-----------------------------------------------------------------------------
(* install: InstallFirst and Update differ in whether a release is active,  *)
(* so between them every other release may be installed.  The staging       *)
(* directory is created with a sync of every directory above it, the        *)
(* configuration's and the installer's among them.                          *)
Install(c, r) ==
    /\ phase = "idle" /\ files.intent = None
    /\ files.state.active # r
    /\ VerifyCatalog(c)
    /\ r \in c.plugins
    /\ Sync({"home", "installer"})
    /\ phase' = "promote"
    /\ job' = MakeJob("install", r, [sequence |-> c.sequence, sha256 |-> c.sha256])
    /\ UNCHANGED <<files, packages, damaged, unsynced, expected>>

(* Variant: the next state is not validated first.                          *)
TransactUnchecked(j) == phase' = "intent" /\ job' = j

(* transact refuses an invalid next state before it writes anything.        *)
Transact(j) ==
    IF ValidInstallState(j.next)
    THEN phase' = "intent" /\ job' = j
    ELSE phase' = "idle" /\ job' = NoJob

(* Promote: a directory that is there already is verified and synced again. *)
PromoteDone ==
    /\ phase = "promote" /\ job.intent.target \notin damaged
    /\ packages' = packages \cup {job.intent.target}
    /\ unsynced' = unsynced \ {job.intent.target}
    /\ Transact(job)
    /\ NotCommitted /\ UNCHANGED <<damaged, expected>>

(* Variant: the operation goes on after a failed sync.                      *)
PromoteUnsynced ==
    /\ phase = "promote" /\ job.intent.target \notin damaged
    /\ packages' = packages \cup {job.intent.target}
    /\ unsynced' = unsynced \cup ({job.intent.target} \ packages)
    /\ Transact(job)
    /\ NotCommitted /\ UNCHANGED <<damaged, expected>>

(* The directory is renamed into place but not synced: the operation ends.  *)
PromoteUncertain ==
    /\ phase = "promote" /\ job.intent.target \notin damaged
    /\ packages' = packages \cup {job.intent.target}
    /\ unsynced' = unsynced \cup ({job.intent.target} \ packages)
    /\ Fail /\ NotCommitted /\ UNCHANGED <<damaged, expected>>

(* The download, the archive or its verification failed, or the directory   *)
(* is there with another content.                                           *)
PromoteFailed ==
    /\ phase = "promote"
    /\ Fail /\ NotCommitted
    /\ UNCHANGED <<packages, damaged, unsynced, expected>>

(* Rollback to the previous release, or to one that is still installed.     *)
Rollback(r) ==
    /\ phase = "idle" /\ files.intent = None
    /\ files.state.active \notin {None, r}
    /\ r \in files.state.installed
    /\ VerifyInstalled(r)
    /\ Transact(MakeJob("rollback", r, files.state.catalog))
    /\ NotCommitted /\ UNCHANGED <<packages, damaged, unsynced, expected>>

-----------------------------------------------------------------------------
(* transact, one action per write.                                          *)

(* What a write may do: take effect for good, take effect and report an     *)
(* error, or fail.                                                          *)
Write(f, v, to) ==
    /\ \/ Committed(f, v) /\ Advance(to)
       \/ DurabilityUncertain(f, v) /\ Fail
       \/ NotCommitted /\ Fail
    /\ UNCHANGED <<packages, damaged, unsynced>>

Current == <<files.config, files.state.catalog.sequence>>
Outcome(j) == <<j.intent.target, j.next.catalog.sequence>>

WriteIntent ==
    /\ phase = "intent"
    /\ Write("intent", job.intent, "activate")
    /\ expected' = IF files'.intent = None THEN expected ELSE expected \cup {Outcome(job)}

(* ActivatePlugin also reports an error when the committed document could   *)
(* not be reconciled, or the caller gave up.                                *)
ActivatePlugin ==
    /\ phase = "activate"
    /\ \/ Write("config", job.intent.target, "state")
       \/ /\ Committed("config", job.intent.target) /\ Fail
          /\ UNCHANGED <<packages, damaged, unsynced>>
    /\ UNCHANGED expected

(* Variant: the journal is cleared although the state was not written.      *)
WriteStateIgnored ==
    /\ phase = "state"
    /\ \/ Write("state", job.next, "clear")
       \/ /\ NotCommitted /\ Advance("clear")
          /\ UNCHANGED <<packages, damaged, unsynced>>
    /\ UNCHANGED expected

WriteState ==
    /\ phase = "state"
    /\ IF ValidInstallState(job.next)
       THEN Write("state", job.next, "clear")
       ELSE Fail /\ NotCommitted /\ UNCHANGED <<packages, damaged, unsynced>>
    /\ UNCHANGED expected

ClearIntent ==
    /\ phase = "clear"
    /\ \/ /\ Committed("intent", None) /\ Finish
          /\ expected' = IF job.starting THEN expected \cap {Current} ELSE {Outcome(job)}
       \/ DurabilityUncertain("intent", None) /\ Fail /\ UNCHANGED expected
       \/ NotCommitted /\ Fail /\ UNCHANGED expected
    /\ UNCHANGED <<packages, damaged, unsynced>>

-----------------------------------------------------------------------------
(* Recovery.                                                                *)

PriorVerified(intent) ==
    /\ intent.before.active \in files.state.installed
    /\ VerifyInstalled(intent.before.active)

AtTarget(intent) ==
    files.config = intent.target /\ VerifyInstalled(intent.target)

AtPrior(intent) ==
    /\ files.config # intent.target
    /\ files.config = intent.before.active
    /\ files.config # None => PriorVerified(intent)

(* The daemon starts: no journal, nothing to recover.                       *)
Start ==
    /\ phase = "down" /\ files.intent = None
    /\ phase' = "idle"
    /\ UNCHANGED <<files, older, packages, damaged, unsynced, job, relied, expected>>

(* Otherwise the configuration decides which way the operation went; in any *)
(* other case recovery_required ends the start.                             *)
Recover ==
    /\ phase = "down" /\ files.intent # None
    /\ AtTarget(files.intent) \/ AtPrior(files.intent)
    /\ phase' = "state"
    /\ job' = [intent |-> files.intent, starting |-> TRUE,
               next |-> IF AtTarget(files.intent)
                        THEN ApplyTargetState(files.state, files.intent)
                        ELSE RestorePriorState(files.state, files.intent)]
    /\ relied' = IF relied = "none" /\ older["config"] # {} THEN "pending" ELSE relied
    /\ UNCHANGED <<files, older, packages, damaged, unsynced, expected>>

-----------------------------------------------------------------------------
(* The environment.                                                         *)

(* Another change of the document commits: its sync covers the directory.   *)
Configure ==
    /\ phase # "down" /\ ~job.starting
    /\ Sync({"home"})
    /\ UNCHANGED <<files, packages, damaged, unsynced, phase, job, expected>>

(* The daemon exits, or is killed; what is on disk stays.                   *)
Exit ==
    /\ phase # "down"
    /\ phase' = "down" /\ job' = NoJob
    /\ UNCHANGED <<files, older, packages, damaged, unsynced, relied, expected>>

(* Something changes the content of a package directory (of one at most).   *)
Damage(r) ==
    /\ VerifyInstalled(r) /\ damaged = {}
    /\ damaged' = {r}
    /\ UNCHANGED <<files, older, packages, unsynced, phase, job, relied, expected>>

(* The machine loses power: each rename that was not synced may be undone.  *)
PowerLoss ==
    /\ \E config \in {files.config} \cup older["config"],
          state \in {files.state} \cup older["state"],
          intent \in {files.intent} \cup older["intent"] :
              /\ files' = [config |-> config, state |-> state, intent |-> intent]
              /\ relied' = IF relied = "none" \/ (relied = "pending" /\ config = files.config)
                           THEN "none" ELSE "undone"
    /\ \E lost \in SUBSET unsynced :
           packages' = packages \ lost /\ damaged' = damaged \ lost
    /\ older' = NothingOlder /\ unsynced' = {}
    /\ phase' = "down" /\ job' = NoJob
    /\ UNCHANGED expected

Next ==
    \/ \E c \in Catalogs, r \in Releases : Install(c, r)
    \/ PromoteDone \/ PromoteUncertain \/ PromoteFailed
    \/ \E r \in Releases : Rollback(r)
    \/ WriteIntent \/ ActivatePlugin \/ WriteState \/ ClearIntent
    \/ Start \/ Recover
    \/ Configure \/ Exit \/ PowerLoss
    \/ \E r \in Releases : Damage(r)

Spec == Init /\ [][Next]_vars

-----------------------------------------------------------------------------
(* The state, the journal and the configuration hold what their files may.  *)
TypeOK ==
    /\ files \in [config : Ref \cup {Local}, state : InstallState,
                  intent : Intent \cup {None}]
    /\ older.config \subseteq Ref \cup {Local}
    /\ older.state \subseteq InstallState
    /\ older.intent \subseteq Intent \cup {None}
    /\ packages \subseteq Releases
    /\ damaged \subseteq packages /\ unsynced \subseteq packages
    /\ phase \in Phases
    /\ job \in [intent : Intent \cup {None}, next : InstallState \cup {None},
                starting : BOOLEAN]
    /\ relied \in {"none", "pending", "undone"}
    /\ expected \subseteq (Ref \cup {Local}) \X (Sequences \cup {0})

(* A release that the configuration runs or the install state lists has its *)
(* package directory, and no loss of power takes it away: promotion ends    *)
(* with a sync before transact writes the journal.                          *)
PackagesKept ==
    ({files.config} \cap Releases) \cup files.state.installed \subseteq packages \ unsynced

(* Wherever an operation was interrupted, recovery can tell which way it    *)
(* went, and the state it then writes is one that WriteState accepts, so    *)
(* the daemon starts again.  Except: a package of the operation no longer   *)
(* verifies, the plugin was registered from a local directory (recover      *)
(* knows no prior to compare it with), or a loss of power undid a           *)
(* configuration that an earlier recovery had taken for durable.            *)
Recoverable ==
    /\ /\ phase = "down" /\ files.intent # None
       /\ files.config # Local /\ relied # "undone"
       /\ {files.intent.target, files.intent.before.active} \cap damaged = {}
       => AtTarget(files.intent) \/ AtPrior(files.intent)
    /\ phase = "state" /\ job.starting /\ relied # "undone" => ValidInstallState(job.next)

(* With no operation open, the active release of the install state is the   *)
(* one the configuration runs, whatever failed or crashed before.           *)
Agreement ==
    phase = "idle" /\ files.intent = None /\ relied # "undone"
        => files.state.active = IF files.config = Local THEN None ELSE files.config

(* Once an operation has reported success, neither a crash nor a loss of    *)
(* power brings an older release or an older catalog checkpoint back; an    *)
(* operation that failed left the plugin as it was, or took effect with its *)
(* checkpoint.                                                              *)
SuccessKept ==
    phase = "idle" /\ files.intent = None /\ relied # "undone"
        => Current \in expected
=============================================================================
