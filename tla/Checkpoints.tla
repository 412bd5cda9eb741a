---------------------------- MODULE Checkpoints ------------------------------
(***************************************************************************)
(* Plugin checkpoints: the file store (internal/checkpoint, localstate), the *)
(* daemon's admission of saves and its clean-up after each accepted          *)
(* configuration (internal/daemon/checkpoints.go), and the checkpoint a      *)
(* plugin process is started with (pluginhost).  Saves and clean-ups hold    *)
(* one lock; each attempt takes the document it accepted to its clean-up.    *)
(***************************************************************************)
EXTENDS Integers, FiniteSets

CONSTANTS
    Apps,
    Values,
    MaxGeneration,      \* bound: generations of an app
    MaxEpoch,           \* bound: configuration changes
    MaxFaults,          \* bound: failed file operations and damaged files
    MaxCrashes,         \* bound
    Capacity,           \* files the store holds, each of one unit
    None

Keys == Apps \X (1..MaxGeneration)
Damaged == "damaged"

\* A save under way; a checkpoint and a save are something, and finitely many files
\* are counted.
SaveRecord == [key : Keys, value : Values, step : {"begun", "synced", "renamed"}]
CheckpointAssumption ==
    /\ None \notin Values /\ Damaged \notin Values /\ None # Damaged /\ None \notin SaveRecord
    /\ IsFiniteSet(Apps) /\ MaxGeneration \in Nat /\ Capacity \in Nat

VARIABLES
    document,   \* of each app: [generation, enabled]
    epoch,      \* configuration changes so far
    accepted,   \* of each app: the generation the host accepted, 0: none
    attempt,    \* the attempt under way: None, or [epoch, plan] with its checkpoints
    cleanups,   \* documents accepted and not cleaned up after: [epoch, active]
    fs,         \* [disk: what is visible, durable: what a crash may leave]
    cache,      \* Store.records: [initialized, keys]
    save,       \* the save that holds the lock: None or [key, value, step]
    host,       \* the supervisor's specification: app -> [generation, data]
    process,    \* app -> whether its process runs
    answer,     \* of the last save
    used,       \* faults and crashes so far
    ghost       \* [cleaned: the last epoch whose clean-up went through since a crash;
                \*  overtaken: active keys that a clean-up of an older document removed]

vars == <<document, epoch, accepted, attempt, cleanups, fs, cache, save, host, process, answer, used, ghost>>
daemonVars == <<document, epoch, accepted, attempt, cleanups, host, process>>

Active(doc) == {<<a, doc[a].generation>> : a \in {b \in Apps : doc[b].enabled}}
Files == {k \in Keys : fs.disk[k] # None}
Valid == {k \in Keys : fs.disk[k] \in Values}

Init ==
    /\ document = [a \in Apps |-> [generation |-> 1, enabled |-> FALSE]] /\ epoch = 0
    /\ accepted = [a \in Apps |-> 0] /\ attempt = None /\ cleanups = {}
    /\ fs = [disk |-> [k \in Keys |-> None], durable |-> [k \in Keys |-> {None}]]
    /\ cache = [initialized |-> FALSE, keys |-> {}] /\ save = None
    /\ host = [a \in Apps |-> [generation |-> 0, data |-> None]]
    /\ process = [a \in Apps |-> FALSE] /\ answer = None
    /\ used = [faults |-> 0, crashes |-> 0]
    /\ ghost = [cleaned |-> 0, overtaken |-> {}]

----------------------------------------------------------------------------
(* Files                                                                    *)

Fault == used.faults < MaxFaults /\ used' = [used EXCEPT !.faults = @ + 1]
NoFault == UNCHANGED used

\* fsync of the directory makes every entry durable.
Synced(f) == [disk |-> f.disk, durable |-> [k \in Keys |-> {f.disk[k]}]]
Removed(f, keys) ==
    [disk |-> [k \in Keys |-> IF k \in keys THEN None ELSE f.disk[k]],
     durable |-> [k \in Keys |-> IF k \in keys THEN f.durable[k] \cup {None} ELSE f.durable[k]]]

\* removePaths: in order up to the first failure, then one fsync.
Removals(f, keys) ==
    {[fs |-> IF keys = {} THEN f ELSE Synced(Removed(f, keys)), gone |-> keys, ok |-> TRUE]}
    \cup (IF keys = {} THEN {} ELSE
          {[fs |-> Removed(f, keys), gone |-> keys, ok |-> FALSE]}
          \cup {[fs |-> IF s = {} THEN f ELSE Synced(Removed(f, s)), gone |-> s, ok |-> FALSE] : s \in (SUBSET keys) \ {keys}})
Charged(r) == IF r.ok THEN NoFault ELSE Fault

\* scanLocked: what is readable, up to the capacity, is kept; the rest is removed.
Kept == {s \in SUBSET Valid : Cardinality(s) = IF Cardinality(Valid) < Capacity THEN Cardinality(Valid) ELSE Capacity}
Scan == UNION {{[keys |-> s, result |-> r] : r \in Removals(fs, Files \ s)} : s \in Kept}

\* inventoryLocked: the records of an earlier scan, or a scan.
Inventory ==
    IF cache.initialized THEN {[keys |-> cache.keys, result |-> [fs |-> fs, gone |-> {}, ok |-> TRUE]]} ELSE Scan

----------------------------------------------------------------------------
(* Saves                                                                    *)

\* SaveCheckpoint: only the accepted generation of an enabled app, checked under
\* the lock that clean-ups take too; then the store's own checks.
Authorized(k) == document[k[1]] = [generation |-> k[2], enabled |-> TRUE] /\ accepted[k[1]] = k[2]
Fits(keys, k) == Cardinality(keys \ {k}) < Capacity
NoLock == IF save = None THEN TRUE ELSE save.step = "begun"
Lock == save = None

Answered(k, v, outcome) == answer' = [key |-> k, value |-> v, outcome |-> outcome]

BeginSave(k, v) ==
    /\ save = None /\ process[k[1]] /\ Authorized(k)
    /\ save' = [key |-> k, value |-> v, step |-> "begun"]
    /\ UNCHANGED <<daemonVars, fs, cache, answer, used, ghost>>

\* Store.Save up to the rename: the temporary file is written and fsynced.
GivenUp == save' = None /\ Answered(save.key, save.value, "not_committed")
Prepare ==
    /\ save # None /\ save.step = "begun"
    /\ \E i \in Inventory :
          /\ fs' = i.result.fs
          /\ cache' = [initialized |-> i.result.ok, keys |-> i.keys]
          /\ IF i.result.ok /\ Fits(i.keys, save.key)
             THEN \/ save' = [save EXCEPT !.step = "synced"] /\ NoFault /\ UNCHANGED answer
                  \/ Fault /\ GivenUp
             ELSE Charged(i.result) /\ GivenUp
    /\ UNCHANGED <<daemonVars, ghost>>

\* it is renamed into place: visible, and durable or not,
RenameUnsynced(k, v) ==
    [disk |-> [fs.disk EXCEPT ![k] = v], durable |-> [fs.durable EXCEPT ![k] = @ \cup {v, Damaged}]]
RenameInto(k, v) ==
    [disk |-> [fs.disk EXCEPT ![k] = v], durable |-> [fs.durable EXCEPT ![k] = @ \cup {v}]]
Rename ==
    /\ save # None /\ save.step = "synced"
    /\ \/ save' = [save EXCEPT !.step = "renamed"] /\ fs' = RenameInto(save.key, save.value) /\ NoFault /\ UNCHANGED answer
       \/ Fault /\ GivenUp /\ UNCHANGED fs
    /\ UNCHANGED <<daemonVars, cache, ghost>>

\* until the directory is fsynced.
SyncDirectory ==
    /\ save # None /\ save.step = "renamed" /\ save' = None
    /\ cache' = [initialized |-> cache.initialized, keys |-> cache.keys \cup {save.key}]
    /\ \/ NoFault /\ fs' = Synced(fs) /\ Answered(save.key, save.value, "committed")
       \/ Fault /\ UNCHANGED fs /\ Answered(save.key, save.value, "uncertain")
    /\ ghost' = [cleaned |-> ghost.cleaned, overtaken |-> ghost.overtaken \ {save.key}]
    /\ UNCHANGED daemonVars

----------------------------------------------------------------------------
(* Configuration                                                            *)

\* acceptDocument: an app is switched, or configured anew.
Configure(a) ==
    /\ epoch < MaxEpoch /\ epoch' = epoch + 1
    /\ \/ document' = [document EXCEPT ![a].enabled = ~@]
       \/ document[a].generation < MaxGeneration /\ document' = [document EXCEPT ![a] = [generation |-> @.generation + 1, enabled |-> TRUE]]
    /\ accepted' = [b \in Apps |-> IF document'[b] = [generation |-> accepted[b], enabled |-> TRUE] THEN accepted[b] ELSE 0]
    /\ UNCHANGED <<attempt, cleanups, fs, cache, save, host, process, answer, used, ghost>>

\* resolveAndApply: attach loads the checkpoint of every instance of the plan; a
\* file that turns out damaged is removed.
Loaded(f, k) == IF f.disk[k] \in Values THEN f.disk[k] ELSE None
PlanOf(doc, load) ==
    [a \in Apps |-> IF doc[a].enabled
                    THEN [generation |-> doc[a].generation, data |-> load[<<a, doc[a].generation>>]]
                    ELSE [generation |-> 0, data |-> None]]
Planned(load) == attempt' = [epoch |-> epoch, plan |-> PlanOf(document, load)]
Attach ==
    /\ Lock /\ (IF attempt = None THEN TRUE ELSE attempt.epoch # epoch)
    /\ \E i \in Inventory :
          IF ~i.result.ok
          THEN /\ Fault /\ fs' = i.result.fs /\ Planned([k \in Keys |-> None])
               /\ cache' = [initialized |-> FALSE, keys |-> i.keys]
          ELSE \E r \in Removals(i.result.fs, {k \in i.keys \cap Active(document) : fs.disk[k] = Damaged}) :
               /\ Charged(r) /\ fs' = r.fs /\ Planned([k \in Keys |-> Loaded(fs, k)])
               /\ cache' = [initialized |-> TRUE, keys |-> i.keys \ r.gone]
    /\ UNCHANGED <<document, epoch, accepted, cleanups, save, host, process, answer, ghost>>

\* applyPlanForAttempt: the host takes the plan; an attempt that is still current
\* is accepted, and its document goes to the clean-up.
Apply ==
    /\ attempt # None /\ attempt' = None /\ host' = attempt.plan
    /\ process' = [a \in Apps |-> attempt.plan[a].generation # 0]
    /\ IF attempt.epoch = epoch
       THEN /\ accepted' = [a \in Apps |-> attempt.plan[a].generation]
            /\ cleanups' = cleanups \cup {[epoch |-> epoch, active |-> Active(document)]}
       ELSE UNCHANGED <<accepted, cleanups>>
    /\ UNCHANGED <<document, epoch, fs, cache, save, answer, used, ghost>>

\* Checkpoints.reconcile: files of no active key are removed.
Reconcile(c) ==
    /\ c \in cleanups /\ cleanups' = cleanups \ {c} /\ Lock
    /\ \E scan \in Scan :
          IF ~scan.result.ok
          THEN /\ Charged(scan.result) /\ fs' = scan.result.fs
               /\ cache' = [initialized |-> FALSE, keys |-> scan.keys] /\ UNCHANGED ghost
          ELSE \E r \in Removals(scan.result.fs, scan.keys \ c.active) :
               /\ Charged(r) /\ fs' = r.fs
               /\ cache' = [initialized |-> TRUE, keys |-> scan.keys \ r.gone]
               /\ ghost' = [cleaned |-> IF r.ok THEN c.epoch ELSE ghost.cleaned,
                            overtaken |-> ghost.overtaken \cup (r.gone \cap Active(document))]
    /\ UNCHANGED <<document, epoch, accepted, attempt, save, host, process, answer>>

----------------------------------------------------------------------------
(* Faults and restarts                                                      *)

\* A plugin process ends, and its supervisor starts it again.
ProcessEnds(a) ==
    /\ process[a] /\ process' = [process EXCEPT ![a] = FALSE]
    /\ UNCHANGED <<document, epoch, accepted, attempt, cleanups, fs, cache, save, host, answer, used, ghost>>
StartChild(a) ==
    /\ ~process[a] /\ host[a].generation # 0
    /\ process' = [process EXCEPT ![a] = TRUE]
    /\ UNCHANGED <<document, epoch, accepted, attempt, cleanups, fs, cache, save, host, answer, used, ghost>>

\* A file is damaged on disk.
Damage(k) ==
    /\ Fault /\ k \in Valid /\ (IF save = None THEN TRUE ELSE save.key # k)
    /\ fs' = [disk |-> [fs.disk EXCEPT ![k] = Damaged], durable |-> [fs.durable EXCEPT ![k] = {Damaged}]]
    /\ UNCHANGED <<daemonVars, cache, save, answer, ghost>>

\* The machine stops; the daemon loads its configuration again.
Crash ==
    /\ used.crashes < MaxCrashes /\ used' = [used EXCEPT !.crashes = @ + 1]
    /\ \E disk \in [Keys -> UNION {fs.durable[k] : k \in Keys}] :
          /\ \A k \in Keys : disk[k] \in fs.durable[k]
          /\ fs' = [disk |-> disk, durable |-> [k \in Keys |-> {disk[k]}]]
    /\ accepted' = [a \in Apps |-> 0] /\ attempt' = None /\ cleanups' = {}
    /\ cache' = [initialized |-> FALSE, keys |-> {}] /\ save' = None /\ answer' = None
    /\ host' = [a \in Apps |-> [generation |-> 0, data |-> None]] /\ process' = [a \in Apps |-> FALSE]
    /\ ghost' = [cleaned |-> -1, overtaken |-> ghost.overtaken]
    /\ UNCHANGED <<document, epoch>>

Next ==
    \/ \E k \in Keys, v \in Values : BeginSave(k, v)
    \/ Prepare \/ Rename \/ SyncDirectory
    \/ \E a \in Apps : Configure(a) \/ ProcessEnds(a) \/ StartChild(a)
    \/ Attach \/ Apply \/ (\E c \in cleanups : Reconcile(c))
    \/ (\E k \in Keys : Damage(k)) \/ Crash

Spec == Init /\ [][Next]_vars

----------------------------------------------------------------------------
(* Properties                                                               *)

Readable(x) == IF x = Damaged THEN None ELSE x

Visible == [k \in Keys |-> Readable(fs.disk[k])]
Durable == [k \in Keys |-> {Readable(x) : x \in fs.durable[k]}]

\* The store as its callers see it.
Promise == INSTANCE DurableMap WITH
    current <- Visible, possible <- Durable

\* The file store keeps the promise of DurableMap: a committed save survives every
\* crash at every step of any later operation, a failed one wrote nothing, and
\* no crash leaves a value that was never saved.
StoreIsDurable == Promise!Spec

\* After a clean-up that went through, no file of an inactive generation is left,
\* by a save that was admitted before the change and written after it either, and
\* the records the capacity is computed from are the files there are.
StoreClean ==
    /\ save = None /\ ghost.cleaned = epoch => Valid \subseteq Active(document)
    /\ cache.initialized /\ save = None => cache.keys = Files /\ Cardinality(Files) <= Capacity

\* A plugin process that ended is started again from the checkpoint last saved
\* for its generation.
RestoredIsLatest ==
    \A a \in Apps : ~process[a] /\ host[a].generation # 0 /\ save = None =>
        host[a].data = Readable(fs.disk[<<a, host[a].generation>>])

\* A checkpoint of an active generation is not removed by a clean-up.  It does not
\* hold when the clean-up works from an older plan: see the README.
ActiveKept == ghost.overtaken = {}
=============================================================================
