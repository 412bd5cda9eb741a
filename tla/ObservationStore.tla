-------------------------- MODULE ObservationStore --------------------------
(***************************************************************************)
(* The observation store (internal/observation/store.go) and the callers    *)
(* that race on it: publications admitted by the plugin processes, the      *)
(* retirement of replaced instances, which reaches the store through a      *)
(* relay, the attention engine, which takes snapshots and excludes          *)
(* revisions, and Back presses, which reserve a revision while the plugin   *)
(* decides.  One action is one critical section of the store, or the read   *)
(* of the live generation that precedes it.  The mutation sequence and the  *)
(* change signal are modelled with the engine that waits for them.          *)
(***************************************************************************)
EXTENDS Integers, FiniteSets

CONSTANTS Identities,               \* [plugin, instance, channel, key]
          None,
          globalCapacity, pluginCapacity,
          pluginInstanceCapacity, pluginInstanceChannelCapacity,
          MaxGeneration,            \* bound on the document generation
          MaxRevision,              \* bound on the revisions of each exclusion key
          MaxPublishing             \* bound on concurrent publications

Generations == 1 .. MaxGeneration
Inst(id) == [plugin |-> id.plugin, instance |-> id.instance]
Instances == {Inst(id) : id \in Identities}
Plugins == {id.plugin : id \in Identities}
Keys == [id : Identities, gen : Generations]          \* exclusionKey
Revisions == UNION {1 .. MaxRevision[k] : k \in Keys}

Record == [gen : Nat, rev : Nat, late : BOOLEAN]
Mark == [through : Nat, reserved : Nat]               \* exclusionState
Shown == [id : Identities, gen : Nat, rev : Nat]      \* one exact revision

StoreAssumption ==
    /\ IsFiniteSet(Identities)
    /\ globalCapacity \in Nat /\ pluginCapacity \in Nat
    /\ pluginInstanceCapacity \in Nat /\ pluginInstanceChannelCapacity \in Nat
    /\ MaxGeneration \in Nat /\ MaxRevision \in [Keys -> Nat]
    /\ None \notin Record /\ None \notin Mark /\ None \notin Shown

VARIABLES
    records, watermarks,            \* Store fields
    expired,        \* records whose ValidUntil has passed
    generation,     \* LiveState.generations, 0 for none
    desired,        \* generation of each instance in the document
    hosted,         \* generation each plugin process has, 0 for none
    publishing,     \* admitted publications that have read their generation
    retired,        \* retirements on their way to WithdrawInstance
    stepMu,         \* what the holder of Engine.stepMu does
    candidate,      \* the revision it renders
    shown,          \* lastIdentity, lastGeneration, lastRevision
    back,           \* the Back press in progress
    tombstoned      \* history: revisions excluded by the engine

store == <<records, watermarks>>
host == <<generation, desired, hosted>>
engine == <<stepMu, candidate, shown>>
vars == <<store, expired, host, publishing, retired, engine, back, tombstoned>>

NoBack == [step |-> "none", captured |-> None, current |-> FALSE]

Init ==
    /\ records = [id \in Identities |-> None]
    /\ watermarks = [k \in Keys |-> None]
    /\ expired = {}
    /\ generation = [i \in Instances |-> 0]
    /\ desired = [i \in Instances |-> 1]
    /\ hosted = [i \in Instances |-> 0]
    /\ publishing = {} /\ retired = {}
    /\ stepMu = "free" /\ candidate = None /\ shown = None
    /\ back = NoBack /\ tombstoned = {}

----------------------------------------------------------------------------
(* Operators on the tables                                                  *)

Live == {id \in Identities : records[id] # None}
KeyOf(id) == [id |-> id, gen |-> records[id].gen]
ShownOf(id) == [id |-> id, gen |-> records[id].gen, rev |-> records[id].rev]

(* Records and watermarks share the capacity; one that has both counts once. *)
Tracked(rs) ==
    {k \in Keys : watermarks[k] # None} \cup
    {[id |-> id, gen |-> rs[id].gen] : id \in {i \in Identities : rs[i] # None}}

SamePlugin(k, id) == k.id.plugin = id.plugin
SameInstance(k, id) == SamePlugin(k, id) /\ k.id.instance = id.instance
SameChannel(k, id) == SameInstance(k, id) /\ k.id.channel = id.channel

CapacityOffByOne(rs, id, gen) ==
    /\ rs[id] = None /\ watermarks[[id |-> id, gen |-> gen]] = None
    /\ \/ Cardinality(Tracked(rs)) > globalCapacity
       \/ Cardinality({k \in Tracked(rs) : SamePlugin(k, id)}) > pluginCapacity
       \/ Cardinality({k \in Tracked(rs) : SameInstance(k, id)}) > pluginInstanceCapacity
       \/ Cardinality({k \in Tracked(rs) : SameChannel(k, id)}) > pluginInstanceChannelCapacity

AtCapacity(rs, id, gen) ==
    /\ rs[id] = None /\ watermarks[[id |-> id, gen |-> gen]] = None
    /\ \/ Cardinality(Tracked(rs)) >= globalCapacity
       \/ Cardinality({k \in Tracked(rs) : SamePlugin(k, id)}) >= pluginCapacity
       \/ Cardinality({k \in Tracked(rs) : SameInstance(k, id)}) >= pluginInstanceCapacity
       \/ Cardinality({k \in Tracked(rs) : SameChannel(k, id)}) >= pluginInstanceChannelCapacity

(* pruneLocked *)
Pruned == [id \in Identities |-> IF id \in expired THEN None ELSE records[id]]

Excluded(k, rev) == watermarks[k] # None /\ rev <= watermarks[k].through

(* What SnapshotWithSequence returns of the pruned records.                 *)
Visible == {id \in Live \ expired : ~Excluded(KeyOf(id), records[id].rev)}

(* The record is still the exact revision.                                  *)
Exactly(s) == records[s.id] # None /\ ShownOf(s.id) = s
MarkOf(s) == [id |-> s.id, gen |-> s.gen]
CurrentMark(k) == IF watermarks[k] = None THEN [through |-> 0, reserved |-> 0] ELSE watermarks[k]

(* excludeThroughLocked *)
ExcludeThrough(s) ==
    LET m == CurrentMark(MarkOf(s)) IN
    watermarks' = [watermarks EXCEPT ![MarkOf(s)] =
        [through |-> IF s.rev > m.through THEN s.rev ELSE m.through,
         reserved |-> IF m.reserved = s.rev THEN 0 ELSE m.reserved]]

(* A critical section that leaves the records rs.                           *)
Mutates(rs) ==
    /\ records' = rs
    /\ expired' = {id \in expired : rs[id] = records[id]}

----------------------------------------------------------------------------
(* The instance generations: document, plugin process, live state           *)

(* acceptDocument: the document gives the instance a new generation, and    *)
(* the live state forgets the old one before any process hears of it.       *)
AcceptDocument(i) ==
    /\ desired[i] < MaxGeneration
    /\ desired' = [desired EXCEPT ![i] = @ + 1]
    /\ generation' = [generation EXCEPT ![i] = 0]
    /\ UNCHANGED <<store, expired, hosted, publishing, retired, engine,
                   back, tombstoned>>

(* ReplaceInstances of a running process waits for the effects of the       *)
(* retiring instances, then commits the whole set; the supervisor hands     *)
(* each replaced generation to the retirement relay.                        *)
Replaced(p) == {i \in Instances : i.plugin = p /\ hosted[i] \notin {0, desired[i]}}

DrainNothing(p) == TRUE

Drained(p) == \A w \in publishing : w.late \/ Inst(w.id) \notin Replaced(p)

ReplaceInstances(p) ==
    /\ Replaced(p) # {} /\ Drained(p)
    /\ hosted' = [i \in Instances |-> IF i \in Replaced(p) THEN desired[i] ELSE hosted[i]]
    /\ retired' = retired \cup {[inst |-> i, gen |-> hosted[i]] : i \in Replaced(p)}
    /\ UNCHANGED <<store, expired, generation, desired, publishing,
                   engine, back, tombstoned>>

(* startChild: a new process is configured with the desired set.            *)
StartChild(p) ==
    /\ \A i \in Instances : i.plugin = p => hosted[i] = 0
    /\ hosted' = [i \in Instances |-> IF i.plugin = p THEN desired[i] ELSE hosted[i]]
    /\ UNCHANGED <<store, expired, generation, desired, publishing,
                   retired, engine, back, tombstoned>>

(* finalizeAccepted: the live state takes over the accepted generation.     *)
FinalizeAccepted(i) ==
    /\ hosted[i] = desired[i] /\ generation[i] # desired[i]
    /\ generation' = [generation EXCEPT ![i] = desired[i]]
    /\ UNCHANGED <<store, expired, desired, hosted, publishing, retired,
                   engine, back, tombstoned>>

(* exited, withdraw: the supervisor withdraws the records of every          *)
(* generation the child had.  A handler of the dead child may still be      *)
(* publishing: its peer is closed without waiting for it.                   *)
ChildExit(p) ==
    LET mine == {i \in Instances : i.plugin = p}
        gens == {hosted[i] : i \in mine}
        gone == {id \in Live : id.plugin = p /\ records[id].gen \in gens}
    IN /\ \A i \in mine : hosted[i] # 0
       /\ hosted' = [i \in Instances |-> IF i \in mine THEN 0 ELSE hosted[i]]
       /\ Mutates([id \in Identities |-> IF id \in gone THEN None ELSE records[id]])
       /\ publishing' = {[w EXCEPT !.late = w.late \/ w.id.plugin = p] : w \in publishing}
       /\ UNCHANGED <<watermarks, generation, desired, retired, engine, back,
                      tombstoned>>

(* runInstanceRetirementRelay, RemoveInstance, WithdrawInstance.            *)
WithdrawInstance(r) ==
    LET Retires(inst, gen) == inst = r.inst /\ gen <= r.gen
        gone == {id \in Live : Retires(Inst(id), records[id].gen)}
    IN /\ r \in retired
       /\ retired' = retired \ {r}
       /\ Mutates([id \in Identities |-> IF id \in gone THEN None ELSE records[id]])
       /\ watermarks' = [k \in Keys |->
                           IF Retires(Inst(k.id), k.gen) THEN None ELSE watermarks[k]]
       /\ UNCHANGED <<host, publishing, engine, back, tombstoned>>

----------------------------------------------------------------------------
(* Publications                                                             *)

BeginPublishUnhosted(id, rev, resolved) ==
    /\ Cardinality(publishing) < MaxPublishing
    /\ generation[Inst(id)] # desired[Inst(id)] \/ generation[Inst(id)] = hosted[Inst(id)]
    /\ publishing' = publishing \cup
         {[id |-> id, gen |-> hosted[Inst(id)], rev |-> rev, resolved |-> resolved,
           late |-> FALSE]}
    /\ UNCHANGED <<store, expired, host, retired, engine, back, tombstoned>>

(* The process admits the effect of a hosted instance and Publish finds its *)
(* generation current, before it takes the lock.                            *)
BeginPublish(id, rev, resolved) ==
    /\ Cardinality(publishing) < MaxPublishing
    /\ hosted[Inst(id)] # 0 /\ generation[Inst(id)] = hosted[Inst(id)]
    /\ rev <= MaxRevision[[id |-> id, gen |-> hosted[Inst(id)]]]
    /\ publishing' = publishing \cup
         {[id |-> id, gen |-> hosted[Inst(id)], rev |-> rev, resolved |-> resolved,
           late |-> FALSE]}
    /\ UNCHANGED <<store, expired, host, retired, engine, back,
                   tombstoned>>

(* The revision is compared with whatever record the identity has.          *)
StaleRevision(rs, w) == rs[w.id] # None /\ w.rev <= rs[w.id].rev

(* The locked part of Publish.                                              *)
Publish(w) ==
    LET rs == Pruned
        record == [gen |-> w.gen, rev |-> w.rev, late |-> w.late]
    IN /\ w \in publishing
       /\ publishing' = publishing \ {w}
       /\ IF StaleRevision(rs, w) \/ (~w.resolved /\ AtCapacity(rs, w.id, w.gen))
          THEN Mutates(rs)
          ELSE Mutates([rs EXCEPT ![w.id] = IF w.resolved THEN None ELSE record])
       /\ UNCHANGED <<watermarks, host, retired, engine, back, tombstoned>>

(* Withdraw, by the process that hosts the instance.                        *)
Withdraw(id) ==
    /\ hosted[Inst(id)] # 0 /\ records[id] # None
    /\ Mutates([records EXCEPT ![id] = None])
    /\ UNCHANGED <<watermarks, host, publishing, retired, engine, back,
                   tombstoned>>

(* The validity of a record ends.                                           *)
Expire(id) ==
    /\ records[id] # None /\ id \notin expired
    /\ expired' = expired \cup {id}
    /\ UNCHANGED <<store, host, publishing, retired, engine, back,
                   tombstoned>>

----------------------------------------------------------------------------
(* The attention engine, which decides under stepMu                         *)

(* step: SnapshotWithSequence prunes; any visible record, or none, is       *)
(* selected and rendered with stepMu held.                                  *)
Step ==
    /\ stepMu = "free"
    /\ Mutates(Pruned)
    /\ stepMu' = "render"
    /\ candidate' \in {ShownOf(id) : id \in Visible} \cup {None}
    /\ UNCHANGED <<watermarks, host, publishing, retired, shown, back, tombstoned>>

(* Drawn, cleared or unchanged; or the renderer fails and the claim stays.  *)
Render(ok) ==
    /\ stepMu = "render"
    /\ shown' = IF ok THEN candidate ELSE shown
    /\ stepMu' = "free" /\ candidate' = None
    /\ UNCHANGED <<store, expired, host, publishing, retired, back, tombstoned>>

(* ErrInvalidPresentation: exclude the revision, if it is still the record, *)
(* take a new snapshot and select again; otherwise the step fails.          *)
RenderInvalid ==
    /\ stepMu = "render" /\ candidate # None
    /\ IF Exactly(candidate)
       THEN /\ ExcludeThrough(candidate)
            /\ tombstoned' = tombstoned \cup {candidate}
            /\ Mutates(Pruned)
            /\ candidate' \in {ShownOf(id) : id \in Visible \ {candidate.id}} \cup {None}
            /\ UNCHANGED stepMu
       ELSE /\ stepMu' = "free" /\ candidate' = None
            /\ UNCHANGED <<store, expired, tombstoned>>
    /\ UNCHANGED <<host, publishing, retired, shown, back>>

(* OutcomeFirmwareSuppressed: exclude the revision and forget the claim.    *)
RenderSuppressed ==
    /\ stepMu = "render" /\ candidate # None
    /\ IF Exactly(candidate)
       THEN ExcludeThrough(candidate) /\ tombstoned' = tombstoned \cup {candidate}
       ELSE UNCHANGED <<watermarks, tombstoned>>
    /\ shown' = None /\ stepMu' = "free" /\ candidate' = None
    /\ UNCHANGED <<records, expired, host, publishing, retired, back>>

(* Snapshot of NextDeadline, SelectedObservation, Acknowledge, Diagnostics. *)
Prune ==
    /\ Pruned # records
    /\ Mutates(Pruned)
    /\ UNCHANGED <<watermarks, host, publishing, retired, engine, back, tombstoned>>

(* InvalidateRenderedSelection: firmware closed the canvas.                 *)
InvalidateRenderedSelection ==
    /\ stepMu = "free" /\ shown # None
    /\ shown' = None
    /\ UNCHANGED <<store, expired, host, publishing, retired, stepMu, candidate, back,
                   tombstoned>>

----------------------------------------------------------------------------
(* Back presses                                                             *)

(* CaptureBackPresentation: the lease on the exact revision that is shown,  *)
(* reserved in the store while its record lives.                            *)
CaptureBackPresentation ==
    /\ back.step = "none" /\ stepMu = "free"
    /\ back' = [step |-> "captured", captured |-> shown, current |-> FALSE]
    /\ IF shown # None /\ Exactly(shown)
       THEN watermarks' = [watermarks EXCEPT ![MarkOf(shown)] =
                             [CurrentMark(MarkOf(shown)) EXCEPT !.reserved = shown.rev]]
       ELSE UNCHANGED watermarks
    /\ UNCHANGED <<records, expired, host, publishing, retired,
                   engine, tombstoned>>

ReleasedWithExclusion(s) ==
    LET m == watermarks[MarkOf(s)] IN
    IF m = None \/ m.reserved # s.rev THEN watermarks
    ELSE [watermarks EXCEPT ![MarkOf(s)] = None]

(* ReleaseExactRevisionReservationWithoutSignal *)
Released(s) ==
    LET m == watermarks[MarkOf(s)] IN
    IF m = None \/ m.reserved # s.rev THEN watermarks
    ELSE [watermarks EXCEPT ![MarkOf(s)] =
            IF m.through = 0 THEN None ELSE [m EXCEPT !.reserved = 0]]

ForgetRelease == UNCHANGED watermarks

ReleaseReservation ==
    IF back.captured = None THEN UNCHANGED watermarks
                            ELSE watermarks' = Released(back.captured)

(* ReconcileConsumedBack: release the reservation and forget the claim when *)
(* the captured revision is still shown; the redraw is one more Step.       *)
ConsumedBack ==
    /\ back.step = "captured" /\ stepMu = "free"
    /\ ReleaseReservation
    /\ shown' = IF back.captured = shown THEN None ELSE shown
    /\ back' = NoBack
    /\ UNCHANGED <<records, expired, host, publishing, retired, stepMu,
                   candidate, tombstoned>>

(* DismissForBack takes stepMu; ExcludeExactRevisionWithoutSignal reads the *)
(* live generation before it takes the store's lock.                        *)
DismissForBack ==
    /\ back.step = "captured" /\ stepMu = "free"
    /\ stepMu' = "dismiss"
    /\ back' = [back EXCEPT !.step = "dismiss", !.current =
                   back.captured # None /\ generation[Inst(back.captured.id)] = back.captured.gen]
    /\ UNCHANGED <<store, expired, host, publishing, retired, candidate, shown,
                   tombstoned>>

(* A withdrawn record does not matter: the reservation proves the revision. *)
MayExclude(s) ==
    \/ watermarks[MarkOf(s)] # None /\ watermarks[MarkOf(s)].reserved = s.rev
    \/ Exactly(s)

FinishDismiss(ok) ==
    /\ back.step = "dismiss"
    /\ IF back.current /\ MayExclude(back.captured)
       THEN ExcludeThrough(back.captured) /\ tombstoned' = tombstoned \cup {back.captured}
       ELSE UNCHANGED <<watermarks, tombstoned>>
    /\ shown' = IF ok /\ back.captured = shown THEN None ELSE shown
    /\ stepMu' = "free" /\ back' = NoBack
    /\ UNCHANGED <<records, expired, host, publishing, retired, candidate>>

Next ==
    \/ \E i \in Instances : AcceptDocument(i) \/ FinalizeAccepted(i)
    \/ \E p \in Plugins : ReplaceInstances(p) \/ StartChild(p) \/ ChildExit(p)
    \/ \E r \in retired : WithdrawInstance(r)
    \/ \E id \in Identities, rev \in Revisions, resolved \in BOOLEAN :
          BeginPublish(id, rev, resolved)
    \/ \E w \in publishing : Publish(w)
    \/ \E id \in Identities : Withdraw(id) \/ Expire(id)
    \/ Step \/ RenderInvalid \/ RenderSuppressed \/ (\E ok \in BOOLEAN : Render(ok))
    \/ Prune \/ InvalidateRenderedSelection
    \/ CaptureBackPresentation \/ ConsumedBack \/ DismissForBack
    \/ \E ok \in BOOLEAN : FinishDismiss(ok)

Spec == Init /\ [][Next]_vars

----------------------------------------------------------------------------
(* Properties                                                               *)

(* Every table has the shape the code declares.                             *)
TypeOK ==
    /\ records \in [Identities -> Record \cup {None}]
    /\ watermarks \in [Keys -> Mark \cup {None}]
    /\ expired \subseteq Identities
    /\ generation \in [Instances -> 0 .. MaxGeneration]
    /\ desired \in [Instances -> Generations]
    /\ hosted \in [Instances -> 0 .. MaxGeneration]
    /\ publishing \subseteq [id : Identities, gen : Generations, rev : Revisions,
                             resolved : BOOLEAN, late : BOOLEAN]
    /\ retired \subseteq [inst : Instances, gen : Generations]
    /\ stepMu \in {"free", "render", "dismiss"}
    /\ candidate \in Shown \cup {None} /\ shown \in Shown \cup {None}
    /\ back \in [step : {"none", "captured", "dismiss"},
                 captured : Shown \cup {None}, current : BOOLEAN]
    /\ tombstoned \subseteq Shown

(* Publish refuses a new identity at capacity, so the live records stay     *)
(* within the limits although a record that replaces another, or that has a *)
(* watermark, is never counted again.                                       *)
LiveWithinCapacity ==
    \A id \in Live :
        /\ Cardinality(Live) <= globalCapacity
        /\ Cardinality({i \in Live : i.plugin = id.plugin}) <= pluginCapacity
        /\ Cardinality({i \in Live : Inst(i) = Inst(id)}) <= pluginInstanceCapacity
        /\ Cardinality({i \in Live : Inst(i) = Inst(id) /\ i.channel = id.channel})
             <= pluginInstanceChannelCapacity

(* A revision the engine excluded, because it cannot be drawn or because    *)
(* Back dismissed it, is never offered to selection again, whatever is      *)
(* withdrawn, retired, restarted or republished in between.                 *)
ExcludedStaysHidden ==
    \A id \in Visible : \A s \in tombstoned :
        s.id = id /\ s.gen = records[id].gen /\ ~records[id].late =>
            records[id].rev > s.rev

(* A record belongs to the generation its plugin process has, or its        *)
(* retirement is queued: replacing an instance while it publishes leaves no *)
(* observation behind that nobody withdraws.                                *)
RetiredRecordsWithdrawn ==
    \A id \in Live : ~records[id].late =>
        \/ records[id].gen = hosted[Inst(id)]
        \/ \E r \in retired : r.inst = Inst(id) /\ r.gen >= records[id].gen

(* A reservation outlives its Back press only when the generation was no    *)
(* longer current at the dismissal.                                         *)
ReservationsReleased ==
    \A k \in Keys : watermarks[k] # None /\ watermarks[k].reserved # 0 =>
        \/ /\ back.step \in {"captured", "dismiss"} /\ back.captured # None
           /\ MarkOf(back.captured) = k
        \/ generation[Inst(k.id)] # k.gen
============================================================================
