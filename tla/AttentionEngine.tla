-------------------------- MODULE AttentionEngine --------------------------
(***************************************************************************)
(* The attention engine (internal/daemon/engine.go): the loop of Run with   *)
(* its coalesced change signal, its exact deadlines and its retry, the      *)
(* decision of step with the presentation gate, critical ownership and the  *)
(* outcomes of the renderer, acknowledgements, and the Back press lease.    *)
(* The selection it applies, eligibility (internal/attention/selector.go)   *)
(* and arbitration (internal/presentation/arbiter.go), is a function of the *)
(* records, the rules the daemon resolves for them, the presentation        *)
(* history and the time.  A record is one observation identity; identities  *)
(* are numbers, which stand for the order of their encoded strings.         *)
(* The observation store is abstracted to its current records, its mutation *)
(* sequence and its change signal.  Everything under stepMu is one action   *)
(* except step itself, which is split where it reads state other goroutines *)
(* change: the snapshot, the rules, and the delivery.                       *)
(***************************************************************************)
EXTENDS Integers, FiniteSets, FiniteSetsExt

CONSTANTS Ids,          \* observation identities, a set of numbers
          None,
          Kind,         \* per identity: policy, impact, hold, cooldown, interval, ack
          MaxTime,      \* bound on the clock
          MaxSequence,  \* bound on the store mutations of publishers
          Validity,     \* how long a publication is valid
          Gate,         \* defaultPresentationCooldown
          Retry,        \* Engine.retry
          MaxDisturbances  \* bound on local changes, renderer failures and Back presses

----------------------------------------------------------------------------
(* Selection                                                                *)

AttentionAssumption ==
    /\ Ids \subseteq Nat /\ IsFiniteSet(Ids) /\ None \notin Ids
    /\ \A id \in Ids :
          /\ Kind[id].policy \in {"attention", "interactive", "when_relevant", "rotation"}
          /\ Kind[id].impact \in 1 .. 4
          /\ Kind[id].hold \in Nat /\ Kind[id].cooldown \in Nat /\ Kind[id].interval \in Nat
          /\ Kind[id].ack \in BOOLEAN

CriticalImpact == 4

(* BandFor, bandPriority *)
Band(id) ==
    CASE Kind[id].policy = "attention" ->
             IF Kind[id].impact = CriticalImpact THEN 5 ELSE 3
      [] Kind[id].policy = "interactive" -> 4
      [] Kind[id].policy = "when_relevant" -> 2
      [] Kind[id].policy = "rotation" -> 1

Critical(id) == Band(id) = 5

----------------------------------------------------------------------------
(* A history h has current, since and lastShown; a time that never was is   *)
(* None.                                                                    *)

WithinHold(id, h, t) == id = h.current /\ t < h.since + Kind[id].hold

(* rotationNextDue, without the jitter *)
NextDue(id, h) == h.lastShown[id] + Kind[id].interval
NotDue(id, h, t) ==
    /\ Kind[id].policy = "rotation" /\ h.lastShown[id] # None
    /\ ~WithinHold(id, h, t) /\ t < NextDue(id, h)

CooldownUntil(id, h) == h.lastShown[id] + Kind[id].cooldown
CoolingDown(id, h, t) ==
    id # h.current /\ h.lastShown[id] # None /\ t < CooldownUntil(id, h)

(* A record the rules admit: enabled, assets ready, unexpired, not          *)
(* acknowledged, not blocked and eligible for its policy.                   *)
Admitted(recs, allowed, acked, t) ==
    {id \in Ids : /\ recs[id] # None /\ id \in allowed
                  /\ t < recs[id].until
                  /\ ~(Kind[id].ack /\ acked[id] = recs[id].observed)}

(* The candidates that attention.Select hands to presentation.Select.       *)
Candidates(recs, allowed, acked, h, t) ==
    {id \in Admitted(recs, allowed, acked, t) :
        ~NotDue(id, h, t) /\ ~CoolingDown(id, h, t)}

(* better *)
Better(recs, a, b) ==
    \/ Band(a) > Band(b)
    \/ /\ Band(a) = Band(b)
       /\ \/ Kind[a].impact > Kind[b].impact
          \/ /\ Kind[a].impact = Kind[b].impact
             /\ \/ recs[a].admission < recs[b].admission
                \/ recs[a].admission = recs[b].admission /\ a < b

MayInterrupt(next, current) ==
    \/ Band(next) > Band(current)
    \/ Band(next) = Band(current) /\ Band(next) = 3
       /\ Kind[next].impact > Kind[current].impact

(* presentation.Select *)
Select(recs, allowed, acked, h, t) ==
    LET eligible == Candidates(recs, allowed, acked, h, t)
        best == CHOOSE a \in eligible : \A b \in eligible \ {a} : Better(recs, a, b)
    IN IF eligible = {} THEN None
       ELSE IF h.current \in eligible /\ WithinHold(h.current, h, t)
               /\ ~MayInterrupt(best, h.current)
       THEN h.current
       ELSE best

----------------------------------------------------------------------------
(* NextDeadline: the times after t at which a record expires, a cooldown or *)
(* a rotation interval ends, the hold of the selected record ends or the    *)
(* presentation gate opens.                                                 *)
ForgetHold(recs, allowed, acked, h, gate, t) ==
    {recs[id].until : id \in {i \in Ids : recs[i] # None}} \cup
    {CooldownUntil(id, h) : id \in {i \in Ids : CoolingDown(i, h, t)}} \cup
    {NextDue(id, h) : id \in {i \in Ids : NotDue(i, h, t)}} \cup {gate}

Deadlines(recs, allowed, acked, h, gate, t) ==
    LET admitted == Admitted(recs, allowed, acked, t)
        due == {id \in admitted : NotDue(id, h, t)}
        cooling == {id \in admitted \ due : CoolingDown(id, h, t)}
        selected == Select(recs, allowed, acked, h, t)
    IN {recs[id].until : id \in {i \in Ids : recs[i] # None}} \cup
       {CooldownUntil(id, h) : id \in cooling} \cup
       {NextDue(id, h) : id \in due} \cup
       (IF selected # None /\ selected = h.current
        THEN {h.since + Kind[selected].hold} ELSE {}) \cup
       {gate}

NextDeadlineAfter(recs, allowed, acked, h, gate, t) ==
    LET after == {d \in Deadlines(recs, allowed, acked, h, gate, t) : d > t}
    IN IF after = {} THEN 0 ELSE Min(after)

----------------------------------------------------------------------------
(* The engine                                                               *)

VARIABLES
    now,
    records,        \* the latest observation of each identity
    hidden,         \* excluded revision of each identity
    sequence,       \* Store.sequence
    local,          \* Engine.localSequence
    changes,        \* the token of Store.changes
    wakes,          \* Wake calls owed for a change of the rules
    allowed,        \* identities the resolved rules admit
    acked,          \* the acknowledged observation of each identity
    history,        \* current, since, lastShown
    claim,          \* revision rendered for history.current, 0 for none
    criticalOwned,
    gate,           \* presentationCooldownUntil, 0 for none, and Kept
    loop,           \* step of Run
    processed,      \* evaluationSequence of Run's last step
    deadline,       \* the timer of Run, 0 for none
    retryAt,
    step,           \* the step in progress: who holds stepMu, and its phase
    back,           \* the Back press: its lease
    disturbances,   \* counted against their bound
    parked          \* ghost: the last step left the display behind, see DisplaySettled

inputs == <<records, hidden, sequence, allowed, acked>>
signal == <<changes, wakes, local>>
display == <<history, claim, criticalOwned, gate>>
run == <<loop, processed, deadline, retryAt>>
vars == <<now, inputs, signal, display, run, step, back, disturbances, parked>>

NoClaim == [id |-> None, rev |-> 0]
Claim == [id |-> history.current, rev |-> claim]
Idle == [phase |-> "idle", by |-> "none", at |-> 0,
         recs |-> [id \in Ids |-> None], winner |-> None]
NoBack == [phase |-> "none", lease |-> NoClaim]

Init ==
    /\ now = 1
    /\ records = [id \in Ids |-> None] /\ hidden = [id \in Ids |-> 0]
    /\ sequence = 0 /\ local = 0 /\ changes = FALSE /\ wakes = 0
    /\ allowed = Ids /\ acked = [id \in Ids |-> 0]
    /\ history = [current |-> None, since |-> 0, lastShown |-> [id \in Ids |-> None]]
    /\ claim = 0 /\ criticalOwned = FALSE
    /\ gate = [until |-> 0, kept |-> NoClaim]
    /\ loop = "step" /\ processed = [store |-> 0, local |-> 0]
    /\ deadline = 0 /\ retryAt = 0
    /\ step = Idle /\ back = NoBack /\ parked = FALSE
    /\ disturbances = 0

Disturbs == disturbances < MaxDisturbances /\ disturbances' = disturbances + 1

----------------------------------------------------------------------------
(* The store                                                                *)

Pruned == [id \in Ids |-> IF records[id] # None /\ records[id].until <= now
                          THEN None ELSE records[id]]

Visible(recs) == [id \in Ids |-> IF recs[id] # None /\ recs[id].admission <= hidden[id]
                                 THEN None ELSE recs[id]]

(* A snapshot prunes; a prune that finds something is a mutation.           *)
Prune ==
    LET changed == Pruned # records IN
    /\ records' = Pruned
    /\ sequence' = IF changed THEN sequence + 1 ELSE sequence
    /\ changes' = (changes \/ changed)

(* Publish: a newer revision, of the same or of a new occurrence, where     *)
(* acknowledgement tells them apart.  Both the                              *)
(* revision and the admission order grow with the mutation sequence, and    *)
(* the field admission stands for both.                                     *)
Publish(id) ==
    LET seq == IF Pruned # records THEN sequence + 2 ELSE sequence + 1
        occurrences == {seq} \cup {records[i].observed :
                                     i \in {j \in {id} : records[j] # None /\ Kind[j].ack}}
    IN /\ sequence < MaxSequence
       /\ \E observed \in occurrences :
             records' = [Pruned EXCEPT ![id] =
                [admission |-> seq, until |-> now + Validity, observed |-> observed]]
       /\ sequence' = seq /\ changes' = TRUE
       /\ UNCHANGED <<now, hidden, allowed, acked, wakes, local, display, run,
                      step, back, disturbances, parked>>

Withdraw(id) ==
    /\ records[id] # None /\ sequence <= MaxSequence
    /\ records' = [records EXCEPT ![id] = None]
    /\ sequence' = sequence + 1 /\ changes' = TRUE
    /\ UNCHANGED <<now, hidden, allowed, acked, wakes, local, display, run,
                   step, back, disturbances, parked>>

----------------------------------------------------------------------------
(* Changes of core-owned state                                              *)

(* A generation, an asset, a foreground session or an atomic execution      *)
(* changes what the rules resolve to; whoever changed it then calls Wake.   *)
ChangeRules(id) ==
    /\ Disturbs
    /\ allowed' = IF id \in allowed THEN allowed \ {id} ELSE allowed \cup {id}
    /\ wakes' = wakes + 1
    /\ UNCHANGED <<now, records, hidden, sequence, acked, changes, local,
                   display, run, step, back, parked>>

(* Wake, signalLocalChange: count, then signal.                             *)
Wake ==
    /\ wakes > 0
    /\ wakes' = wakes - 1 /\ local' = local + 1 /\ changes' = TRUE
    /\ UNCHANGED <<now, inputs, display, run, step, back, disturbances, parked>>

(* Acknowledge, once its proposal is durably saved.                         *)
Acknowledge(id) ==
    /\ step.phase = "idle" /\ Disturbs
    /\ Kind[id].ack /\ Visible(Pruned)[id] # None
    /\ records' = Pruned
    /\ sequence' = IF Pruned # records THEN sequence + 1 ELSE sequence
    /\ acked' = [acked EXCEPT ![id] = records[id].observed]
    /\ wakes' = wakes + 1
    /\ changes' = (changes \/ Pruned # records)
    /\ UNCHANGED <<now, hidden, allowed, local, display, run, step, back, parked>>

(* InvalidateRenderedSelection: firmware closed the canvas.                 *)
InvalidateRenderedSelection ==
    /\ step.phase = "idle" /\ Disturbs /\ claim # 0
    /\ claim' = 0 /\ wakes' = wakes + 1
    /\ UNCHANGED <<now, inputs, changes, local, history, criticalOwned, gate,
                   run, step, back, parked>>

----------------------------------------------------------------------------
(* step, under stepMu                                                       *)

(* The snapshot, with the sequences it reflects.                            *)
Processed == processed' = [store |-> sequence', local |-> local]

BeginStep(by) ==
    /\ step.phase = "idle"
    /\ Prune
    /\ step' = [phase |-> "select", by |-> by, at |-> now, recs |-> Visible(Pruned),
                winner |-> None]
    /\ parked' = (parked /\ by = "back")
    /\ UNCHANGED <<now, hidden, allowed, acked, wakes, local, display, disturbances>>

RunStep ==
    /\ loop = "step" /\ BeginStep("run") /\ Processed
    /\ UNCHANGED <<loop, deadline, retryAt, back>>

(* The end of step for whoever ran it.                                      *)
StepDone(failed) ==
    /\ step' = Idle
    /\ IF step.by = "run"
       THEN /\ loop' = "deadline" /\ retryAt' = (IF failed THEN now + Retry ELSE 0)
            /\ UNCHANGED <<processed, deadline, back>>
       ELSE back' = NoBack /\ UNCHANGED run

(* presentationCooldownActive *)
GateActive(t) == gate.until # 0 /\ t < gate.until
GateAfter(t) == IF GateActive(t) THEN gate ELSE [until |-> 0, kept |-> NoClaim]

(* containsExactRecord *)
KeptInRecords ==
    /\ gate.kept # NoClaim /\ gate.kept = Claim
    /\ step.recs[gate.kept.id] # None /\ step.recs[gate.kept.id].admission = gate.kept.rev

GateIgnoresWinner(winner) == GateActive(step.at) /\ winner = None

Gated(winner) == GateActive(step.at) /\ (winner = None \/ ~Critical(winner))

ShownRevision(target) == Claim = [id |-> target, rev |-> step.recs[target].admission]

(* The winner is on the display already, and critical ownership fits it.    *)
AlreadyShown(target) ==
    /\ ~(criticalOwned /\ ~Critical(target))
    /\ Claim = [id |-> target, rev |-> step.recs[target].admission]

(* The decision: nothing to do, or something to deliver.                    *)
StepSelect ==
    LET winner == Select(step.recs, allowed, acked, history, step.at)
        target == IF Gated(winner) THEN None ELSE winner
        unchanged ==
            \/ Gated(winner) /\ KeptInRecords
            \/ target = None /\ history.current = None /\ ~criticalOwned
            \/ target # None /\ AlreadyShown(target)
    IN /\ step.phase = "select"
       /\ gate' = GateAfter(step.at)
       /\ IF unchanged
          THEN StepDone(FALSE)
          ELSE step' = [step EXCEPT !.phase = "deliver", !.winner = target]
               /\ UNCHANGED <<run, back>>
       /\ UNCHANGED <<now, inputs, signal, history, claim, criticalOwned, disturbances, parked>>

(* clearRenderedSelection *)
ClearRenderedSelection ==
    /\ history' = [history EXCEPT !.current = None, !.since = 0]
    /\ claim' = 0 /\ criticalOwned' = FALSE

(* AcquireCritical refuses while an execution blocks critical attention.    *)
AcquireRefused ==
    /\ step.phase = "deliver" /\ step.winner # None /\ Critical(step.winner)
    /\ step.winner \notin allowed
    /\ StepDone(FALSE)
    /\ UNCHANGED <<now, inputs, signal, display, disturbances, parked>>

DeliverWinner ==
    /\ history' = [current |-> step.winner,
                   since |-> IF step.winner = history.current THEN history.since ELSE step.at,
                   lastShown |-> [history.lastShown EXCEPT ![step.winner] = step.at]]
    /\ claim' = step.recs[step.winner].admission
    /\ criticalOwned' = Critical(step.winner)

(* Drawn, or cleared.                                                       *)
Delivered ==
    /\ step.phase = "deliver"
    /\ IF step.winner = None THEN ClearRenderedSelection ELSE DeliverWinner
    /\ parked' = \/ parked
                 \/ step.by = "back" /\ step.winner # history.current
                 \/ step.winner # None /\ NotDue(step.winner, history', step.at)
    /\ StepDone(FALSE)
    /\ UNCHANGED <<now, inputs, signal, gate, disturbances>>

(* The renderer fails: a critical candidate has been acquired by then.      *)
DeliveryFailed ==
    /\ step.phase = "deliver" /\ Disturbs
    /\ criticalOwned' = (criticalOwned \/ (step.winner # None /\ Critical(step.winner)))
    /\ parked' = (parked \/ step.by = "back")
    /\ StepDone(TRUE)
    /\ UNCHANGED <<now, inputs, signal, history, claim, gate>>

(* ExcludeRevisionWithoutSignal, of the revision that is still the record.  *)
StillRecorded ==
    /\ records[step.winner] # None
    /\ records[step.winner].admission = step.recs[step.winner].admission
Exclude ==
    hidden' = IF StillRecorded THEN [hidden EXCEPT ![step.winner] = records[step.winner].admission]
                               ELSE hidden

(* ErrInvalidPresentation: exclude, take a new snapshot, select again.      *)
InvalidPresentation ==
    /\ step.phase = "deliver" /\ Disturbs /\ step.winner # None
    /\ Exclude
    /\ criticalOwned' = (criticalOwned \/ Critical(step.winner))
    /\ IF StillRecorded
       THEN /\ Prune
            /\ step' = [step EXCEPT !.phase = "select", !.winner = None,
                          !.recs = [Visible(Pruned) EXCEPT ![step.winner] = None]]
            /\ processed' = IF step.by = "run" THEN [processed EXCEPT !.store = sequence']
                                              ELSE processed
            /\ UNCHANGED <<loop, deadline, retryAt, back>>
       ELSE StepDone(TRUE) /\ UNCHANGED <<records, sequence, changes>>
    /\ UNCHANGED <<now, allowed, acked, wakes, local, history, claim, gate, parked>>

(* OutcomeFirmwareSuppressed *)
FirmwareSuppressed ==
    /\ step.phase = "deliver" /\ Disturbs /\ step.winner # None
    /\ Exclude
    /\ ClearRenderedSelection
    /\ parked' = TRUE
    /\ StepDone(FALSE)
    /\ UNCHANGED <<now, records, sequence, allowed, acked, signal, gate>>

----------------------------------------------------------------------------
(* Run                                                                      *)

(* NextDeadline takes stepMu and a snapshot, and closes an elapsed gate.    *)
NextDeadline ==
    LET next == NextDeadlineAfter(Visible(Pruned), allowed, acked, history,
                                  IF GateActive(now) THEN gate.until ELSE 0, now)
    IN /\ loop = "deadline" /\ step.phase = "idle"
       /\ Prune
       /\ gate' = GateAfter(now)
       /\ deadline' = IF retryAt # 0 /\ (next = 0 \/ retryAt < next) THEN retryAt ELSE next
       /\ loop' = "wait"
       /\ UNCHANGED <<now, hidden, allowed, acked, wakes, local, history, claim,
                      criticalOwned, processed, retryAt, step, back, disturbances, parked>>

ReceiveChange ==
    /\ loop = "wait" /\ changes
    /\ changes' = FALSE /\ loop' = "check"
    /\ UNCHANGED <<now, inputs, wakes, local, display, processed, deadline,
                   retryAt, step, back, disturbances, parked>>

DeadlinePassed == deadline # 0 /\ deadline <= now

CheckIgnoresLocal == sequence > processed.store \/ DeadlinePassed
ShouldStep ==
    \/ sequence > processed.store \/ local > processed.local
    \/ DeadlinePassed

CheckChange ==
    /\ loop = "check"
    /\ loop' = IF ShouldStep THEN "step" ELSE "deadline"
    /\ deadline' = 0
    /\ UNCHANGED <<now, inputs, signal, display, processed, retryAt, step, back,
                   disturbances, parked>>

Timer ==
    /\ loop = "wait" /\ DeadlinePassed
    /\ loop' = "step" /\ deadline' = 0
    /\ UNCHANGED <<now, inputs, signal, display, processed, retryAt, step, back,
                   disturbances, parked>>

(* Run has nothing to do until its deadline.                                *)
Waiting ==
    /\ loop = "wait" /\ ~changes /\ step.phase = "idle" /\ back.phase # "redraw"
    /\ ~DeadlinePassed

(* Time passes at any moment.  In a slow step a hold, cooldown, interval or *)
(* gate may end, which NextDeadline, with its later now, then drops.        *)
Tick ==
    /\ now < MaxTime
    /\ now' = now + 1
    /\ parked' = (parked \/ loop \in {"step", "check", "deadline"} \/ step.phase # "idle")
    /\ UNCHANGED <<inputs, signal, display, run, step, back, disturbances>>

----------------------------------------------------------------------------
(* Back presses                                                             *)

CaptureBackPresentation ==
    /\ back.phase = "none" /\ step.phase = "idle" /\ Disturbs
    /\ back' = [phase |-> "captured", lease |-> IF claim = 0 THEN NoClaim ELSE Claim]
    /\ UNCHANGED <<now, inputs, signal, display, run, step, parked>>

(* ReconcileConsumedBack forgets the claim and redraws, when the leased     *)
(* presentation is still the one on the canvas.                             *)
ReconcileConsumedBack ==
    /\ back.phase = "captured" /\ step.phase = "idle"
    /\ IF back.lease # NoClaim /\ back.lease = Claim
       THEN claim' = 0 /\ back' = [back EXCEPT !.phase = "redraw"]
       ELSE back' = NoBack /\ UNCHANGED claim
    /\ UNCHANGED <<now, inputs, signal, history, criticalOwned, gate, run, step, disturbances, parked>>

BackStep ==
    /\ back.phase = "redraw" /\ BeginStep("back")
    /\ back' = [back EXCEPT !.phase = "step"]
    /\ UNCHANGED run

ClearRegardless(cleared) == cleared

(* The physical clear only reaches the presentation that was leased.        *)
ClearsLease(cleared) == cleared /\ back.lease # NoClaim /\ back.lease = Claim

(* DismissForBack: close the gate, tombstone the leased revision, clear it  *)
(* unless a newer presentation took over, which is then kept.               *)
DismissForBack(cleared) ==
    /\ back.phase = "captured" /\ step.phase = "idle"
    /\ IF cleared THEN UNCHANGED disturbances ELSE Disturbs
    /\ hidden' = IF back.lease = NoClaim THEN hidden
                 ELSE [hidden EXCEPT ![back.lease.id] =
                         IF back.lease.rev > @ THEN back.lease.rev ELSE @]
    /\ gate' = [until |-> now + Gate,
                kept |-> IF back.lease # NoClaim /\ back.lease = Claim THEN NoClaim ELSE
                         IF claim = 0 THEN NoClaim ELSE Claim]
    /\ IF ClearsLease(cleared) THEN ClearRenderedSelection
                               ELSE UNCHANGED <<history, claim, criticalOwned>>
    /\ local' = local + 1 /\ changes' = TRUE
    /\ back' = NoBack
    /\ UNCHANGED <<now, records, sequence, allowed, acked, wakes, run, step, parked>>

Next ==
    \/ \E id \in Ids : Publish(id) \/ Withdraw(id) \/ ChangeRules(id) \/ Acknowledge(id)
    \/ Wake \/ InvalidateRenderedSelection \/ Tick
    \/ RunStep \/ StepSelect \/ AcquireRefused \/ Delivered \/ DeliveryFailed
    \/ InvalidPresentation \/ FirmwareSuppressed
    \/ NextDeadline \/ ReceiveChange \/ CheckChange \/ Timer
    \/ CaptureBackPresentation \/ ReconcileConsumedBack \/ BackStep
    \/ \E cleared \in BOOLEAN : DismissForBack(cleared)

Spec == Init /\ [][Next]_vars

----------------------------------------------------------------------------
(* Properties                                                               *)

(* Nor is a change of the rules about to be signalled.                      *)
Quiescent == Waiting /\ wakes = 0

Wanted == Select(Visible(Pruned), allowed, acked, history, now)

(* Whenever Run waits with no signal and no deadline due, the display shows *)
(* what selection wants at this very moment, in its latest revision: the    *)
(* coalesced signal loses no change and NextDeadline misses no expiry,      *)
(* cooldown, interval, hold or gate.  While the gate is closed to it, the   *)
(* display is blank or keeps what a dismissed Back press left alone.        *)
(* The code leaves the display behind in five cases, which parked marks: a  *)
(* deadline that passed during a step or before NextDeadline was asked; a   *)
(* redraw that a consumed Back press failed to deliver, of which Run is not *)
(* told; one that delivered another presentation, whose deadlines Run did   *)
(* not hear of; a rotation drawn again after its hold ended, which restarts *)
(* its interval and not its hold, so it stays until it is due again; and a  *)
(* revision the firmware suppressed, after which no other candidate is      *)
(* tried.  A failed step is behind until its retry.                         *)
DisplaySettled ==
    Quiescent /\ retryAt = 0 /\ ~parked =>
        IF GateActive(now) /\ (Wanted = None \/ ~Critical(Wanted))
        THEN \/ history.current = None
             \/ /\ gate.kept = Claim /\ Visible(Pruned)[history.current] # None
                /\ records[history.current].admission = claim
        ELSE IF Wanted = None THEN history.current = None
             ELSE Claim = [id |-> Wanted, rev |-> records[Wanted].admission]

(* Critical ownership, which keeps interactive sessions from the display,   *)
(* is never left behind: when Run is quiescent and owns it, a critical      *)
(* record is what is shown.                                                 *)
CriticalReleased ==
    Quiescent /\ retryAt = 0 /\ ~parked /\ criticalOwned =>
        history.current # None /\ Critical(history.current)

(* The same, except behind the gate of a dismissed Back press.              *)
CriticalReleasedUngated == ~GateActive(now) => CriticalReleased

(* While the gate of a dismissed Back press is closed, nothing but critical *)
(* attention is drawn, not even a newer revision of what was kept.          *)
DrawsThroughGate == Claim' # Claim /\ claim' # 0 /\ ~Critical(history'.current) => ~GateActive(now)
GateHolds == [][DrawsThroughGate]_vars

(* No wakeup is lost: when Run waits with an empty signal, its last step    *)
(* reflects every mutation of the store and every local change, although    *)
(* the signal is coalesced and is consumed before the sequences are read.   *)
WakeupsKept ==
    loop = "wait" /\ ~changes =>
        processed.store >= sequence /\ processed.local >= local

(* A Back press clears no presentation that took the display after the      *)
(* press was captured, whatever Run drew while the plugin was being asked.  *)
ClearsLeaseOnly ==
    back.phase = "captured" /\ step.phase = "idle" /\ history.current # None
        /\ history'.current = None => Claim = back.lease
BackClearsLeaseOnly == [][ClearsLeaseOnly]_vars

============================================================================
