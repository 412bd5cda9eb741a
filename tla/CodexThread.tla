----------------------------- MODULE CodexThread -----------------------------
(***************************************************************************)
(* What the Codex plugin shows of one thread (plugins/codex/reducer.go and   *)
(* cards.go).  The reducer folds the app-server's notifications, one by one  *)
(* and late, into a thread state; a new connection replaces that state by a  *)
(* snapshot that tells less than the notifications did.  The cards are       *)
(* projections of the state.                                                 *)
(***************************************************************************)
EXTENDS Integers, Sequences

CONSTANTS
    MaxTurns,       \* turns of the thread, bound
    MaxItems,       \* compactions of the thread, bound
    MaxLog,         \* notifications under way, bound
    MaxLosses       \* connection losses, bound

VARIABLES
    real,       \* the app-server's thread: turn, its status, its plan, the compaction running
    log,        \* notifications not applied yet
    attached,   \* the connection is up and the thread was resumed on it
    t,          \* threadState
    losses

vars == <<real, log, attached, t, losses>>

Running == "inProgress"
Terminal == {"completed", "interrupted", "failed"}      \* terminalTurnStatus
Blank == [turn |-> 0, status |-> "none", outcome |-> FALSE, run |-> FALSE, total |-> FALSE,
          ready |-> 0, item |-> 0, itemTurn |-> 0, compacted |-> 0]

Init ==
    /\ real = [turn |-> 0, status |-> "none", plan |-> FALSE, item |-> 0, items |-> 0, last |-> 0]
    /\ log = <<>> /\ attached = FALSE /\ t = Blank /\ losses = 0

----------------------------------------------------------------------------
(* The app-server, external: what a thread can go through.                   *)

Tell(e) ==
    /\ ~attached \/ Len(log) < MaxLog
    /\ log' = IF attached THEN Append(log, e) ELSE log

Happens ==
    /\ \/ /\ real.status # Running /\ real.turn < MaxTurns
          /\ real' = [real EXCEPT !.turn = @ + 1, !.status = Running, !.plan = FALSE, !.last = 0]
          /\ Tell([kind |-> "started", turn |-> real'.turn])
       \/ /\ real.status = Running /\ UNCHANGED real
          /\ Tell([kind |-> "plan", turn |-> real.turn])
       \/ /\ real.status = Running /\ ~real.plan /\ real' = [real EXCEPT !.plan = TRUE]
          /\ Tell([kind |-> "planDone", turn |-> real.turn])
       \/ /\ real.status = Running /\ real.item = 0 /\ real.items < MaxItems
          /\ real' = [real EXCEPT !.item = real.items + 1, !.items = @ + 1, !.last = real.items + 1]
          /\ Tell([kind |-> "compact", turn |-> real.turn, item |-> real'.item])
       \/ /\ real.item # 0 /\ real' = [real EXCEPT !.item = 0]
          /\ Tell([kind |-> "compacted", turn |-> real.turn, item |-> real.item])
       \/ /\ real.status = Running
          /\ \E s \in Terminal :
              /\ s = "completed" => real.item = 0
              /\ real' = [real EXCEPT !.status = s, !.item = 0]
              /\ Tell([kind |-> "ended", turn |-> real.turn, status |-> s, plan |-> real.plan])
    /\ UNCHANGED <<attached, t, losses>>

----------------------------------------------------------------------------
(* The reducer                                                              *)

applyTurnStarted(e) ==
    [Blank EXCEPT !.turn = e.turn, !.status = Running, !.run = TRUE]

\* A plan is ready if its item was seen, now or before; a compaction of the
\* turn is over with it.
EndedCompacting(e) ==
    [t EXCEPT !.turn = e.turn, !.status = e.status, !.outcome = TRUE, !.run = FALSE, !.total = FALSE,
              !.ready = IF e.status = "completed" /\ (t.ready = e.turn \/ e.plan) THEN e.turn ELSE 0]
applyTurnCompleted(e) ==
    [t EXCEPT !.turn = e.turn, !.status = e.status, !.outcome = TRUE, !.run = FALSE, !.total = FALSE,
              !.ready = IF e.status = "completed" /\ (t.ready = e.turn \/ e.plan) THEN e.turn ELSE 0,
              !.item = IF t.itemTurn = e.turn THEN 0 ELSE @, !.itemTurn = IF @ = e.turn THEN 0 ELSE @]

applyPlanUpdate(e) == [t EXCEPT !.total = TRUE, !.ready = 0]

applyItemStarted(e) == [t EXCEPT !.item = e.item, !.itemTurn = e.turn, !.compacted = 0]

\* A plan of a turn that is no longer the latest is ignored, and so is the end
\* of another compaction than the one that is running, or an older one.
ItemCompletedPlan(e) == IF t.turn # 0 /\ t.turn # e.turn THEN t ELSE [t EXCEPT !.ready = e.turn]
ItemCompletedCompaction(e) ==
    IF t.item # 0 /\ (t.item # e.item \/ t.itemTurn # e.turn) THEN t
    ELSE IF t.item = 0 /\ t.compacted # 0 /\ e.item <= t.compacted THEN t
    ELSE [t EXCEPT !.item = 0, !.itemTurn = 0, !.compacted = e.item]

\* applyThreadSnapshot: the progress of a plan and a compaction that is
\* running are not in it.
applyThreadSnapshot ==
    [Blank EXCEPT !.turn = real.turn, !.status = real.status, !.run = real.status = Running,
                  !.outcome = real.status \in Terminal,
                  !.ready = IF real.status \in {Running, "completed"} /\ real.plan THEN real.turn ELSE 0,
                  !.compacted = IF real.status \in Terminal THEN real.last ELSE 0]

Apply ==
    /\ log # <<>> /\ log' = Tail(log)
    /\ LET e == Head(log)
       IN t' = CASE e.kind = "started" -> applyTurnStarted(e)
                 [] e.kind = "ended" -> applyTurnCompleted(e)
                 [] e.kind = "plan" -> applyPlanUpdate(e)
                 [] e.kind = "planDone" -> ItemCompletedPlan(e)
                 [] e.kind = "compact" -> applyItemStarted(e)
                 [] e.kind = "compacted" -> ItemCompletedCompaction(e)
    /\ UNCHANGED <<real, attached, losses>>

\* The connection is lost, and what was under way with it; the thread is kept
\* for the grace period.
Lose ==
    /\ attached /\ losses < MaxLosses /\ losses' = losses + 1
    /\ attached' = FALSE /\ log' = <<>> /\ UNCHANGED <<real, t>>

Attach ==
    /\ ~attached /\ attached' = TRUE /\ t' = applyThreadSnapshot
    /\ UNCHANGED <<real, log, losses>>

Next == Happens \/ Apply \/ Lose \/ Attach

Spec == Init /\ [][Next]_vars

----------------------------------------------------------------------------
(* The cards                                                                *)

outcomeCard == t.status \in Terminal /\ t.outcome /\ ~(t.status = "completed" /\ t.ready = t.turn)
compactionOutcomeCard == t.compacted # 0
planCard == t.ready # 0 \/ t.total
PlanReady == t.ready # 0
\* threadCard: a compaction in progress comes before the run.
Compacting == t.item # 0
RunCard == t.item = 0 /\ t.status = Running /\ t.turn # 0 /\ t.run

\* Once the notifications are applied, the cards tell the truth about the
\* thread: how its latest turn ended, whether its plan is ready (and then that
\* it is, not that the turn is done), that it runs; a compaction is shown only
\* while there is one, though the turn it belonged to was interrupted or its
\* end was told on a connection that is gone.
CardsTrue ==
    attached /\ log = <<>> =>
        /\ outcomeCard => t.status = real.status
        /\ real.status \in Terminal => outcomeCard # (PlanReady /\ t.status = "completed")
        /\ PlanReady => real.plan /\ t.ready = real.turn
        /\ Compacting => real.item = t.item
        /\ real.status = Running => RunCard \/ Compacting
=============================================================================
