----------------------------- MODULE MacResources ----------------------------
(***************************************************************************)
(* The resource monitor (plugins/macresources/handler.go, pressure.go) and   *)
(* the foreground panel it shares with the quota plugin                      *)
(* (internal/livesession/session.go).  A worker samples on a ticker, runs    *)
(* the samples through a hysteresis machine and publishes a pressure card    *)
(* for what the machine says; a call to the host may fail after it took      *)
(* effect.  Ages are counted in samples and saturate.                        *)
(***************************************************************************)
EXTENDS Integers

CONSTANTS
    SustainSamples,     \* samples in a row that make a transition
    Lifetime,           \* observationLifetime
    SummaryInterval,    \* samples between two cards for the same state
    MaxRevision,        \* revisions, bound
    None

VARIABLES
    machine,    \* pressureMachine: level, pending level, count
    worker,     \* revisions, pendingPressure, ages since the last cards
    pressure,   \* the host's pressure card: revision, level, life left
    panel,      \* the host's panel card: its revision, 0 for none
    live,       \* livesession.Session: token held, revision, a current scene
    counters,   \* collection and publication failures in a row
    ghost       \* inherited: the card is an earlier worker's; leaked: a panel withdrawal failed

vars == <<machine, worker, pressure, panel, live, counters, ghost>>

\* How a call to the host ends: "unknown" took effect and reported a failure.
Outcomes == {"ok", "failed", "unknown"}
\* Where the largest of the three loads lies: the two thresholds, each with its
\* recovery margin below it.
Bands == {"low", "fading", "raised", "easing", "high", "overlap"}

NewMachine == [level |-> "normal", pending |-> None, count |-> 0]
NewWorker(prev) == [pressureRev |-> prev, pending |-> None, previous |-> FALSE,
                    sincePressure |-> SummaryInterval, sinceSummary |-> SummaryInterval]
NewLive == [token |-> FALSE, revision |-> 0, current |-> FALSE]
NoCard == [revision |-> 0, level |-> None, left |-> 0]

Init ==
    /\ machine = NewMachine /\ worker = NewWorker(0) /\ live = NewLive
    /\ pressure = NoCard /\ panel = 0
    /\ counters = [collection |-> 0, publication |-> 0]
    /\ ghost = [inherited |-> FALSE, leaked |-> FALSE]

Capped(n, cap) == IF n < cap THEN n ELSE cap

----------------------------------------------------------------------------
(* The machine                                                              *)

Target(level, band) ==
    CASE band = "high" -> "critical"
      [] band = "low" -> "normal"
      [] band = "easing" -> IF level = "critical" THEN "critical" ELSE "warning"
      [] band = "raised" -> "warning"
      [] band = "fading" -> IF level = "normal" THEN "normal" ELSE "warning"
      [] band = "overlap" -> level    \* a margin wider than the gap between the two

\* update: the new machine; it made a transition when its level differs.
Update(m, band) ==
    LET target == Target(m.level, band)
        count == IF target = m.pending THEN m.count + 1 ELSE 1
    IN IF target = m.level THEN [m EXCEPT !.pending = None, !.count = 0]
       ELSE IF count >= SustainSamples THEN [level |-> target, pending |-> None, count |-> 0]
       ELSE [m EXCEPT !.pending = target, !.count = count]

----------------------------------------------------------------------------
(* Publishing                                                               *)

\* observation.Store.Publish (external): an older revision is refused, and so
\* is another content under the revision it has; a withdrawal removes the card.
Accepted(card) ==
    \/ pressure.left = 0 \/ card.revision > pressure.revision
    \/ card.revision = pressure.revision /\ card.level = pressure.level
Held(card) == IF card.level = "normal" THEN NoCard
              ELSE IF card.revision = pressure.revision /\ pressure.left > 0 THEN pressure
              ELSE card

\* A failed pressure card is kept and sent again before the machine moves on.
Dropped(card) == None
Kept(card) == card

\* publishResident with a pending card: refreshed under a new revision once it
\* has expired.
PendingCard ==
    IF worker.pending.level # "normal" /\ worker.pending.left = 0
    THEN [worker.pending EXCEPT !.revision = worker.pressureRev + 1, !.left = Lifetime] ELSE worker.pending

\* publishPressure
Card(level) == [revision |-> worker.pressureRev + 1, level |-> level, left |-> Lifetime]
PressureDue(m) == m.level # machine.level \/ (m.level # "normal" /\ worker.sincePressure >= SummaryInterval)

\* publishResident, the call for one card: how it ends.
Send(card, how) ==
    /\ how = "ok" => Accepted(card)
    /\ pressure' = IF how = "failed" \/ ~Accepted(card) THEN pressure ELSE Held(card)
    /\ worker' = [worker EXCEPT !.pressureRev = card.revision, !.previous = TRUE,
                                !.pending = IF how = "ok" THEN None ELSE Kept(card),
                                !.sincePressure = IF how = "ok" /\ card.level # "normal" THEN 0 ELSE @]
    /\ ghost' = IF how = "failed" THEN ghost ELSE [ghost EXCEPT !.inherited = FALSE]

\* summaryDue and publishSummary: the summary itself is not followed further.
Summary == worker' = [worker EXCEPT !.sinceSummary = IF @ >= SummaryInterval THEN 0 ELSE @, !.previous = TRUE]

\* publishResident
PublishResident(band, how) ==
    IF worker.pending # None THEN Send(PendingCard, how) /\ UNCHANGED machine
    ELSE LET m == Update(machine, band)
         IN /\ machine' = m
            /\ IF PressureDue(m) THEN Send(Card(m.level), how)
               ELSE Summary /\ how = "ok" /\ UNCHANGED <<pressure, ghost>>

----------------------------------------------------------------------------
(* The panel                                                                *)

\* publishLocked: every call takes the next revision, and may fail either way.
PublishPanel(how) ==
    LET revision == live.revision + 1
    IN /\ how = "ok" => revision > panel
       /\ panel' = IF how = "failed" \/ revision <= panel THEN panel ELSE revision

\* SetCurrent, after the resident cards and whatever came of them.
SetCurrent(how) ==
    /\ live' = [live EXCEPT !.current = TRUE, !.revision = IF live.token THEN @ + 1 ELSE @]
    /\ IF live.token THEN live.revision < MaxRevision /\ PublishPanel(how) ELSE how = "ok" /\ UNCHANGED panel

Start ==
    /\ ~live.token /\ live.revision < MaxRevision
    /\ \E how \in Outcomes :
        /\ PublishPanel(how)
        /\ live' = [live EXCEPT !.token = (how = "ok"), !.revision = @ + 1]
        /\ ghost' = [ghost EXCEPT !.leaked = (@ \/ how = "unknown") /\ how # "ok"]
    /\ UNCHANGED <<machine, worker, pressure, counters>>

\* Finish: BACK, the end of the session, or the worker stopped.
Finish ==
    /\ live.token
    /\ \E ok \in BOOLEAN :
        /\ live' = [live EXCEPT !.token = FALSE, !.revision = Capped(@ + 1, MaxRevision)]
        /\ panel' = IF ok THEN 0 ELSE panel
        /\ ghost' = [ghost EXCEPT !.leaked = ~ok]
    /\ UNCHANGED <<machine, worker, pressure, counters>>

----------------------------------------------------------------------------
(* The worker                                                               *)

\* The time of one sample passes for every card and age.
Elapse ==
    /\ pressure' = IF pressure.left <= 1 THEN NoCard ELSE [pressure EXCEPT !.left = @ - 1]
    /\ worker' = [worker EXCEPT !.sincePressure = Capped(@ + 1, SummaryInterval),
                                !.sinceSummary = Capped(@ + 1, SummaryInterval),
                                !.pending = IF @ = None \/ @.left = 0 THEN @ ELSE [@ EXCEPT !.left = @ - 1]]
    /\ UNCHANGED <<machine, panel, live, counters, ghost>>

\* recordFailure: a sample that fails; the panel says so at the third.
CollectFails ==
    /\ counters' = [counters EXCEPT !.collection = Capped(@ + 1, 3)]
    /\ IF counters.collection = 2 /\ live.token
       THEN /\ live.revision < MaxRevision /\ live' = [live EXCEPT !.revision = @ + 1]
            /\ \E how \in Outcomes : PublishPanel(how)
       ELSE UNCHANGED <<live, panel>>
    /\ UNCHANGED <<machine, worker, pressure, ghost>>

\* collect: the first sample is only the baseline.
CollectFirst ==
    /\ ~worker.previous /\ worker' = [worker EXCEPT !.previous = TRUE]
    /\ counters' = [counters EXCEPT !.collection = 0]
    /\ UNCHANGED <<machine, pressure, panel, live, ghost>>

Collect ==
    /\ worker.previous /\ worker.pressureRev < MaxRevision
    /\ \E band \in Bands, how, panelHow \in Outcomes :
        /\ PublishResident(band, how)
        /\ SetCurrent(panelHow)
        /\ counters' = [collection |-> 0, publication |-> IF how = "ok" /\ panelHow = "ok" THEN 0
                                                          ELSE Capped(counters.publication + 1, 3)]

\* ReplaceInstances: the worker is stopped and joined, the panel's withdrawal is
\* refused because the plugin is not ready meanwhile.  A new generation begins
\* with nothing on the host's side; the same one keeps its revisions.
Replace ==
    /\ machine' = NewMachine /\ live' = NewLive
    /\ \/ /\ worker' = NewWorker(0) /\ pressure' = NoCard /\ panel' = 0
          /\ ghost' = [inherited |-> FALSE, leaked |-> FALSE]
       \/ /\ worker' = NewWorker(worker.pressureRev) /\ UNCHANGED <<pressure, panel>>
          /\ ghost' = [inherited |-> TRUE, leaked |-> panel # 0]
    /\ UNCHANGED counters

Next == Elapse \/ CollectFails \/ CollectFirst \/ Collect \/ Start \/ Finish \/ Replace

Spec == Init /\ [][Next]_vars

----------------------------------------------------------------------------
\* A pressure card on the device says what the machine says, or a card that
\* says so is waiting to be sent again, or it is the last one of a worker that
\* was replaced.  No panel card outlives its session unless its withdrawal, or
\* the call that opened it, failed.
CardsTruthful ==
    /\ \/ pressure.left = 0 \/ ghost.inherited
       \/ pressure.level = machine.level
       \/ worker.pending # None /\ worker.pending.level = machine.level
    /\ panel # 0 => live.token \/ ghost.leaked
=============================================================================
