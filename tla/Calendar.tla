------------------------------- MODULE Calendar ------------------------------
(***************************************************************************)
(* The calendar plugin (plugins/calendar: state.go, selection.go,            *)
(* publisher.go, monitor.go, interaction.go, handler.go).  The monitor reads *)
(* the event store, chooses what to show under the state's lock and hands    *)
(* the choice to the worker, which publishes it under another; the chooser   *)
(* records a decision on an occurrence and publishes the choice that follows *)
(* from it.  A publication may fail with its outcome unknown.                *)
(***************************************************************************)
EXTENDS Integers, Sequences, SequencesExt, FiniteSets

CONSTANTS
    Events,         \* occurrences, numbered in the order selection prefers them
    Deletable,      \* the occurrences that may be deleted, bound
    MaxFailures,    \* failed reads, saves, grants and publications, bound
    None

VARIABLES
    store,      \* EventKit: the phase of each event
    state,      \* calendarState: events as last read, decisions
    monitor,    \* a refresh handed to apply, or None
    due,        \* a timer of the monitor is set: something changed, or a retry
    publisher,  \* calendarPublisher: active cards, pending publication
    shown,      \* cards the host holds
    session,    \* the chooser: its event, or None
    disk,       \* decisions in the stored checkpoint
    dirty,      \* checkpointDirty
    failures,
    ghost       \* broken: the last refresh failed; overtaken, unpublished: see below

vars == <<store, state, monitor, due, publisher, shown, session, disk, dirty, failures, ghost>>

Phases == <<"far", "upcoming", "active", "over">>
NoDecision == [e \in Events |-> None]

Init ==
    /\ store \in [Events -> {"far", "upcoming"}]
    /\ state = [events |-> [e \in Events |-> "gone"], decisions |-> NoDecision]
    /\ monitor = None /\ due = TRUE /\ publisher = [active |-> {}, pending |-> None] /\ shown = {}
    /\ session = None /\ disk = NoDecision /\ dirty = FALSE /\ failures = 0
    /\ ghost = [broken |-> FALSE, overtaken |-> FALSE, unpublished |-> FALSE]

Fails == failures < MaxFailures /\ failures' = failures + 1

----------------------------------------------------------------------------
(* What to show                                                             *)

\* selectEventsWithConfig: in each channel, the best event that is not skipped.
Candidates(evs, decisions, phase) == {e \in Events : evs[e] = phase /\ decisions[e] # "skip"}
SelectEvents(evs, decisions) ==
    {[channel |-> phase, key |-> CHOOSE e \in Candidates(evs, decisions, phase) :
        \A f \in Candidates(evs, decisions, phase) : e <= f] :
       phase \in {p \in {"upcoming", "active"} : Candidates(evs, decisions, p) # {}}}

\* pruneDecisionsLocked
Prune(evs, decisions) == [e \in Events |-> IF evs[e] = "gone" THEN None ELSE decisions[e]]

\* refreshLocked
Refreshed == [events |-> store, decisions |-> Prune(store, state.decisions)]

----------------------------------------------------------------------------
(* The publisher                                                            *)

\* A card is valid while its event is in the phase it announces.
Live(c) == store[c.key] \in {c.channel, "gone"}

\* The publication to make again: one whose card has expired is dropped.
Pending == IF publisher.pending # None /\ (publisher.pending.resolved \/ Live(publisher.pending.card))
           THEN <<publisher.pending>> ELSE <<>>

Commit(set, op) == IF op.resolved THEN set \ {op.card} ELSE set \cup {op.card}
CommitAll(set, ops) == FoldLeft(Commit, set, ops)
Published(set, ops) == {c \in CommitAll(set, ops) : Live(c)}

\* Publish, as the calls it makes: the pending one again, the cards, and the
\* withdrawal of every other card that is active by then.
Operations(cards) ==
    LET rest == CommitAll(publisher.active, Pending) \ cards
    IN Pending \o SetToSeq({[card |-> c, resolved |-> FALSE] : c \in cards})
               \o SetToSeq({[card |-> c, resolved |-> TRUE] : c \in rest})

\* retryCalendarPublication: a call that failed without being refused is kept,
\* to be made again before any other.  The host refuses neither a withdrawal
\* nor what it may already have taken.
Forgotten(op, how) == None
Retried(op, how) == IF how = "refused" THEN None ELSE op
Publish(cards, ok) ==
    LET ops == Operations(cards)
    IN IF ok THEN /\ publisher' = [active |-> CommitAll(publisher.active, ops), pending |-> None]
                  /\ shown' = Published(shown, ops)
       ELSE \E n \in 1..Len(ops), how \in {"lost", "applied", "refused"} :
              LET done == SubSeq(ops, 1, n - 1)
              IN /\ how = "refused" => ~ops[n].resolved /\ n > Len(Pending)
                 /\ publisher' = [active |-> CommitAll(publisher.active, done), pending |-> Retried(ops[n], how)]
                 /\ shown' = Published(shown, IF how = "applied" THEN SubSeq(ops, 1, n) ELSE done)

----------------------------------------------------------------------------
(* The monitor                                                              *)

\* Time passes, or an event is deleted: the boundary timer or a notification.
StoreChanges ==
    /\ \/ \E e \in Events, i \in 1..3 : store[e] = Phases[i] /\ store' = [store EXCEPT ![e] = Phases[i + 1]]
       \/ \E e \in Deletable : store[e] # "gone" /\ store' = [store EXCEPT ![e] = "gone"]
    \* The host drops a card at the end of its validity.
    /\ shown' = {c \in shown : store'[c.key] \in {c.channel, "gone"}}
    /\ due' = TRUE
    /\ UNCHANGED <<state, monitor, publisher, session, disk, dirty, failures, ghost>>

\* Run and Refresh: the choice is made here and published by ApplyRefresh.
Refresh ==
    /\ monitor = None /\ due /\ due' = FALSE
    /\ \/ /\ state' = Refreshed /\ UNCHANGED failures
          /\ monitor' = [cards |-> SelectEvents(Refreshed.events, Refreshed.decisions), error |-> FALSE,
                         changed |-> Refreshed.decisions # state.decisions]
       \/ /\ Fails /\ UNCHANGED state /\ monitor' = [cards |-> {}, error |-> TRUE, changed |-> FALSE]
    /\ UNCHANGED <<store, publisher, shown, session, disk, dirty, ghost>>

\* persistCheckpoint
Persist == disk' = state.decisions /\ dirty' = FALSE

RetryAfter == due' = TRUE

\* apply: publish, then the checkpoint if it is due; a failure sets the timer.
ApplyRefresh ==
    /\ monitor # None /\ monitor' = None
    /\ ghost' = [broken |-> monitor.error, unpublished |-> FALSE,
                 overtaken |-> ghost.overtaken /\ ~monitor.error]
    /\ LET save == (dirty \/ monitor.changed) /\ ~monitor.error
       IN \/ /\ Publish(monitor.cards, TRUE) /\ due' = due /\ UNCHANGED failures
             /\ IF save THEN Persist ELSE dirty' = (dirty \/ monitor.changed) /\ UNCHANGED disk
          \/ /\ Fails /\ RetryAfter /\ dirty' = (dirty \/ monitor.changed) /\ UNCHANGED disk
             /\ \/ Publish(monitor.cards, FALSE)
                \/ save /\ Publish(monitor.cards, TRUE)
    /\ UNCHANGED <<store, state, session>>

----------------------------------------------------------------------------
(* The chooser                                                              *)

\* Matches: the launch names a card as it was delivered.
Matches(c) == /\ c \in publisher.active \cap shown
              /\ ~(publisher.pending # None /\ publisher.pending = [card |-> c, resolved |-> TRUE])

StartSession ==
    /\ session = None
    /\ \E c \in publisher.active : Matches(c) /\ state.events[c.key] # "gone" /\ session' = c.key
    /\ UNCHANGED <<store, state, monitor, due, publisher, shown, disk, dirty, failures, ghost>>

EndSession ==
    /\ session # None /\ session' = None
    /\ UNCHANGED <<store, state, monitor, due, publisher, shown, disk, dirty, failures, ghost>>

\* DecideWithGrant reads the events again and refuses one that is not open to
\* a decision any more, or whose execution the host does not grant.
Actionable(e) == store[e] \in {"upcoming", "active"}

\* ATTEND is kept like no decision: neither hides the event.
Decided(e, choice) == [Refreshed EXCEPT !.decisions[e] = choice]

\* HandleSessionInput, START: decide, save, publish, close.
Decide ==
    /\ session # None
    /\ \/ \* the refresh, the check or the grant failed
          /\ ~Actionable(session) \/ failures < MaxFailures
          /\ failures' = (IF Actionable(session) THEN failures + 1 ELSE failures)
          /\ state' = Refreshed
          /\ UNCHANGED <<due, publisher, shown, session, disk, dirty, ghost>>
       \/ /\ Actionable(session) /\ session' = None
          /\ \E choice \in {None, "skip"} : state' = Decided(session, choice)
          /\ LET cards == SelectEvents(state'.events, state'.decisions)
                 g == [ghost EXCEPT !.broken = FALSE, !.overtaken = monitor # None]
             IN \/ /\ disk' = state'.decisions /\ dirty' = FALSE /\ UNCHANGED <<due, failures>>
                   /\ Publish(cards, TRUE) /\ ghost' = [g EXCEPT !.unpublished = FALSE]
                \/ /\ Fails /\ dirty' = TRUE /\ RetryAfter /\ UNCHANGED <<disk, publisher, shown>>
                   /\ ghost' = [g EXCEPT !.unpublished = TRUE]
                \/ /\ Fails /\ disk' = state'.decisions /\ dirty' = FALSE /\ UNCHANGED due
                   /\ Publish(cards, FALSE) /\ ghost' = [g EXCEPT !.unpublished = TRUE]
    /\ UNCHANGED <<store, monitor>>

\* RestoreCheckpoint
Restored == [events |-> [e \in Events |-> "gone"], decisions |-> disk]

\* ReplaceInstances with the same generation: the publisher is kept, the state
\* comes from the checkpoint.
Replace ==
    /\ monitor = None /\ session' = None
    /\ state' = Restored
    /\ due' = TRUE /\ dirty' = FALSE
    /\ UNCHANGED <<store, monitor, publisher, shown, disk, failures, ghost>>

Next == StoreChanges \/ Refresh \/ ApplyRefresh \/ StartSession \/ EndSession \/ Decide \/ Replace

Spec == Init /\ [][Next]_vars

----------------------------------------------------------------------------
Settled == monitor = None /\ ~due

\* When nothing is under way and no timer is set, the host holds exactly the
\* cards that the events and the decisions call for: none left behind by a
\* publication that failed half way, none missing.  Two cases are excepted: a
\* decision made while a refresh was on its way to apply, and one whose
\* publication failed, which nothing retries before the next boundary.
CardsSettle ==
    Settled /\ ~ghost.overtaken /\ ~ghost.unpublished =>
        shown = IF ghost.broken THEN {} ELSE SelectEvents(store, state.decisions)

\* docs/calendar.md: SKIP hides the occurrence until it ends.  It does not hold when a
\* refresh chose its cards before the decision and publishes them after it: see
\* ghost.overtaken, and the README.
SkipHides == Settled => \A c \in shown : state.decisions[c.key] # "skip"
=============================================================================
