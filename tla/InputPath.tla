------------------------------ MODULE InputPath ------------------------------
(***************************************************************************)
(* Physical input (internal/input): the device stream submits events to the  *)
(* dispatcher's bounded queue; one goroutine hands them to the coordinator,  *)
(* which opens, moves and closes the APPS menu (Router) or forwards them to  *)
(* the foreground session.  A critical card takes the foreground from the    *)
(* attention engine's goroutine and has a relay close the menu and retire    *)
(* what is queued (daemonrun/relays.go).                                     *)
(***************************************************************************)
EXTENDS Integers, Sequences

CONSTANTS
    QueueCapacity,      \* InputQueueCapacity
    MaxSession,         \* bound: sessions started
    MaxRevision,        \* bound: revisions of the menu
    MaxSequence         \* bound: critical acquisitions

VARIABLES
    dispatcher,     \* [queue, context, clear: session to end, held: START is down]
    handler,        \* the coordinator's goroutine: step, event and what it captured
    router,         \* [active, revision]
    card,           \* revision of the menu card in the store, 0: none
    relay,          \* the context relay: "idle", "close", "withdraw", "retire"
    owner           \* [foreground, sessions, critical, sequence]

vars == <<dispatcher, handler, router, card, relay, owner>>

Events == {"apps", "other", "encoder", "start", "release", "back"}
Idle == [step |-> "idle", event |-> "none", session |-> 0, menu |-> FALSE, token |-> 0, sequence |-> 0, failed |-> FALSE]

Init ==
    /\ dispatcher = [queue |-> <<>>, context |-> 0, clear |-> 0, held |-> FALSE]
    /\ handler = Idle /\ relay = "idle"
    /\ router = [active |-> FALSE, revision |-> 0] /\ card = 0
    /\ owner = [foreground |-> 0, sessions |-> 0, critical |-> FALSE, sequence |-> 0]

----------------------------------------------------------------------------
(* Dispatcher                                                               *)

\* advanceContextLocked: what is queued is dropped.
Advance(d) == [d EXCEPT !.context = @ + 1, !.queue = <<>>]

\* Submit: START is latched until it is released; an overflow ends the session
\* that is in the foreground now and drops the queue.
Latched(d, event) == [d EXCEPT !.held = CASE event = "start" -> TRUE [] event = "release" -> FALSE [] OTHER -> @]
Overflow(d) == Advance([d EXCEPT !.clear = owner.foreground])
Submit(event) ==
    /\ dispatcher.context < MaxSequence
    /\ ~(event = "start" /\ dispatcher.held)
    /\ LET d == Latched(dispatcher, event) IN
       dispatcher' = IF Len(d.queue) < QueueCapacity
                     THEN [d EXCEPT !.queue = Append(@, [event |-> event, context |-> d.context])]
                     ELSE Overflow(d)
    /\ UNCHANGED <<handler, router, card, relay, owner>>

\* clear: only the session that was captured.
Cleared(o, session) == IF session # 0 /\ o.foreground = session THEN [o EXCEPT !.foreground = 0] ELSE o

\* Run: the overflow's session is ended before anything else is handled; an
\* event of an earlier context is dropped.
ClearPending ==
    /\ handler.step = "idle" /\ dispatcher.clear # 0
    /\ dispatcher' = [dispatcher EXCEPT !.clear = 0]
    /\ owner' = Cleared(owner, dispatcher.clear)
    /\ UNCHANGED <<handler, router, card, relay>>
Run ==
    /\ handler.step = "idle" /\ dispatcher.clear = 0 /\ dispatcher.queue # <<>>
    /\ LET next == Head(dispatcher.queue) IN
       handler' = IF next.context # dispatcher.context THEN Idle
                  ELSE [Idle EXCEPT !.step = "handle", !.event = next.event]
    /\ dispatcher' = [dispatcher EXCEPT !.queue = Tail(@)]
    /\ UNCHANGED <<router, card, relay, owner>>

----------------------------------------------------------------------------
(* Router                                                                   *)

Closed(r) == [r EXCEPT !.active = FALSE, !.revision = @ + 1]

\* The handler closes the menu: the state first, then, unlocked, the card.
CloseStep(next) ==
    IF router.active THEN router' = Closed(router) /\ handler' = [handler EXCEPT !.step = "withdraw"]
    ELSE handler' = next /\ UNCHANGED router

Show(token) == router' = [active |-> TRUE, revision |-> token] /\ handler' = [handler EXCEPT !.step = "publish", !.token = token]

\* publishCurrent: publish, then look again; a menu closed meanwhile is taken
\* down, a newer one is published in turn.
Publish ==
    /\ handler.step = "publish"
    /\ \E failed \in BOOLEAN :
          /\ card' = IF failed THEN card ELSE handler.token
          /\ handler' = [handler EXCEPT !.step = "published", !.failed = failed]
    /\ UNCHANGED <<dispatcher, router, relay, owner>>
PublishTrusted ==
    /\ handler.step = "published"
    /\ handler' = [handler EXCEPT !.step = "recheck"]
    /\ UNCHANGED <<dispatcher, router, card, relay, owner>>
PublishCurrent ==
    /\ handler.step = "published"
    /\ CASE ~router.active -> handler' = [handler EXCEPT !.step = "withdraw"] /\ UNCHANGED router
         [] router.active /\ router.revision # handler.token ->
              handler' = [handler EXCEPT !.step = "publish", !.token = router.revision] /\ UNCHANGED router
         [] OTHER -> IF handler.failed THEN CloseStep(Idle)
                     ELSE handler' = [handler EXCEPT !.step = "recheck"] /\ UNCHANGED router
    /\ UNCHANGED <<dispatcher, card, relay, owner>>
Withdraw ==
    /\ handler.step = "withdraw" /\ card' = 0
    /\ handler' = [handler EXCEPT !.step = IF handler.event = "apps" THEN "recheck" ELSE "idle"]
    /\ UNCHANGED <<dispatcher, router, relay, owner>>

----------------------------------------------------------------------------
(* Coordinator                                                              *)

Done == handler' = Idle

\* APPS: the session is cleared, and the menu opens unless a critical card owns
\* the display; it is closed again when that changed meanwhile.
HandleApps ==
    /\ handler.step = "handle" /\ handler.event = "apps"
    /\ owner' = Cleared(owner, owner.foreground)
    /\ handler' = [handler EXCEPT !.step = "admit"]
    /\ UNCHANGED <<dispatcher, router, card, relay>>
Admit ==
    /\ handler.step = "admit"
    /\ IF owner.critical THEN CloseStep(Idle)
       ELSE handler' = [handler EXCEPT !.step = "open", !.sequence = owner.sequence] /\ UNCHANGED router
    /\ UNCHANGED <<dispatcher, card, relay, owner>>
Open ==
    /\ handler.step = "open" /\ router.revision < MaxRevision
    /\ Show(router.revision + 1)
    /\ UNCHANGED <<dispatcher, card, relay, owner>>
AdmissionAssumed == TRUE
AdmissionCurrent == ~owner.critical /\ owner.sequence = handler.sequence
Recheck ==
    /\ handler.step = "recheck"
    /\ IF handler.event = "apps" /\ ~AdmissionCurrent THEN CloseStep(Idle) ELSE Done /\ UNCHANGED router
    /\ UNCHANGED <<dispatcher, card, relay, owner>>

\* Another selector position.
HandleSwitch ==
    /\ handler.step = "handle" /\ handler.event = "other"
    /\ owner' = Cleared(owner, owner.foreground)
    /\ CloseStep(Idle)
    /\ UNCHANGED <<dispatcher, card, relay>>

\* The encoder and START go to the open menu first.
HandleMenu ==
    /\ handler.step = "handle" /\ handler.event \in {"encoder", "start"} /\ router.active
    /\ IF handler.event = "encoder"
       THEN router.revision < MaxRevision /\ Show(router.revision + 1)
       ELSE handler' = [handler EXCEPT !.step = "launch", !.token = router.revision] /\ UNCHANGED router
    /\ UNCHANGED <<dispatcher, card, relay, owner>>

\* Launch, then closeIfCurrent: a menu changed meanwhile is left alone.
Promoted(o) == IF o.critical THEN o ELSE [o EXCEPT !.foreground = o.sessions + 1, !.sessions = @ + 1]
Launch ==
    /\ handler.step = "launch" /\ owner.sessions < MaxSession
    /\ \E ok \in BOOLEAN :
          /\ owner' = IF ok THEN Promoted(owner) ELSE owner
          /\ handler' = IF ok THEN [handler EXCEPT !.step = "launched"] ELSE Idle
    /\ UNCHANGED <<dispatcher, router, card, relay>>
CloseIfCurrent ==
    /\ handler.step = "launched"
    /\ IF router.revision = handler.token THEN CloseStep(Idle) ELSE Done /\ UNCHANGED router
    /\ UNCHANGED <<dispatcher, card, relay, owner>>

\* Otherwise they go to the foreground session, or activate the card on display,
\* which starts a session.
HandleSession ==
    /\ handler.step = "handle" /\ handler.event \in {"encoder", "start", "release"}
    /\ ~router.active \/ handler.event = "release"
    /\ Done
    /\ owner' \in IF owner.foreground = 0 /\ ~owner.critical /\ handler.event # "release" /\ owner.sessions < MaxSession
                  THEN {owner, Promoted(owner)} ELSE {owner}
    /\ UNCHANGED <<dispatcher, router, card, relay>>

\* BACK: the session and the menu it met are captured; the session may consume
\* it, otherwise exactly they are closed.
HandleBack ==
    /\ handler.step = "handle" /\ handler.event = "back"
    /\ handler' = [handler EXCEPT !.step = "back", !.session = owner.foreground, !.menu = router.active]
    /\ UNCHANGED <<dispatcher, router, card, relay, owner>>
Back ==
    /\ handler.step = "back"
    /\ \/ handler.session # 0 /\ Done /\ UNCHANGED <<router, owner>>                  \* consumed
       \/ /\ owner' = Cleared(owner, handler.session)
          /\ IF handler.menu THEN CloseStep(Idle) ELSE Done /\ UNCHANGED router
    /\ UNCHANGED <<dispatcher, card, relay>>

----------------------------------------------------------------------------
(* The rest of the daemon                                                   *)

\* AcquireCritical: ownership first, then the relay is asked and waited for.
AcquireCritical ==
    /\ relay = "idle" /\ ~owner.critical /\ owner.sequence < MaxSequence
    /\ owner' = [owner EXCEPT !.critical = TRUE, !.sequence = @ + 1, !.foreground = 0]
    /\ relay' = "close"
    /\ UNCHANGED <<dispatcher, handler, router, card>>
ReleaseCritical ==
    /\ owner.critical /\ relay = "idle" /\ owner' = [owner EXCEPT !.critical = FALSE]
    /\ UNCHANGED <<dispatcher, handler, router, card, relay>>

\* runSessionContextRelay: Router.Close, then InvalidateContext.
RelayClose ==
    /\ relay = "close"
    /\ IF router.active THEN router' = Closed(router) /\ relay' = "withdraw" ELSE relay' = "retire" /\ UNCHANGED router
    /\ UNCHANGED <<dispatcher, handler, card, owner>>
RelayWithdraw ==
    /\ relay = "withdraw" /\ card' = 0 /\ relay' = "retire"
    /\ UNCHANGED <<dispatcher, handler, router, owner>>
RelayRetire ==
    /\ relay = "retire" /\ relay' = "idle" /\ dispatcher' = Advance(dispatcher)
    /\ UNCHANGED <<handler, router, card, owner>>

\* A session begins from the control socket, or ends by itself.
SessionChanges ==
    /\ \/ owner.sessions < MaxSession /\ owner' = Promoted(owner)
       \/ owner.foreground # 0 /\ owner' = Cleared(owner, owner.foreground)
    /\ UNCHANGED <<dispatcher, handler, router, card, relay>>

Next ==
    \/ \E event \in Events : Submit(event)
    \/ ClearPending \/ Run \/ Publish \/ PublishCurrent \/ Withdraw
    \/ HandleApps \/ Admit \/ Open \/ Recheck \/ HandleSwitch \/ HandleMenu \/ Launch
    \/ CloseIfCurrent \/ HandleSession \/ HandleBack \/ Back
    \/ AcquireCritical \/ ReleaseCritical \/ RelayClose \/ RelayWithdraw \/ RelayRetire
    \/ SessionChanges

Spec == Init /\ [][Next]_vars

----------------------------------------------------------------------------
Settled == handler.step \in {"idle", "handle"} /\ relay = "idle"

\* Once the goroutines that touch the menu are through, the store shows the menu
\* exactly when it is open and at the revision it is at, and it is not open under
\* a critical card: a withdrawal of one never lands on the next.
MenuTrue ==
    Settled => /\ card # 0 => router.active /\ card = router.revision
               /\ router.active => card # 0
               /\ owner.critical => ~router.active
=============================================================================
