----------------------------- MODULE SlackPanel -----------------------------
(***************************************************************************)
(* What the Slack plugin shows through the host, and the panel session that *)
(* acts on it (plugins/slack/observations.go, panel.go), for one item.  The *)
(* publisher goroutine and the session's callbacks share one slot for calls *)
(* to the host; the reducer changes the item while a call is out, and the   *)
(* answer to any call may be lost although the host acted on it.            *)
(***************************************************************************)
EXTENDS Integers, FiniteSets

CONSTANTS Tokens, MaxRevision, MaxPanel, None

VARIABLES
    item,       \* the retained item: its revision, and whether it is handled
    fresh,      \* snapshot().Fresh
    panel,      \* worker.panel under panelMu: token, target revision, level
    copy,       \* publisher.panel and panelRevision
    current,    \* publisher.current of the attention card and of the live panel
    host,       \* what the host holds for each of them
    slot,       \* who owns the publication slot
    call,       \* what each caller is doing
    effects     \* history: the grant and the launches of each token

vars == <<item, fresh, panel, copy, current, host, slot, call, effects>>

Actors == {"publisher", "session"}
Cards == {"attention", "live"}
Idle == [pc |-> "idle", card |-> None, view |-> 0, start |-> FALSE]

Init ==
    /\ item = [rev |-> 1, handled |-> FALSE] /\ fresh = TRUE
    /\ panel = None /\ copy = [panel |-> None, rev |-> 0]
    /\ current = [c \in Cards |-> None] /\ host = [c \in Cards |-> None]
    /\ slot = None /\ call = [p \in Actors |-> Idle]
    /\ effects = [t \in Tokens |-> [granted |-> FALSE, launched |-> 0, over |-> FALSE]]

Domain == <<item, fresh>>
Session == <<panel, copy, effects>>

\* The reducer commits a change, or freshness comes and goes.
Commits ==
    /\ \/ /\ call["session"].pc # "granted"     \* execute holds mu through grant and effect
          /\ item.rev < MaxRevision /\ UNCHANGED fresh
          /\ \E handled \in {FALSE, item.handled} : item' = [rev |-> item.rev + 1, handled |-> handled]
       \/ fresh' = ~fresh /\ UNCHANGED item
    /\ UNCHANGED <<Session, current, host, slot, call>>

----------------------------------------------------------------------------
(* Publication                                                              *)

\* What publishResident and publishCurrentPanel want the host to hold, and
\* publicationCurrent: whether the revision that a call carries is the newest.
Wanted(c) == IF c = "attention" THEN fresh /\ ~item.handled ELSE copy.panel # None
View(c) == IF c = "attention" THEN item.rev ELSE copy.rev
PublicationCurrent(c, view) ==
    view = View(c) /\ (c = "attention" => fresh /\ ~item.handled)

\* publishResident decides on a card, or publishCurrentPanel is called, and
\* acquirePublication waits for the slot.
Decide(p, c) ==
    /\ call[p].pc = (IF p = "publisher" THEN "idle" ELSE "publish") /\ (p = "session" => c = "live")
    /\ \/ Wanted(c)
          /\ call' = [call EXCEPT ![p] = [@ EXCEPT !.pc = "acquire", !.card = c, !.view = View(c)]]
       \/ /\ ~Wanted(c) /\ current[c] # None
          /\ call' = [call EXCEPT ![p] = [@ EXCEPT !.pc = "acquireWithdraw", !.card = c]]
       \/ /\ ~Wanted(c) /\ current[c] = None /\ p = "session"
          /\ call' = [call EXCEPT ![p] = Idle]
    /\ UNCHANGED <<Domain, Session, current, host, slot>>

\* A failure matters to StartSession alone, which takes the panel back.
Failed(p) == IF call[p].start THEN [Idle EXCEPT !.pc = "startFailed"] ELSE Idle
Release(p, next) == call' = [call EXCEPT ![p] = next] /\ slot' = None

\* A caller stops waiting for the slot at its deadline.
Abandon(p) ==
    /\ call[p].pc \in {"acquire", "acquireWithdraw"} /\ call' = [call EXCEPT ![p] = Failed(p)]
    /\ UNCHANGED <<Domain, Session, current, host, slot>>

\* publishLocked up to the call: a stale view is dropped, and a card that the
\* host may come to hold is recorded before the host hears of it.  The live
\* card is read with the slot in hand.
RecordLater(p) ==
    /\ call[p].pc = "acquire" /\ slot = None
    /\ IF PublicationCurrent(call[p].card, call[p].view)
       THEN slot' = p /\ call' = [call EXCEPT ![p].pc = "publishing"]
       ELSE Release(p, Failed(p))
    /\ UNCHANGED <<Domain, Session, host, current>>

Record(p) ==
    /\ call[p].pc = "acquire" /\ slot = None
    /\ LET c == call[p].card
           view == IF c = "live" THEN View(c) ELSE call[p].view
       IN IF Wanted(c) /\ PublicationCurrent(c, view)
          THEN /\ current' = [current EXCEPT ![c] = [rev |-> view, confirmed |-> FALSE]]
               /\ slot' = p
               /\ call' = [call EXCEPT ![p] = [@ EXCEPT !.pc = "publishing", !.view = view]]
          ELSE Release(p, Failed(p)) /\ UNCHANGED current
    /\ UNCHANGED <<Domain, Session, host>>

\* The call returns: the host holds the card, or not, and the answer arrives
\* or is lost.  If the view has become stale meanwhile, the card is withdrawn.
Published(p, held, answered) ==
    /\ call[p].pc = "publishing" /\ (answered => held)
    /\ LET c == call[p].card
           view == call[p].view
       IN /\ host' = [host EXCEPT ![c] = IF held THEN view ELSE @]
          /\ IF ~PublicationCurrent(c, view)
             THEN call' = [call EXCEPT ![p].pc = "withdrawing"] /\ UNCHANGED <<slot, current>>
             ELSE IF answered
             THEN Release(p, Idle) /\ current' = [current EXCEPT ![c].confirmed = TRUE]
             ELSE Release(p, Failed(p)) /\ UNCHANGED current
    /\ UNCHANGED <<Domain, Session>>

AcquireWithdraw(p) ==
    /\ call[p].pc = "acquireWithdraw" /\ slot = None
    /\ IF current[call[p].card] = None THEN Release(p, Idle)
       ELSE slot' = p /\ call' = [call EXCEPT ![p].pc = "withdrawing"]
    /\ UNCHANGED <<Domain, Session, current, host>>

\* withdrawLocked: the record goes only when the host has answered.
Withdrawn(p, dropped, answered) ==
    /\ call[p].pc = "withdrawing" /\ (answered => dropped) /\ Release(p, Failed(p))
    /\ LET c == call[p].card
       IN /\ host' = [host EXCEPT ![c] = IF dropped THEN None ELSE @]
          /\ current' = [current EXCEPT ![c] = IF answered THEN None ELSE @]
    /\ UNCHANGED <<Domain, Session>>

\* The host lets an observation go when it expires.
Expires(c) ==
    /\ host[c] # None /\ host' = [host EXCEPT ![c] = None]
    /\ UNCHANGED <<Domain, Session, current, slot, call>>

----------------------------------------------------------------------------
(* The panel session; panelMu serialises its callbacks                      *)

SessionIdle == call["session"].pc = "idle"

\* updatePanelSnapshot, then publishCurrentPanel.
ShowPanel(p) ==
    /\ copy.rev < MaxPanel /\ panel' = p /\ copy' = [panel |-> p, rev |-> copy.rev + 1]
    /\ call' = [call EXCEPT !["session"] = [Idle EXCEPT !.pc = "publish", !.start = panel = None]]

\* From a card the session takes the published target, which must be confirmed
\* and current; from the launcher it takes what is pending.
StartSession(t) ==
    /\ SessionIdle /\ panel = None /\ ~effects[t].granted /\ ~effects[t].over
    /\ \/ /\ current["attention"] # None /\ current["attention"].confirmed
          /\ current["attention"].rev = item.rev /\ ~item.handled /\ fresh
          /\ ShowPanel([token |-> t, target |-> item.rev, level |-> "detail"])
       \/ /\ ~item.handled /\ ShowPanel([token |-> t, target |-> item.rev, level |-> "list"])
    /\ UNCHANGED <<Domain, current, host, slot, effects>>

\* START in the list selects the item as it is now; BACK leaves the detail.
Navigate ==
    /\ SessionIdle /\ panel # None
    /\ \/ panel.level = "list" /\ ~item.handled
          /\ ShowPanel([panel EXCEPT !.level = "detail", !.target = item.rev])
       \/ panel.level = "detail" /\ ShowPanel([panel EXCEPT !.level = "list"])
    /\ UNCHANGED <<Domain, current, host, slot, effects>>

\* validateTargetLocked
ValidTarget == fresh /\ ~item.handled /\ item.rev = panel.target

\* execute asks for the grant with the item locked.
Execute ==
    /\ SessionIdle /\ panel # None /\ panel.level = "detail"
    /\ IF ValidTarget
       THEN /\ call' = [call EXCEPT !["session"].pc = "granted"]
            /\ UNCHANGED <<panel, copy>>
       ELSE ShowPanel(panel)
    /\ UNCHANGED <<Domain, current, host, slot, effects>>

\* The grant is refused; the session goes on.
Refused ==
    /\ call["session"].pc = "granted" /\ call' = [call EXCEPT !["session"] = Idle]
    /\ UNCHANGED <<Domain, Session, current, host, slot>>

\* Granted: the target is validated again, then Slack is opened, which hides
\* the episode, or the episode is acknowledged; either may fail.  The session
\* is over in the plugin before the host is told, whatever becomes of that.
Outcomes == {"opened", "open_failed", "acked", "ack_failed"}
EffectOn(e, outcome) ==
    [e EXCEPT !.granted = TRUE,
              !.launched = @ + IF ValidTarget /\ outcome = "opened" THEN 1 ELSE 0]
Hide(outcome) == [item EXCEPT !.handled = @ \/ (ValidTarget /\ outcome \in {"opened", "acked"})]

Effect(outcome) ==
    /\ call["session"].pc = "granted" /\ item' = Hide(outcome)
    /\ effects' = [effects EXCEPT ![panel.token] = [EffectOn(@, outcome) EXCEPT !.over = TRUE]]
    /\ ShowPanel(None) /\ UNCHANGED <<fresh, current, host, slot>>

EndSession ==
    /\ SessionIdle /\ panel # None /\ ShowPanel(None)
    /\ effects' = [effects EXCEPT ![panel.token].over = TRUE]
    /\ UNCHANGED <<Domain, current, host, slot>>

\* The live card could not be published: StartSession takes the panel back.
StartFails ==
    /\ call["session"].pc = "startFailed" /\ copy.rev <= MaxPanel
    /\ effects' = [effects EXCEPT ![panel.token].over = TRUE]
    /\ panel' = None /\ copy' = [panel |-> None, rev |-> copy.rev + 1]
    /\ call' = [call EXCEPT !["session"] = Idle]
    /\ UNCHANGED <<Domain, current, host, slot>>

Next ==
    \/ Commits
    \/ \E p \in Actors : \/ \E c \in Cards : Decide(p, c)
                          \/ Abandon(p) \/ Record(p) \/ AcquireWithdraw(p)
                          \/ \E x, y \in BOOLEAN : Published(p, x, y) \/ Withdrawn(p, x, y)
    \/ \E c \in Cards : Expires(c)
    \/ \E t \in Tokens : StartSession(t)
    \/ Navigate \/ Execute \/ Refused \/ EndSession \/ StartFails
    \/ \E outcome \in Outcomes : Effect(outcome)

Spec == Init /\ [][Next]_vars

\* Nothing is shown that the plugin cannot take back: a card that the host
\* holds is recorded, also when the answer that it was accepted got lost.
HeldIsTracked == \A c \in Cards : host[c] # None => current[c] # None

\* One session has at most one effect: however often START is pressed and
\* whatever answers are lost, Slack is opened at most once for a token.
LaunchedOnce == \A t \in Tokens : effects[t].launched <= 1
=============================================================================
