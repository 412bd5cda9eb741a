----------------------------- MODULE CodexSession ----------------------------
(***************************************************************************)
(* Answering Codex from the bar (plugins/codex: interaction.go, run of       *)
(* handler.go, publisher.go, the requests and turns of reducer.go, Respond   *)
(* and Interrupt of internal/appserver).  The run loop applies the           *)
(* app-server's events and publishes the cards; the host's calls open a      *)
(* session on a card, press buttons in it and end it.  Both work under one   *)
(* mutex, which neither holds while it calls the host or the app-server.     *)
(* The app-server reuses its request ids on every connection.                *)
(***************************************************************************)
EXTENDS Integers, Sequences

CONSTANTS
    MaxConnections, MaxTurns, MaxTokens,    \* bounds
    MaxEvents,      \* events the worker has not taken yet, bound
    None

VARIABLES
    server,     \* the app-server: connection (None when lost), turn, open request
    events,     \* manager events on their way to the worker
    reducer,    \* what the worker knows: connected, connection, request, turn
    published,  \* the cards Lookup finds: for the request, for the running turn
    session,    \* worker.session
    call,       \* the host's call under way: its step and the session it captured
    loop,       \* the run loop: its step and the session it is to finish
    details,    \* tokens whose detail card the host holds
    tokens,     \* sessions opened so far
    sent,       \* answers and interrupts the app-server received
    late        \* tokens whose detail was published after they were finished

vars == <<server, events, reducer, published, session, call, loop, details, tokens, sent, late>>

Idle == [step |-> "idle", s |-> None]

Init ==
    /\ server = [conn |-> None, last |-> 0, turn |-> 0, running |-> FALSE, asked |-> None, ids |-> 0]
    /\ events = <<>> /\ session = None /\ call = Idle /\ loop = Idle
    /\ reducer = [connected |-> FALSE, conn |-> 0, request |-> None, turn |-> 0, running |-> FALSE]
    /\ published = [request |-> FALSE, turn |-> FALSE]
    /\ details = {} /\ tokens = 0 /\ sent = {} /\ late = {}

----------------------------------------------------------------------------
(* The app-server, external, and the manager's events, in order.  A turn   *)
(* asks one request at a time and does not end while it waits for an answer. *)

Tell(e) == Len(events) < MaxEvents /\ events' = Append(events, e)

NewRequest == [conn |-> server.conn, id |-> server.ids + 1, turn |-> server.turn]

ServerStep ==
    /\ \/ /\ server.conn = None /\ server.last < MaxConnections
          /\ server' = [server EXCEPT !.conn = server.last + 1, !.last = @ + 1, !.ids = 0]
          /\ Tell([kind |-> "connected", conn |-> server.last + 1, turn |-> server.turn])
       \/ /\ server.conn # None /\ server' = [server EXCEPT !.conn = None, !.asked = None]
          /\ Tell([kind |-> "disconnected"])
       \/ /\ server.conn # None /\ server.asked = None /\ server.running /\ server.ids < MaxTurns
          /\ server' = [server EXCEPT !.asked = NewRequest, !.ids = @ + 1]
          /\ Tell([kind |-> "request", request |-> NewRequest])
       \/ /\ server.asked # None /\ server' = [server EXCEPT !.asked = None]
          /\ Tell([kind |-> "resolved"])
       \/ /\ server.conn # None /\ ~server.running /\ server.turn < MaxTurns
          /\ server' = [server EXCEPT !.turn = @ + 1, !.running = TRUE]
          /\ Tell([kind |-> "turn", turn |-> server.turn + 1, running |-> TRUE])
       \/ /\ server.conn # None /\ server.running /\ server.asked = None
          /\ server' = [server EXCEPT !.running = FALSE]
          /\ Tell([kind |-> "turn", turn |-> server.turn, running |-> FALSE])
    /\ UNCHANGED <<reducer, published, session, call, loop, details, tokens, sent, late>>

----------------------------------------------------------------------------
(* The run loop                                                             *)

applyServerRequest(r, request) == [r EXCEPT !.request = request]
applyServerRequestResolved(r) == [r EXCEPT !.request = None]
Apply(r, e) ==
    CASE e.kind = "connected" -> [r EXCEPT !.connected = TRUE, !.conn = e.conn, !.request = None]
      [] e.kind = "disconnected" -> [r EXCEPT !.connected = FALSE, !.request = None]
      [] e.kind = "request" -> applyServerRequest(r, e.request)
      [] e.kind = "resolved" -> applyServerRequestResolved(r)
      [] e.kind = "turn" -> [r EXCEPT !.turn = e.turn, !.running = e.running]

\* sessionTargetCurrentLocked: the very request the session was opened on is
\* still pending and its turn is the latest; the turn to interrupt still runs.
\* A session on the launcher's card has no target.
TargetCurrent(r, s) ==
    CASE s.kind = "request" -> r.request = s.request /\ (r.turn = 0 \/ r.turn = s.request.turn)
      [] s.kind = "interrupt" -> r.running /\ r.turn = s.turn
      [] s.kind = "launcher" -> TRUE

\* staleSessionTokenLocked
OnlyWhenLost(r, lost) == session # None /\ lost /\ session.kind # "launcher"
Stale(r, lost) ==
    /\ session # None
    /\ \/ lost /\ session.kind # "launcher"
       \/ ~session.processing /\ ~TargetCurrent(r, session)

TakeEvent ==
    /\ loop.step = "idle" /\ events # <<>> /\ events' = Tail(events)
    /\ LET e == Head(events)
           r == Apply(reducer, e)
       IN /\ reducer' = r
          /\ loop' = [step |-> "publish", s |-> IF Stale(r, e.kind = "disconnected") THEN session ELSE None]
    /\ UNCHANGED <<server, published, session, call, details, tokens, sent, late>>

\* Publish: one observation after the other; the first failure ends it.
PublishCards ==
    /\ loop.step = "publish"
    /\ published' \in {published, [request |-> reducer.request # None, turn |-> reducer.running]}
    /\ loop' = [loop EXCEPT !.step = IF loop.s = None THEN "idle" ELSE "close"]
    /\ UNCHANGED <<server, events, reducer, session, call, details, tokens, sent, late>>

\* finishSession, first half: only the session with that token.
Closed(s) == IF session # None /\ session.token = s.token THEN None ELSE session
Mine(s) == session # None /\ session.token = s.token

CloseStale ==
    /\ loop.step = "close" /\ session' = Closed(loop.s)
    /\ loop' = IF Mine(loop.s) THEN [loop EXCEPT !.step = "resolve"] ELSE Idle
    /\ UNCHANGED <<server, events, reducer, published, call, details, tokens, sent, late>>

\* ResolveDetail: does nothing for a card that was never published.
ResolveStale ==
    /\ loop.step = "resolve" /\ loop' = Idle /\ details' = details \ {loop.s.token}
    /\ UNCHANGED <<server, events, reducer, published, session, call, tokens, sent, late>>

----------------------------------------------------------------------------
(* The host's calls                                                         *)

\* The session a trigger opens on what the reducer knows now.
Session(kind) ==
    [token |-> tokens + 1, kind |-> kind, conn |-> reducer.conn, request |-> reducer.request,
     turn |-> reducer.turn, staged |-> FALSE, processing |-> FALSE, refused |-> FALSE]

PendingRequest == reducer.request # None
InterruptTarget == reducer.running

\* StartSession.  A request's card that lost its request opens nothing.
StartSession ==
    /\ call.step = "idle" /\ tokens < MaxTokens /\ session = None
    /\ \E kind \in {"request", "interrupt", "launcher"} :
        /\ kind = "request" => published.request /\ PendingRequest
        /\ kind = "interrupt" => published.turn /\ InterruptTarget
        /\ session' = Session(kind) /\ call' = [step |-> "opened", s |-> Session(kind)]
    /\ tokens' = tokens + 1
    /\ UNCHANGED <<server, events, reducer, published, loop, details, sent, late>>

\* PublishDetail of StartSession; on failure the session is dropped.
Opened ==
    /\ call.step = "opened" /\ call' = Idle
    /\ \/ /\ details' = details \cup {call.s.token} /\ UNCHANGED session
          /\ late' = IF Mine(call.s) THEN late ELSE late \cup {call.s.token}
       \/ session' = Closed(call.s) /\ UNCHANGED <<details, late>>
    /\ UNCHANGED <<server, events, reducer, published, loop, tokens, sent>>

\* handleInput, under the mutex: START stages the action, START again commits
\* to it, BACK takes it back or closes.
Press ==
    /\ call.step = "idle" /\ session # None /\ ~session.processing /\ session.token \notin late
    /\ \/ /\ session.kind # "launcher" /\ ~session.staged
          /\ session' = [session EXCEPT !.staged = TRUE] /\ call' = [step |-> "refresh", s |-> session']
       \/ /\ session.staged
          /\ session' = [session EXCEPT !.processing = TRUE] /\ call' = [step |-> "begin", s |-> session']
       \/ /\ session.staged
          /\ session' = [session EXCEPT !.staged = FALSE] /\ call' = [step |-> "refresh", s |-> session']
       \/ /\ ~session.staged /\ UNCHANGED session /\ call' = [step |-> "close", s |-> session]
    /\ UNCHANGED <<server, events, reducer, published, loop, details, tokens, sent, late>>

\* The detail card is published again, which may fail.
Refresh ==
    /\ call.step = "refresh" /\ call' = Idle
    /\ \/ /\ details' = details \cup {call.s.token}
          /\ late' = IF Mine(call.s) THEN late ELSE late \cup {call.s.token}
       \/ UNCHANGED <<details, late>>
    /\ UNCHANGED <<server, events, reducer, published, session, loop, tokens, sent>>

\* BeginSessionExecution: refused, the session takes input again.
Begin ==
    /\ call.step = "begin"
    /\ \/ call' = [call EXCEPT !.step = "recheck"] /\ UNCHANGED session
       \/ /\ call' = Idle
          /\ session' = IF Mine(call.s) THEN [session EXCEPT !.processing = FALSE, !.refused = TRUE] ELSE session
    /\ UNCHANGED <<server, events, reducer, published, loop, details, tokens, sent, late>>

\* The target is checked again under the mutex once execution is granted.
Current(s) == Mine(s) /\ reducer.connected /\ reducer.conn = s.conn /\ TargetCurrent(reducer, s)
Recheck ==
    /\ call.step = "recheck"
    /\ call' = [call EXCEPT !.step = IF Current(call.s) THEN "send" ELSE "close"]
    /\ UNCHANGED <<server, events, reducer, published, session, loop, details, tokens, sent, late>>

\* Respond and Interrupt write on the connection the target came from, and
\* fail when it is gone.
ConnectionOf(s) == IF s.kind = "request" THEN s.request.conn ELSE s.conn

Send ==
    /\ call.step = "send" /\ call' = [call EXCEPT !.step = "close"]
    /\ \/ /\ server.conn # None /\ ConnectionOf(call.s) = server.conn
          /\ sent' = sent \cup {[s |-> call.s, on |-> server.conn, asked |-> server.asked]}
       \/ UNCHANGED sent
    /\ UNCHANGED <<server, events, reducer, published, session, loop, details, tokens, late>>

\* finishSession of the call, and EndSession.
CloseCall ==
    /\ \/ call.step = "close" /\ session' = Closed(call.s)
          /\ call' = IF Mine(call.s) THEN [call EXCEPT !.step = "resolve"] ELSE Idle
       \/ /\ call.step = "idle" /\ session # None
          /\ session' = None /\ call' = [step |-> "resolve", s |-> session]
    /\ UNCHANGED <<server, events, reducer, published, loop, details, tokens, sent, late>>

ResolveCall ==
    /\ call.step = "resolve" /\ call' = Idle /\ details' = details \ {call.s.token}
    /\ UNCHANGED <<server, events, reducer, published, session, loop, tokens, sent, late>>

Next ==
    \/ ServerStep \/ TakeEvent \/ PublishCards \/ CloseStale \/ ResolveStale
    \/ StartSession \/ Opened \/ Press \/ Refresh \/ Begin \/ Recheck \/ Send \/ CloseCall \/ ResolveCall

Spec == Init /\ [][Next]_vars

----------------------------------------------------------------------------
\* An answer reaches the request the user saw or none: it is written on the
\* connection that asked, at most once in a session, whatever reconnections,
\* reused ids and replaced requests came between the press and the write.
AnswersExact ==
    /\ \A a \in sent : a.s.kind = "request" => a.on = a.s.request.conn /\ (a.asked # None /\ a.asked.id = a.s.request.id => a.asked = a.s.request)
    /\ \A a, b \in sent : a.s.token = b.s.token => a = b

\* A session does not outlive its target: between two events, one that is not
\* executing still has its request or its turn, unless the host refused its
\* execution while the target went away.  And the detail card of a finished
\* session is gone, unless it was published behind the back of the finish.
SessionsCurrent ==
    loop.step = "idle" =>
        /\ session # None /\ ~session.processing /\ ~session.refused => TargetCurrent(reducer, session)
        /\ call.step = "idle" => \A t \in details \ late : session # None /\ session.token = t
=============================================================================
