--------------------------- MODULE SlackTransport ---------------------------
(***************************************************************************)
(* The Socket Mode connection of the Slack plugin (plugins/slack/socket.go, *)
(* and the transport half of worker.go).  One goroutine, runTransport, owns *)
(* the active session, at most one candidate that must say hello, one dial  *)
(* and two timers; each session has a reader of its own that reports to it  *)
(* over a channel and to the worker's health under transportMu, at any time.*)
(***************************************************************************)
EXTENDS Integers, Sequences

CONSTANTS MaxSessions, MaxEvents, QueueCapacity

VARIABLES
    loop,       \* the locals of runTransport
    readers,    \* the reader of each session
    events,     \* the channel from the readers to runTransport
    worker      \* the fields of worker under transportMu, and its queue

vars == <<loop, readers, events, worker>>

Sessions == 1 .. MaxSessions

Init ==
    /\ loop = [running |-> TRUE, dialing |-> TRUE, active |-> 0, candidate |-> 0,
               retry |-> FALSE, hello |-> FALSE, next |-> 1]
    /\ readers = [i \in Sessions |-> "none"]
    /\ events = <<>>
    /\ worker = [active |-> 0, auth |-> FALSE, connected |-> FALSE, fresh |-> FALSE,
                 gap |-> FALSE, code |-> "", queued |-> 0]

----------------------------------------------------------------------------
(* The health of the worker                                                 *)

Live(w) ==
    IF w.auth THEN w ELSE [w EXCEPT !.connected = TRUE, !.fresh = TRUE, !.code = ""]
ConnectionLive(w, i) == IF i = w.active THEN Live(w) ELSE w
ActivateConnection(w, i) == Live([w EXCEPT !.active = i])
ConnectionGap(w, i, code) ==
    IF i # w.active THEN w
    ELSE [w EXCEPT !.gap = TRUE, !.code = IF w.auth THEN @ ELSE code]

\* disconnectedLocked: an authentication failure is never forgotten, and ends
\* the freshness of what was received.
Disconnected(w, code) ==
    LET auth == w.auth \/ code = "auth_required"
    IN [w EXCEPT !.connected = FALSE, !.gap = TRUE, !.active = 0, !.auth = auth,
                 !.code = IF auth THEN "auth_required" ELSE code,
                 !.fresh = @ /\ ~auth]

----------------------------------------------------------------------------
(* runTransport                                                             *)

StartDial(l) ==
    IF l.dialing \/ l.candidate # 0 THEN l ELSE [l EXCEPT !.retry = FALSE, !.dialing = TRUE]

ScheduleRetry(l) ==
    IF l.dialing \/ l.candidate # 0 \/ l.retry THEN l ELSE [l EXCEPT !.retry = TRUE]

Terminal(code) == code \in {"auth_required", "missing_scope"}

\* The deferred function: every session is cancelled and every reader joined.
End(l) == [l EXCEPT !.running = FALSE, !.dialing = FALSE, !.retry = FALSE, !.hello = FALSE,
                    !.active = 0, !.candidate = 0]
JoinAll == [i \in Sessions |-> IF readers[i] = "none" THEN "none" ELSE "gone"]
Cancel(i) == [readers EXCEPT ![i] = IF @ = "gone" THEN "gone" ELSE "cancelled"]

\* One turn of the loop ends with its condition, which a lost authorization
\* fails; one that a reader finds out about in the meantime takes effect then.
Turn(l, w, r) ==
    /\ loop.running
    /\ worker' = w
    /\ loop' = IF w.auth THEN End(l) ELSE l
    /\ readers' = IF w.auth \/ ~l.running THEN JoinAll ELSE r

\* A candidate that fails costs the health only what no active session keeps up.
LostCandidate(code) == IF loop.active = 0 THEN Disconnected(worker, code) ELSE worker

RetryFires ==
    /\ loop.retry /\ Turn(StartDial([loop EXCEPT !.retry = FALSE]), worker, readers)
    /\ UNCHANGED events

HelloFires ==
    /\ loop.hello /\ loop.candidate # 0
    /\ Turn(ScheduleRetry([loop EXCEPT !.hello = FALSE, !.candidate = 0]),
            LostCandidate("disconnected"), Cancel(loop.candidate))
    /\ UNCHANGED events

DialFails(code) ==
    IF Terminal(code) THEN Turn(End(loop), Disconnected(worker, code), readers)
    ELSE Turn(ScheduleRetry([loop EXCEPT !.dialing = FALSE]), LostCandidate(code), readers)

Dialed ==
    /\ loop.dialing
    /\ \/ /\ loop.next <= MaxSessions
          /\ Turn([loop EXCEPT !.dialing = FALSE, !.candidate = loop.next, !.hello = TRUE,
                               !.next = @ + 1],
                  worker, [readers EXCEPT ![loop.next] = "greeting"])
       \/ \E code \in {"disconnected", "auth_required", "missing_scope"} : DialFails(code)
    /\ UNCHANGED events

\* A hello is accepted from the candidate alone; the session it replaces is
\* cancelled once the new one is active.
Hello(i) ==
    IF i = loop.candidate
    THEN Turn([loop EXCEPT !.hello = FALSE, !.active = i, !.candidate = 0],
              ActivateConnection(worker, i),
              [j \in Sessions |-> IF j = i THEN "live"
                                  ELSE IF j = loop.active THEN Cancel(j)[j] ELSE readers[j]])
    ELSE Turn(loop, worker, Cancel(i))

Refresh(i) ==
    CASE i = loop.active -> Turn(StartDial(loop), worker, readers)
      [] i = loop.candidate ->
            Turn(StartDial([loop EXCEPT !.hello = FALSE, !.candidate = 0]),
                 LostCandidate("disconnected"), Cancel(i))
      [] OTHER -> Turn(loop, worker, readers)

\* What became of the session that the worker thinks active.
ConnectionDisconnected(i, code) == IF i = worker.active THEN Disconnected(worker, code) ELSE worker

EndedUnretried(i, code) ==
    IF i = loop.active
    THEN Turn([loop EXCEPT !.active = 0], ConnectionDisconnected(i, code), readers)
    ELSE Turn(loop, worker, readers)

Ended(i, code) ==
    CASE Terminal(code) -> Turn(End(loop), Disconnected(worker, code), readers)
      [] ~Terminal(code) /\ i = loop.active ->
            Turn(ScheduleRetry([loop EXCEPT !.active = 0]), ConnectionDisconnected(i, code), readers)
      [] ~Terminal(code) /\ i = loop.candidate ->
            Turn(ScheduleRetry([loop EXCEPT !.hello = FALSE, !.candidate = 0]),
                 LostCandidate(code), readers)
      [] OTHER -> Turn(loop, worker, readers)

TakesEvent ==
    /\ events # <<>> /\ events' = Tail(events)
    /\ LET e == Head(events)
       IN CASE e.kind = "hello" -> Hello(e.id)
            [] e.kind = "refresh" -> Refresh(e.id)
            [] e.kind = "ended" -> Ended(e.id, e.code)

----------------------------------------------------------------------------
(* readSocket                                                               *)

Post(e) == Len(events) < MaxEvents /\ events' = Append(events, e)

\* The first hello of a session, or one that Slack repeats.
Greets(i) ==
    /\ readers[i] \in {"greeting", "live"} /\ Post([kind |-> "hello", id |-> i, code |-> ""])
    /\ readers' = [readers EXCEPT ![i] = "greeted"]
    /\ UNCHANGED <<loop, worker>>

\* Slack announces that it will close the connection.
Asks(i) ==
    /\ readers[i] \in {"live", "greeting"} /\ Post([kind |-> "refresh", id |-> i, code |-> ""])
    /\ UNCHANGED <<loop, readers, worker>>

\* An acknowledged callback is queued, or dropped and the gap recorded; a
\* heartbeat, like the callback itself, shows that the connection is live.
Receives(i) ==
    /\ readers[i] \in {"live", "cancelled"}
    /\ \/ worker.queued < QueueCapacity /\ worker' = [ConnectionLive(worker, i) EXCEPT !.queued = @ + 1]
       \/ worker.queued = QueueCapacity
          /\ worker' = ConnectionGap(ConnectionLive(worker, i), i, "queue_overflow")
       \/ worker' = ConnectionLive(worker, i)
       \/ worker' = ConnectionGap(worker, i, "invalid_envelope")
    /\ UNCHANGED <<loop, readers, events>>

\* revokesAuthorization: the health knows at once, the loop when the reader ends.
Revoked(i) ==
    /\ readers[i] \in {"live", "cancelled"}
    /\ worker' = Disconnected(worker, "auth_required")
    /\ readers' = [readers EXCEPT ![i] = "revoked"] /\ UNCHANGED <<loop, events>>

\* readSocket returns and its goroutine reports the end: a failed read leaves
\* a gap, a hello from another app is an authorization failure.
Returns(i) ==
    /\ readers[i] \in {"greeting", "live", "cancelled", "revoked"}
    /\ \E code \in IF readers[i] = "revoked" THEN {"auth_required"}
                   ELSE {"disconnected", "invalid_envelope", "auth_required"} :
        /\ Post([kind |-> "ended", id |-> i, code |-> code])
        /\ worker' \in {worker} \union IF code = "auth_required" THEN {}
                                      ELSE {ConnectionGap(worker, i, code)}
    /\ readers' = [readers EXCEPT ![i] = "gone"] /\ UNCHANGED loop

\* The reducer takes a callback from the queue.
Reduces ==
    /\ worker.queued > 0 /\ worker' = [worker EXCEPT !.queued = @ - 1]
    /\ UNCHANGED <<loop, readers, events>>

\* Thirty seconds without a sign of life.
Stales ==
    /\ worker.fresh /\ worker' = [worker EXCEPT !.fresh = FALSE]
    /\ UNCHANGED <<loop, readers, events>>

Next ==
    \/ RetryFires \/ HelloFires \/ Dialed \/ TakesEvent \/ Reduces \/ Stales
    \/ \E i \in Sessions : Returns(i) \/ Greets(i) \/ Asks(i) \/ Receives(i) \/ Revoked(i)

Spec == Init /\ [][Next]_vars

\* The transport never wedges and never lies.  As long as it runs, something
\* will happen to it by itself: a session is active, a dial is under way, a
\* retry is due, or a candidate has a deadline.  The worker says connected
\* only of the session the transport holds active, and never calls what it
\* received fresh once authorization is gone.
TransportAlive ==
    /\ loop.running =>
         \/ loop.active # 0 \/ loop.dialing \/ loop.retry
         \/ loop.candidate # 0 /\ loop.hello
    /\ worker.connected => worker.active = loop.active /\ loop.active # 0
    /\ worker.auth => ~worker.fresh
=============================================================================
