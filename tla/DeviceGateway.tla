---------------------------- MODULE DeviceGateway ----------------------------
(***************************************************************************)
(* What is on the device and what the daemon believes is on it: the gateway  *)
(* (internal/device/gateway.go) that draws scenes and starts native timers,  *)
(* the runtime (runtime.go) whose phase lets calls through, and the status   *)
(* stream (status.go) from which both learn of a reconnect.  A call to the   *)
(* device may fail before or after it took effect.  Rendering one candidate  *)
(* is one step: the gateway's lock is held and the output queue is serial.   *)
(***************************************************************************)
EXTENDS Integers

CONSTANTS
    Scenes,         \* records of a scene: id, topology, priority
    Timers,         \* cards of native timers
    MaxFaults,      \* failed calls and device events, bound
    None

VARIABLES
    gateway,    \* hasScene, digest, topology, priority; busyCard, busyDigest
    device,     \* the canvas and the timer on the device; "foreign" is not ours
    stream,     \* "down", "starting", "connected", "reconnecting"
    phase,      \* Runtime's phase: "connecting", "ready", "backoff"
    switched,   \* a selector event waits to be handled
    last,       \* the candidate of the last successful Render, or "unsettled"
    faults,
    ghost       \* unseen: the canvas changed and nobody was told; ambiguous: a
                \* failed call changed it; stray: a failed call started a timer;
                \* orphaned: a scene drawn after the selector turned was disowned for it

vars == <<gateway, device, stream, phase, switched, last, faults, ghost>>

Reset(g) == [g EXCEPT !.hasScene = FALSE, !.digest = None, !.topology = None, !.priority = 0]
ResetTimer(g) == [g EXCEPT !.busyCard = None, !.busyDigest = None]

Init ==
    /\ gateway = [hasScene |-> FALSE, digest |-> None, topology |-> None, priority |-> 0,
                  busyCard |-> None, busyDigest |-> None]
    /\ device = [canvas |-> None, timer |-> None]
    /\ stream = "down" /\ phase = "connecting" /\ switched = FALSE
    /\ last = "unsettled" /\ faults = 0
    /\ ghost = [unseen |-> FALSE, ambiguous |-> FALSE, stray |-> FALSE, orphaned |-> FALSE]

\* How a device call ends: refused before it took effect, or reported failed
\* after it did.  Runtime.currentClient refuses every call unless it is ready.
Ends == IF phase = "ready" THEN {"ok", "lost", "applied"} ELSE {"lost"}
Took(end) == end # "lost"
Charged(end) == IF end = "ok" \/ phase # "ready" THEN faults' = faults
                ELSE faults < MaxFaults /\ faults' = faults + 1

----------------------------------------------------------------------------
(* Parts of Render.  Each takes and gives a gateway and a device.            *)

\* stopOwnedBusyTimer: a timer that is not ours any more is forgotten.
StopTimer(g, d) ==
    IF g.busyCard = None THEN {[g |-> g, d |-> d, end |-> "ok"]}
    ELSE IF phase # "ready" THEN {[g |-> g, d |-> d, end |-> "lost"]}
    ELSE IF d.timer # g.busyCard THEN {[g |-> ResetTimer(g), d |-> d, end |-> "ok"], [g |-> g, d |-> d, end |-> "lost"]}
    ELSE {[g |-> IF e = "ok" THEN ResetTimer(g) ELSE g,
           d |-> IF Took(e) THEN [d EXCEPT !.timer = None] ELSE d, end |-> e] : e \in Ends}

\* The Clear call.
ClearCanvas(g, d) ==
    {[g |-> IF e = "ok" THEN Reset(g) ELSE g,
      d |-> IF Took(e) THEN [d EXCEPT !.canvas = None] ELSE d, end |-> e] : e \in Ends}

\* Clear before a structural change or a drop in priority.
MustClear(g, s) == g.hasScene /\ (s.topology # g.topology \/ s.priority < g.priority)

\* The Draw call: the canvas is owned from here on whatever comes of it, unless
\* the firmware refuses it for another application.
OwnedWhenDrawn(g, s, end) ==
    IF end = "ok" THEN [g EXCEPT !.hasScene = TRUE, !.digest = s.id, !.topology = s.topology, !.priority = s.priority] ELSE g
Owned(g, s, end) ==
    CASE end = "ok" -> [g EXCEPT !.hasScene = TRUE, !.digest = s.id, !.topology = s.topology, !.priority = s.priority]
      [] end = "conflict" -> ResetTimer(Reset(g))
      [] OTHER -> [g EXCEPT !.hasScene = TRUE]
DrawScene(g, d, s) ==
    {[g |-> Owned(g, s, e),
      d |-> IF e = "conflict" THEN [d EXCEPT !.canvas = None]
            ELSE IF Took(e) THEN [d EXCEPT !.canvas = s.id] ELSE d,
      end |-> e] : e \in Ends \cup (IF phase = "ready" THEN {"conflict"} ELSE {})}

\* renderBusyTimer after the canvas is cleared: read, write, read back.
StartTimer(g, d, t) ==
    {[g |-> g, d |-> d, end |-> "lost"],                                    \* a read failed
     [g |-> g, d |-> [d EXCEPT !.timer = t], end |-> "applied"],            \* the write failed
     [g |-> [g EXCEPT !.busyCard = t, !.busyDigest = None],
      d |-> [d EXCEPT !.timer = t], end |-> "unverified"],                  \* the read back did
     [g |-> [g EXCEPT !.busyCard = t, !.busyDigest = t], d |-> [d EXCEPT !.timer = t], end |-> "ok"]}

\* A step that follows another: it happens if that one succeeded.
Then(r, results) == IF r.end = "ok" THEN results ELSE {r}

----------------------------------------------------------------------------
(* Render                                                                   *)

\* A failed call changed the canvas behind the gateway's back.
Ambiguous(r) == ghost.ambiguous \/ (r.end # "ok" /\ r.d.canvas # device.canvas)

Settle(r, candidate) ==
    /\ gateway' = r.g /\ device' = r.d /\ Charged(r.end)
    /\ last' = IF r.end = "ok" THEN candidate ELSE "unsettled"
    /\ UNCHANGED <<stream, phase, switched>>

RenderNone ==
    /\ \E r1 \in StopTimer(gateway, device) :
       \E r \in Then(r1, IF r1.g.hasScene THEN ClearCanvas(r1.g, r1.d) ELSE {r1}) :
          Settle(r, None) /\ ghost' = [ghost EXCEPT !.ambiguous = r.g.hasScene /\ Ambiguous(r), !.orphaned = @ /\ r.d.canvas # None]

RenderScene(s) ==
    \E r1 \in StopTimer(gateway, device) :
      IF r1.end = "ok" /\ r1.g.hasScene /\ r1.g.digest = s.id
      THEN Settle(r1, s.id) /\ UNCHANGED ghost                              \* unchanged
      ELSE \E r2 \in Then(r1, IF MustClear(r1.g, s) THEN ClearCanvas(r1.g, r1.d) ELSE {r1}) :
           \E r \in Then(r2, DrawScene(r2.g, r2.d, s)) :
              /\ Settle(r, s.id)
              /\ ghost' = [ghost EXCEPT !.ambiguous = r.end # "ok" /\ r.g.hasScene /\ Ambiguous(r),
                                        !.orphaned = @ /\ r.d.canvas # None /\ ~r.g.hasScene,
                                        !.unseen = @ /\ r.end # "ok"]

RenderTimer(t) ==
    IF gateway.busyCard # None /\ gateway.busyDigest = t
    THEN Settle([g |-> gateway, d |-> device, end |-> "ok"], t) /\ UNCHANGED ghost
    ELSE \E r1 \in ClearCanvas(gateway, device) :
         \E r \in Then(r1, StartTimer(r1.g, r1.d, t)) :
            /\ Settle(r, t)
            /\ ghost' = [ghost EXCEPT !.ambiguous = r.g.hasScene /\ Ambiguous(r),
                                      !.orphaned = @ /\ r.d.canvas # None,
                                      !.stray = IF r.d.timer = r.g.busyCard THEN FALSE ELSE @ \/ r.d.timer = t]

----------------------------------------------------------------------------
(* The device and the stream                                                *)

DeviceEvent == faults < MaxFaults /\ faults' = faults + 1 /\ last' = "unsettled"

\* The selector closes the canvas; the event comes over the stream later.
SelectorTurned ==
    /\ DeviceEvent /\ stream = "connected" /\ ~switched /\ switched' = TRUE
    /\ device' = [device EXCEPT !.canvas = None]
    /\ ghost' = [ghost EXCEPT !.unseen = TRUE]
    /\ UNCHANGED <<gateway, stream, phase>>

\* Coordinator.Handle: the gateway forgets the canvas.
InvalidateCanvas ==
    /\ switched /\ switched' = FALSE
    /\ gateway' = Reset(gateway) /\ last' = "unsettled"
    /\ ghost' = [ghost EXCEPT !.unseen = FALSE, !.ambiguous = FALSE, !.orphaned = device.canvas # None]
    /\ UNCHANGED <<device, stream, phase, faults>>

\* Somebody starts or stops a timer on the device itself.
TimerTouched ==
    /\ DeviceEvent /\ \E t \in {None, "foreign"} : device' = [device EXCEPT !.timer = t]
    /\ ghost' = [ghost EXCEPT !.stray = FALSE]
    /\ UNCHANGED <<gateway, stream, phase, switched>>

\* The device restarts: its state is gone, and the stream breaks, for good or
\* with a reconnect of its own (LifecycleReconnecting).
Reboots ==
    /\ DeviceEvent
    /\ device' = [canvas |-> None, timer |-> None]
    /\ switched' = FALSE
    /\ ghost' = [ghost EXCEPT !.unseen = TRUE, !.stray = FALSE, !.orphaned = FALSE]
    /\ IF stream = "connected"
       THEN stream' \in {"down", "reconnecting"} /\ phase' = "backoff"
       ELSE UNCHANGED <<stream, phase>>
    /\ UNCHANGED gateway

\* StatusSubscriber.Run: a new stream.
StreamStarts ==
    /\ stream = "down" /\ stream' = "starting" /\ phase' = "connecting"
    /\ UNCHANGED <<gateway, device, switched, last, faults, ghost>>

StreamStartFails ==
    /\ stream = "starting" /\ stream' = "down" /\ phase' = "backoff"
    /\ UNCHANGED <<gateway, device, switched, last, faults, ghost>>

\* OnConnected, before the runtime hears of the connection: the gateway forgets
\* what it knows to be on the device, not what it owns.
Forgotten(g) == [g EXCEPT !.digest = None, !.busyDigest = None]
StreamConnects ==
    /\ stream = "starting" /\ stream' = "connected" /\ phase' = "ready"
    /\ gateway' = Forgotten(gateway) /\ last' = "unsettled"
    /\ ghost' = [ghost EXCEPT !.unseen = FALSE, !.ambiguous = FALSE]
    /\ UNCHANGED <<device, switched, faults>>

\* drain: the stream reconnected by itself; only the runtime's phase follows.
StreamResumes ==
    /\ stream = "reconnecting" /\ stream' \in {"connected", "down"}
    /\ phase' = IF stream' = "connected" THEN "ready" ELSE "backoff"
    /\ UNCHANGED <<gateway, device, switched, last, faults, ghost>>

Next ==
    \/ RenderNone \/ (\E s \in Scenes : RenderScene(s)) \/ (\E t \in Timers : RenderTimer(t))
    \/ SelectorTurned \/ InvalidateCanvas \/ TimerTouched \/ Reboots
    \/ StreamStarts \/ StreamStartFails \/ StreamConnects \/ StreamResumes

Spec == Init /\ [][Next]_vars

----------------------------------------------------------------------------
Ids == {s.id : s \in Scenes}

\* What the gateway reports as delivered is on the device, and nothing else of
\* ours is: after a failed call, a reconnect or a turn of the selector too.
\* Excepted are a canvas that changed without a notice yet, a draw or a
\* clear that took effect and was reported failed, a timer whose start was, and
\* a scene drawn between a turn of the selector and its handling.
DeliveredIsShown ==
    /\ last \in Ids /\ ~ghost.unseen /\ ~ghost.ambiguous => device.canvas = last
    /\ last = None /\ ~ghost.orphaned => device.canvas = None
    /\ last \in Timers => device.canvas = None
    /\ last \in Ids \cup {None} /\ ~ghost.stray => device.timer \notin Timers

\* gateway.go: a nil candidate clears the canvas.  Nothing of ours is left on it
\* once the gateway reported so.  It does not hold: see ghost.orphaned.
ClearedIsClear == last = None => device.canvas = None

\* gateway.go: a failed device call can still have changed the canvas.  A scene
\* reported as delivered is the one on the canvas all the same.  It does not hold
\* after such a failure: see DeliveredIsShown, and the README.
UnchangedIsShown == last \in Ids /\ ~ghost.unseen => device.canvas = last
=============================================================================
