------------------------------ MODULE CodexPump -----------------------------
(***************************************************************************)
(* How the Codex plugin follows one thread of the app-server                *)
(* (plugins/codex/internal/appserver/session.go, manager.go, events.go, and *)
(* Apply of plugins/codex/reducer.go).  One stream carries answers and      *)
(* notifications.  The manager takes a snapshot of every loaded thread; the *)
(* event pump delivers snapshots and notifications to the worker, holding   *)
(* the notifications back while a snapshot is being taken.  Every buffer is *)
(* bounded, and each wait ends at the RPC timeout.                          *)
(***************************************************************************)
EXTENDS Integers, Sequences

CONSTANTS
    MaxVersion,     \* changes of the thread, bound
    MaxFaults,      \* connection losses, timeouts and stalls, bound
    EventBuffer, OutputBuffer, None

VARIABLES
    server,     \* the app-server: the thread's version, and whether we are subscribed
    wire,       \* what it has written and we have not read
    session,    \* the Session: open or not, and its events channel
    pump,       \* the event pump: its queue, holding, the command it works on
    mgr,        \* the Manager: what it is doing, whether the thread is attached
    output,     \* the channel to the worker
    reducer,    \* the worker's Reducer
    faults

vars == <<server, wire, session, pump, mgr, output, reducer, faults>>

NewPump == [queued |-> <<>>, holding |-> TRUE, command |-> None]

Init ==
    /\ server = [version |-> 0, subscribed |-> FALSE] /\ wire = <<>>
    /\ session = [open |-> FALSE, events |-> <<>>] /\ pump = NewPump
    /\ mgr = [pc |-> "connect", attached |-> FALSE, snapshot |-> None]
    /\ output = <<>> /\ faults = 0
    /\ reducer = [connected |-> FALSE, awaiting |-> FALSE, thread |-> None]

----------------------------------------------------------------------------
(* The app-server, from how it is used: it answers calls, and notifies of   *)
(* every change of a thread that was resumed.                               *)

Changes ==
    /\ server.version < MaxVersion
    /\ server' = [server EXCEPT !.version = @ + 1]
    /\ wire' = IF server.subscribed THEN Append(wire, [kind |-> "note", v |-> server.version + 1]) ELSE wire
    /\ UNCHANGED <<session, pump, mgr, output, reducer, faults>>

Answers ==
    /\ \/ /\ mgr.pc = "list" /\ UNCHANGED server
          /\ wire' = Append(wire, [kind |-> "listed", v |-> 0]) /\ mgr' = [mgr EXCEPT !.pc = "listing"]
       \/ /\ mgr.pc = "resume" /\ server' = [server EXCEPT !.subscribed = TRUE]
          /\ wire' = Append(wire, [kind |-> "resumed", v |-> server.version])
          /\ mgr' = [mgr EXCEPT !.pc = "resuming"]
    /\ session.open /\ UNCHANGED <<session, pump, output, reducer, faults>>

----------------------------------------------------------------------------
(* Session                                                                  *)

\* handleLine: a notification waits for room in the channel; an answer goes
\* to its caller, or nowhere if the caller has given up.
ReadLine ==
    /\ session.open /\ wire # <<>> /\ wire' = Tail(wire)
    /\ LET m == Head(wire)
       IN \/ /\ m.kind = "note" /\ Len(session.events) < EventBuffer
             /\ session' = [session EXCEPT !.events = Append(@, m.v)] /\ UNCHANGED mgr
          \/ /\ m.kind = "listed" /\ UNCHANGED session
             /\ mgr' = [mgr EXCEPT !.pc = IF mgr.attached THEN "reconciled" ELSE "resume"]
          \/ m.kind = "late" /\ UNCHANGED <<session, mgr>>
          \/ /\ m.kind = "resumed" /\ UNCHANGED session
             /\ mgr' = [mgr EXCEPT !.pc = "attached", !.attached = TRUE, !.snapshot = m.v]
    /\ UNCHANGED <<server, pump, output, reducer, faults>>

\* finish: the stream is closed; the pump and every call under way end.
Finish ==
    /\ session' = [open |-> FALSE, events |-> <<>>] /\ wire' = <<>> /\ pump' = NewPump
    /\ server' = [server EXCEPT !.subscribed = FALSE]
    /\ mgr' = [pc |-> "lost", attached |-> FALSE, snapshot |-> None]

----------------------------------------------------------------------------
(* The event pump                                                           *)

\* What it would deliver next: a snapshot first, then what was held back.
NextUnheld ==
    IF pump.command # None /\ pump.command.kind = "emit" THEN <<pump.command.event>>
    ELSE IF pump.queued # <<>> THEN <<[kind |-> "note", v |-> Head(pump.queued)]>> ELSE <<>>
NextOut ==
    IF pump.command # None /\ pump.command.kind = "emit" THEN <<pump.command.event>>
    ELSE IF ~pump.holding /\ pump.queued # <<>>
    THEN <<[kind |-> "note", v |-> Head(pump.queued)]>> ELSE <<>>

PumpIn ==
    /\ session.open /\ session.events # <<>> /\ Len(pump.queued) < EventBuffer
    /\ pump' = [pump EXCEPT !.queued = Append(@, Head(session.events))]
    /\ session' = [session EXCEPT !.events = Tail(@)]
    /\ UNCHANGED <<server, wire, mgr, output, reducer, faults>>

PumpOut ==
    /\ session.open /\ NextOut # <<>> /\ Len(output) < OutputBuffer
    /\ output' = Append(output, NextOut[1])
    /\ pump' = IF pump.command # None /\ pump.command.kind = "emit" THEN [pump EXCEPT !.command = None]
               ELSE [pump EXCEPT !.queued = Tail(@)]
    /\ UNCHANGED <<server, wire, session, mgr, reducer, faults>>

\* The worker has not taken an event for the whole RPC timeout.
Stalled ==
    /\ session.open /\ NextOut # <<>> /\ Len(output) = OutputBuffer
    /\ faults < MaxFaults /\ faults' = faults + 1
    /\ Finish /\ UNCHANGED <<output, reducer>>

\* A finished phase is acknowledged once nothing that was held back is left.
PumpDrained ==
    /\ pump.command # None /\ pump.command.kind = "end" /\ pump.queued = <<>> /\ session.events = <<>>
    /\ pump' = [pump EXCEPT !.command = None]
    /\ UNCHANGED <<server, wire, session, mgr, output, reducer, faults>>

----------------------------------------------------------------------------
(* The Manager                                                              *)

\* sendManagerEvent and the pump's emit command.
Emit(event, next) ==
    /\ pump.command = None
    /\ pump' = [pump EXCEPT !.command = [kind |-> "emit", event |-> event]]
    /\ mgr' = [mgr EXCEPT !.pc = next]

Connect ==
    /\ mgr.pc = "connect" /\ Len(output) < OutputBuffer
    /\ session' = [open |-> TRUE, events |-> <<>>] /\ pump' = NewPump
    /\ output' = Append(output, [kind |-> "connected", v |-> 0])
    /\ mgr' = [mgr EXCEPT !.pc = "begin"]
    /\ UNCHANGED <<server, wire, reducer, faults>>

\* phase: begin, the calls of reconcile with their snapshots, end.
Phase ==
    /\ session.open
    /\ \/ /\ mgr.pc = "begin" /\ pump.command = None
          /\ pump' = [pump EXCEPT !.holding = TRUE] /\ mgr' = [mgr EXCEPT !.pc = "list"]
       \/ /\ mgr.pc = "attached" /\ Emit([kind |-> "attached", v |-> mgr.snapshot], "reconciled")
       \/ /\ mgr.pc = "reconciled" /\ Emit([kind |-> "reconciled", v |-> 0], "end")
       \/ /\ mgr.pc = "end" /\ pump.command = None
          /\ pump' = [pump EXCEPT !.holding = FALSE, !.command = [kind |-> "end"]]
          /\ mgr' = [mgr EXCEPT !.pc = "ending"]
       \/ mgr.pc = "ending" /\ pump.command = None /\ mgr' = [mgr EXCEPT !.pc = "poll"] /\ UNCHANGED pump
       \/ mgr.pc = "poll" /\ mgr' = [mgr EXCEPT !.pc = "begin"] /\ UNCHANGED pump
    /\ UNCHANGED <<server, wire, session, output, reducer, faults>>

\* A call times out.  The list, and any command of the pump, take the
\* connection with them; a thread that could not be resumed is tried again at
\* the next poll; its answer is ignored when it comes.
Blocked == wire # <<>> /\ Head(wire).kind = "note" /\ Len(session.events) = EventBuffer
                       /\ Len(pump.queued) = EventBuffer
TimesOut(stuck) ==
    /\ session.open /\ UNCHANGED <<output, reducer>>
    /\ faults' = (IF stuck THEN faults ELSE faults + 1) /\ (stuck \/ faults < MaxFaults)
    /\ \/ mgr.pc \in {"list", "listing", "ending"} /\ Finish
       \/ /\ mgr.pc \in {"resume", "resuming"} /\ mgr' = [mgr EXCEPT !.pc = "reconciled"]
          /\ wire' = [i \in DOMAIN wire |-> IF wire[i].kind = "resumed" THEN [wire[i] EXCEPT !.kind = "late"]
                                            ELSE wire[i]]
          /\ server' \in {server, [server EXCEPT !.subscribed = TRUE]} /\ UNCHANGED <<session, pump>>

StuckTimesOut == Blocked /\ TimesOut(TRUE)

\* The stream ends for any other reason.
Drops ==
    /\ session.open /\ faults < MaxFaults /\ faults' = faults + 1
    /\ Finish /\ UNCHANGED <<output, reducer>>

Disconnected ==
    /\ mgr.pc = "lost" /\ Len(output) < OutputBuffer
    /\ output' = Append(output, [kind |-> "disconnected", v |-> 0])
    /\ mgr' = [mgr EXCEPT !.pc = "connect"]
    /\ UNCHANGED <<server, wire, session, pump, reducer, faults>>

----------------------------------------------------------------------------
(* The worker                                                               *)

\* Apply.  After a long absence what is known of the threads is dropped, and
\* nothing is shown before the next reconciliation.
Apply(r, e, late) ==
    CASE e.kind = "connected" -> [connected |-> TRUE, awaiting |-> late,
                                  thread |-> IF late THEN None ELSE r.thread]
      [] e.kind = "disconnected" -> [r EXCEPT !.connected = FALSE, !.awaiting = FALSE]
      [] e.kind = "reconciled" -> [r EXCEPT !.awaiting = FALSE]
      [] e.kind \in {"attached", "note"} -> [r EXCEPT !.thread = e.v]

Work ==
    /\ output # <<>> /\ output' = Tail(output)
    /\ \E late \in BOOLEAN : reducer' = Apply(reducer, Head(output), late)
    /\ UNCHANGED <<server, wire, session, pump, mgr, faults>>

Next ==
    \/ Changes \/ Answers \/ ReadLine \/ PumpIn \/ PumpOut \/ Stalled \/ PumpDrained
    \/ Connect \/ Phase \/ StuckTimesOut \/ TimesOut(FALSE) \/ Drops
    \/ Disconnected \/ Work

\* Every goroutine runs, the app-server answers, and a call that cannot be
\* answered times out.
Fairness ==
    /\ WF_vars(Answers) /\ WF_vars(ReadLine) /\ WF_vars(PumpIn) /\ WF_vars(PumpOut)
    /\ WF_vars(PumpDrained) /\ WF_vars(Connect) /\ WF_vars(Phase) /\ WF_vars(StuckTimesOut)
    /\ WF_vars(Disconnected) /\ WF_vars(Work)

Spec == Init /\ [][Next]_vars /\ Fairness

\* The plugin catches up: once the thread stops changing and the connection
\* stops failing, the worker shows its last version for good.  No snapshot
\* overwrites newer news, and full buffers never leave everyone waiting.
CaughtUp == reducer.connected /\ ~reducer.awaiting /\ reducer.thread = server.version
CatchesUp == <>[]CaughtUp
=============================================================================
