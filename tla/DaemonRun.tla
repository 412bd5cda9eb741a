------------------------------ MODULE DaemonRun ------------------------------
(***************************************************************************)
(* The life of daemon processes on one machine (internal/daemonrun): each  *)
(* recovers the installer, takes the lease of the device (a file lock,     *)
(* internal/deviceownership), starts the device runtime and its output,    *)
(* loads the configuration, listens on the control socket and serves until *)
(* it is told to stop or a worker fails.  Every stage registers what       *)
(* undoes it, and the process unwinds in the opposite order, each phase    *)
(* within its time budget.  A process may be killed at any point, and      *)
(* another started while the first still unwinds.                          *)
(***************************************************************************)
EXTENDS Integers, Sequences

CONSTANTS Procs, MaxStarts, MaxFaults, None

DaemonAssumption == None \notin Procs

VARIABLES
    proc,     \* process -> its state
    lease,    \* the holder of the file lock, or None
    socket,   \* the process whose socket file is at the control path, or None
    starts, faults

vars == <<proc, lease, socket, starts, faults>>

(* stage; undo: what is still to be undone, the last first; inflight: a     *)
(* device operation is in progress; output: whether it admits operations;   *)
(* listening; peers, calls: control connections and running handlers;       *)
(* closing: the call tracker admits no more; plugins: children are running; *)
(* overran: the phases whose budget ran out.                                *)
Gone == [stage |-> "gone", undo |-> <<>>, inflight |-> FALSE, output |-> FALSE, listening |-> FALSE,
         peers |-> 0, calls |-> 0, closing |-> FALSE, plugins |-> FALSE, overran |-> {}]

Init ==
    /\ proc = [p \in Procs |-> Gone]
    /\ lease = None /\ socket = None
    /\ starts = 0 /\ faults = 0

----------------------------------------------------------------------------
At(p, stage) == proc[p].stage = stage
Fault == faults < MaxFaults /\ faults' = faults + 1

(* Each stage of run goes on to the next one or returns an error, which     *)
(* unwinds what has been registered so far.                                 *)
To(p, stage, undo) == [proc[p] EXCEPT !.stage = stage, !.undo = @ \o undo]
Unwind(p) == [proc EXCEPT ![p].stage = "unwind"]
Fails(p) == Fault /\ proc' = Unwind(p)

Start(p) ==
    /\ At(p, "gone") /\ starts < MaxStarts
    /\ starts' = starts + 1
    /\ proc' = [proc EXCEPT ![p] = [Gone EXCEPT !.stage = "recover"]]
    /\ UNCHANGED <<lease, socket, faults>>

(* recoverInstallerState and the load of the document, before the lease.    *)
Recover(p) ==
    /\ At(p, "recover")
    /\ \/ proc' = [proc EXCEPT ![p].stage = "own"] /\ UNCHANGED faults
       \/ Fails(p)
    /\ UNCHANGED <<lease, socket, starts>>

(* Acquire: the lock is taken at once or the daemon ends with a conflict.   *)
Lock(p) == lease = None /\ lease' = p
Acquire(p) ==
    /\ At(p, "own")
    /\ \/ Lock(p) /\ proc' = [proc EXCEPT ![p] = To(p, "device", <<"lease">>)] /\ UNCHANGED faults
       \/ lease # None /\ proc' = Unwind(p) /\ UNCHANGED <<lease, faults>>
       \/ Fails(p) /\ UNCHANGED lease
    /\ UNCHANGED <<socket, starts>>

OpenDevice(p) ==
    /\ At(p, "device")
    /\ \/ /\ proc' = [proc EXCEPT ![p] = [To(p, "load", <<"device", "logs", "service", "relays">>)
                                            EXCEPT !.output = TRUE]]
          /\ UNCHANGED faults
       \/ Fails(p)
    /\ UNCHANGED <<lease, socket, starts>>

(* reconciler.Load starts the plugins; it may fail half way.                *)
Load(p) ==
    /\ At(p, "load")
    /\ \/ proc' = [proc EXCEPT ![p].stage = "probe", ![p].plugins = TRUE] /\ UNCHANGED faults
       \/ Fault /\ proc' = [Unwind(p) EXCEPT ![p].plugins = TRUE]
    /\ UNCHANGED <<lease, socket, starts>>

(* Listen: removeStaleSocket asks whether anybody answers at the path and   *)
(* removes what it finds there otherwise; then the socket is bound.         *)
Answers(q) == q # None /\ proc[q].listening
Probe(p) ==
    /\ At(p, "probe")
    /\ proc' = IF Answers(socket) THEN Unwind(p) ELSE [proc EXCEPT ![p].stage = "bind"]
    /\ UNCHANGED <<lease, socket, starts, faults>>
Bind(p) ==
    /\ At(p, "bind")
    /\ \/ /\ proc' = [proc EXCEPT ![p].stage = "serve", ![p].listening = TRUE]
          /\ socket' = p /\ UNCHANGED faults
       \/ Fails(p) /\ UNCHANGED socket
    /\ UNCHANGED <<lease, starts>>

----------------------------------------------------------------------------
(* Device operations and control calls                                      *)
BeginOperation(p) ==
    /\ proc[p].output /\ ~proc[p].inflight
    /\ proc' = [proc EXCEPT ![p].inflight = TRUE]
    /\ UNCHANGED <<lease, socket, starts, faults>>
EndOperation(p) ==
    /\ proc[p].inflight
    /\ proc' = [proc EXCEPT ![p].inflight = FALSE]
    /\ UNCHANGED <<lease, socket, starts, faults>>

Connect(p) ==
    /\ proc[p].listening /\ At(p, "serve") /\ proc[p].peers = 0
    /\ proc' = [proc EXCEPT ![p].peers = 1]
    /\ UNCHANGED <<lease, socket, starts, faults>>

(* handle: a request read from the connection runs in a goroutine of its    *)
(* own, which the tracker admits or refuses.                                *)
BeginCall(p) ==
    /\ proc[p].peers = 1 /\ proc[p].calls = 0 /\ ~proc[p].closing
    /\ proc' = [proc EXCEPT ![p].calls = 1]
    /\ UNCHANGED <<lease, socket, starts, faults>>
EndCall(p) ==
    /\ proc[p].calls = 1
    /\ proc' = [proc EXCEPT ![p].calls = 0]
    /\ UNCHANGED <<lease, socket, starts, faults>>
Disconnect(p) ==
    /\ proc[p].peers = 1
    /\ proc' = [proc EXCEPT ![p].peers = 0]
    /\ UNCHANGED <<lease, socket, starts, faults>>

----------------------------------------------------------------------------
(* The end: told to stop, or the first of the six workers returned, the     *)
(* others are canceled and joined.  The server closes its listener and its  *)
(* connections, waits for them, then for the calls, and removes its own     *)
(* socket.                                                                  *)
Stop(p) ==
    /\ At(p, "serve")
    /\ proc' = [proc EXCEPT ![p].stage = "peers", ![p].listening = FALSE]
    /\ UNCHANGED <<lease, socket, starts, faults>>
JoinPeers(p) ==
    /\ At(p, "peers") /\ proc[p].peers = 0
    /\ proc' = [proc EXCEPT ![p].stage = "calls", ![p].closing = TRUE]
    /\ UNCHANGED <<lease, socket, starts, faults>>
JoinNone(p) ==
    /\ At(p, "calls")
    /\ socket' = IF socket = p THEN None ELSE socket
    /\ proc' = Unwind(p)
    /\ UNCHANGED <<lease, starts, faults>>
JoinCalls(p) ==
    /\ At(p, "calls") /\ proc[p].calls = 0
    /\ socket' = IF socket = p THEN None ELSE socket
    /\ proc' = Unwind(p)
    /\ UNCHANGED <<lease, starts, faults>>

(* The deferred functions.  reconciler.Close ends the plugins, and          *)
(* output.Close waits for the operations it admitted, or each runs out of   *)
(* its budget.                                                              *)
First(undo) == 1
Latest(undo) == Len(undo)
Undone(p) == [proc[p] EXCEPT !.undo = SubSeq(@, 1, Len(@) - 1)]
Overran(p, phase) == [Undone(p) EXCEPT !.overran = @ \cup {phase}]
Doing(p, phase) ==
    At(p, "unwind") /\ proc[p].undo # <<>> /\ proc[p].undo[Latest(proc[p].undo)] = phase

Simple(p) ==
    /\ \E phase \in {"relays", "logs"} : Doing(p, phase)
    /\ proc' = [proc EXCEPT ![p] = Undone(p)]
    /\ UNCHANGED <<lease, socket, starts, faults>>
CloseService(p) ==
    /\ Doing(p, "service")
    /\ \/ proc' = [proc EXCEPT ![p] = [Undone(p) EXCEPT !.plugins = FALSE]] /\ UNCHANGED faults
       \/ Fault /\ proc' = [proc EXCEPT ![p] = Overran(p, "service")]
    /\ UNCHANGED <<lease, socket, starts>>
(* shutdownDeviceWithBudgets                                                *)
CloseOutput(p) ==
    /\ Doing(p, "device") /\ proc[p].output
    /\ proc' = [proc EXCEPT ![p].output = FALSE]
    /\ UNCHANGED <<lease, socket, starts, faults>>
JoinOutput(p) ==
    /\ Doing(p, "device") /\ ~proc[p].output
    /\ \/ ~proc[p].inflight /\ proc' = [proc EXCEPT ![p] = Undone(p)] /\ UNCHANGED faults
       \/ proc[p].inflight /\ Fault /\ proc' = [proc EXCEPT ![p] = Overran(p, "device")]
    /\ UNCHANGED <<lease, socket, starts>>
Release(p) ==
    /\ Doing(p, "lease")
    /\ lease' = None
    /\ proc' = [proc EXCEPT ![p] = Undone(p)]
    /\ UNCHANGED <<socket, starts, faults>>
Exit(p) ==
    /\ At(p, "unwind") /\ proc[p].undo = <<>>
    /\ proc' = [proc EXCEPT ![p] = Gone]
    /\ UNCHANGED <<lease, socket, starts, faults>>

Killed(p) ==
    /\ ~At(p, "gone") /\ Fault
    /\ proc' = [proc EXCEPT ![p] = Gone]
    /\ lease' = IF lease = p THEN None ELSE lease
    /\ UNCHANGED <<socket, starts>>

Steps(p) ==
    \/ Recover(p) \/ Acquire(p) \/ OpenDevice(p) \/ Load(p) \/ Probe(p) \/ Bind(p)
    \/ JoinPeers(p) \/ JoinCalls(p)
    \/ Simple(p) \/ CloseService(p) \/ CloseOutput(p) \/ JoinOutput(p) \/ Release(p) \/ Exit(p)

Next ==
    \E p \in Procs :
       \/ Start(p) \/ Steps(p) \/ Stop(p) \/ Killed(p)
       \/ BeginOperation(p) \/ EndOperation(p)
       \/ Connect(p) \/ BeginCall(p) \/ EndCall(p) \/ Disconnect(p)

Spec == Init /\ [][Next]_vars

----------------------------------------------------------------------------
(* One daemon at a time: whoever has a device operation in progress, or may *)
(* begin one, holds the lease, so that daemons that overlap (the old one    *)
(* unwinding, the new one starting, one killed in between) never both drive *)
(* the display; a control call is never running in a daemon that has begun  *)
(* to take its components apart; a serving daemon is the one the socket     *)
(* leads to; and the lease is given up only after the plugins.  Except for  *)
(* what a phase left behind when its budget ran out.                        *)
DaemonExclusive ==
    \A p \in Procs :
       /\ proc[p].output \/ (proc[p].inflight /\ "device" \notin proc[p].overran) => lease = p
       /\ proc[p].plugins => lease = p \/ "service" \in proc[p].overran
       /\ At(p, "unwind") => proc[p].calls = 0
       /\ At(p, "serve") => socket = p
=============================================================================
