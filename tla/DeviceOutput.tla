---------------------------- MODULE DeviceOutput -----------------------------
(***************************************************************************)
(* The serial owner of device calls (internal/device/output.go): callers are *)
(* admitted, put a command in a bounded queue and wait for its result or     *)
(* their own deadline; one worker runs the commands in order; Close refuses  *)
(* new callers, lets the ones being admitted finish and stops the worker     *)
(* behind everything already queued.                                         *)
(***************************************************************************)
EXTENDS Integers, Sequences, FiniteSets

CONSTANTS
    Callers,        \* goroutines that make device calls
    QueueSize,
    None

VARIABLES
    caller,     \* of each: "idle", "admitting", "waiting"
    queue,      \* commands: [caller, live] or the stop command
    worker,     \* the command running, Idle, or Stop once it has stopped
    closing,    \* Close was called
    stopper     \* coordinateShutdown: "off", "admissions", "queue", "done"

vars == <<caller, queue, worker, closing, stopper>>

Stop == [caller |-> None, live |-> FALSE]
Idle == [caller |-> None, live |-> TRUE]

Init ==
    /\ caller = [c \in Callers |-> "idle"]
    /\ queue = <<>> /\ worker = Idle /\ closing = FALSE /\ stopper = "off"

Admissions == {c \in Callers : caller[c] = "admitting"}

\* beginAdmission: refused once Close was called.
Begin(c) ==
    /\ caller[c] = "idle" /\ ~closing
    /\ caller' = [caller EXCEPT ![c] = "admitting"]
    /\ UNCHANGED <<queue, worker, closing, stopper>>

\* executeOperation: the command enters the queue,
Enqueue(c) ==
    /\ caller[c] = "admitting" /\ Len(queue) < QueueSize
    /\ queue' = Append(queue, [caller |-> c, live |-> TRUE])
    /\ caller' = [caller EXCEPT ![c] = "waiting"]
    /\ UNCHANGED <<worker, closing, stopper>>

\* or the caller gives up: the output is closing, or its context ended.
GiveUp(c) ==
    /\ caller[c] = "admitting"
    /\ caller' = [caller EXCEPT ![c] = "idle"]
    /\ UNCHANGED <<queue, worker, closing, stopper>>
Refused(c) == closing /\ GiveUp(c)
Deadline(c) == ~closing /\ GiveUp(c)

\* A caller stops waiting; its command is skipped if it was not begun.
Dead(command, c) == IF command.caller = c THEN [command EXCEPT !.live = FALSE] ELSE command
Abandon(c) ==
    /\ caller[c] = "waiting"
    /\ caller' = [caller EXCEPT ![c] = "idle"]
    /\ queue' = [i \in 1..Len(queue) |-> Dead(queue[i], c)]
    /\ worker' = Dead(worker, c)
    /\ UNCHANGED <<closing, stopper>>

\* run: the next command; the caller of a dead one is not waiting any more.
Take ==
    /\ worker = Idle /\ queue # <<>> /\ queue' = Tail(queue)
    /\ worker' = IF Head(queue) = Stop \/ Head(queue).live THEN Head(queue) ELSE Idle
    /\ UNCHANGED <<caller, closing, stopper>>

\* The call ends, at the latest with its timeout, and its caller is answered.
Answer ==
    /\ worker.caller # None /\ worker' = Idle
    /\ caller' = IF worker.live THEN [caller EXCEPT ![worker.caller] = "idle"] ELSE caller
    /\ UNCHANGED <<queue, closing, stopper>>

\* Close
Close ==
    /\ ~closing /\ closing' = TRUE /\ stopper' = "admissions"
    /\ UNCHANGED <<caller, queue, worker>>

\* coordinateShutdown: wait for the admissions, then for room in the queue.
WaitForNone == stopper = "admissions"
WaitForAdmissions == stopper = "admissions" /\ Admissions = {}
AdmissionsDone ==
    /\ WaitForAdmissions /\ stopper' = "queue"
    /\ UNCHANGED <<caller, queue, worker, closing>>
SendStop ==
    /\ stopper = "queue" /\ Len(queue) < QueueSize /\ stopper' = "done"
    /\ queue' = Append(queue, Stop)
    /\ UNCHANGED <<caller, worker, closing>>

Next == \/ Take \/ Answer \/ Close \/ AdmissionsDone \/ SendStop
        \/ \E c \in Callers : Begin(c) \/ Enqueue(c) \/ Refused(c) \/ Deadline(c) \/ Abandon(c)

\* The worker goes on, every call ends (CallTimeout), and a caller that is being
\* admitted is woken when the output closes.
Admitted(c) == Refused(c) \/ Enqueue(c)
Fairness == /\ WF_vars(Take) /\ WF_vars(Answer) /\ WF_vars(AdmissionsDone) /\ WF_vars(SendStop)
            /\ \A c \in Callers : WF_vars(Admitted(c))

Spec == Init /\ [][Next]_vars /\ Fairness

----------------------------------------------------------------------------
\* Close drains: a caller whose command was queued is answered before the worker
\* stops, so nobody is left waiting on a worker that is gone.
NobodyLeftWaiting == worker = Stop => queue = <<>> /\ \A c \in Callers : caller[c] # "waiting"

\* Close ends, whatever the callers do.
Closing == closing /\ worker # Stop
CloseEnds == Closing ~> ~Closing
=============================================================================
