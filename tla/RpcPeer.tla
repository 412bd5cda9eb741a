------------------------------- MODULE RpcPeer -------------------------------
(***************************************************************************)
(* The calling side of one JSON-RPC connection (sdk/rpc/call.go, writer.go, *)
(* dispatch.go, lifecycle.go), with a remote that answers each request it   *)
(* receives at most once.  Callers, the writer goroutine, the reader and    *)
(* whoever ends the connection interleave at every channel operation.       *)
(***************************************************************************)
EXTENDS Integers, Sequences

CONSTANTS Callers, QueueCapacity, MaxID, None

PeerAssumption == None \notin Callers /\ "idle" \notin Callers /\ "stopped" \notin Callers

VARIABLES
    calls,      \* each caller's call: where it is, its id and its result
    gate,       \* callGate: the caller that is writing its request
    nextID, highestWrittenID,
    pending,    \* ids whose caller waits for a response
    writes,     \* the outbound queue
    writer,     \* "idle", "stopped", or the caller whose request is written
    done, open, \* Peer.done is closed; the socket is still open
    remote,     \* ids the remote has received, executed and answered
    condemned,  \* the peer ended over a response it did not expect
    raced       \* ghost: callers that saw the end of the peer with a queued request

vars == <<calls, gate, nextID, highestWrittenID, pending, writes, writer, done, open, remote,
          condemned, raced>>

Idle == [step |-> "idle", id |-> 0, ctx |-> FALSE, write |-> "none", result |-> "none",
         response |-> FALSE, sent |-> FALSE, outcome |-> "none"]

Init ==
    /\ calls = [c \in Callers |-> Idle] /\ gate = None
    /\ nextID = 0 /\ highestWrittenID = 0 /\ pending = {} /\ writes = <<>> /\ writer = "idle"
    /\ done = FALSE /\ open = TRUE
    /\ remote = [received |-> {}, executed |-> {}, answered |-> {}]
    /\ condemned = FALSE /\ raced = {}

Set(c, r) == calls' = [calls EXCEPT ![c] = r]

\* The call returns before or without its write: the id is given back.
Failed(c, outcome) ==
    /\ Set(c, [calls[c] EXCEPT !.step = "returned", !.outcome = outcome])
    /\ pending' = pending \ {calls[c].id} /\ nextID' = calls[c].id - 1 /\ gate' = None

\* Call takes the gate, an id and a place among the pending calls; write
\* finds the connection open.
Enter(c) ==
    /\ calls[c].step = "idle" /\ gate = None /\ ~done /\ nextID < MaxID
    /\ gate' = c /\ nextID' = nextID + 1 /\ pending' = pending \cup {nextID + 1}
    /\ Set(c, [calls[c] EXCEPT !.step = "enqueue", !.id = nextID + 1])
    /\ UNCHANGED <<highestWrittenID, writes, writer, done, open, remote, condemned, raced>>

\* The context of the call ends.
Cancel(c) ==
    /\ calls[c].step \in {"enqueue", "queued", "waiting"} /\ ~calls[c].ctx
    /\ Set(c, [calls[c] EXCEPT !.ctx = TRUE])
    /\ UNCHANGED <<gate, nextID, highestWrittenID, pending, writes, writer, done, open, remote,
                   condemned, raced>>

\* write, the send to the queue.  A select whose cases are all ready takes
\* any of them, so the send may win over a connection that just ended.
Enqueue(c) ==
    /\ calls[c].step = "enqueue" /\ Len(writes) < QueueCapacity
    /\ writes' = Append(writes, c)
    /\ Set(c, [calls[c] EXCEPT !.step = "queued", !.write = "queued"])
    /\ UNCHANGED <<gate, nextID, highestWrittenID, pending, writer, done, open, remote, condemned,
                   raced>>

NotEnqueued(c) ==
    /\ calls[c].step = "enqueue" /\ (calls[c].ctx \/ done) /\ Failed(c, "failed")
    /\ UNCHANGED <<highestWrittenID, writes, writer, done, open, remote, condemned, raced>>

\* writer takes a request, unless the caller cancelled it while it was queued.
WriterTakes ==
    /\ writer = "idle" /\ writes # <<>>
    /\ writes' = Tail(writes)
    /\ LET c == Head(writes)
       IN IF calls[c].write = "queued"
          THEN writer' = c /\ Set(c, [calls[c] EXCEPT !.write = "started"])
          ELSE UNCHANGED <<writer, calls>>
    /\ UNCHANGED <<gate, nextID, highestWrittenID, pending, done, open, remote, condemned, raced>>

WriterStops ==
    /\ writer = "idle" /\ done /\ writer' = "stopped"
    /\ UNCHANGED <<calls, gate, nextID, highestWrittenID, pending, writes, done, open, remote,
                   condemned, raced>>

\* writeData: all of the request, part of it, or nothing reaches the socket;
\* after any error the peer is finished.
Writes ==
    /\ writer \in Callers
    /\ LET c == writer
       IN \/ /\ open
             /\ remote' = [remote EXCEPT !.received = @ \cup {calls[c].id}]
             /\ \/ /\ Set(c, [calls[c] EXCEPT !.result = "ok", !.sent = TRUE])
                   /\ writer' = "idle" /\ UNCHANGED done
                \/ /\ Set(c, [calls[c] EXCEPT !.result = "unknown", !.sent = TRUE])
                   /\ writer' = "stopped" /\ done' = TRUE
          \/ /\ \E result \in IF open THEN {"unknown", "failed"} ELSE {"failed"} :
                    Set(c, [calls[c] EXCEPT !.result = result])
             /\ writer' = "stopped" /\ done' = TRUE /\ UNCHANGED remote
    /\ UNCHANGED <<gate, nextID, highestWrittenID, pending, writes, open, condemned, raced>>

\* write returns nil: the id is now among the written ones.
Written(c) ==
    /\ calls[c].step = "queued" /\ calls[c].result = "ok"
    /\ Set(c, [calls[c] EXCEPT !.step = "waiting"])
    /\ highestWrittenID' = calls[c].id /\ gate' = None
    /\ UNCHANGED <<nextID, pending, writes, writer, done, open, remote, condemned, raced>>

WriteFails(c) ==
    /\ calls[c].step = "queued" /\ calls[c].result \in {"failed", "unknown"}
    /\ Failed(c, calls[c].result)
    /\ UNCHANGED <<highestWrittenID, writes, writer, done, open, remote, condemned, raced>>

\* The context ends while the request is queued: the compare-and-swap decides
\* between this and the writer.
CancelQueuedAnyway(c) ==
    /\ calls[c].step = "queued" /\ calls[c].ctx /\ Failed(c, "failed") /\ done' = TRUE
    /\ UNCHANGED <<highestWrittenID, writes, writer, open, remote, condemned, raced>>

CancelQueued(c) ==
    /\ calls[c].step = "queued" /\ calls[c].ctx /\ calls[c].write = "queued"
    /\ pending' = pending \ {calls[c].id} /\ nextID' = calls[c].id - 1 /\ gate' = None
    /\ Set(c, [calls[c] EXCEPT !.step = "returned", !.outcome = "failed", !.write = "canceled"])
    /\ done' = TRUE
    /\ UNCHANGED <<highestWrittenID, writes, writer, open, remote, condemned, raced>>

\* writeOutcome: the connection ended before the writer reported.
WriteInterrupted(c) ==
    /\ calls[c].step = "queued" /\ done
    /\ Failed(c, IF calls[c].write = "started" THEN "unknown" ELSE "failed")
    /\ raced' = IF calls[c].write = "queued" THEN raced \cup {c} ELSE raced
    /\ UNCHANGED <<highestWrittenID, writes, writer, done, open, remote, condemned>>

\* Call, the wait: a response, the context (rpc.cancel is sent, and a failure
\* to send it ends the peer), or the end of the connection.
Responds(c) ==
    /\ calls[c].step = "waiting" /\ calls[c].response
    /\ Set(c, [calls[c] EXCEPT !.step = "returned", !.outcome = "response"])
    /\ pending' = pending \ {calls[c].id}
    /\ UNCHANGED <<gate, nextID, highestWrittenID, writes, writer, done, open, remote, condemned, raced>>

GivesUp(c) ==
    /\ calls[c].step = "waiting" /\ (calls[c].ctx \/ done)
    /\ Set(c, [calls[c] EXCEPT !.step = "returned", !.outcome = "unknown"])
    /\ pending' = pending \ {calls[c].id}
    /\ done' \in {done, done \/ calls[c].ctx}
    /\ UNCHANGED <<gate, nextID, highestWrittenID, writes, writer, open, remote, condemned, raced>>

\* A caller that has returned calls again.
Again(c) ==
    /\ calls[c].step = "returned" /\ ~done
    /\ c \notin {writes[i] : i \in DOMAIN writes} \cup {writer}
    /\ Set(c, Idle)
    /\ UNCHANGED <<gate, nextID, highestWrittenID, pending, writes, writer, done, open, remote,
                   condemned, raced>>

----------------------------------------------------------------------------
(* The remote, the reader and the end                                       *)

\* The remote executes what it received, in any order, and answers it.
Executes(i) ==
    /\ i \in remote.received \ remote.executed
    /\ remote' = [remote EXCEPT !.executed = @ \cup {i}]
    /\ UNCHANGED <<calls, gate, nextID, highestWrittenID, pending, writes, writer, done, open,
                   condemned, raced>>

\* deliver: the response of a pending call is handed to it, once; the late one
\* of a call that gave up is ignored; any other is a protocol violation.
IgnoresNothing(i) == FALSE
Ignored(i) == i <= highestWrittenID

Delivers(i) ==
    /\ ~done /\ i \in remote.executed \ remote.answered
    /\ remote' = [remote EXCEPT !.answered = @ \cup {i}]
    /\ IF i \in pending
       THEN /\ \E c \in Callers : calls[c].id = i /\ calls[c].step # "returned"
                                  /\ Set(c, [calls[c] EXCEPT !.response = TRUE])
            /\ UNCHANGED <<done, condemned>>
       ELSE /\ condemned' = ~Ignored(i) /\ done' = ~Ignored(i) /\ UNCHANGED calls
    /\ UNCHANGED <<gate, nextID, highestWrittenID, pending, writes, writer, open, raced>>

\* finish closes done before it closes the socket.
Finishes ==
    /\ \/ ~done /\ done' = TRUE /\ UNCHANGED open
       \/ done /\ open /\ open' = FALSE /\ UNCHANGED done
    /\ UNCHANGED <<calls, gate, nextID, highestWrittenID, pending, writes, writer, remote, condemned,
                   raced>>

----------------------------------------------------------------------------
Calling(c) ==
    \/ Enter(c) \/ Enqueue(c) \/ NotEnqueued(c) \/ Written(c) \/ WriteFails(c) \/ CancelQueued(c)
    \/ WriteInterrupted(c) \/ Responds(c) \/ GivesUp(c)
Next ==
    \/ \E c \in Callers : Calling(c) \/ Cancel(c) \/ Again(c)
    \/ WriterTakes \/ WriterStops \/ Writes \/ Finishes
    \/ \E i \in 1 .. MaxID : Executes(i) \/ Delivers(i)

Spec == Init /\ [][Next]_vars

\* A call that fails without ErrOutcomeUnknown and without a response did
\* not reach the remote; the supervisor retries on that.  The one exception
\* is a request still queued when the peer ends for another reason: the writer
\* may take it after its caller gave it up (finish closes done before the
\* socket), and the connection is lost with it.
FailureIsDefinite ==
    \A c \in Callers :
        calls[c].outcome = "failed" /\ calls[c].sent => c \in raced

\* A remote that answers each request once is never taken for a faulty one,
\* however late its answers are and whoever gave up on them.
LateAnswersTolerated == ~condemned

\* What a caller may conclude from the outcome of its call, and the peer from
\* the responses it reads.
CallsDefinite == FailureIsDefinite /\ LateAnswersTolerated
=============================================================================
