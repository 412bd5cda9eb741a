---------------------------- MODULE RpcPeerProofs ----------------------------
(***************************************************************************)
(* Proofs about RpcPeer, for every set of callers, every queue capacity and *)
(* every number of requests.                                                *)
(***************************************************************************)
EXTENDS RpcPeer, TLAPS

Steps == {"idle", "enqueue", "queued", "waiting", "returned"}
WriteStates == {"none", "queued", "started", "canceled"}
Results == {"none", "ok", "failed", "unknown"}
Outcomes == {"none", "failed", "unknown", "response"}
Flag == BOOLEAN
Ids == Int

Call == [step : Steps, id : Ids, ctx : Flag, write : WriteStates, result : Results,
         response : Flag, sent : Flag, outcome : Outcomes]

Queued(c) == \E i \in DOMAIN writes : writes[i] = c

TypeOK ==
    /\ calls \in [Callers -> Call]
    /\ gate \in Callers \cup {None}
    /\ nextID \in Ids /\ highestWrittenID \in Ids
    /\ writes \in Seq(Callers)
    /\ writer \in Callers \cup {"idle", "stopped"}
    /\ remote.executed \subseteq remote.received /\ remote.received \subseteq Ids
    /\ remote = [received |-> remote.received, executed |-> remote.executed,
                 answered |-> remote.answered]

(* Nobody is queued twice.                                                   *)
QueuedOnce == \A i, j \in DOMAIN writes : writes[i] = writes[j] => i = j

(* The write of a request: it is sent only by the writer, which takes it     *)
(* from the queue and only while its caller has not taken it back.           *)
WriteInv(c) ==
    /\ calls[c].step \in {"idle", "enqueue"} => calls[c].write = "none"
    /\ calls[c].step = "queued" => calls[c].write \in {"queued", "started"}
    /\ Queued(c) => calls[c].write \in {"queued", "canceled"}
    /\ writer = c => calls[c].write = "started" /\ calls[c].result = "none"
    /\ calls[c].write # "started" => calls[c].result = "none"
    /\ calls[c].result \in {"none", "failed"} => ~calls[c].sent
    /\ calls[c].result \in {"failed", "unknown"} => done

(* A definite failure can no longer be sent.                                 *)
OutcomeInv(c) ==
    calls[c].outcome = "failed" =>
        /\ calls[c].step = "returned"
        /\ \/ c \in raced
           \/ ~calls[c].sent /\ writer # c /\ (Queued(c) => calls[c].write = "canceled")

(* While the peer lives, the caller at the gate has the one id above the     *)
(* highest that was written.                                                 *)
GateInv(c) ==
    /\ gate = c => /\ calls[c].id = nextID /\ nextID = highestWrittenID + 1
                   /\ calls[c].id \in pending /\ calls[c].step \in {"enqueue", "queued"}
    /\ calls[c].step \in {"enqueue", "queued"} => gate = c
    /\ Queued(c) \/ writer = c => calls[c].step = "queued"
    /\ calls[c].step = "waiting" => calls[c].id <= highestWrittenID

(* ... and the remote has received no other above it.                        *)
Received ==
    \A i \in remote.received :
        \/ i <= highestWrittenID
        \/ \E c \in Callers : gate = c /\ calls[c].id = i /\ calls[c].result = "ok"

Alive ==
    /\ gate = None => nextID = highestWrittenID
    /\ \A c \in Callers : GateInv(c)
    /\ Received

PeerInv ==
    /\ TypeOK /\ QueuedOnce /\ ~condemned
    /\ \A c \in Callers : WriteInv(c) /\ OutcomeInv(c)
    /\ ~done => Alive

----------------------------------------------------------------------------
(* The queue of the writer                                                   *)

LEMMA AppendOnce ==
    ASSUME NEW s \in Seq(Callers), NEW c \in Callers
    PROVE  /\ Append(s, c) \in Seq(Callers)
           /\ \A d \in Callers : (\E i \in DOMAIN Append(s, c) : Append(s, c)[i] = d)
                                  <=> (\E i \in DOMAIN s : s[i] = d) \/ d = c
           /\ /\ \A i, j \in DOMAIN s : s[i] = s[j] => i = j
              /\ ~\E i \in DOMAIN s : s[i] = c
              => \A i, j \in DOMAIN Append(s, c) : Append(s, c)[i] = Append(s, c)[j] => i = j
<1>. DEFINE t == Append(s, c)  n == Len(s)
<1>1. n \in Nat /\ DOMAIN s = 1 .. n
  OBVIOUS
<1>2. t \in Seq(Callers) /\ DOMAIN t = 1 .. n + 1 /\ t[n + 1] = c /\ \A i \in 1 .. n : t[i] = s[i]
  OBVIOUS
<1>. HIDE DEF t, n
<1>3. ASSUME NEW d \in Callers
      PROVE  (\E i \in DOMAIN t : t[i] = d) <=> (\E i \in DOMAIN s : s[i] = d) \/ d = c
  BY <1>1, <1>2
<1>4. ASSUME \A i, j \in DOMAIN s : s[i] = s[j] => i = j, ~\E i \in DOMAIN s : s[i] = c
      PROVE  \A i, j \in DOMAIN t : t[i] = t[j] => i = j
  BY <1>1, <1>2, <1>4
<1>. QED
  BY Zenon, <1>2, <1>3, <1>4 DEF t

LEMMA TailOnce ==
    ASSUME NEW s \in Seq(Callers), s # <<>>, \A i, j \in DOMAIN s : s[i] = s[j] => i = j
    PROVE  /\ Tail(s) \in Seq(Callers) /\ Head(s) \in Callers
           /\ \E i \in DOMAIN s : s[i] = Head(s)
           /\ \A d \in Callers : (\E i \in DOMAIN Tail(s) : Tail(s)[i] = d)
                                  <=> (\E i \in DOMAIN s : s[i] = d) /\ d # Head(s)
           /\ \A i, j \in DOMAIN Tail(s) : Tail(s)[i] = Tail(s)[j] => i = j
<1>. DEFINE t == Tail(s)  h == Head(s)  n == Len(s)
<1>1. n \in Nat /\ n > 0 /\ DOMAIN s = 1 .. n /\ h = s[1] /\ h \in Callers
  OBVIOUS
<1>2. t \in Seq(Callers) /\ DOMAIN t = 1 .. n - 1 /\ \A i \in 1 .. n - 1 : t[i] = s[i + 1]
  OBVIOUS
<1>. HIDE DEF t, h, n
<1>3. ASSUME NEW d \in Callers
      PROVE  (\E i \in DOMAIN t : t[i] = d) <=> (\E i \in DOMAIN s : s[i] = d) /\ d # h
  <2>1. ASSUME NEW i \in DOMAIN t, t[i] = d
        PROVE  (\E j \in DOMAIN s : s[j] = d) /\ d # h
    <3>1. i + 1 \in DOMAIN s /\ s[i + 1] = d /\ 1 \in DOMAIN s /\ i + 1 # 1
      BY <1>1, <1>2, <2>1
    <3>. QED
      BY <1>1, <3>1
  <2>2. ASSUME NEW i \in DOMAIN s, s[i] = d, d # h
        PROVE  \E j \in DOMAIN t : t[j] = d
    <3>1. i - 1 \in DOMAIN t /\ t[i - 1] = d
      BY <1>1, <1>2, <2>2
    <3>. QED
      BY <3>1
  <2>. QED
    BY <2>1, <2>2
<1>4. ASSUME NEW i \in DOMAIN t, NEW j \in DOMAIN t, t[i] = t[j]
      PROVE  i = j
  <2>1. i + 1 \in DOMAIN s /\ j + 1 \in DOMAIN s /\ s[i + 1] = s[j + 1] /\ i \in Int /\ j \in Int
    BY <1>1, <1>2, <1>4
  <2>2. i + 1 = j + 1
    BY <2>1
  <2>. QED
    BY <2>1, <2>2
<1>5. \E i \in DOMAIN s : s[i] = h
  BY <1>1
<1>. QED
  BY <1>1, <1>2, <1>3, <1>4, <1>5 DEF t, h

LEMMA SetCall ==
    ASSUME TypeOK, NEW c \in Callers, NEW r \in Call, Set(c, r)
    PROVE  /\ calls' \in [Callers -> Call] /\ calls'[c] = r
           /\ \A d \in Callers \ {c} : calls'[d] = calls[d]
BY DEF TypeOK, Set

LEMMA Typed ==
    /\ TRUE \in Flag /\ FALSE \in Flag
    /\ "enqueue" \in Steps /\ "queued" \in Steps /\ "waiting" \in Steps /\ "returned" \in Steps
    /\ "queued" \in WriteStates /\ "started" \in WriteStates /\ "canceled" \in WriteStates
    /\ "ok" \in Results /\ "failed" \in Results /\ "unknown" \in Results
    /\ "failed" \in Outcomes /\ "unknown" \in Outcomes /\ "response" \in Outcomes
    /\ \A i, j \in Ids : i + 1 \in Ids /\ i - 1 \in Ids
BY DEF Flag, Steps, WriteStates, Results, Outcomes, Ids

LEMMA IdleTyped == Idle \in Call
<1>1. /\ "idle" \in Steps /\ 0 \in Ids /\ FALSE \in Flag /\ "none" \in WriteStates
      /\ "none" \in Results /\ "none" \in Outcomes
  BY DEF Steps, Ids, Flag, WriteStates, Results, Outcomes
<1>. QED
  BY Zenon, <1>1 DEF Idle, Call

LEMMA PeerInit == PeerAssumption /\ Init => PeerInv
<1>. SUFFICES ASSUME PeerAssumption, Init PROVE PeerInv
  OBVIOUS
<1>1. calls \in [Callers -> Call]
  BY IdleTyped DEF Init
<1>2. TypeOK
  <2>1. writes \in Seq(Callers)
    BY DEF Init
  <2>3. nextID \in Ids /\ highestWrittenID \in Ids
    BY DEF Init, Ids
  <2>2. remote.received = {} /\ remote.executed = {} /\ remote.answered = {}
    BY DEF Init
  <2>. QED
    BY <1>1, <2>1, <2>2, <2>3 DEF Init, TypeOK
<1>3. \A c \in Callers : calls[c] = Idle /\ writer # c /\ gate # c
  BY Zenon DEF Init, PeerAssumption
<1>4. writes = <<>> /\ \A c \in Callers : ~Queued(c)
  BY DEF Init, Queued
<1>. QED
  BY <1>2, <1>3, <1>4
  DEF Init, PeerInv, QueuedOnce, WriteInv, OutcomeInv, Alive, GateInv, Received, Idle

----------------------------------------------------------------------------
(* Steps of a caller                                                         *)

LEMMA SameQueue ==
    ASSUME UNCHANGED writes, QueuedOnce
    PROVE  QueuedOnce' /\ \A c \in Callers : Queued(c)' <=> Queued(c)
BY DEF Queued, QueuedOnce

LEMMA EnterStep ==
    ASSUME PeerAssumption, PeerInv, NEW c \in Callers, Enter(c)
    PROVE  PeerInv'
<1>1. /\ TypeOK /\ QueuedOnce /\ WriteInv(c) /\ OutcomeInv(c)
      /\ calls[c] \in Call /\ calls[c].id \in Ids
  BY DEF PeerInv, TypeOK, Call
<1>2. [calls[c] EXCEPT !.step = "enqueue", !.id = nextID + 1] \in Call
  BY Zenon, <1>1, Typed DEF TypeOK, Call
<1>3. /\ calls' \in [Callers -> Call] /\ \A d \in Callers \ {c} : calls'[d] = calls[d]
      /\ calls'[c].step = "enqueue" /\ calls'[c].id = nextID + 1
      /\ calls'[c].ctx = calls[c].ctx /\ calls'[c].write = calls[c].write
      /\ calls'[c].result = calls[c].result /\ calls'[c].response = calls[c].response
      /\ calls'[c].sent = calls[c].sent /\ calls'[c].outcome = calls[c].outcome
  <2>1. Set(c, [calls[c] EXCEPT !.step = "enqueue", !.id = nextID + 1])
    BY DEF Enter
  <2>2. calls' \in [Callers -> Call] /\ calls'[c] = [calls[c] EXCEPT !.step = "enqueue", !.id = nextID + 1]
        /\ \A d \in Callers \ {c} : calls'[d] = calls[d]
    BY <1>1, <1>2, <2>1, SetCall
  <2>. QED
    BY <1>1, <2>2 DEF Call
<1>4. QueuedOnce' /\ \A d \in Callers : Queued(d)' <=> Queued(d)
  BY <1>1, SameQueue DEF Enter
<1>5. TypeOK'
  BY <1>1, <1>3, Typed DEF TypeOK, Enter
<1>6. \A d \in Callers : WriteInv(d)' /\ OutcomeInv(d)'
  BY <1>3, <1>4 DEF PeerInv, WriteInv, OutcomeInv, Enter
<1>7. ~done' => Alive'
  BY <1>1, <1>3, <1>4 DEF PeerInv, TypeOK, WriteInv, Alive, GateInv, Received, PeerAssumption, Ids, Enter
<1>. QED
  BY <1>4, <1>5, <1>6, <1>7 DEF PeerInv, Enter

LEMMA CancelStep ==
    ASSUME PeerAssumption, PeerInv, NEW c \in Callers, Cancel(c)
    PROVE  PeerInv'
<1>1. /\ TypeOK /\ QueuedOnce /\ WriteInv(c) /\ OutcomeInv(c)
      /\ calls[c] \in Call /\ calls[c].id \in Ids
  BY DEF PeerInv, TypeOK, Call
<1>2. [calls[c] EXCEPT !.ctx = TRUE] \in Call
  BY Zenon, <1>1, Typed DEF TypeOK, Call
<1>3. /\ calls' \in [Callers -> Call] /\ \A d \in Callers \ {c} : calls'[d] = calls[d]
      /\ calls'[c].step = calls[c].step /\ calls'[c].id = calls[c].id
      /\ calls'[c].ctx = TRUE /\ calls'[c].write = calls[c].write
      /\ calls'[c].result = calls[c].result /\ calls'[c].response = calls[c].response
      /\ calls'[c].sent = calls[c].sent /\ calls'[c].outcome = calls[c].outcome
  <2>1. Set(c, [calls[c] EXCEPT !.ctx = TRUE])
    BY DEF Cancel
  <2>2. calls' \in [Callers -> Call] /\ calls'[c] = [calls[c] EXCEPT !.ctx = TRUE]
        /\ \A d \in Callers \ {c} : calls'[d] = calls[d]
    BY <1>1, <1>2, <2>1, SetCall
  <2>. QED
    BY <1>1, <2>2 DEF Call
<1>4. QueuedOnce' /\ \A d \in Callers : Queued(d)' <=> Queued(d)
  BY <1>1, SameQueue DEF Cancel
<1>5. TypeOK'
  BY <1>1, <1>3, Typed DEF TypeOK, Cancel
<1>6. \A d \in Callers : WriteInv(d)' /\ OutcomeInv(d)'
  BY <1>3, <1>4 DEF PeerInv, WriteInv, OutcomeInv, Cancel
<1>7. ~done' => Alive'
  BY <1>1, <1>3, <1>4 DEF PeerInv, TypeOK, WriteInv, Alive, GateInv, Received, PeerAssumption, Ids, Cancel
<1>. QED
  BY <1>4, <1>5, <1>6, <1>7 DEF PeerInv, Cancel

LEMMA NotEnqueuedStep ==
    ASSUME PeerAssumption, PeerInv, NEW c \in Callers, NotEnqueued(c)
    PROVE  PeerInv'
<1>1. /\ TypeOK /\ QueuedOnce /\ WriteInv(c) /\ OutcomeInv(c)
      /\ calls[c] \in Call /\ calls[c].id \in Ids
  BY DEF PeerInv, TypeOK, Call
<1>2. [calls[c] EXCEPT !.step = "returned", !.outcome = "failed"] \in Call
  BY Zenon, <1>1, Typed DEF TypeOK, Call
<1>3. /\ calls' \in [Callers -> Call] /\ \A d \in Callers \ {c} : calls'[d] = calls[d]
      /\ calls'[c].step = "returned" /\ calls'[c].id = calls[c].id
      /\ calls'[c].ctx = calls[c].ctx /\ calls'[c].write = calls[c].write
      /\ calls'[c].result = calls[c].result /\ calls'[c].response = calls[c].response
      /\ calls'[c].sent = calls[c].sent /\ calls'[c].outcome = "failed"
  <2>1. Set(c, [calls[c] EXCEPT !.step = "returned", !.outcome = "failed"])
    BY DEF NotEnqueued, Failed
  <2>2. calls' \in [Callers -> Call] /\ calls'[c] = [calls[c] EXCEPT !.step = "returned", !.outcome = "failed"]
        /\ \A d \in Callers \ {c} : calls'[d] = calls[d]
    BY <1>1, <1>2, <2>1, SetCall
  <2>. QED
    BY <1>1, <2>2 DEF Call
<1>4. QueuedOnce' /\ \A d \in Callers : Queued(d)' <=> Queued(d)
  BY <1>1, SameQueue DEF NotEnqueued
<1>5. TypeOK'
  BY <1>1, <1>3, Typed DEF TypeOK, NotEnqueued, Failed
<1>6. \A d \in Callers : WriteInv(d)' /\ OutcomeInv(d)'
  BY <1>3, <1>4 DEF PeerInv, WriteInv, OutcomeInv, NotEnqueued, Failed
<1>7. ~done' => Alive'
  BY <1>1, <1>3, <1>4 DEF PeerInv, TypeOK, WriteInv, Alive, GateInv, Received, PeerAssumption, Ids, NotEnqueued, Failed
<1>. QED
  BY <1>4, <1>5, <1>6, <1>7 DEF PeerInv, NotEnqueued

LEMMA WrittenStep ==
    ASSUME PeerAssumption, PeerInv, NEW c \in Callers, Written(c)
    PROVE  PeerInv'
<1>1. /\ TypeOK /\ QueuedOnce /\ WriteInv(c) /\ OutcomeInv(c)
      /\ calls[c] \in Call /\ calls[c].id \in Ids
  BY DEF PeerInv, TypeOK, Call
<1>2. [calls[c] EXCEPT !.step = "waiting"] \in Call
  BY <1>1, Typed DEF TypeOK, Call
<1>3. /\ calls' \in [Callers -> Call] /\ \A d \in Callers \ {c} : calls'[d] = calls[d]
      /\ calls'[c].step = "waiting" /\ calls'[c].id = calls[c].id
      /\ calls'[c].ctx = calls[c].ctx /\ calls'[c].write = calls[c].write
      /\ calls'[c].result = calls[c].result /\ calls'[c].response = calls[c].response
      /\ calls'[c].sent = calls[c].sent /\ calls'[c].outcome = calls[c].outcome
  <2>1. Set(c, [calls[c] EXCEPT !.step = "waiting"])
    BY DEF Written
  <2>2. calls' \in [Callers -> Call] /\ calls'[c] = [calls[c] EXCEPT !.step = "waiting"]
        /\ \A d \in Callers \ {c} : calls'[d] = calls[d]
    BY <1>1, <1>2, <2>1, SetCall
  <2>. QED
    BY <1>1, <2>2 DEF Call
<1>4. QueuedOnce' /\ \A d \in Callers : Queued(d)' <=> Queued(d)
  BY <1>1, SameQueue DEF Written
<1>5. TypeOK'
  BY <1>1, <1>3, Typed DEF TypeOK, Written
<1>6. \A d \in Callers : WriteInv(d)' /\ OutcomeInv(d)'
  BY <1>3, <1>4 DEF PeerInv, WriteInv, OutcomeInv, Written
<1>7. ASSUME ~done' PROVE Alive'
  <2>1. /\ Alive /\ gate = c /\ calls[c].id = highestWrittenID + 1 /\ highestWrittenID \in Int
        /\ nextID = calls[c].id /\ gate' = None /\ nextID' = nextID
        /\ highestWrittenID' = calls[c].id /\ remote' = remote /\ writer' = writer
    BY <1>1, <1>7 DEF PeerInv, Alive, GateInv, Written, TypeOK, Ids
  <2>2. ASSUME NEW d \in Callers PROVE GateInv(d)'
    <3>1. CASE d = c
      BY <1>1, <1>3, <1>4, <2>1, <3>1
      DEF GateInv, Written, WriteInv, PeerAssumption, Ids
    <3>2. CASE d # c
      <4>1. calls'[d] = calls[d] /\ calls[d].id \in Int
        BY <1>1, <1>3, <3>2 DEF TypeOK, Call, Ids
      <4>. QED
        BY <1>4, <2>1, <3>2, <4>1 DEF Alive, GateInv, PeerAssumption
    <3>. QED
      BY <3>1, <3>2
  <2>3. Received'
    BY <1>1, <1>3, <2>1 DEF Alive, Received, TypeOK, Ids
  <2>. QED
    BY <2>1, <2>2, <2>3 DEF Alive
<1>. QED
  BY <1>4, <1>5, <1>6, <1>7 DEF PeerInv, Written

LEMMA WriteFailsStep ==
    ASSUME PeerAssumption, PeerInv, NEW c \in Callers, WriteFails(c)
    PROVE  PeerInv'
<1>1. /\ TypeOK /\ QueuedOnce /\ WriteInv(c) /\ OutcomeInv(c)
      /\ calls[c] \in Call /\ calls[c].id \in Ids
  BY DEF PeerInv, TypeOK, Call
<1>0. calls[c].result \in Outcomes
  BY Typed DEF WriteFails
<1>2. [calls[c] EXCEPT !.step = "returned", !.outcome = calls[c].result] \in Call
  BY Zenon, <1>0, <1>1, Typed DEF TypeOK, Call
<1>3. /\ calls' \in [Callers -> Call] /\ \A d \in Callers \ {c} : calls'[d] = calls[d]
      /\ calls'[c].step = "returned" /\ calls'[c].id = calls[c].id
      /\ calls'[c].ctx = calls[c].ctx /\ calls'[c].write = calls[c].write
      /\ calls'[c].result = calls[c].result /\ calls'[c].response = calls[c].response
      /\ calls'[c].sent = calls[c].sent /\ calls'[c].outcome = calls[c].result
  <2>1. Set(c, [calls[c] EXCEPT !.step = "returned", !.outcome = calls[c].result])
    BY DEF WriteFails, Failed
  <2>2. calls' \in [Callers -> Call] /\ calls'[c] = [calls[c] EXCEPT !.step = "returned", !.outcome = calls[c].result]
        /\ \A d \in Callers \ {c} : calls'[d] = calls[d]
    BY <1>1, <1>2, <2>1, SetCall
  <2>. QED
    BY <1>1, <2>2 DEF Call
<1>4. QueuedOnce' /\ \A d \in Callers : Queued(d)' <=> Queued(d)
  BY <1>1, SameQueue DEF WriteFails
<1>5. TypeOK'
  BY <1>1, <1>3, Typed DEF TypeOK, WriteFails, Failed
<1>6. \A d \in Callers : WriteInv(d)' /\ OutcomeInv(d)'
  BY <1>3, <1>4 DEF PeerInv, WriteInv, OutcomeInv, WriteFails, Failed
<1>7. ~done' => Alive'
  BY <1>1 DEF WriteFails, WriteInv
<1>. QED
  BY <1>4, <1>5, <1>6, <1>7 DEF PeerInv, WriteFails

LEMMA CancelQueuedStep ==
    ASSUME PeerAssumption, PeerInv, NEW c \in Callers, CancelQueued(c)
    PROVE  PeerInv'
<1>1. /\ TypeOK /\ QueuedOnce /\ WriteInv(c) /\ OutcomeInv(c)
      /\ calls[c] \in Call /\ calls[c].id \in Ids
  BY DEF PeerInv, TypeOK, Call
<1>2. [calls[c] EXCEPT !.step = "returned", !.outcome = "failed", !.write = "canceled"] \in Call
  BY Zenon, <1>1, Typed DEF TypeOK, Call
<1>3. /\ calls' \in [Callers -> Call] /\ \A d \in Callers \ {c} : calls'[d] = calls[d]
      /\ calls'[c].step = "returned" /\ calls'[c].id = calls[c].id
      /\ calls'[c].ctx = calls[c].ctx /\ calls'[c].write = "canceled"
      /\ calls'[c].result = calls[c].result /\ calls'[c].response = calls[c].response
      /\ calls'[c].sent = calls[c].sent /\ calls'[c].outcome = "failed"
  <2>1. Set(c, [calls[c] EXCEPT !.step = "returned", !.outcome = "failed", !.write = "canceled"])
    BY DEF CancelQueued
  <2>2. calls' \in [Callers -> Call] /\ calls'[c] = [calls[c] EXCEPT !.step = "returned", !.outcome = "failed", !.write = "canceled"]
        /\ \A d \in Callers \ {c} : calls'[d] = calls[d]
    BY <1>1, <1>2, <2>1, SetCall
  <2>. QED
    BY <1>1, <2>2 DEF Call
<1>4. QueuedOnce' /\ \A d \in Callers : Queued(d)' <=> Queued(d)
  BY <1>1, SameQueue DEF CancelQueued
<1>5. TypeOK'
  BY <1>1, <1>3, Typed DEF TypeOK, CancelQueued
<1>6. \A d \in Callers : WriteInv(d)' /\ OutcomeInv(d)'
  BY <1>3, <1>4 DEF PeerInv, WriteInv, OutcomeInv, CancelQueued
<1>7. ~done' => Alive'
  BY <1>1 DEF CancelQueued, WriteInv
<1>. QED
  BY <1>4, <1>5, <1>6, <1>7 DEF PeerInv, CancelQueued

LEMMA RespondsStep ==
    ASSUME PeerAssumption, PeerInv, NEW c \in Callers, Responds(c)
    PROVE  PeerInv'
<1>1. /\ TypeOK /\ QueuedOnce /\ WriteInv(c) /\ OutcomeInv(c)
      /\ calls[c] \in Call /\ calls[c].id \in Ids
  BY DEF PeerInv, TypeOK, Call
<1>2. [calls[c] EXCEPT !.step = "returned", !.outcome = "response"] \in Call
  BY Zenon, <1>1, Typed DEF TypeOK, Call
<1>3. /\ calls' \in [Callers -> Call] /\ \A d \in Callers \ {c} : calls'[d] = calls[d]
      /\ calls'[c].step = "returned" /\ calls'[c].id = calls[c].id
      /\ calls'[c].ctx = calls[c].ctx /\ calls'[c].write = calls[c].write
      /\ calls'[c].result = calls[c].result /\ calls'[c].response = calls[c].response
      /\ calls'[c].sent = calls[c].sent /\ calls'[c].outcome = "response"
  <2>1. Set(c, [calls[c] EXCEPT !.step = "returned", !.outcome = "response"])
    BY DEF Responds
  <2>2. calls' \in [Callers -> Call] /\ calls'[c] = [calls[c] EXCEPT !.step = "returned", !.outcome = "response"]
        /\ \A d \in Callers \ {c} : calls'[d] = calls[d]
    BY <1>1, <1>2, <2>1, SetCall
  <2>. QED
    BY <1>1, <2>2 DEF Call
<1>4. QueuedOnce' /\ \A d \in Callers : Queued(d)' <=> Queued(d)
  BY <1>1, SameQueue DEF Responds
<1>5. TypeOK'
  BY <1>1, <1>3, Typed DEF TypeOK, Responds
<1>6. \A d \in Callers : WriteInv(d)' /\ OutcomeInv(d)'
  BY <1>3, <1>4 DEF PeerInv, WriteInv, OutcomeInv, Responds
<1>7. ~done' => Alive'
  BY <1>1, <1>3, <1>4 DEF PeerInv, TypeOK, WriteInv, Alive, GateInv, Received, PeerAssumption, Ids, Responds
<1>. QED
  BY <1>4, <1>5, <1>6, <1>7 DEF PeerInv, Responds

LEMMA GivesUpStep ==
    ASSUME PeerAssumption, PeerInv, NEW c \in Callers, GivesUp(c)
    PROVE  PeerInv'
<1>1. /\ TypeOK /\ QueuedOnce /\ WriteInv(c) /\ OutcomeInv(c)
      /\ calls[c] \in Call /\ calls[c].id \in Ids
  BY DEF PeerInv, TypeOK, Call
<1>0. (done => done') /\ (~done' => ~done)
  BY Zenon DEF GivesUp
<1>2. [calls[c] EXCEPT !.step = "returned", !.outcome = "unknown"] \in Call
  BY Zenon, <1>0, <1>1, Typed DEF TypeOK, Call
<1>3. /\ calls' \in [Callers -> Call] /\ \A d \in Callers \ {c} : calls'[d] = calls[d]
      /\ calls'[c].step = "returned" /\ calls'[c].id = calls[c].id
      /\ calls'[c].ctx = calls[c].ctx /\ calls'[c].write = calls[c].write
      /\ calls'[c].result = calls[c].result /\ calls'[c].response = calls[c].response
      /\ calls'[c].sent = calls[c].sent /\ calls'[c].outcome = "unknown"
  <2>1. Set(c, [calls[c] EXCEPT !.step = "returned", !.outcome = "unknown"])
    BY DEF GivesUp
  <2>2. calls' \in [Callers -> Call] /\ calls'[c] = [calls[c] EXCEPT !.step = "returned", !.outcome = "unknown"]
        /\ \A d \in Callers \ {c} : calls'[d] = calls[d]
    BY <1>1, <1>2, <2>1, SetCall
  <2>. QED
    BY <1>1, <2>2 DEF Call
<1>4. QueuedOnce' /\ \A d \in Callers : Queued(d)' <=> Queued(d)
  BY <1>1, SameQueue DEF GivesUp
<1>5. TypeOK'
  BY <1>1, <1>3, Typed DEF TypeOK, GivesUp
<1>6. \A d \in Callers : WriteInv(d)' /\ OutcomeInv(d)'
  BY <1>0, <1>3, <1>4 DEF PeerInv, WriteInv, OutcomeInv, GivesUp
<1>7. ~done' => Alive'
  BY <1>0, <1>1, <1>3, <1>4 DEF PeerInv, TypeOK, WriteInv, Alive, GateInv, Received, PeerAssumption, Ids, GivesUp
<1>. QED
  BY <1>4, <1>5, <1>6, <1>7 DEF PeerInv, GivesUp

LEMMA EnqueueStep ==
    ASSUME PeerAssumption, PeerInv, NEW c \in Callers, Enqueue(c)
    PROVE  PeerInv'
<1>1. /\ TypeOK /\ QueuedOnce /\ WriteInv(c) /\ OutcomeInv(c) /\ calls[c] \in Call
      /\ ~Queued(c) /\ writer # c
  BY DEF PeerInv, TypeOK, WriteInv, Enqueue
<1>2. [calls[c] EXCEPT !.step = "queued", !.write = "queued"] \in Call
  BY Zenon, <1>1, Typed DEF Call
<1>3. /\ calls' \in [Callers -> Call] /\ \A d \in Callers \ {c} : calls'[d] = calls[d]
      /\ calls'[c].step = "queued" /\ calls'[c].id = calls[c].id
      /\ calls'[c].write = "queued" /\ calls'[c].result = calls[c].result
      /\ calls'[c].sent = calls[c].sent /\ calls'[c].outcome = calls[c].outcome
  <2>1. /\ calls' \in [Callers -> Call] /\ calls'[c] = [calls[c] EXCEPT !.step = "queued", !.write = "queued"]
        /\ \A d \in Callers \ {c} : calls'[d] = calls[d]
    BY <1>1, <1>2, SetCall DEF Enqueue
  <2>. QED
    BY <1>1, <2>1 DEF Call
<1>4. /\ writes' \in Seq(Callers) /\ QueuedOnce'
      /\ \A d \in Callers : Queued(d)' <=> Queued(d) \/ d = c
  <2>1. /\ writes' = Append(writes, c) /\ writes \in Seq(Callers)
        /\ \A i, j \in DOMAIN writes : writes[i] = writes[j] => i = j
        /\ ~\E i \in DOMAIN writes : writes[i] = c
    BY <1>1 DEF TypeOK, QueuedOnce, Queued, Enqueue
  <2>2. /\ Append(writes, c) \in Seq(Callers)
        /\ \A d \in Callers : (\E i \in DOMAIN Append(writes, c) : Append(writes, c)[i] = d)
                               <=> (\E i \in DOMAIN writes : writes[i] = d) \/ d = c
        /\ \A i, j \in DOMAIN Append(writes, c) : Append(writes, c)[i] = Append(writes, c)[j] => i = j
    BY <2>1, AppendOnce, Zenon
  <2>. QED
    BY <2>1, <2>2, Zenon DEF QueuedOnce, Queued
<1>5. TypeOK'
  BY <1>1, <1>3, <1>4 DEF TypeOK, Enqueue
<1>6. \A d \in Callers : WriteInv(d)' /\ OutcomeInv(d)'
  BY <1>1, <1>3, <1>4 DEF PeerInv, WriteInv, OutcomeInv, Enqueue
<1>7. ~done' => Alive'
  BY <1>1, <1>3, <1>4 DEF PeerInv, Alive, GateInv, Received, Enqueue
<1>. QED
  BY <1>4, <1>5, <1>6, <1>7 DEF PeerInv, Enqueue

LEMMA WriteInterruptedStep ==
    ASSUME PeerAssumption, PeerInv, NEW c \in Callers, WriteInterrupted(c)
    PROVE  PeerInv'
<1>1. /\ TypeOK /\ QueuedOnce /\ WriteInv(c) /\ OutcomeInv(c)
      /\ calls[c] \in Call /\ calls[c].id \in Ids /\ done
  BY DEF PeerInv, TypeOK, Call, WriteInterrupted
<1>. DEFINE outcome == IF calls[c].write = "started" THEN "unknown" ELSE "failed"
<1>2. outcome \in Outcomes
  BY Typed
<1>3. /\ calls' \in [Callers -> Call] /\ \A d \in Callers \ {c} : calls'[d] = calls[d]
      /\ calls'[c].step = "returned" /\ calls'[c].write = calls[c].write
      /\ calls'[c].result = calls[c].result /\ calls'[c].sent = calls[c].sent
      /\ calls'[c].outcome = outcome
  <2>1. Set(c, [calls[c] EXCEPT !.step = "returned", !.outcome = outcome])
    BY DEF WriteInterrupted, Failed
  <2>. HIDE DEF outcome
  <2>2. [calls[c] EXCEPT !.step = "returned", !.outcome = outcome] \in Call
    BY ZenonT(30), <1>1, <1>2, Typed DEF Call
  <2>3. /\ calls' \in [Callers -> Call]
        /\ calls'[c] = [calls[c] EXCEPT !.step = "returned", !.outcome = outcome]
        /\ \A d \in Callers \ {c} : calls'[d] = calls[d]
    BY <1>1, <2>1, <2>2, SetCall
  <2>. QED
    BY <1>1, <2>3 DEF Call
<1>4. QueuedOnce' /\ \A d \in Callers : Queued(d)' <=> Queued(d)
  BY <1>1, SameQueue DEF WriteInterrupted
<1>5. TypeOK'
  BY <1>1, <1>3, Typed DEF TypeOK, WriteInterrupted, Failed
<1>6. \A d \in Callers : WriteInv(d)' /\ OutcomeInv(d)'
  BY <1>1, <1>3, <1>4 DEF PeerInv, WriteInv, OutcomeInv, WriteInterrupted
<1>. QED
  BY <1>1, <1>4, <1>5, <1>6 DEF PeerInv, WriteInterrupted

LEMMA AgainStep ==
    ASSUME PeerAssumption, PeerInv, NEW c \in Callers, Again(c)
    PROVE  PeerInv'
<1>1. TypeOK /\ QueuedOnce /\ ~Queued(c) /\ writer # c
  BY DEF PeerInv, Queued, Again
<1>2. /\ calls' \in [Callers -> Call] /\ calls'[c] = Idle
      /\ \A d \in Callers \ {c} : calls'[d] = calls[d]
  BY <1>1, IdleTyped, SetCall DEF Again
<1>3. QueuedOnce' /\ \A d \in Callers : Queued(d)' <=> Queued(d)
  BY <1>1, SameQueue DEF Again
<1>4. TypeOK'
  BY <1>1, <1>2 DEF TypeOK, Again
<1>5. \A d \in Callers : WriteInv(d)' /\ OutcomeInv(d)'
  BY <1>1, <1>2, <1>3 DEF PeerInv, WriteInv, OutcomeInv, Again, Idle
<1>6. ~done' => Alive'
  BY <1>1, <1>2, <1>3 DEF PeerInv, Alive, GateInv, Received, Again, Idle
<1>. QED
  BY <1>3, <1>4, <1>5, <1>6 DEF PeerInv, Again

----------------------------------------------------------------------------
(* Steps of the writer, of the remote and of whoever ends the connection     *)

LEMMA WriterTakesStep ==
    ASSUME PeerAssumption, PeerInv, WriterTakes
    PROVE  PeerInv'
<1>. DEFINE c == Head(writes)
<1>1. TypeOK /\ QueuedOnce /\ writer = "idle"
  BY DEF PeerInv, WriterTakes
<1>2. /\ writes' \in Seq(Callers) /\ c \in Callers /\ QueuedOnce' /\ Queued(c)
      /\ \A d \in Callers : Queued(d)' <=> Queued(d) /\ d # c
  BY <1>1, TailOnce DEF TypeOK, QueuedOnce, Queued, WriterTakes
<1>3. WriteInv(c) /\ OutcomeInv(c) /\ calls[c] \in Call
  BY <1>1, <1>2 DEF PeerInv, TypeOK
<1>4. CASE calls[c].write = "queued"
  <2>1. writer' = c /\ Set(c, [calls[c] EXCEPT !.write = "started"])
    BY <1>4 DEF WriterTakes
  <2>2. [calls[c] EXCEPT !.write = "started"] \in Call
    BY <1>3, Typed DEF Call
  <2>. HIDE DEF c
  <2>3. /\ calls' \in [Callers -> Call] /\ \A d \in Callers \ {c} : calls'[d] = calls[d]
        /\ calls'[c].step = calls[c].step /\ calls'[c].id = calls[c].id
        /\ calls'[c].write = "started" /\ calls'[c].result = calls[c].result
        /\ calls'[c].sent = calls[c].sent /\ calls'[c].outcome = calls[c].outcome
    <3>1. /\ calls' \in [Callers -> Call] /\ calls'[c] = [calls[c] EXCEPT !.write = "started"]
          /\ \A d \in Callers \ {c} : calls'[d] = calls[d]
      BY <1>1, <1>2, <2>1, <2>2, SetCall
    <3>. QED
      BY <1>3, <3>1 DEF Call
  <2>4. TypeOK'
    BY <1>1, <1>2, <2>1, <2>3 DEF TypeOK, WriterTakes
  <2>5. \A d \in Callers : WriteInv(d)' /\ OutcomeInv(d)'
    BY <1>2, <1>3, <1>4, <2>1, <2>3 DEF PeerInv, WriteInv, OutcomeInv, WriterTakes
  <2>6. ASSUME ~done' PROVE Alive'
    <3>1. /\ Alive /\ calls[c].step = "queued" /\ UNCHANGED <<gate, nextID, highestWrittenID, pending, remote>>
      BY <1>2, <2>6 DEF PeerInv, Alive, GateInv, WriterTakes
    <3>2. \A d \in Callers : GateInv(d)'
      BY <1>1, <1>2, <2>1, <2>3, <3>1 DEF Alive, GateInv
    <3>3. \A d \in Callers : calls'[d].id = calls[d].id /\ calls'[d].result = calls[d].result
      BY <2>3
    <3>4. Received'
      BY <3>1, <3>3 DEF Alive, Received
    <3>. QED
      BY <3>1, <3>2, <3>4 DEF Alive
  <2>. QED
    BY <1>2, <2>4, <2>5, <2>6 DEF PeerInv, WriterTakes
<1>5. CASE calls[c].write # "queued"
  <2>1. UNCHANGED <<writer, calls>>
    BY <1>5 DEF WriterTakes
  <2>. HIDE DEF c
  <2>2. TypeOK'
    BY <1>1, <1>2, <2>1 DEF TypeOK, WriterTakes
  <2>3. \A d \in Callers : WriteInv(d)' /\ OutcomeInv(d)'
    BY <1>2, <2>1 DEF PeerInv, WriteInv, OutcomeInv, WriterTakes
  <2>4. ~done' => Alive'
    BY <1>2, <2>1 DEF PeerInv, Alive, GateInv, Received, WriterTakes
  <2>. QED
    BY <1>2, <2>2, <2>3, <2>4 DEF PeerInv, WriterTakes
<1>. QED
  BY <1>4, <1>5

LEMMA WriterStopsStep ==
    ASSUME PeerAssumption, PeerInv, WriterStops
    PROVE  PeerInv'
<1>1. TypeOK /\ QueuedOnce /\ done
  BY DEF PeerInv, WriterStops
<1>2. QueuedOnce' /\ \A d \in Callers : Queued(d)' <=> Queued(d)
  BY <1>1, SameQueue DEF WriterStops
<1>3. TypeOK'
  BY <1>1 DEF TypeOK, WriterStops
<1>4. \A d \in Callers : WriteInv(d)' /\ OutcomeInv(d)'
  BY <1>2 DEF PeerInv, WriteInv, OutcomeInv, WriterStops, PeerAssumption
<1>. QED
  BY <1>1, <1>2, <1>3, <1>4 DEF PeerInv, WriterStops

(* What the writer reports of the request it had: it reached the socket (ok *)
(* or unknown) or not (unknown or failed), and an error ends the peer.       *)
LEMMA WritesStep ==
    ASSUME PeerAssumption, PeerInv, Writes
    PROVE  PeerInv'
<1>1. TypeOK /\ QueuedOnce /\ writer \in Callers
  BY DEF PeerInv, Writes
<1>0. PICK c \in Callers : c = writer
  BY <1>1
<1>2. WriteInv(c) /\ OutcomeInv(c) /\ calls[c] \in Call /\ calls[c].id \in Ids
  BY <1>1 DEF PeerInv, TypeOK, Call
<1>3. PICK result \in {"ok", "failed", "unknown"}, sent \in Flag :
         /\ Set(c, [calls[c] EXCEPT !.result = result, !.sent = sent])
         /\ result = "failed" => ~sent
         /\ \/ result = "ok" /\ writer' = "idle" /\ UNCHANGED done
               /\ remote' = [remote EXCEPT !.received = @ \cup {calls[c].id}]
            \/ /\ result # "ok" /\ writer' = "stopped" /\ done'
               /\ remote' \in {remote, [remote EXCEPT !.received = @ \cup {calls[c].id}]}
  <2>1. CASE Set(c, [calls[c] EXCEPT !.result = "ok", !.sent = TRUE])
               /\ remote' = [remote EXCEPT !.received = @ \cup {calls[c].id}]
               /\ writer' = "idle" /\ UNCHANGED done
    BY ZenonT(30), <2>1, Typed
  <2>2. CASE Set(c, [calls[c] EXCEPT !.result = "unknown", !.sent = TRUE])
               /\ remote' = [remote EXCEPT !.received = @ \cup {calls[c].id}]
               /\ writer' = "stopped" /\ done' = TRUE
    BY Zenon, <2>2, Typed
  <2>3. ASSUME NEW r \in {"unknown", "failed"}, Set(c, [calls[c] EXCEPT !.result = r]),
               writer' = "stopped", done' = TRUE, UNCHANGED remote
        PROVE  /\ Set(c, [calls[c] EXCEPT !.result = r, !.sent = FALSE])
               /\ writer' = "stopped" /\ done' /\ remote' = remote
    <3>1. calls[c].sent = FALSE
      <4>1. ~calls[c].sent /\ calls[c].sent \in Flag
        BY <1>0, <1>2 DEF WriteInv, Call
      <4>. QED
        BY <4>1, Zenon DEF Flag
    <3>2. [calls[c] EXCEPT !.result = r, !.sent = FALSE] = [calls[c] EXCEPT !.result = r]
      BY Zenon, <1>2, <3>1 DEF Call
    <3>. QED
      BY <2>3, <3>2
  <2>. QED
    BY ZenonT(30), <1>0, <2>1, <2>2, <2>3, Typed DEF Writes
<1>4. [calls[c] EXCEPT !.result = result, !.sent = sent] \in Call
  BY Zenon, <1>2, <1>3, Typed DEF Call
<1>5. /\ calls' \in [Callers -> Call] /\ \A d \in Callers \ {c} : calls'[d] = calls[d]
      /\ calls'[c].step = calls[c].step /\ calls'[c].id = calls[c].id
      /\ calls'[c].write = calls[c].write /\ calls'[c].result = result
      /\ calls'[c].sent = sent /\ calls'[c].outcome = calls[c].outcome
  <2>1. /\ calls' \in [Callers -> Call] /\ calls'[c] = [calls[c] EXCEPT !.result = result, !.sent = sent]
        /\ \A d \in Callers \ {c} : calls'[d] = calls[d]
    BY <1>1, <1>3, <1>4, SetCall
  <2>. QED
    BY <1>2, <2>1 DEF Call
<1>6. QueuedOnce' /\ \A d \in Callers : Queued(d)' <=> Queued(d)
  BY <1>1, SameQueue DEF Writes
<1>7. /\ remote'.executed \subseteq remote'.received
      /\ remote'.received \subseteq remote.received \cup {calls[c].id}
      /\ remote' = [received |-> remote'.received, executed |-> remote'.executed,
                    answered |-> remote'.answered]
  <2>1. remote' \in {remote, [remote EXCEPT !.received = @ \cup {calls[c].id}]}
    BY <1>3
  <2>. QED
    BY <1>1, <2>1 DEF TypeOK
<1>8. TypeOK'
  BY <1>1, <1>2, <1>3, <1>5, <1>7 DEF TypeOK, Writes
<1>9. \A d \in Callers : WriteInv(d)' /\ OutcomeInv(d)'
  <2>1. writer = c
    BY <1>0
  <2>2. /\ \A d \in Callers : writer' # d
        /\ raced' = raced /\ (done => done') /\ (result # "ok" => done')
    BY <1>3 DEF Writes, PeerAssumption
  <2>3. WriteInv(c)' /\ OutcomeInv(c)'
    BY <1>2, <1>3, <1>5, <1>6, <2>1, <2>2 DEF PeerInv, WriteInv, OutcomeInv
  <2>4. \A d \in Callers \ {c} : WriteInv(d)' /\ OutcomeInv(d)'
    BY <1>5, <1>6, <2>1, <2>2 DEF PeerInv, WriteInv, OutcomeInv
  <2>. QED
    BY <2>3, <2>4
<1>10. ASSUME ~done' PROVE Alive'
  <2>1. /\ Alive /\ result = "ok" /\ c \in Callers /\ gate = c /\ calls[c].step = "queued"
        /\ UNCHANGED <<gate, nextID, highestWrittenID, pending>> /\ \A d \in Callers : writer' # d
    BY <1>0, <1>1, <1>3, <1>10 DEF PeerInv, Alive, GateInv, Writes, PeerAssumption
  <2>2. \A d \in Callers : GateInv(d)'
    BY <1>5, <1>6, <2>1 DEF Alive, GateInv
  <2>3. Received'
    BY <1>5, <1>7, <2>1 DEF Alive, Received
  <2>. QED
    BY <2>1, <2>2, <2>3 DEF Alive
<1>. QED
  BY <1>6, <1>8, <1>9, <1>10 DEF PeerInv, Writes

LEMMA FinishesStep ==
    ASSUME PeerAssumption, PeerInv, Finishes
    PROVE  PeerInv'
<1>1. TypeOK /\ QueuedOnce /\ done'
  BY DEF PeerInv, Finishes
<1>2. QueuedOnce' /\ \A d \in Callers : Queued(d)' <=> Queued(d)
  BY <1>1, SameQueue DEF Finishes
<1>3. TypeOK'
  BY <1>1 DEF TypeOK, Finishes
<1>4. \A d \in Callers : WriteInv(d)' /\ OutcomeInv(d)'
  BY <1>1, <1>2 DEF PeerInv, WriteInv, OutcomeInv, Finishes
<1>. QED
  BY <1>1, <1>2, <1>3, <1>4 DEF PeerInv, Finishes

LEMMA ExecutesStep ==
    ASSUME PeerAssumption, PeerInv, NEW i, Executes(i)
    PROVE  PeerInv'
<1>1. TypeOK /\ QueuedOnce
  BY DEF PeerInv
<1>2. QueuedOnce' /\ \A d \in Callers : Queued(d)' <=> Queued(d)
  BY <1>1, SameQueue DEF Executes
<1>3. /\ remote'.received = remote.received /\ remote'.executed = remote.executed \cup {i}
      /\ i \in remote.received /\ remote'.answered = remote.answered
      /\ remote' = [received |-> remote'.received, executed |-> remote'.executed,
                    answered |-> remote'.answered]
  BY Zenon, <1>1 DEF Executes, TypeOK
<1>4. TypeOK'
  BY <1>1, <1>3 DEF TypeOK, Executes
<1>5. \A d \in Callers : WriteInv(d)' /\ OutcomeInv(d)'
  BY <1>2 DEF PeerInv, WriteInv, OutcomeInv, Executes
<1>6. ~done' => Alive'
  BY <1>2, <1>3 DEF PeerInv, Alive, GateInv, Received, Executes
<1>. QED
  BY <1>2, <1>4, <1>5, <1>6 DEF PeerInv, Executes

(* A response that is not awaited is at most as high as the highest written *)
(* id: it is ignored, and the peer goes on.                                  *)
LEMMA DeliversStep ==
    ASSUME PeerAssumption, PeerInv, NEW i, Delivers(i)
    PROVE  PeerInv'
<1>1. TypeOK /\ QueuedOnce /\ ~done /\ Alive
  BY DEF PeerInv, Delivers
<1>2. QueuedOnce' /\ \A d \in Callers : Queued(d)' <=> Queued(d)
  BY <1>1, SameQueue DEF Delivers
<1>3. /\ remote'.received = remote.received /\ remote'.executed = remote.executed
      /\ remote' = [received |-> remote'.received, executed |-> remote'.executed,
                    answered |-> remote'.answered]
  BY Zenon, <1>1 DEF Delivers, TypeOK
<1>4. i \notin pending => Ignored(i)
  BY <1>1 DEF Delivers, TypeOK, Alive, Received, GateInv, Ignored
<1>5. ~done' /\ ~condemned'
  BY Zenon, <1>1, <1>4 DEF PeerInv, Delivers
<1>6. /\ calls' \in [Callers -> Call]
      /\ \A d \in Callers : /\ calls'[d].step = calls[d].step /\ calls'[d].id = calls[d].id
                            /\ calls'[d].write = calls[d].write /\ calls'[d].result = calls[d].result
                            /\ calls'[d].sent = calls[d].sent /\ calls'[d].outcome = calls[d].outcome
  <2>1. CASE i \in pending
    <3>1. PICK c \in Callers : Set(c, [calls[c] EXCEPT !.response = TRUE])
      BY <2>1 DEF Delivers
    <3>2. calls[c] \in Call
      BY <1>1 DEF TypeOK
    <3>3. [calls[c] EXCEPT !.response = TRUE] \in Call
      BY Zenon, <3>2, Typed DEF Call
    <3>4. /\ calls' \in [Callers -> Call] /\ calls'[c] = [calls[c] EXCEPT !.response = TRUE]
          /\ \A d \in Callers \ {c} : calls'[d] = calls[d]
      BY <1>1, <3>1, <3>3, SetCall
    <3>. QED
      BY <3>2, <3>4 DEF Call
  <2>2. CASE i \notin pending
    BY <1>1, <2>2 DEF Delivers, TypeOK
  <2>. QED
    BY <2>1, <2>2
<1>7. TypeOK'
  BY <1>1, <1>3, <1>6 DEF TypeOK, Delivers
<1>8. \A d \in Callers : WriteInv(d)' /\ OutcomeInv(d)'
  BY <1>1, <1>2, <1>6 DEF PeerInv, WriteInv, OutcomeInv, Delivers
<1>9. Alive'
  BY <1>1, <1>2, <1>3, <1>6 DEF Alive, GateInv, Received, Delivers
<1>. QED
  BY <1>2, <1>5, <1>7, <1>8, <1>9 DEF PeerInv

----------------------------------------------------------------------------
LEMMA PeerStep ==
    ASSUME PeerAssumption, PeerInv, [Next]_vars
    PROVE  PeerInv'
<1>1. CASE \E c \in Callers : Calling(c) \/ Cancel(c) \/ Again(c)
  BY <1>1, EnterStep, EnqueueStep, NotEnqueuedStep, WrittenStep, WriteFailsStep, CancelQueuedStep,
     WriteInterruptedStep, RespondsStep, GivesUpStep, CancelStep, AgainStep
  DEF Calling
<1>2. CASE WriterTakes \/ WriterStops \/ Writes \/ Finishes
  BY <1>2, WriterTakesStep, WriterStopsStep, WritesStep, FinishesStep
<1>3. CASE \E i \in 1 .. MaxID : Executes(i) \/ Delivers(i)
  BY <1>3, ExecutesStep, DeliversStep
<1>4. CASE UNCHANGED vars
  BY <1>4
  DEF vars, PeerInv, TypeOK, QueuedOnce, Queued, WriteInv, OutcomeInv, Alive, GateInv, Received
<1>. QED
  BY <1>1, <1>2, <1>3, <1>4 DEF Next

(* The outcome of a call (sdk/rpc/call.go) is what its caller may conclude   *)
(* from it (RpcPeer.CallsDefinite), for every number of callers and          *)
(* requests and every capacity of the queue: a call that failed definitely   *)
(* was not sent and never will be, except when the peer ended with it still  *)
(* queued; and no late answer of a remote that answers once is taken for a   *)
(* violation of the protocol.                                                *)
THEOREM OutcomesDefinite ==
    ASSUME PeerAssumption
    PROVE  Spec => []CallsDefinite
<1>1. PeerInv => CallsDefinite
  BY DEF PeerInv, OutcomeInv, CallsDefinite, FailureIsDefinite, LateAnswersTolerated
<1>. QED
  BY <1>1, PeerInit, PeerStep, PTL DEF Spec

=============================================================================
