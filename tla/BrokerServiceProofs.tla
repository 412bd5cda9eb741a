------------------------- MODULE BrokerServiceProofs -------------------------
(***************************************************************************)
(* Proofs about Broker, for every set of plugins, instances and tokens, any *)
(* length of the queues and any number of inputs and workers.               *)
(***************************************************************************)
EXTENDS Broker, TLAPS

Steps == {"select", "loop", "deliver", "failed", "returned", "done"}
Flag == BOOLEAN
Input == [seq : Int, waits : Flag]

Queues == Seq(Input)

Worker == [key : Key, queue : Queues, inFlight : Flag, completing : Flag, stopped : Flag,
           notify : Flag, step : Steps, current : Input]

Increasing(q) == \A m, n \in DOMAIN q : m < n => q[m].seq < q[n].seq

(* A worker by itself: what is in flight is the head of its queue until it  *)
(* is stopped, and it never returns before it takes no more input.          *)
WorkerInv(r) ==
    /\ r \in Worker
    /\ r.stopped => r.queue = <<>>
    /\ r.step = "deliver" => r.inFlight
    /\ r.inFlight /\ ~r.stopped => r.step = "deliver" /\ r.queue # <<>> /\ r.current = r.queue[1]
    /\ r.step \in {"returned", "done"} => r.stopped \/ r.completing

(* The routing table holds the one worker of a session that is not done,    *)
(* and those that run without a route are the ones an Apply or Close in     *)
(* progress waits for.                                                      *)
Running(w) == worker[w].step # "done"

Pending == {p \in Publishers : publisher[p].step \in {"enqueue", "overrun"}}

Calls == [step : {"idle", "enqueue", "overrun", "wait"}, seq : Int, waits : Flag, to : Int]

CallInv ==
    /\ next \in Int
    /\ publisher \in [Publishers -> Calls]
    /\ \A p \in Pending : publisher[p].to \in WorkerIds

RoutingInv ==
    /\ worker \in Seq(Worker)
    /\ \A w \in WorkerIds : WorkerInv(worker[w])
    /\ workers \in [Key -> Int]
    /\ \A k \in Key : workers[k] # NoWorker =>
          workers[k] \in WorkerIds /\ worker[workers[k]].key = k
    /\ \A w \in WorkerIds : Running(w) => workers[worker[w].key] = w
    /\ targets \in [Instances -> Plugins \cup {NoPlugin}]

JoinInv ==
    /\ applier.step \in {"idle", "joining"}
    /\ applier.joins \subseteq WorkerIds
    /\ \A w \in WorkerIds : Running(w) =>
          \/ targets[worker[w].key.instance] = worker[w].key.plugin
          \/ applier.step = "joining" /\ w \in applier.joins
    /\ closer.step \in {"idle", "joining", "closed"}
    /\ closed <=> closer.step # "idle"
    /\ closed => \A w \in WorkerIds : Unavailable(w) /\ (Running(w) => w \in closer.joins)
    /\ closer.step = "closed" => \A w \in WorkerIds : ~Running(w)
    /\ closer = [step |-> closer.step, joins |-> closer.joins]

Taking == {"select", "loop", "deliver"}

ServiceInv == RoutingInv /\ CallInv /\ JoinInv


----------------------------------------------------------------------------
(* Queues                                                                    *)

LEMMA Typed ==
    /\ TRUE \in Flag /\ FALSE \in Flag
    /\ "select" \in Steps /\ "loop" \in Steps /\ "deliver" \in Steps /\ "failed" \in Steps
    /\ "returned" \in Steps /\ "done" \in Steps
BY DEF Flag, Steps

LEMMA EmptyQueue == <<>> \in Queues /\ Increasing(<<>>) /\ DOMAIN <<>> = {}
BY DEF Queues, Increasing

LEMMA QueueTyped ==
    ASSUME NEW q \in Queues, NEW n \in DOMAIN q
    PROVE  q[n].seq \in Int
<1>1. q[n] \in Input
  BY DEF Queues
<1>. QED
  BY <1>1 DEF Input

LEMMA HeadOfQueue ==
    ASSUME NEW q \in Queues, q # <<>>
    PROVE  Head(q) = q[1] /\ q[1] \in Input /\ 1 \in DOMAIN q
BY DEF Queues

LEMMA HeadAlone ==
    ASSUME NEW q \in Queues, q # <<>>
    PROVE  /\ <<Head(q)>> \in Queues /\ Increasing(<<Head(q)>>) /\ <<Head(q)>> # <<>>
           /\ <<Head(q)>>[1] = q[1] /\ DOMAIN <<Head(q)>> = {1}
<1>1. Head(q) = q[1] /\ q[1] \in Input
  BY HeadOfQueue
<1>2. <<Head(q)>> \in Seq(Input) /\ DOMAIN <<Head(q)>> = {1}
  BY <1>1
<1>. QED
  BY <1>1, <1>2 DEF Queues, Increasing

LEMMA TailOfQueue ==
    ASSUME NEW q \in Queues, q # <<>>
    PROVE  /\ Tail(q) \in Queues /\ (Increasing(q) => Increasing(Tail(q)))
           /\ \A n \in DOMAIN Tail(q) : n + 1 \in DOMAIN q /\ Tail(q)[n] = q[n + 1]
<1>1. /\ Tail(q) \in Seq(Input) /\ Len(q) \in Nat /\ DOMAIN q = 1 .. Len(q)
      /\ DOMAIN Tail(q) = 1 .. Len(q) - 1
      /\ \A n \in 1 .. Len(q) - 1 : Tail(q)[n] = q[n + 1]
  BY DEF Queues
<1>2. \A n \in DOMAIN Tail(q) : n \in Int /\ n + 1 \in DOMAIN q /\ Tail(q)[n] = q[n + 1]
  BY <1>1
<1>3. ASSUME Increasing(q), NEW m \in DOMAIN Tail(q), NEW n \in DOMAIN Tail(q), m < n
      PROVE  Tail(q)[m].seq < Tail(q)[n].seq
  <2>1. m + 1 \in DOMAIN q /\ n + 1 \in DOMAIN q /\ m + 1 < n + 1
    BY <1>1, <1>3
  <2>2. q[m + 1].seq < q[n + 1].seq
    BY <1>3, <2>1 DEF Increasing
  <2>. QED
    BY <1>2, <2>2
<1>. QED
  BY <1>1, <1>2, <1>3 DEF Queues, Increasing

LEMMA AppendToQueue ==
    ASSUME NEW q \in Queues, NEW e \in Input
    PROVE  /\ Append(q, e) \in Queues /\ Append(q, e) # <<>>
           /\ Increasing(q) /\ (\A n \in DOMAIN q : q[n].seq < e.seq) => Increasing(Append(q, e))
           /\ q # <<>> => Append(q, e)[1] = q[1]
           /\ \A n \in DOMAIN Append(q, e) :
                 Append(q, e)[n] = e \/ (n \in DOMAIN q /\ Append(q, e)[n] = q[n])
<1>. DEFINE a == Append(q, e)  l == Len(q)
<1>1. l \in Nat /\ DOMAIN q = 1 .. l
  BY DEF Queues
<1>6. q # <<>> => l > 0
  BY DEF Queues
<1>2. /\ a \in Seq(Input) /\ DOMAIN a = 1 .. l + 1 /\ a[l + 1] = e
      /\ \A n \in 1 .. l : a[n] = q[n]
  BY DEF Queues
<1>. HIDE DEF a, l
<1>7. a # <<>>
  <2>1. l + 1 \in DOMAIN a
    BY <1>1, <1>2
  <2>. QED
    BY <2>1, EmptyQueue
<1>3. ASSUME NEW n \in DOMAIN a
      PROVE  (a[n] = e /\ n = l + 1) \/ (n \in DOMAIN q /\ a[n] = q[n])
  <2>1. n = l + 1 \/ n \in 1 .. l
    BY <1>1, <1>2
  <2>. QED
    BY <1>1, <1>2, <2>1
<1>4. ASSUME Increasing(q), \A n \in DOMAIN q : q[n].seq < e.seq,
             NEW m \in DOMAIN a, NEW n \in DOMAIN a, m < n
      PROVE  a[m].seq < a[n].seq
  <2>1. m \in DOMAIN q /\ a[m] = q[m]
    BY <1>1, <1>2, <1>4
  <2>2. CASE n = l + 1
    BY <1>2, <1>4, <2>1, <2>2
  <2>3. CASE n # l + 1
    BY <1>3, <1>4, <2>1, <2>3 DEF Increasing
  <2>. QED
    BY <2>2, <2>3
<1>5. q # <<>> => a[1] = q[1]
  BY <1>1, <1>2, <1>6
<1>. QED
  <2>1. /\ a \in Queues
        /\ Increasing(q) /\ (\A n \in DOMAIN q : q[n].seq < e.seq) => Increasing(a)
    BY <1>2, <1>4 DEF Queues, Increasing
  <2>2. \A n \in DOMAIN a : a[n] = e \/ (n \in DOMAIN q /\ a[n] = q[n])
    BY <1>3, Zenon
  <2>. QED
    BY <1>5, <1>7, <2>1, <2>2, Zenon DEF a
----------------------------------------------------------------------------
(* Steps that put nothing into a queue                                       *)

Later(s, r) ==
    /\ s.key = r.key
    /\ \A n \in DOMAIN s.queue : \E m \in DOMAIN r.queue : s.queue[n] = r.queue[m]
    /\ Increasing(r.queue) => Increasing(s.queue)
    /\ r.stopped \/ r.completing => s.stopped \/ s.completing
    /\ r.step = "done" => s.step = "done"
    /\ s.step \in Taking => r.step \in Taking
    /\ s.step = "deliver" =>
          \/ r.step = "deliver" /\ s.current = r.current
          \/ r.step = "loop" /\ \E m \in DOMAIN r.queue : s.current = r.queue[m]

Advance ==
    /\ worker' \in Seq(Worker) /\ WorkerIds' = WorkerIds
    /\ \A w \in WorkerIds : WorkerInv(worker'[w]) /\ Later(worker'[w], worker[w])

LEMMA LaterSame == \A r : Later(r, r)
BY DEF Later

LEMMA StoppedLater ==
    ASSUME NEW r, WorkerInv(r)
    PROVE  /\ WorkerInv(Stopped(r)) /\ Later(Stopped(r), r) /\ Stopped(r).stopped
           /\ Stopped(r).step = r.step
<1>. DEFINE s == Stopped(r)
<1>1. /\ s \in Worker /\ s.stopped = TRUE /\ s.queue = <<>> /\ s.key = r.key
      /\ s.step = r.step /\ s.current = r.current /\ s.inFlight = r.inFlight
  BY Zenon, Typed, EmptyQueue DEF Stopped, Worker, WorkerInv
<1>. HIDE DEF s
<1>2. WorkerInv(s)
  BY <1>1, EmptyQueue DEF WorkerInv
<1>3. Later(s, r)
  BY <1>1, EmptyQueue DEF Later, Taking
<1>. QED
  BY <1>1, <1>2, <1>3 DEF s

LEMMA UpdatedSeq ==
    ASSUME NEW S, NEW q \in Seq(S), NEW w \in 1 .. Len(q), NEW r \in S
    PROVE  /\ [q EXCEPT ![w] = r] \in Seq(S) /\ Len([q EXCEPT ![w] = r]) = Len(q)
           /\ [q EXCEPT ![w] = r][w] = r
           /\ \A v \in 1 .. Len(q) : v # w => [q EXCEPT ![w] = r][v] = q[v]
OBVIOUS

LEMMA OneAdvances ==
    ASSUME RoutingInv, NEW w \in WorkerIds, NEW r, WorkerInv(r), Later(r, worker[w]),
           worker' = [worker EXCEPT ![w] = r]
    PROVE  Advance /\ worker'[w] = r /\ \A v \in WorkerIds : v # w => worker'[v] = worker[v]
<1>1. r \in Worker /\ worker \in Seq(Worker) /\ w \in 1 .. Len(worker)
  BY DEF RoutingInv, WorkerInv, WorkerIds
<1>2. /\ worker' \in Seq(Worker) /\ Len(worker') = Len(worker) /\ worker'[w] = r
      /\ \A v \in WorkerIds : v # w => worker'[v] = worker[v]
  BY <1>1, UpdatedSeq DEF WorkerIds
<1>3. \A v \in WorkerIds : WorkerInv(worker[v])
  BY DEF RoutingInv
<1>. QED
  BY <1>2, <1>3, LaterSame DEF Advance, WorkerIds

LEMMA StopAdvances ==
    ASSUME RoutingInv, NEW ws \in SUBSET WorkerIds, StopNoWait(ws)
    PROVE  /\ Advance
           /\ \A w \in ws : worker'[w].stopped
           /\ \A w \in WorkerIds : worker'[w].step = worker[w].step
           /\ \A w \in WorkerIds : w \notin ws => worker'[w] = worker[w]
<1>. DEFINE fresh == {w \in ws : ~worker[w].stopped}
            f == [w \in WorkerIds |-> IF w \in fresh THEN Stopped(worker[w]) ELSE worker[w]]
<1>1. worker' = f
  BY DEF StopNoWait
<1>2. \A w \in WorkerIds : WorkerInv(worker[w])
  BY DEF RoutingInv
<1>3. \A w \in WorkerIds : WorkerInv(f[w]) /\ Later(f[w], worker[w]) /\ f[w].step = worker[w].step
  BY <1>2, StoppedLater, LaterSame
<1>4. \A w \in ws : f[w].stopped
  BY <1>2, StoppedLater
<1>5. f \in Seq(Worker) /\ Len(f) = Len(worker)
  <2>1. Len(worker) \in Nat
    BY DEF RoutingInv
  <2>2. DOMAIN f = 1 .. Len(worker) /\ \A w \in 1 .. Len(worker) : f[w] \in Worker
    BY <1>3 DEF WorkerInv, WorkerIds
  <2>3. f = [w \in 1 .. Len(worker) |-> f[w]]
    BY DEF WorkerIds
  <2>. HIDE DEF f
  <2>. QED
    BY <2>1, <2>2, <2>3
<1>6. \A w \in WorkerIds : w \notin ws => f[w] = worker[w]
  OBVIOUS
<1>. HIDE DEF f
<1>. QED
  BY <1>1, <1>3, <1>4, <1>5, <1>6 DEF Advance, WorkerIds

LEMMA AdvanceRoutes ==
    ASSUME RoutingInv, Advance, workers' = workers,
           targets' \in [Instances -> Plugins \cup {NoPlugin}]
    PROVE  RoutingInv'
<1>1. \A w \in WorkerIds : worker'[w].key = worker[w].key /\ (Running(w)' => Running(w))
  BY DEF Advance, Later, Running
<1>2. \A k \in Key : workers[k] # NoWorker =>
         workers[k] \in WorkerIds /\ worker'[workers[k]].key = k
  BY <1>1 DEF RoutingInv
<1>3. \A w \in WorkerIds : Running(w)' => workers[worker'[w].key] = w
  BY <1>1 DEF RoutingInv
<1>. QED
  BY <1>2, <1>3 DEF RoutingInv, Advance

LEMMA AdvanceJoins ==
    ASSUME RoutingInv, JoinInv, Advance, UNCHANGED <<targets, applier, closer, closed>>
    PROVE  JoinInv'
BY DEF JoinInv, Advance, Later, Running, Unavailable

LEMMA AdvanceCalls ==
    ASSUME CallInv, Advance, next' = next, publisher' \in [Publishers -> Calls],
           \A p \in Pending' : p \in Pending /\ publisher'[p].to = publisher[p].to
    PROVE  CallInv'
BY DEF CallInv, Advance

----------------------------------------------------------------------------
(* The worker transitions                                                    *)

LEMMA StepTo ==
    ASSUME NEW r, NEW x \in Steps, WorkerInv(r), x # "deliver", r.inFlight => r.stopped,
           x \in {"returned", "done"} => r.stopped \/ r.completing,
           r.step = "done" => x = "done", x \in Taking => r.step \in Taking
    PROVE  /\ WorkerInv([r EXCEPT !.step = x]) /\ Later([r EXCEPT !.step = x], r)
           /\ [r EXCEPT !.step = x].stopped = r.stopped
           /\ [r EXCEPT !.step = x].completing = r.completing
           /\ [r EXCEPT !.step = x].step = x
<1>. DEFINE s == [r EXCEPT !.step = x]
<1>1. /\ s \in Worker /\ s.stopped = r.stopped /\ s.completing = r.completing /\ s.queue = r.queue
      /\ s.key = r.key /\ s.step = x /\ s.inFlight = r.inFlight
  BY DEF Worker, WorkerInv
<1>. HIDE DEF s
<1>2. WorkerInv(s)
  BY <1>1 DEF WorkerInv
<1>3. Later(s, r)
  BY <1>1 DEF Later
<1>. QED
  BY <1>1, <1>2, <1>3 DEF s

LEMMA SelectNotified ==
    ASSUME NEW r, WorkerInv(r), r.step = "select"
    PROVE  LET s == [r EXCEPT !.step = "loop", !.notify = FALSE]
           IN  WorkerInv(s) /\ Later(s, r) /\ s.stopped = r.stopped /\ s.completing = r.completing
<1>. DEFINE s == [r EXCEPT !.step = "loop", !.notify = FALSE]
<1>1. /\ s \in Worker /\ s.stopped = r.stopped /\ s.completing = r.completing /\ s.queue = r.queue
      /\ s.key = r.key /\ s.step = "loop" /\ s.inFlight = r.inFlight
  BY Zenon, Typed DEF Worker, WorkerInv
<1>. HIDE DEF s
<1>2. WorkerInv(s)
  BY <1>1 DEF WorkerInv
<1>3. Later(s, r)
  BY <1>1 DEF Later, Taking
<1>. QED
  BY <1>1, <1>2, <1>3 DEF s

LEMMA BeginTakes ==
    ASSUME NEW r, WorkerInv(r), r.step = "loop", ~r.stopped, r.queue # <<>>
    PROVE  LET s == [r EXCEPT !.step = "deliver", !.inFlight = TRUE, !.current = Head(r.queue)]
           IN  WorkerInv(s) /\ Later(s, r) /\ s.stopped = r.stopped /\ s.completing = r.completing
<1>. DEFINE s == [r EXCEPT !.step = "deliver", !.inFlight = TRUE, !.current = Head(r.queue)]
<1>1. r \in Worker /\ r.queue \in Queues
  BY DEF Worker, WorkerInv
<1>2. Head(r.queue) = r.queue[1] /\ r.queue[1] \in Input /\ 1 \in DOMAIN r.queue
  BY <1>1, HeadOfQueue
<1>3. /\ s \in Worker /\ s.stopped = r.stopped /\ s.completing = r.completing /\ s.queue = r.queue
      /\ s.key = r.key /\ s.step = "deliver" /\ s.inFlight = TRUE /\ s.current = r.queue[1]
  BY Zenon, <1>1, <1>2, Typed DEF Worker
<1>. HIDE DEF s
<1>4. WorkerInv(s)
  BY <1>3 DEF WorkerInv
<1>5. Later(s, r)
  BY <1>2, <1>3 DEF Later, Taking
<1>. QED
  BY <1>3, <1>4, <1>5 DEF s

Taken(r, x) == [[r EXCEPT !.queue = Tail(@)] EXCEPT !.inFlight = FALSE, !.step = x]

LEMMA FinishTakes ==
    ASSUME NEW r, NEW x \in {"failed", "loop"}, WorkerInv(r), r.step = "deliver", r.queue # <<>>
    PROVE  /\ WorkerInv(Taken(r, x)) /\ Later(Taken(r, x), r)
           /\ Taken(r, x).stopped = r.stopped /\ Taken(r, x).completing = r.completing
           /\ Taken(r, x).step = x
<1>. DEFINE s == Taken(r, x)
<1>1. r \in Worker /\ r.queue \in Queues
  BY DEF Worker, WorkerInv
<1>2. /\ Tail(r.queue) \in Queues /\ (Increasing(r.queue) => Increasing(Tail(r.queue)))
      /\ \A n \in DOMAIN Tail(r.queue) : \E m \in DOMAIN r.queue : Tail(r.queue)[n] = r.queue[m]
  BY <1>1, TailOfQueue
<1>3. /\ s \in Worker /\ s.stopped = r.stopped /\ s.completing = r.completing
      /\ s.queue = Tail(r.queue) /\ s.key = r.key /\ s.step = x /\ s.inFlight = FALSE
  BY Zenon, <1>1, <1>2, Typed DEF Worker, Taken
<1>. HIDE DEF s
<1>4. WorkerInv(s)
  BY <1>3 DEF WorkerInv
<1>5. Later(s, r)
  BY <1>2, <1>3 DEF Later, Taking
<1>. QED
  BY <1>3, <1>4, <1>5 DEF s

LEMMA FinishStops ==
    ASSUME NEW r, NEW x \in {"failed", "returned"}, WorkerInv(r), r.step = "deliver"
    PROVE  LET s == [Stopped(r) EXCEPT !.inFlight = FALSE, !.step = x]
           IN  WorkerInv(s) /\ Later(s, r)
<1>. DEFINE s == [Stopped(r) EXCEPT !.inFlight = FALSE, !.step = x]
<1>1. /\ s \in Worker /\ s.stopped = TRUE /\ s.queue = <<>>
      /\ s.key = r.key /\ s.step = x /\ s.inFlight = FALSE
  BY Zenon, Typed, EmptyQueue DEF Worker, WorkerInv, Stopped
<1>. HIDE DEF s
<1>2. WorkerInv(s)
  BY <1>1 DEF WorkerInv
<1>3. Later(s, r)
  BY <1>1, EmptyQueue DEF Later, Taking
<1>. QED
  BY <1>2, <1>3 DEF s

LEMMA FailStops ==
    ASSUME NEW r, WorkerInv(r), r.step = "failed"
    PROVE  LET s == [Stopped(r) EXCEPT !.step = "returned"]
           IN  WorkerInv(s) /\ Later(s, r) /\ s.stopped
<1>. DEFINE s == [Stopped(r) EXCEPT !.step = "returned"]
<1>1. /\ s \in Worker /\ s.stopped = TRUE /\ s.queue = <<>>
      /\ s.key = r.key /\ s.step = "returned"
  BY Zenon, Typed, EmptyQueue DEF Worker, WorkerInv, Stopped
<1>. HIDE DEF s
<1>2. WorkerInv(s)
  BY <1>1 DEF WorkerInv
<1>3. Later(s, r)
  BY <1>1, EmptyQueue DEF Later, Taking
<1>. QED
  BY <1>1, <1>2, <1>3 DEF s

LEMMA CompleteKeeps ==
    ASSUME NEW r, WorkerInv(r), r.inFlight, ~r.stopped
    PROVE  LET s == [r EXCEPT !.completing = TRUE, !.queue = <<Head(r.queue)>>]
           IN  WorkerInv(s) /\ Later(s, r) /\ s.completing
<1>. DEFINE s == [r EXCEPT !.completing = TRUE, !.queue = <<Head(r.queue)>>]
<1>1. r \in Worker /\ r.queue \in Queues /\ r.queue # <<>> /\ r.current = r.queue[1]
  BY DEF Worker, WorkerInv
<1>2. /\ <<Head(r.queue)>> \in Queues /\ Increasing(<<Head(r.queue)>>) /\ <<Head(r.queue)>> # <<>>
      /\ <<Head(r.queue)>>[1] = r.queue[1] /\ DOMAIN <<Head(r.queue)>> = {1} /\ 1 \in DOMAIN r.queue
  BY <1>1, HeadAlone, HeadOfQueue
<1>3. PICK q \in Queues : q = <<Head(r.queue)>>
  BY <1>2
<1>4. /\ s \in Worker /\ s.stopped = r.stopped /\ s.completing = TRUE /\ s.queue = q
      /\ s.key = r.key /\ s.step = r.step /\ s.inFlight = r.inFlight /\ s.current = r.current
  BY Zenon, <1>1, <1>3, Typed DEF Worker
<1>5. Increasing(q) /\ q # <<>> /\ q[1] = r.queue[1] /\ DOMAIN q = {1} /\ 1 \in DOMAIN r.queue
  BY <1>2, <1>3
<1>. HIDE DEF s
<1>6. WorkerInv(s)
  BY <1>1, <1>4, <1>5 DEF WorkerInv
<1>7. Later(s, r)
  BY <1>4, <1>5 DEF Later
<1>. QED
  BY <1>4, <1>6, <1>7 DEF s

LEMMA CompleteStops ==
    ASSUME NEW r, WorkerInv(r)
    PROVE  LET s == [Stopped(r) EXCEPT !.completing = TRUE]
           IN  WorkerInv(s) /\ Later(s, r) /\ s.completing
<1>. DEFINE s == [Stopped(r) EXCEPT !.completing = TRUE]
<1>1. /\ s \in Worker /\ s.stopped = TRUE /\ s.completing = TRUE /\ s.queue = <<>>
      /\ s.key = r.key /\ s.step = r.step /\ s.current = r.current /\ s.inFlight = r.inFlight
  BY Zenon, Typed, EmptyQueue DEF Worker, WorkerInv, Stopped
<1>. HIDE DEF s
<1>2. WorkerInv(s)
  BY <1>1 DEF WorkerInv
<1>3. Later(s, r)
  BY <1>1, EmptyQueue DEF Later
<1>. QED
  BY <1>1, <1>2, <1>3 DEF s
----------------------------------------------------------------------------
(* The worker's goroutine                                                    *)

OthersKept(w) == \A v \in WorkerIds : v # w => worker'[v] = worker[v]

LEMMA SelectAdvances ==
    ASSUME RoutingInv, NEW w \in WorkerIds, Select(w)
    PROVE  /\ Advance /\ OthersKept(w)
           /\ worker'[w].stopped = worker[w].stopped /\ worker'[w].completing = worker[w].completing
<1>. DEFINE r == worker[w]
<1>1. WorkerInv(r) /\ r.step = "select"
  BY DEF RoutingInv, Select
<1>2. r.inFlight => r.stopped
  BY <1>1 DEF WorkerInv
<1>3. CASE r.stopped /\ worker' = [worker EXCEPT ![w] = [r EXCEPT !.step = "returned"]]
  <2>. DEFINE s == [r EXCEPT !.step = "returned"]
  <2>1. WorkerInv(s) /\ Later(s, r) /\ s.stopped = r.stopped /\ s.completing = r.completing
    BY Zenon, <1>1, <1>2, <1>3, StepTo, Typed DEF Taking
  <2>. HIDE DEF s
  <2>. QED
    BY Zenon, <1>3, <2>1, OneAdvances DEF s, OthersKept
<1>4. CASE worker' = [worker EXCEPT ![w] = [r EXCEPT !.step = "loop", !.notify = FALSE]]
  <2>. DEFINE s == [r EXCEPT !.step = "loop", !.notify = FALSE]
  <2>1. WorkerInv(s) /\ Later(s, r) /\ s.stopped = r.stopped /\ s.completing = r.completing
    BY Zenon, <1>1, SelectNotified
  <2>2. worker' = [worker EXCEPT ![w] = s]
    BY <1>4
  <2>. HIDE DEF s
  <2>. QED
    BY Zenon, <2>1, <2>2, OneAdvances DEF OthersKept
<1>. QED
  BY Zenon, <1>3, <1>4 DEF Select

LEMMA BeginAdvances ==
    ASSUME RoutingInv, NEW w \in WorkerIds, BeginDelivery(w)
    PROVE  /\ Advance /\ OthersKept(w)
           /\ worker'[w].stopped = worker[w].stopped /\ worker'[w].completing = worker[w].completing
<1>. DEFINE r == worker[w]
<1>1. WorkerInv(r) /\ r.step = "loop"
  BY DEF RoutingInv, BeginDelivery
<1>2. r.inFlight => r.stopped
  BY <1>1 DEF WorkerInv
<1>3. CASE r.stopped \/ r.inFlight \/ r.queue = <<>>
  <2>. DEFINE s == [r EXCEPT !.step = "select"]
  <2>1. worker' = [worker EXCEPT ![w] = s]
    BY <1>3 DEF BeginDelivery
  <2>2. WorkerInv(s) /\ Later(s, r) /\ s.stopped = r.stopped /\ s.completing = r.completing
    BY <1>1, <1>2, StepTo, Typed DEF Taking
  <2>. HIDE DEF s
  <2>. QED
    BY Zenon, <2>1, <2>2, OneAdvances DEF OthersKept
<1>4. CASE ~(r.stopped \/ r.inFlight \/ r.queue = <<>>)
  <2>. DEFINE s == [r EXCEPT !.step = "deliver", !.inFlight = TRUE, !.current = Head(r.queue)]
  <2>1. worker' = [worker EXCEPT ![w] = s]
    BY Zenon, <1>4 DEF BeginDelivery
  <2>2. WorkerInv(s) /\ Later(s, r) /\ s.stopped = r.stopped /\ s.completing = r.completing
    BY Zenon, <1>1, <1>4, BeginTakes
  <2>. HIDE DEF s
  <2>. QED
    BY Zenon, <2>1, <2>2, OneAdvances DEF OthersKept
<1>. QED
  BY <1>3, <1>4

LEMMA FinishAdvances ==
    ASSUME RoutingInv, NEW w \in WorkerIds, NEW ok \in BOOLEAN, FinishDelivery(w, ok)
    PROVE  /\ Advance /\ OthersKept(w)
           /\ \/ Unavailable(w) /\ dropped' = dropped
              \/ /\ ~Unavailable(w) /\ ~worker'[w].stopped /\ ~worker'[w].completing
                 /\ \/ dropped' = dropped
                    \/ /\ worker'[w].step = "failed"
                       /\ dropped' = [dropped EXCEPT ![worker[w].key] = @ \cup {worker[w].current.seq}]
<1>. DEFINE r == worker[w]
<1>1. WorkerInv(r) /\ r.step = "deliver" /\ r.inFlight
  BY DEF RoutingInv, FinishDelivery, WorkerInv
<1>2. CASE r.stopped \/ r.queue = <<>> \/ Head(r.queue) # r.current
  <2>. DEFINE s == [r EXCEPT !.step = "returned"]
  <2>1. worker' = [worker EXCEPT ![w] = s] /\ dropped' = dropped
    BY <1>2 DEF FinishDelivery
  <2>2. r.stopped
    <3>1. r.queue \in Queues
      BY <1>1 DEF WorkerInv, Worker
    <3>. QED
      BY <1>1, <1>2, <3>1, HeadOfQueue DEF WorkerInv
  <2>3. WorkerInv(s) /\ Later(s, r)
    BY <1>1, <2>2, StepTo, Typed DEF Taking
  <2>. HIDE DEF s
  <2>. QED
    BY Zenon, <2>1, <2>2, <2>3, OneAdvances DEF OthersKept, Unavailable
<1>3. CASE ~(r.stopped \/ r.queue = <<>> \/ Head(r.queue) # r.current)
  <2>1. CASE r.completing
    <3>. DEFINE x == IF ~ok THEN "failed" ELSE "returned"
                s == [Stopped(r) EXCEPT !.inFlight = FALSE, !.step = x]
    <3>1. worker' = [worker EXCEPT ![w] = s] /\ dropped' = dropped
      BY <1>3, <2>1 DEF FinishDelivery
    <3>2. WorkerInv(s) /\ Later(s, r)
      BY Zenon, <1>1, FinishStops
    <3>. HIDE DEF s
    <3>. QED
      BY Zenon, <2>1, <3>1, <3>2, OneAdvances DEF OthersKept, Unavailable
  <2>2. CASE ~r.completing
    <3>. DEFINE x == IF ~ok THEN "failed" ELSE "loop"
                s == Taken(r, x)
    <3>1. /\ worker' = [worker EXCEPT ![w] = s]
          /\ dropped' = IF ok THEN dropped
                        ELSE [dropped EXCEPT ![r.key] = @ \cup {r.current.seq}]
      BY <1>3, <2>2 DEF FinishDelivery, Taken
    <3>3. x \in {"failed", "loop"} /\ (~ok => x = "failed")
      OBVIOUS
    <3>. HIDE DEF x
    <3>2. /\ WorkerInv(s) /\ Later(s, r) /\ s.stopped = r.stopped
          /\ s.completing = r.completing /\ s.step = x
      BY <1>1, <1>3, <3>3, FinishTakes
    <3>. HIDE DEF s
    <3>4. Advance /\ worker'[w] = s /\ OthersKept(w)
      BY Zenon, <3>1, <3>2, OneAdvances DEF OthersKept
    <3>. QED
      BY <1>3, <2>2, <3>1, <3>2, <3>3, <3>4 DEF Unavailable
  <2>. QED
    BY <2>1, <2>2
<1>. QED
  BY <1>2, <1>3

LEMMA FailAdvances ==
    ASSUME RoutingInv, NEW w \in WorkerIds, FailDelivery(w)
    PROVE  /\ Advance /\ OthersKept(w)
           /\ \/ /\ workers[worker[w].key] = w /\ ~Unavailable(w)
                 /\ worker'[w].stopped /\ invalid' = invalid \cup {worker[w].key}
              \/ /\ workers[worker[w].key] # w \/ Unavailable(w)
                 /\ invalid' = invalid
<1>. DEFINE r == worker[w]  key == worker[w].key
<1>1. WorkerInv(r) /\ r.step = "failed"
  BY DEF RoutingInv, FailDelivery
<1>2. r.inFlight => r.stopped
  BY <1>1 DEF WorkerInv
<1>3. CASE workers[key] = w /\ ~Unavailable(w)
  <2>. DEFINE s == [Stopped(r) EXCEPT !.step = "returned"]
  <2>1. worker' = [worker EXCEPT ![w] = s] /\ invalid' = invalid \cup {key}
    BY <1>3 DEF FailDelivery
  <2>2. WorkerInv(s) /\ Later(s, r) /\ s.stopped
    BY <1>1, FailStops
  <2>. HIDE DEF s
  <2>. QED
    BY Zenon, <1>3, <2>1, <2>2, OneAdvances DEF OthersKept
<1>4. CASE ~(workers[key] = w /\ ~Unavailable(w))
  <2>. DEFINE s == [r EXCEPT !.step = "returned"]
  <2>1. worker' = [worker EXCEPT ![w] = s] /\ invalid' = invalid
    BY <1>4 DEF FailDelivery
  <2>2. Unavailable(w)
    BY <1>1, <1>4 DEF RoutingInv, Running
  <2>3. WorkerInv(s) /\ Later(s, r)
    BY <1>1, <1>2, <2>2, StepTo, Typed DEF Taking, Unavailable
  <2>. HIDE DEF s
  <2>. QED
    BY Zenon, <2>1, <2>2, <2>3, OneAdvances DEF OthersKept
<1>. QED
  BY <1>3, <1>4

LEMMA ExitAdvances ==
    ASSUME RoutingInv, NEW w \in WorkerIds, RunWorkerExit(w)
    PROVE  /\ Advance /\ OthersKept(w) /\ Unavailable(w) /\ worker'[w].step = "done"
           /\ RoutingInv'
<1>. DEFINE r == worker[w]  s == [r EXCEPT !.step = "done"]
<1>1. WorkerInv(r) /\ r.step = "returned" /\ worker' = [worker EXCEPT ![w] = s]
  BY DEF RoutingInv, RunWorkerExit
<1>2. (r.inFlight => r.stopped) /\ (r.stopped \/ r.completing)
  BY <1>1 DEF WorkerInv
<1>3. WorkerInv(s) /\ Later(s, r) /\ s.step = "done"
  BY <1>1, <1>2, StepTo, Typed DEF Taking
<1>. HIDE DEF s
<1>4. Advance /\ worker'[w] = s /\ OthersKept(w)
  BY Zenon, <1>1, <1>3, OneAdvances DEF OthersKept
<1>5. r.key \in Key /\ workers[r.key] = w
  BY <1>1 DEF RoutingInv, Running, WorkerInv, Worker
<1>6. workers' = [workers EXCEPT ![r.key] = NoWorker] /\ targets' = targets
  BY <1>5 DEF RunWorkerExit
<1>7. workers' \in [Key -> Int] /\ workers'[r.key] = NoWorker
      /\ \A k \in Key : k # r.key => workers'[k] = workers[k]
  BY <1>5, <1>6 DEF RoutingInv, NoWorker
<1>8. \A v \in WorkerIds : worker'[v].key = worker[v].key /\ worker[v].key \in Key
  BY <1>4 DEF Advance, Later, RoutingInv, WorkerInv, Worker
<1>9. \A k \in Key : workers'[k] # NoWorker =>
         workers'[k] \in WorkerIds /\ worker'[workers'[k]].key = k
  BY <1>7, <1>8 DEF RoutingInv
<1>10. ASSUME NEW v \in WorkerIds, worker'[v].step # "done"
       PROVE  workers'[worker'[v].key] = v
  <2>1. v # w /\ worker'[v] = worker[v]
    BY <1>3, <1>4, <1>10 DEF OthersKept
  <2>2. workers[worker[v].key] = v /\ worker[v].key # r.key
    BY <1>5, <1>10, <2>1 DEF RoutingInv, Running
  <2>. QED
    BY <1>7, <1>8, <2>1, <2>2
<1>11. RoutingInv'
  BY <1>4, <1>6, <1>7, <1>9, <1>10 DEF RoutingInv, Advance, Running
<1>. QED
  BY <1>2, <1>3, <1>4, <1>11 DEF Unavailable
----------------------------------------------------------------------------
(* Stopping and completing                                                   *)

LEMMA RegisteredTyped ==
    ASSUME RoutingInv
    PROVE  /\ Registered \subseteq WorkerIds
           /\ \A w \in Registered : workers[worker[w].key] = w
           /\ \A w \in WorkerIds : Running(w) => w \in Registered
           /\ \A w \in WorkerIds : ~Unavailable(w) => Running(w) /\ worker[w].key \in Key
<1>1. \A w \in Registered : w \in WorkerIds /\ workers[worker[w].key] = w
  BY DEF Registered, RoutingInv
<1>2. \A w \in WorkerIds : worker[w].key \in Key /\ w # NoWorker
  BY DEF RoutingInv, WorkerInv, Worker, WorkerIds, NoWorker
<1>3. \A w \in WorkerIds : Running(w) => w \in Registered
  BY <1>2 DEF Registered, RoutingInv
<1>4. \A w \in WorkerIds : ~Unavailable(w) => Running(w)
  BY DEF RoutingInv, WorkerInv, Unavailable, Running
<1>. QED
  BY <1>1, <1>2, <1>3, <1>4

LEMMA FailOf ==
    ASSUME RoutingInv, NEW w \in WorkerIds, Fail(w)
    PROVE  /\ Advance /\ OthersKept(w)
           /\ \/ /\ ~Unavailable(w) /\ worker'[w].stopped
                 /\ invalid' = invalid \cup {worker[w].key}
              \/ Unavailable(w) /\ invalid' = invalid /\ worker' = worker
<1>1. CASE workers[worker[w].key] = w /\ ~Unavailable(w)
  <2>1. StopNoWait({w}) /\ invalid' = invalid \cup {worker[w].key}
    BY <1>1 DEF Fail
  <2>2. {w} \in SUBSET WorkerIds
    OBVIOUS
  <2>. QED
    BY <1>1, <2>1, <2>2, StopAdvances DEF OthersKept
<1>2. CASE ~(workers[worker[w].key] = w /\ ~Unavailable(w))
  <2>1. worker' = worker /\ invalid' = invalid
    BY <1>2 DEF Fail
  <2>2. Unavailable(w)
    BY <1>2, RegisteredTyped DEF RoutingInv
  <2>3. Advance
    BY <2>1, LaterSame DEF Advance, RoutingInv, WorkerIds
  <2>. QED
    BY <2>1, <2>2, <2>3 DEF OthersKept
<1>. QED
  BY <1>1, <1>2

LEMMA CompleteOf ==
    ASSUME RoutingInv, NEW w \in WorkerIds, CompleteNoWait(w)
    PROVE  Advance /\ OthersKept(w) /\ (worker'[w].stopped \/ worker'[w].completing)
<1>. DEFINE r == worker[w]
<1>1. WorkerInv(r)
  BY DEF RoutingInv
<1>2. CASE Unavailable(w)
  <2>1. worker' = worker
    BY <1>2 DEF CompleteNoWait
  <2>. QED
    BY <1>2, <2>1, LaterSame DEF Advance, RoutingInv, WorkerIds, OthersKept, Unavailable
<1>3. CASE ~Unavailable(w) /\ r.inFlight
  <2>. DEFINE s == [r EXCEPT !.completing = TRUE, !.queue = <<Head(r.queue)>>]
  <2>1. worker' = [worker EXCEPT ![w] = s]
    BY ZenonT(30), <1>3 DEF CompleteNoWait
  <2>2. WorkerInv(s) /\ Later(s, r) /\ s.completing
    BY Zenon, <1>1, <1>3, CompleteKeeps DEF Unavailable
  <2>. HIDE DEF s
  <2>. QED
    BY Zenon, <2>1, <2>2, OneAdvances DEF OthersKept
<1>4. CASE ~Unavailable(w) /\ ~r.inFlight
  <2>. DEFINE s == [Stopped(r) EXCEPT !.completing = TRUE]
  <2>1. worker' = [worker EXCEPT ![w] = s]
    BY <1>4 DEF CompleteNoWait
  <2>2. WorkerInv(s) /\ Later(s, r) /\ s.completing
    BY <1>1, CompleteStops
  <2>. HIDE DEF s
  <2>. QED
    BY Zenon, <2>1, <2>2, OneAdvances DEF OthersKept
<1>. QED
  BY <1>2, <1>3, <1>4

(* Cancel and Complete change the session's own worker only.                 *)
LEMMA RetireAdvances ==
    ASSUME RoutingInv, NEW key \in Key, Cancel(key) \/ Complete(key)
    PROVE  /\ Advance
           /\ \A v \in WorkerIds : v # workers[key] => worker'[v] = worker[v]
           /\ invalid' = invalid \ {key} /\ dropped' = [dropped EXCEPT ![key] = {}]
           /\ UNCHANGED <<targets, workers, closed, next, publisher, applier, closer>>
<1>1. /\ invalid' = invalid \ {key} /\ dropped' = [dropped EXCEPT ![key] = {}]
      /\ UNCHANGED <<targets, workers, closed, next, publisher, applier, closer>>
  BY DEF Cancel, Complete
<1>2. CASE workers[key] = NoWorker
  <2>1. worker' = worker
    BY <1>2 DEF Cancel, Complete
  <2>. QED
    BY <1>1, <2>1, LaterSame DEF Advance, RoutingInv, WorkerIds
<1>3. CASE workers[key] # NoWorker
  <2>1. PICK w \in WorkerIds : w = workers[key]
    BY <1>3 DEF RoutingInv
  <2>2. StopNoWait({w}) \/ CompleteNoWait(w)
    BY <1>3, <2>1 DEF Cancel, Complete
  <2>3. {w} \in SUBSET WorkerIds
    OBVIOUS
  <2>4. Advance /\ \A v \in WorkerIds : v # w => worker'[v] = worker[v]
    BY <2>2, <2>3, StopAdvances, CompleteOf DEF OthersKept
  <2>. QED
    BY <1>1, <2>1, <2>4
<1>. QED
  BY <1>2, <1>3
----------------------------------------------------------------------------
(* Routing and joining, with any number of publishers                        *)

LEMMA ServiceInit == Init => ServiceInv
<1>. SUFFICES ASSUME Init PROVE ServiceInv
  OBVIOUS
<1>1. WorkerIds = {} /\ worker \in Seq(Worker)
  BY DEF Init, WorkerIds
<1>2. RoutingInv
  BY <1>1 DEF Init, RoutingInv, NoWorker
<1>3. CallInv
  <2>1. next \in Int /\ publisher = [p \in Publishers |-> IdlePublisher]
    BY DEF Init
  <2>2. IdlePublisher \in Calls /\ IdlePublisher.step = "idle"
    BY DEF IdlePublisher, Calls, NoWorker, Flag
  <2>3. Pending = {}
    BY <2>1, <2>2 DEF Pending
  <2>. QED
    BY <2>1, <2>2, <2>3 DEF CallInv
<1>4. JoinInv
  BY <1>1 DEF Init, JoinInv, IdleCaller
<1>. QED
  BY <1>2, <1>3, <1>4 DEF ServiceInv

LEMMA SameWorkers ==
    ASSUME RoutingInv, worker' = worker
    PROVE  Advance
BY LaterSame DEF Advance, RoutingInv, WorkerIds

LEMMA PublishNew ==
    ASSUME RoutingInv, NEW key \in Key, workers[key] = NoWorker,
           worker' = Append(worker, NewWorker(key)),
           workers' = [workers EXCEPT ![key] = Len(worker) + 1],
           targets' = targets
    PROVE  /\ RoutingInv'
           /\ workers'[key] = Len(worker) + 1 /\ workers'[key] # NoWorker
           /\ WorkerIds' = WorkerIds \cup {workers'[key]} /\ workers'[key] \notin WorkerIds
           /\ worker'[workers'[key]] = NewWorker(key)
           /\ \A w \in WorkerIds : worker'[w] = worker[w]
<1>. DEFINE n == Len(worker) + 1  s == NewWorker(key)
<1>1. s \in Worker /\ s.key = key /\ WorkerInv(s)
  <2>1. /\ s \in Worker /\ s.key = key /\ s.queue = <<>> /\ s.inFlight = FALSE
        /\ s.stopped = FALSE /\ s.step = "select"
    <3>3. [seq |-> 0, waits |-> FALSE] \in Input
      BY DEF Input, Flag
    <3>1. PICK c \in Input : c = [seq |-> 0, waits |-> FALSE]
      BY <3>3
    <3>2. s = [key |-> key, queue |-> <<>>, inFlight |-> FALSE, completing |-> FALSE,
               stopped |-> FALSE, notify |-> FALSE, step |-> "select", current |-> c]
      BY <3>1 DEF NewWorker
    <3>. HIDE DEF s
    <3>. QED
      BY Zenon, <3>2, Typed, EmptyQueue DEF Worker
  <2>. HIDE DEF s
  <2>. QED
    BY <2>1 DEF WorkerInv
<1>. HIDE DEF s
<1>2. worker \in Seq(Worker) /\ Len(worker) \in Nat
  BY DEF RoutingInv
<1>3. /\ worker' \in Seq(Worker) /\ Len(worker') = n /\ worker'[n] = s
      /\ \A w \in 1 .. Len(worker) : worker'[w] = worker[w]
  BY <1>1, <1>2 DEF s
<1>4. n \in Int /\ n # NoWorker /\ n \notin WorkerIds /\ WorkerIds' = WorkerIds \cup {n}
  BY <1>2, <1>3 DEF WorkerIds, NoWorker
<1>5. /\ workers' \in [Key -> Int] /\ workers'[key] = n
      /\ \A k \in Key : k # key => workers'[k] = workers[k]
  BY <1>4 DEF RoutingInv
<1>. HIDE DEF n
<1>6. \A w \in WorkerIds : worker'[w] = worker[w] /\ worker[w].key \in Key
  BY <1>3 DEF WorkerIds, RoutingInv, WorkerInv, Worker
<1>7. \A w \in WorkerIds' : WorkerInv(worker'[w])
  BY ZenonT(30), <1>1, <1>3, <1>4, <1>6 DEF RoutingInv
<1>8. \A k \in Key : workers'[k] # NoWorker =>
         workers'[k] \in WorkerIds' /\ worker'[workers'[k]].key = k
  <2>1. workers'[key] \in WorkerIds' /\ worker'[workers'[key]].key = key
    BY <1>1, <1>3, <1>4, <1>5
  <2>2. ASSUME NEW k \in Key, k # key, workers'[k] # NoWorker
        PROVE  workers'[k] \in WorkerIds' /\ worker'[workers'[k]].key = k
    <3>1. workers'[k] = workers[k] /\ workers[k] \in WorkerIds /\ worker[workers[k]].key = k
      BY <1>5, <2>2 DEF RoutingInv
    <3>2. PICK v \in WorkerIds : v = workers'[k]
      BY <3>1
    <3>3. worker[v].key = k
      BY <3>1, <3>2
    <3>4. worker'[v].key = k
      BY Zenon, <1>6, <3>3
    <3>5. v \in WorkerIds'
      BY <1>4
    <3>. QED
      BY <3>2, <3>4, <3>5
  <2>. QED
    BY Zenon, <2>1, <2>2
<1>9. \A w \in WorkerIds' : worker'[w].step # "done" => workers'[worker'[w].key] = w
  <2>1. ASSUME NEW w \in WorkerIds, worker[w].step # "done"
        PROVE  workers'[worker[w].key] = w
    <3>1. workers[worker[w].key] = w /\ w # NoWorker
      BY <2>1 DEF RoutingInv, Running, WorkerIds, NoWorker
    <3>. QED
      BY <1>5, <1>6, <3>1
  <2>2. workers'[worker'[n].key] = n
    BY <1>1, <1>3, <1>5
  <2>. QED
    BY Zenon, <1>4, <1>6, <2>1, <2>2
<1>10. RoutingInv'
  BY Zenon, <1>3, <1>5, <1>7, <1>8, <1>9 DEF RoutingInv, Running
<1>. QED
  BY Zenon, <1>3, <1>4, <1>5, <1>6, <1>10 DEF n, s

LEMMA ServiceRoutes ==
    ASSUME RoutingInv, NEW w \in WorkerIds, ~Unavailable(w)
    PROVE  worker[w].key \in Key /\ workers[worker[w].key] = w /\ w # NoWorker
<1>1. Running(w) /\ worker[w].key \in Key
  BY RegisteredTyped
<1>2. workers[worker[w].key] = w
  BY <1>1 DEF RoutingInv
<1>3. w # NoWorker
  BY DEF WorkerIds, NoWorker
<1>. QED
  BY <1>1, <1>2, <1>3

(* What Publish leaves: a worker of the session that takes input, and a call *)
(* of the publisher to it.                                                   *)
LEMMA PublishStarts ==
    ASSUME ServiceInv, NEW p \in Publishers, NEW i \in Instances, NEW t \in Tokens,
           NEW waits \in BOOLEAN, Publish(p, i, t, waits)
    PROVE  LET key == [plugin |-> targets[i], instance |-> i, token |-> t]
           IN  /\ key \in Key /\ key \notin invalid /\ ~closed
               /\ RoutingInv' /\ next' = next + 1
               /\ publisher' = [publisher EXCEPT ![p] =
                     [step |-> "enqueue", seq |-> next', waits |-> waits, to |-> workers'[key]]]
               /\ \/ /\ workers[key] # NoWorker /\ worker' = worker /\ workers' = workers
                  \/ /\ workers[key] = NoWorker
                     /\ worker' = Append(worker, NewWorker(key))
                     /\ workers' = [workers EXCEPT ![key] = Len(worker) + 1]
<1>. DEFINE key == [plugin |-> targets[i], instance |-> i, token |-> t]
<1>1. targets[i] \in Plugins
  BY DEF Publish, ServiceInv, RoutingInv
<1>2. key \in Key
  BY <1>1 DEF Key
<1>3. /\ key \notin invalid /\ ~closed /\ next' = next + 1 /\ targets' = targets
      /\ publisher' = [publisher EXCEPT ![p] =
            [step |-> "enqueue", seq |-> next', waits |-> waits, to |-> workers'[key]]]
      /\ \/ /\ workers[key] # NoWorker /\ worker' = worker /\ workers' = workers
         \/ /\ workers[key] = NoWorker
            /\ worker' = Append(worker, NewWorker(key))
            /\ workers' = [workers EXCEPT ![key] = Len(worker) + 1]
  BY DEF Publish
<1>. HIDE DEF key
<1>4. RoutingInv'
  <2>1. CASE workers[key] = NoWorker
    BY <1>2, <1>3, <2>1, PublishNew DEF ServiceInv
  <2>2. CASE workers[key] # NoWorker
    BY <1>3, <2>2, SameWorkers, AdvanceRoutes DEF ServiceInv, RoutingInv
  <2>. QED
    BY <2>1, <2>2
<1>. QED
  BY <1>2, <1>3, <1>4 DEF key

LEMMA ServiceAdvances ==
    ASSUME ServiceInv, Advance,
           UNCHANGED <<targets, workers, closed, next, publisher, applier, closer>>
    PROVE  ServiceInv'
<1>1. RoutingInv'
  BY AdvanceRoutes DEF ServiceInv, RoutingInv
<1>2. CallInv'
  BY AdvanceCalls DEF ServiceInv, CallInv, Pending
<1>3. JoinInv'
  BY AdvanceJoins DEF ServiceInv
<1>. QED
  BY <1>1, <1>2, <1>3 DEF ServiceInv

LEMMA IdleCall == IdlePublisher \in Calls /\ IdlePublisher.step = "idle"
BY DEF IdlePublisher, Calls, NoWorker, Flag

LEMMA CallsChanged ==
    ASSUME CallInv, NEW p \in Publishers, NEW c \in Calls,
           publisher' = [publisher EXCEPT ![p] = c]
    PROVE  /\ publisher' \in [Publishers -> Calls] /\ publisher'[p] = c
           /\ \A q \in Publishers : q # p => publisher'[q] = publisher[q]
           /\ c.step \in {"idle", "wait"} =>
                 /\ p \notin Pending'
                 /\ \A q \in Pending' : q \in Pending /\ publisher'[q] = publisher[q]
<1>1. /\ publisher' \in [Publishers -> Calls] /\ publisher'[p] = c
      /\ \A q \in Publishers : q # p => publisher'[q] = publisher[q]
  BY DEF CallInv
<1>. QED
  BY <1>1 DEF Pending

LEMMA ServicePublish ==
    ASSUME ServiceInv, NEW p \in Publishers, NEW i \in Instances, NEW t \in Tokens,
           NEW waits \in BOOLEAN, Publish(p, i, t, waits)
    PROVE  ServiceInv'
<1>. DEFINE key == [plugin |-> targets[i], instance |-> i, token |-> t]
            c == [step |-> "enqueue", seq |-> next', waits |-> waits, to |-> workers'[key]]
<1>1. /\ key \in Key /\ RoutingInv' /\ next' = next + 1 /\ ~closed
      /\ publisher' = [publisher EXCEPT ![p] = c]
      /\ \/ /\ workers[key] # NoWorker /\ worker' = worker /\ workers' = workers
         \/ /\ workers[key] = NoWorker
            /\ worker' = Append(worker, NewWorker(key))
            /\ workers' = [workers EXCEPT ![key] = Len(worker) + 1]
  BY PublishStarts
<1>2. key.instance = i /\ key.plugin = targets[i]
  OBVIOUS
<1>3. UNCHANGED <<targets, closed, applier, closer>>
  BY DEF Publish
<1>. HIDE DEF key
<1>4. /\ workers'[key] \in WorkerIds' /\ WorkerIds \subseteq WorkerIds'
      /\ \A w \in WorkerIds : worker'[w] = worker[w]
      /\ \A w \in WorkerIds' : w \in WorkerIds \/ worker'[w].key = key
  <2>1. CASE workers[key] # NoWorker
    BY <1>1, <2>1 DEF ServiceInv, RoutingInv, WorkerIds
  <2>2. CASE workers[key] = NoWorker
    <3>1. /\ WorkerIds' = WorkerIds \cup {workers'[key]}
          /\ worker'[workers'[key]] = NewWorker(key)
          /\ \A w \in WorkerIds : worker'[w] = worker[w]
      BY <1>1, <1>3, <2>2, PublishNew DEF ServiceInv
    <3>2. NewWorker(key).key = key
      BY DEF NewWorker
    <3>. QED
      BY <3>1, <3>2
  <2>. QED
    BY <2>1, <2>2
<1>5. CallInv'
  <2>1. next \in Int /\ workers'[key] \in Int
    BY <1>1 DEF ServiceInv, CallInv, RoutingInv
  <2>2. c \in Calls /\ c.to = workers'[key]
    BY <1>1, <2>1 DEF Calls, Flag
  <2>. HIDE DEF c
  <2>3. /\ publisher' \in [Publishers -> Calls] /\ publisher'[p] = c
        /\ \A q \in Publishers : q # p => publisher'[q] = publisher[q]
    BY ZenonT(30), <1>1, <2>2, CallsChanged DEF ServiceInv
  <2>4. \A q \in Pending' : publisher'[q].to \in WorkerIds'
    BY <1>4, <2>2, <2>3 DEF Pending, ServiceInv, CallInv
  <2>. QED
    BY <1>1, <2>1, <2>3, <2>4 DEF CallInv
<1>6. JoinInv'
  <2>1. \A w \in WorkerIds' : worker'[w].step # "done" =>
          \/ targets[worker'[w].key.instance] = worker'[w].key.plugin
          \/ applier.step = "joining" /\ w \in applier.joins
    BY <1>2, <1>4 DEF ServiceInv, JoinInv, Running
  <2>2. applier.joins \subseteq WorkerIds'
    BY <1>4 DEF ServiceInv, JoinInv
  <2>3. closer.step = "idle"
    BY <1>1 DEF ServiceInv, JoinInv
  <2>. QED
    BY <1>1, <1>3, <2>1, <2>2, <2>3 DEF ServiceInv, JoinInv, Running
<1>. QED
  BY <1>1, <1>5, <1>6 DEF ServiceInv

Enqueued(r, e) == [r EXCEPT !.queue = Append(@, e), !.notify = TRUE]

(* An accepted input goes to the end of the queue of a worker that has not   *)
(* returned.                                                                 *)
LEMMA EnqueueAppends ==
    ASSUME RoutingInv, NEW w \in WorkerIds, NEW e \in Input, ~Unavailable(w),
           worker' = [worker EXCEPT ![w] = Enqueued(@, e)]
    PROVE  /\ worker' \in Seq(Worker) /\ WorkerIds' = WorkerIds /\ OthersKept(w)
           /\ WorkerInv(worker'[w]) /\ worker'[w].queue = Append(worker[w].queue, e)
           /\ worker'[w].key = worker[w].key /\ worker'[w].step = worker[w].step
           /\ worker'[w].stopped = worker[w].stopped
           /\ worker'[w].completing = worker[w].completing
           /\ worker'[w].current = worker[w].current
<1>. DEFINE r == worker[w]  s == Enqueued(r, e)
<1>1. WorkerInv(r) /\ r \in Worker /\ r.queue \in Queues /\ worker \in Seq(Worker)
  BY DEF RoutingInv, WorkerInv, Worker
<1>2. /\ Append(r.queue, e) \in Queues /\ Append(r.queue, e) # <<>>
      /\ r.queue # <<>> => Append(r.queue, e)[1] = r.queue[1]
  BY <1>1, AppendToQueue
<1>3. PICK q \in Queues : q = Append(r.queue, e)
  BY Zenon, <1>2
<1>4. worker' = [worker EXCEPT ![w] = s]
  OBVIOUS
<1>5. /\ s \in Worker /\ s.stopped = r.stopped /\ s.completing = r.completing /\ s.queue = q
      /\ s.key = r.key /\ s.step = r.step /\ s.inFlight = r.inFlight /\ s.current = r.current
  BY Zenon, <1>1, <1>3, Typed DEF Worker, Enqueued
<1>. HIDE DEF s
<1>6. ~r.stopped
  BY DEF Unavailable
<1>7. WorkerInv(s)
  BY <1>1, <1>2, <1>3, <1>5, <1>6 DEF WorkerInv
<1>8. /\ worker' \in Seq(Worker) /\ Len(worker') = Len(worker) /\ worker'[w] = s
      /\ \A v \in 1 .. Len(worker) : v # w => worker'[v] = worker[v]
  <2>1. w \in 1 .. Len(worker) /\ s \in Worker /\ worker \in Seq(Worker)
    BY <1>1, <1>5 DEF WorkerIds
  <2>. QED
    BY <1>4, <2>1, UpdatedSeq
<1>9. WorkerIds' = WorkerIds /\ OthersKept(w)
  BY <1>8 DEF WorkerIds, OthersKept
<1>. QED
  BY <1>3, <1>5, <1>7, <1>8, <1>9

LEMMA ServiceEnqueue ==
    ASSUME ServiceInv, NEW p \in Publishers, Enqueue(p)
    PROVE  ServiceInv'
<1>. DEFINE call == publisher[p]
<1>1. PICK w \in WorkerIds : w = call.to
  BY DEF ServiceInv, CallInv, Pending, Enqueue
<1>2. UNCHANGED <<targets, workers, closed, next, applier, closer>>
  BY DEF Enqueue, routing
<1>3. /\ call \in Calls /\ IdlePublisher \in Calls /\ IdlePublisher.step = "idle"
      /\ call.step = "enqueue" /\ p \in Pending
  BY IdleCall DEF ServiceInv, CallInv, Enqueue, Pending
<1>4. CASE Unavailable(w)
  <2>1. publisher' = [publisher EXCEPT ![p] = IdlePublisher] /\ worker' = worker
    BY <1>1, <1>4 DEF Enqueue
  <2>2. /\ publisher' \in [Publishers -> Calls]
        /\ \A q \in Pending' : q \in Pending /\ publisher'[q] = publisher[q]
    BY Zenon, <1>3, <2>1, CallsChanged DEF ServiceInv
  <2>3. Advance
    BY <2>1, SameWorkers DEF ServiceInv
  <2>. QED
    BY <1>2, <2>2, <2>3, AdvanceRoutes, AdvanceCalls, AdvanceJoins DEF ServiceInv, RoutingInv
<1>5. CASE ~Unavailable(w) /\ Len(worker[w].queue) >= InteractionQueueSize
  <2>. DEFINE c == [call EXCEPT !.step = "overrun"]
  <2>1. publisher' = [publisher EXCEPT ![p] = c] /\ worker' = worker
    BY <1>1, <1>5 DEF Enqueue
  <2>2. c \in Calls /\ c.to = w
    BY <1>1, <1>3 DEF Calls
  <2>. HIDE DEF c
  <2>3. /\ publisher' \in [Publishers -> Calls] /\ publisher'[p] = c
        /\ \A q \in Publishers : q # p => publisher'[q] = publisher[q]
    BY Zenon, <2>1, <2>2, CallsChanged DEF ServiceInv
  <2>4. \A q \in Pending' : q \in Pending /\ publisher'[q].to = publisher[q].to
    BY <1>1, <1>3, <2>2, <2>3 DEF Pending
  <2>5. Advance
    BY <2>1, SameWorkers DEF ServiceInv
  <2>. QED
    BY <1>2, <2>3, <2>4, <2>5, AdvanceRoutes, AdvanceCalls, AdvanceJoins DEF ServiceInv, RoutingInv
<1>6. CASE ~Unavailable(w) /\ ~(Len(worker[w].queue) >= InteractionQueueSize)
  <2>. DEFINE e == [seq |-> call.seq, waits |-> call.waits]
              c == IF call.waits THEN [call EXCEPT !.step = "wait"] ELSE IdlePublisher
  <2>1. /\ worker' = [worker EXCEPT ![w] = Enqueued(@, e)]
        /\ publisher' = [publisher EXCEPT ![p] = c]
    BY Zenon, <1>1, <1>6 DEF Enqueue, Enqueued
  <2>2. e \in Input
    BY <1>3 DEF Calls, Input
  <2>3. c \in Calls /\ c.step \in {"idle", "wait"}
    BY <1>3 DEF Calls
  <2>. HIDE DEF e, c
  <2>4. /\ worker' \in Seq(Worker) /\ WorkerIds' = WorkerIds
        /\ \A v \in WorkerIds : v # w => worker'[v] = worker[v]
        /\ WorkerInv(worker'[w])
        /\ worker'[w].key = worker[w].key /\ worker'[w].step = worker[w].step
    BY Zenon, <1>6, <2>1, <2>2, EnqueueAppends DEF OthersKept, ServiceInv
  <2>5. \A v \in WorkerIds : /\ worker'[v].key = worker[v].key
                             /\ worker'[v].step = worker[v].step
                             /\ WorkerInv(worker'[v])
    BY <2>4 DEF ServiceInv, RoutingInv
  <2>6. \A k \in Key : workers[k] # NoWorker =>
          workers[k] \in WorkerIds /\ worker'[workers[k]].key = k
    BY <2>5 DEF ServiceInv, RoutingInv
  <2>7. RoutingInv'
    BY <1>2, <2>4, <2>5, <2>6 DEF ServiceInv, RoutingInv, Running
  <2>8. /\ publisher' \in [Publishers -> Calls]
        /\ \A q \in Pending' : q \in Pending /\ publisher'[q] = publisher[q]
    BY Zenon, <2>1, <2>3, CallsChanged DEF ServiceInv
  <2>9. CallInv'
    BY <1>2, <2>4, <2>8 DEF ServiceInv, CallInv
  <2>10. ~closed
    BY <1>6 DEF ServiceInv, JoinInv
  <2>11. JoinInv'
    BY <1>2, <2>4, <2>5, <2>10 DEF ServiceInv, JoinInv, Running
  <2>. QED
    BY <2>7, <2>9, <2>11 DEF ServiceInv
<1>. QED
  BY <1>4, <1>5, <1>6

LEMMA ServiceEnds ==
    ASSUME ServiceInv, NEW p \in Publishers, Overrun(p) \/ WaitReturns(p)
    PROVE  /\ ServiceInv' /\ Advance
           /\ publisher' = [publisher EXCEPT ![p] = IdlePublisher]
           /\ \A q \in Pending' : q \in Pending /\ publisher'[q] = publisher[q]
<1>1. /\ UNCHANGED <<targets, workers, closed, next, applier, closer>>
      /\ publisher' = [publisher EXCEPT ![p] = IdlePublisher]
  BY DEF Overrun, WaitReturns, routing
<1>2. /\ publisher' \in [Publishers -> Calls]
      /\ \A q \in Pending' : q \in Pending /\ publisher'[q] = publisher[q]
  BY Zenon, <1>1, IdleCall, CallsChanged DEF ServiceInv
<1>3. Advance
  <2>1. CASE Overrun(p)
    <3>1. publisher[p].to \in WorkerIds /\ Fail(publisher[p].to)
      BY <2>1 DEF Overrun, ServiceInv, CallInv, Pending
    <3>. QED
      BY <3>1, FailOf DEF ServiceInv
  <2>2. CASE WaitReturns(p)
    BY <2>2, SameWorkers DEF ServiceInv, WaitReturns
  <2>. QED
    BY <2>1, <2>2
<1>4. ServiceInv'
  BY <1>1, <1>2, <1>3, AdvanceRoutes, AdvanceCalls, AdvanceJoins DEF ServiceInv, RoutingInv
<1>. QED
  BY <1>1, <1>2, <1>3, <1>4

LEMMA ServiceRun ==
    ASSUME ServiceInv, NEW w \in WorkerIds, RunWorker(w)
    PROVE  ServiceInv' /\ Advance
<1>1. RoutingInv
  BY DEF ServiceInv
<1>2. CASE RunWorkerExit(w)
  <2>1. Advance /\ RoutingInv'
    BY <1>1, <1>2, ExitAdvances
  <2>2. UNCHANGED <<targets, closed, next, publisher, applier, closer>>
    BY <1>2 DEF RunWorkerExit
  <2>3. CallInv'
    BY <2>1, <2>2, AdvanceCalls DEF ServiceInv, CallInv, Pending
  <2>4. JoinInv'
    BY <2>1, <2>2, AdvanceJoins DEF ServiceInv
  <2>. QED
    BY <2>1, <2>3, <2>4 DEF ServiceInv
<1>3. CASE Select(w) \/ BeginDelivery(w) \/ FailDelivery(w) \/ \E ok \in BOOLEAN : FinishDelivery(w, ok)
  <2>1. Advance
    BY <1>1, <1>3, SelectAdvances, BeginAdvances, FailAdvances, FinishAdvances
  <2>2. UNCHANGED <<targets, workers, closed, next, publisher, applier, closer>>
    BY ZenonT(30), <1>3 DEF Select, BeginDelivery, FailDelivery, FinishDelivery, routing
  <2>. QED
    BY <2>1, <2>2, ServiceAdvances
<1>. QED
  BY <1>2, <1>3 DEF RunWorker

LEMMA ApplyStops ==
    ASSUME RoutingInv, NEW new \in [Instances -> Plugins \cup {NoPlugin}], Apply(new)
    PROVE  /\ Advance /\ Retired(new) \subseteq WorkerIds
           /\ \A w \in WorkerIds : worker'[w].step = worker[w].step
           /\ \A w \in WorkerIds : w \notin Retired(new) => worker'[w] = worker[w]
           /\ RoutingInv'
<1>1. Retired(new) \in SUBSET WorkerIds
  BY RegisteredTyped DEF Retired
<1>2. StopNoWait(Retired(new)) /\ workers' = workers /\ targets' = new
  BY DEF Apply
<1>3. /\ Advance
      /\ \A w \in WorkerIds : worker'[w].step = worker[w].step
      /\ \A w \in WorkerIds : w \notin Retired(new) => worker'[w] = worker[w]
  BY <1>1, <1>2, StopAdvances
<1>. QED
  BY <1>1, <1>2, <1>3, AdvanceRoutes

LEMMA ServiceApply ==
    ASSUME ServiceInv, NEW new \in [Instances -> Plugins \cup {NoPlugin}], Apply(new)
    PROVE  ServiceInv'
<1>1. /\ Advance /\ Retired(new) \subseteq WorkerIds /\ RoutingInv'
      /\ \A w \in WorkerIds : worker'[w].step = worker[w].step
  BY ApplyStops DEF ServiceInv
<1>2. /\ UNCHANGED <<workers, closed, next, publisher, closer>> /\ ~closed /\ targets' = new
      /\ applier' = [step |-> "joining", joins |-> Retired(new)]
  BY DEF Apply
<1>3. CallInv'
  BY <1>1, <1>2, AdvanceCalls DEF ServiceInv, CallInv, Pending
<1>4. \A w \in WorkerIds : worker'[w].key = worker[w].key
  BY <1>1 DEF Advance, Later
<1>5. \A w \in WorkerIds : Running(w) =>
         new[worker[w].key.instance] = worker[w].key.plugin \/ w \in Retired(new)
  BY RegisteredTyped DEF ServiceInv, Retired
<1>6. closer.step = "idle"
  BY <1>2 DEF ServiceInv, JoinInv
<1>7. JoinInv'
  BY <1>1, <1>2, <1>4, <1>5, <1>6 DEF Advance, ServiceInv, JoinInv, Running
<1>. QED
  BY <1>1, <1>3, <1>7 DEF ServiceInv

LEMMA ServiceClose ==
    ASSUME ServiceInv, Close
    PROVE  ServiceInv' /\ Advance
<1>1. Registered \in SUBSET WorkerIds
  BY RegisteredTyped DEF ServiceInv
<1>2. /\ StopNoWait(Registered) /\ closed' = TRUE
      /\ UNCHANGED <<targets, workers, next, publisher, applier>>
      /\ closer' = [step |-> "joining", joins |-> Registered]
  BY DEF Close
<1>3. /\ Advance
      /\ \A w \in Registered : worker'[w].stopped
      /\ \A w \in WorkerIds : worker'[w].step = worker[w].step
  BY <1>1, <1>2, StopAdvances DEF ServiceInv
<1>4. RoutingInv'
  BY <1>2, <1>3, AdvanceRoutes DEF ServiceInv, RoutingInv
<1>5. CallInv'
  BY <1>2, <1>3, AdvanceCalls DEF ServiceInv, CallInv, Pending
<1>6. \A w \in WorkerIds : worker'[w].stopped \/ worker'[w].completing
  <2>1. \A w \in WorkerIds : w \in Registered \/ Unavailable(w)
    BY RegisteredTyped DEF ServiceInv
  <2>2. \A w \in WorkerIds : Unavailable(w) => worker'[w].stopped \/ worker'[w].completing
    BY <1>3 DEF Advance, Later, Unavailable
  <2>. QED
    BY <1>3, <2>1, <2>2
<1>7. \A w \in WorkerIds : Running(w) => w \in Registered
  BY RegisteredTyped DEF ServiceInv
<1>8. \A w \in WorkerIds : worker'[w].key = worker[w].key
  BY <1>3 DEF Advance, Later
<1>9. JoinInv'
  BY <1>2, <1>3, <1>6, <1>7, <1>8 DEF Advance, ServiceInv, JoinInv, Running, Unavailable
<1>. QED
  BY <1>3, <1>4, <1>5, <1>9 DEF ServiceInv

LEMMA ServiceReturns ==
    ASSUME ServiceInv, ApplyReturns \/ CloseReturns
    PROVE  ServiceInv'
<1>1. UNCHANGED <<targets, workers, closed, next, worker, publisher>>
  BY DEF ApplyReturns, CloseReturns, routing
<1>2. RoutingInv'
  BY <1>1 DEF ServiceInv, RoutingInv, WorkerIds, Running
<1>3. CallInv'
  BY <1>1 DEF ServiceInv, CallInv, Pending, WorkerIds
<1>4. JoinInv'
  <2>1. CASE ApplyReturns
    BY <1>1, <2>1 DEF ApplyReturns, ServiceInv, JoinInv, WorkerIds, Running, Unavailable, IdleCaller
  <2>2. CASE CloseReturns
    <3>1. /\ closer'.step = "closed" /\ closer'.joins = closer.joins /\ closed
          /\ closer' = [step |-> closer'.step, joins |-> closer'.joins] /\ applier' = applier
      BY <2>2 DEF CloseReturns, ServiceInv, JoinInv
    <3>2. \A w \in WorkerIds : ~Running(w)
      BY <2>2, <3>1 DEF CloseReturns, ServiceInv, JoinInv, Running
    <3>. QED
      BY <1>1, <3>1, <3>2 DEF ServiceInv, JoinInv, WorkerIds, Running, Unavailable
  <2>. QED
    BY <2>1, <2>2
<1>. QED
  BY <1>2, <1>3, <1>4 DEF ServiceInv

LEMMA ServiceNext == ServiceInv /\ [Next]_vars => ServiceInv'
<1>. SUFFICES ASSUME ServiceInv, [Next]_vars PROVE ServiceInv'
  OBVIOUS
<1>1. CASE UNCHANGED vars
  <2>1. UNCHANGED <<targets, workers, closed, next, publisher, applier, closer>> /\ worker' = worker
    BY <1>1 DEF vars, routing
  <2>. QED
    BY <2>1, SameWorkers, ServiceAdvances DEF ServiceInv
<1>2. CASE Retire
  BY <1>2, RetireAdvances, ServiceAdvances DEF Retire, ServiceInv
<1>3. CASE Next /\ ~Retire
  BY <1>3, ServicePublish, ServiceEnqueue, ServiceEnds, ServiceRun, ServiceApply, ServiceClose,
     ServiceReturns DEF Next, Continue
<1>. QED
  BY <1>1, <1>2, <1>3

LEMMA ServiceHolds == ServiceInv => OneDeliveryPerSession /\ QuietAfterJoin
<1>. SUFFICES ASSUME ServiceInv PROVE OneDeliveryPerSession /\ QuietAfterJoin
  OBVIOUS
<1>1. OneDeliveryPerSession
  BY DEF ServiceInv, RoutingInv, OneDeliveryPerSession, Running
<1>2. QuietAfterJoin
  BY DEF ServiceInv, JoinInv, QuietAfterJoin, Running
<1>. QED
  BY <1>1, <1>2

(* However many callers publish: a session has one delivery at a time, and   *)
(* no worker outlives the Apply or the Close that retired its session.       *)
THEOREM SessionsServedAlone == Spec => [](OneDeliveryPerSession /\ QuietAfterJoin)
BY ServiceInit, ServiceNext, ServiceHolds, PTL DEF Spec

=============================================================================
