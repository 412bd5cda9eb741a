---------------------------- MODULE BrokerProofs ----------------------------
(***************************************************************************)
(* The order of a session's input, for every set of plugins, instances and  *)
(* tokens, any length of the queues and any number of inputs and workers,   *)
(* with one publisher.                                                      *)
(***************************************************************************)
EXTENDS BrokerServiceProofs

(* With one publisher: its input is later than everything queued, what is   *)
(* queued or in flight is earlier than everything lost, and a session that  *)
(* lost an input takes no other one.                                        *)
OrderInv ==
    /\ \A w \in WorkerIds : Increasing(worker[w].queue)
    /\ \A p \in Pending : publisher[p].seq = next
    /\ \A w \in WorkerIds : \A n \in DOMAIN worker[w].queue :
          worker[w].queue[n].seq <= next /\ (Pending # {} => worker[w].queue[n].seq < next)

Losing(k) ==
    \/ closed \/ k \in invalid
    \/ /\ workers[k] # NoWorker /\ ~Unavailable(workers[k])
       /\ \/ worker[workers[k]].step = "failed"
          \/ \E p \in Publishers : publisher[p].step = "overrun" /\ publisher[p].to = workers[k]

Ahead ==
    \A w \in WorkerIds : \A i \in dropped[worker[w].key] :
        /\ worker[w].step \in Taking =>
              \A n \in DOMAIN worker[w].queue : worker[w].queue[n].seq < i
        /\ worker[w].step = "deliver" => worker[w].current.seq < i

LossInv ==
    /\ dropped \in [Key -> SUBSET Int]
    /\ invalid \subseteq Key
    /\ \A k \in Key : dropped[k] # {} => Losing(k)
    /\ \A k \in invalid : workers[k] # NoWorker => Unavailable(workers[k])
    /\ Ahead

BrokerInv == ServiceInv /\ OrderInv /\ LossInv

LEMMA AdvanceOrder ==
    ASSUME OrderInv, Advance, next' = next,
           \A p \in Pending' : p \in Pending /\ publisher'[p].seq = publisher[p].seq
    PROVE  OrderInv'
<1>1. \A p \in Pending' : publisher'[p].seq = next
  BY DEF OrderInv
<1>2. ASSUME NEW w \in WorkerIds, NEW n \in DOMAIN worker'[w].queue
      PROVE  worker'[w].queue[n].seq <= next /\ (Pending' # {} => worker'[w].queue[n].seq < next)
  <2>1. PICK m \in DOMAIN worker[w].queue : worker'[w].queue[n] = worker[w].queue[m]
    BY <1>2 DEF Advance, Later
  <2>. QED
    BY <2>1 DEF OrderInv
<1>3. \A w \in WorkerIds : Increasing(worker'[w].queue)
  BY DEF OrderInv, Advance, Later
<1>. QED
  BY <1>1, <1>2, <1>3 DEF OrderInv, Advance

LEMMA AdvanceAhead ==
    ASSUME RoutingInv, Ahead, Advance, \A k \in Key : dropped'[k] \subseteq dropped[k]
    PROVE  Ahead'
<1>1. SUFFICES ASSUME NEW w \in WorkerIds, NEW i \in dropped'[worker'[w].key]
      PROVE  /\ worker'[w].step \in Taking =>
                   \A n \in DOMAIN worker'[w].queue : worker'[w].queue[n].seq < i
             /\ worker'[w].step = "deliver" => worker'[w].current.seq < i
  BY DEF Ahead, Advance
<1>2. worker'[w].key = worker[w].key /\ worker[w].key \in Key
  BY DEF Advance, Later, RoutingInv, WorkerInv, Worker
<1>3. i \in dropped[worker[w].key]
  BY <1>2
<1>4. Later(worker'[w], worker[w])
  BY DEF Advance
<1>5. worker[w].step \in Taking => \A n \in DOMAIN worker[w].queue : worker[w].queue[n].seq < i
  BY <1>3 DEF Ahead
<1>6. worker[w].step = "deliver" => worker[w].current.seq < i
  BY <1>3 DEF Ahead
<1>7. worker[w].step = "loop" => worker[w].step \in Taking
  BY DEF Taking
<1>. QED
  BY <1>4, <1>5, <1>6, <1>7 DEF Later
----------------------------------------------------------------------------
(* Order and loss, with one publisher                                        *)

LEMMA OrderPublish ==
    ASSUME ServiceInv, OrderInv, NEW p \in Publishers, Publishers = {p}, NEW i \in Instances,
           NEW t \in Tokens, NEW waits \in BOOLEAN, Publish(p, i, t, waits)
    PROVE  OrderInv'
<1>. DEFINE key == [plugin |-> targets[i], instance |-> i, token |-> t]
            c == [step |-> "enqueue", seq |-> next', waits |-> waits, to |-> workers'[key]]
<1>1. /\ key \in Key /\ next' = next + 1 /\ next \in Int
      /\ publisher' = [publisher EXCEPT ![p] = c]
      /\ \/ /\ workers[key] # NoWorker /\ worker' = worker /\ workers' = workers
         \/ /\ workers[key] = NoWorker
            /\ worker' = Append(worker, NewWorker(key))
            /\ workers' = [workers EXCEPT ![key] = Len(worker) + 1]
  BY PublishStarts DEF ServiceInv, CallInv
<1>2. publisher'[p].seq = next'
  BY <1>1 DEF ServiceInv, CallInv
<1>. HIDE DEF key
<1>3. \A w \in WorkerIds' : (w \in WorkerIds /\ worker'[w] = worker[w]) \/ worker'[w].queue = <<>>
  <2>1. CASE workers[key] # NoWorker
    BY <1>1, <2>1 DEF WorkerIds
  <2>2. CASE workers[key] = NoWorker
    <3>1. /\ WorkerIds' = WorkerIds \cup {workers'[key]}
          /\ worker'[workers'[key]] = NewWorker(key)
          /\ \A w \in WorkerIds : worker'[w] = worker[w]
      BY <1>1, <2>2, PublishNew DEF ServiceInv, Publish
    <3>2. NewWorker(key).queue = <<>>
      BY DEF NewWorker
    <3>. QED
      BY <3>1, <3>2
  <2>. QED
    BY <2>1, <2>2
<1>4. \A w \in WorkerIds' : Increasing(worker'[w].queue)
  BY <1>3, EmptyQueue DEF OrderInv
<1>5. \A w \in WorkerIds' : \A n \in DOMAIN worker'[w].queue : worker'[w].queue[n].seq <= next
  BY <1>3, EmptyQueue DEF OrderInv
<1>6. \A w \in WorkerIds' : \A n \in DOMAIN worker'[w].queue : worker'[w].queue[n].seq \in Int
  <2>1. ServiceInv'
    BY ServicePublish
  <2>2. \A w \in WorkerIds' : worker'[w].queue \in Queues
    BY <2>1 DEF ServiceInv, RoutingInv, WorkerInv, Worker
  <2>. QED
    BY <2>2, QueueTyped
<1>7. \A w \in WorkerIds' : \A n \in DOMAIN worker'[w].queue :
         worker'[w].queue[n].seq <= next' /\ worker'[w].queue[n].seq < next'
  BY <1>1, <1>5, <1>6
<1>8. \A q \in Pending' : publisher'[q].seq = next'
  BY <1>2 DEF Pending
<1>. QED
  BY <1>4, <1>7, <1>8 DEF OrderInv

LEMMA OrderEnqueue ==
    ASSUME ServiceInv, OrderInv, NEW p \in Publishers, Publishers = {p}, Enqueue(p)
    PROVE  OrderInv'
<1>. DEFINE call == publisher[p]
<1>1. PICK w \in WorkerIds : w = call.to
  BY DEF ServiceInv, CallInv, Pending, Enqueue
<1>2. call \in Calls /\ p \in Pending /\ call.seq = next /\ next' = next /\ next \in Int
  BY DEF ServiceInv, CallInv, OrderInv, Enqueue, Pending, routing
<1>3. CASE Unavailable(w)
  <2>1. publisher' = [publisher EXCEPT ![p] = IdlePublisher] /\ worker' = worker
    BY <1>1, <1>3 DEF Enqueue
  <2>2. \A q \in Pending' : q \in Pending /\ publisher'[q] = publisher[q]
    BY Zenon, <2>1, IdleCall, CallsChanged DEF ServiceInv
  <2>. QED
    BY <1>2, <2>1, <2>2, SameWorkers, AdvanceOrder DEF ServiceInv
<1>4. CASE ~Unavailable(w) /\ Len(worker[w].queue) >= InteractionQueueSize
  <2>1. publisher' = [publisher EXCEPT ![p].step = "overrun"] /\ worker' = worker
    BY <1>1, <1>4 DEF Enqueue
  <2>2. publisher'[p].seq = publisher[p].seq
    BY <2>1 DEF ServiceInv, CallInv, Calls
  <2>3. \A q \in Pending' : q \in Pending /\ publisher'[q].seq = publisher[q].seq
    BY <1>2, <2>2 DEF Pending
  <2>. QED
    BY <1>2, <2>1, <2>3, SameWorkers, AdvanceOrder DEF ServiceInv
<1>5. CASE ~Unavailable(w) /\ ~(Len(worker[w].queue) >= InteractionQueueSize)
  <2>. DEFINE e == [seq |-> call.seq, waits |-> call.waits]
              c == IF call.waits THEN [call EXCEPT !.step = "wait"] ELSE IdlePublisher
  <2>1. /\ worker' = [worker EXCEPT ![w] = Enqueued(@, e)]
        /\ publisher' = [publisher EXCEPT ![p] = c]
    BY Zenon, <1>1, <1>5 DEF Enqueue, Enqueued
  <2>2. e \in Input /\ e.seq = next
    BY <1>2 DEF Calls, Input
  <2>3. c \in Calls /\ c.step \in {"idle", "wait"}
    BY <1>2, IdleCall DEF Calls
  <2>. HIDE DEF e, c
  <2>4. /\ WorkerIds' = WorkerIds
        /\ \A v \in WorkerIds : v # w => worker'[v] = worker[v]
        /\ worker'[w].queue = Append(worker[w].queue, e)
    BY Zenon, <1>5, <2>1, <2>2, EnqueueAppends DEF OthersKept, ServiceInv
  <2>5. Pending' = {}
    BY Zenon, <2>1, <2>3, CallsChanged DEF ServiceInv, Pending
  <2>. DEFINE q == worker[w].queue  a == Append(q, e)
  <2>6. q \in Queues
    BY DEF ServiceInv, RoutingInv, WorkerInv, Worker
  <2>7. Increasing(q) /\ \A n \in DOMAIN q : q[n].seq <= next /\ q[n].seq < next
    BY <1>2 DEF OrderInv
  <2>8. Increasing(a) /\ \A n \in DOMAIN a : a[n] = e \/ (n \in DOMAIN q /\ a[n] = q[n])
    BY <2>2, <2>6, <2>7, AppendToQueue
  <2>9. worker'[w].queue = a
    BY <2>4
  <2>. HIDE DEF q, a
  <2>10. Increasing(worker'[w].queue) /\ \A n \in DOMAIN worker'[w].queue : worker'[w].queue[n].seq <= next
    BY <1>2, <2>2, <2>7, <2>8, <2>9
  <2>11. \A v \in WorkerIds : /\ Increasing(worker'[v].queue)
                              /\ \A n \in DOMAIN worker'[v].queue : worker'[v].queue[n].seq <= next
    BY Zenon, <2>4, <2>10 DEF OrderInv
  <2>. QED
    BY <1>2, <2>4, <2>5, <2>11 DEF OrderInv
<1>. QED
  BY <1>3, <1>4, <1>5

LEMMA LosingKept ==
    ASSUME NEW k \in Key, Losing(k), closed' = closed, k \in invalid => k \in invalid',
           workers'[k] = workers[k],
           workers[k] # NoWorker /\ ~Unavailable(workers[k]) =>
              /\ ~worker'[workers[k]].stopped /\ ~worker'[workers[k]].completing
              /\ worker[workers[k]].step = "failed" => worker'[workers[k]].step = "failed"
              /\ \A p \in Publishers : publisher[p].step = "overrun" /\ publisher[p].to = workers[k] =>
                    publisher'[p].step = "overrun" /\ publisher'[p].to = workers[k]
    PROVE  Losing(k)'
BY DEF Losing, Unavailable

LEMMA LossKept ==
    ASSUME RoutingInv, LossInv, Advance, workers' = workers,
           dropped' \in [Key -> SUBSET Int], invalid' \subseteq Key,
           \A k \in Key : dropped'[k] \subseteq dropped[k],
           \A k \in Key : dropped'[k] # {} /\ Losing(k) => Losing(k)',
           \A k \in invalid' : workers[k] # NoWorker =>
              k \in invalid \/ worker'[workers[k]].stopped \/ worker'[workers[k]].completing
    PROVE  LossInv'
<1>1. Ahead'
  BY AdvanceAhead DEF LossInv
<1>2. ASSUME NEW k \in invalid', workers[k] # NoWorker
      PROVE  worker'[workers[k]].stopped \/ worker'[workers[k]].completing
  <2>1. k \in invalid => Unavailable(workers[k]) /\ workers[k] \in WorkerIds
    BY <1>2 DEF LossInv, RoutingInv
  <2>. QED
    BY <1>2, <2>1 DEF Advance, Later, Unavailable
<1>3. \A k \in Key : dropped'[k] # {} => Losing(k)'
  BY DEF LossInv
<1>. QED
  BY <1>1, <1>2, <1>3 DEF LossInv, Unavailable

LEMMA LossPublish ==
    ASSUME ServiceInv, LossInv, NEW p \in Publishers, NEW i \in Instances, NEW t \in Tokens,
           NEW waits \in BOOLEAN, Publish(p, i, t, waits)
    PROVE  LossInv'
<1>. DEFINE key == [plugin |-> targets[i], instance |-> i, token |-> t]
            c == [step |-> "enqueue", seq |-> next', waits |-> waits, to |-> workers'[key]]
<1>1. /\ key \in Key /\ key \notin invalid /\ ~closed /\ RoutingInv
      /\ publisher' = [publisher EXCEPT ![p] = c]
      /\ \/ /\ workers[key] # NoWorker /\ worker' = worker /\ workers' = workers
         \/ /\ workers[key] = NoWorker
            /\ worker' = Append(worker, NewWorker(key))
            /\ workers' = [workers EXCEPT ![key] = Len(worker) + 1]
  BY PublishStarts DEF ServiceInv
<1>2. UNCHANGED <<targets, invalid, closed, dropped>> /\ publisher[p].step = "idle"
  BY DEF Publish
<1>. HIDE DEF key, c
<1>3. \A q \in Publishers : publisher[q].step = "overrun" => publisher'[q] = publisher[q]
  BY <1>1, <1>2 DEF ServiceInv, CallInv
<1>4. CASE workers[key] # NoWorker
  <2>1. worker' = worker /\ workers' = workers
    BY <1>1, <1>4
  <2>2. \A k \in Key : Losing(k) => Losing(k)'
    BY <1>2, <1>3, <2>1 DEF Losing, Unavailable
  <2>. QED
    BY <1>1, <1>2, <2>1, <2>2, SameWorkers, LossKept DEF LossInv
<1>5. CASE workers[key] = NoWorker
  <2>1. /\ WorkerIds' = WorkerIds \cup {workers'[key]}
        /\ worker'[workers'[key]] = NewWorker(key)
        /\ \A w \in WorkerIds : worker'[w] = worker[w]
    BY <1>1, <1>2, <1>5, PublishNew
  <2>2. NewWorker(key).key = key
    BY DEF NewWorker
  <2>3. dropped[key] = {}
    BY <1>1, <1>5 DEF LossInv, Losing
  <2>4. Ahead'
    BY <1>2, <2>1, <2>2, <2>3 DEF LossInv, Ahead
  <2>5. \A k \in Key : k # key => workers'[k] = workers[k]
    BY <1>1, <1>5 DEF RoutingInv
  <2>6. ASSUME NEW k \in Key, k # key, workers[k] # NoWorker
        PROVE  worker'[workers[k]] = worker[workers[k]]
    BY <1>1, <2>1, <2>6 DEF RoutingInv
  <2>7. ASSUME NEW k \in Key, dropped'[k] # {}
        PROVE  Losing(k)'
    <3>1. k # key /\ Losing(k)
      BY <1>2, <2>3, <2>7 DEF LossInv
    <3>. QED
      BY <1>2, <1>3, <2>5, <2>6, <3>1, LosingKept DEF Unavailable
  <2>8. \A k \in invalid' : workers'[k] # NoWorker => Unavailable(workers[k])'
    <3>1. ASSUME NEW k \in invalid, workers'[k] # NoWorker
          PROVE  worker'[workers'[k]].stopped \/ worker'[workers'[k]].completing
      <4>1. k \in Key /\ k # key
        BY <1>1 DEF LossInv
      <4>. QED
        BY <2>5, <2>6, <3>1, <4>1 DEF LossInv, Unavailable
    <3>. QED
      BY <1>2, <3>1 DEF Unavailable
  <2>. QED
    BY <1>2, <2>4, <2>7, <2>8 DEF LossInv
<1>. QED
  BY <1>4, <1>5

(* A worker that takes input belongs to a session that has lost none, unless *)
(* its failed delivery is about to be reported.                              *)
LEMMA NothingLost ==
    ASSUME ServiceInv, LossInv, NEW p \in Publishers, Publishers = {p}, NEW w \in WorkerIds,
           publisher[p].step # "overrun", ~Unavailable(w), worker[w].step \in Taking
    PROVE  dropped[worker[w].key] = {}
<1>1. worker[w].key \in Key /\ workers[worker[w].key] = w /\ w # NoWorker
  BY ServiceRoutes DEF ServiceInv
<1>2. ~closed
  BY DEF ServiceInv, JoinInv
<1>3. worker[w].key \notin invalid
  BY <1>1 DEF LossInv
<1>4. worker[w].step # "failed"
  BY DEF Taking
<1>5. ~Losing(worker[w].key)
  BY <1>1, <1>2, <1>3, <1>4 DEF Losing
<1>. QED
  BY <1>1, <1>5 DEF LossInv

LEMMA LossEnqueue ==
    ASSUME ServiceInv, OrderInv, LossInv, NEW p \in Publishers, Publishers = {p}, Enqueue(p)
    PROVE  LossInv'
<1>. DEFINE call == publisher[p]
<1>1. PICK w \in WorkerIds : w = call.to
  BY DEF ServiceInv, CallInv, Pending, Enqueue
<1>2. /\ call \in Calls /\ p \in Pending /\ call.seq = next /\ next \in Int
      /\ call.step = "enqueue" /\ RoutingInv /\ publisher \in [Publishers -> Calls]
  BY DEF ServiceInv, CallInv, OrderInv, Enqueue, Pending
<1>3. UNCHANGED <<targets, workers, closed, invalid>>
  BY DEF Enqueue, routing
<1>4. \A q \in Publishers : publisher[q].step # "overrun"
  BY <1>2
<1>5. CASE Unavailable(w)
  <2>1. worker' = worker /\ dropped' = dropped
    BY <1>1, <1>5 DEF Enqueue
  <2>2. \A k \in Key : Losing(k) => Losing(k)'
    BY <1>3, <1>4, <2>1, LosingKept DEF Unavailable
  <2>. QED
    BY <1>2, <1>3, <2>1, <2>2, SameWorkers, LossKept DEF LossInv
<1>6. CASE ~Unavailable(w) /\ Len(worker[w].queue) >= InteractionQueueSize
  <2>. DEFINE key == worker[w].key
  <2>1. /\ publisher' = [publisher EXCEPT ![p].step = "overrun"] /\ worker' = worker
        /\ dropped' = [dropped EXCEPT ![key] = @ \cup {next}]
    BY <1>1, <1>2, <1>6 DEF Enqueue
  <2>2. key \in Key /\ workers[key] = w /\ w # NoWorker /\ WorkerInv(worker[w])
    BY <1>2, <1>6, RegisteredTyped DEF RoutingInv, WorkerIds, NoWorker
  <2>. HIDE DEF key
  <2>3. /\ dropped' \in [Key -> SUBSET Int] /\ dropped'[key] = dropped[key] \cup {next}
        /\ \A k \in Key : k # key => dropped'[k] = dropped[k]
    BY <1>2, <2>1, <2>2 DEF LossInv
  <2>4. publisher'[p].step = "overrun" /\ publisher'[p].to = w
    BY <1>1, <1>2, <2>1 DEF Calls
  <2>5. ASSUME NEW k \in Key, dropped'[k] # {}
        PROVE  Losing(k)'
    <3>1. CASE k = key
      BY <1>3, <1>6, <2>1, <2>2, <2>4, <3>1 DEF Losing, Unavailable
    <3>2. CASE k # key
      <4>1. Losing(k)
        BY <2>3, <2>5, <3>2 DEF LossInv
      <4>. QED
        BY <1>3, <1>4, <2>1, <4>1, LosingKept DEF Unavailable
    <3>. QED
      BY <3>1, <3>2
  <2>6. /\ \A n \in DOMAIN worker[w].queue : worker[w].queue[n].seq < next
        /\ worker[w].step = "deliver" => worker[w].current.seq < next
    <3>1. \A n \in DOMAIN worker[w].queue : worker[w].queue[n].seq < next
      BY <1>2 DEF OrderInv
    <3>2. worker[w].step = "deliver" =>
            /\ worker[w].current = worker[w].queue[1] /\ worker[w].queue # <<>>
            /\ worker[w].queue \in Queues
      BY <1>6, <2>2 DEF WorkerInv, Worker, Unavailable
    <3>. QED
      BY <3>1, <3>2, HeadOfQueue
  <2>7. ASSUME NEW v \in WorkerIds, NEW j \in dropped'[worker[v].key]
        PROVE  /\ worker[v].step \in Taking =>
                     \A n \in DOMAIN worker[v].queue : worker[v].queue[n].seq < j
               /\ worker[v].step = "deliver" => worker[v].current.seq < j
    <3>1. worker[v].key \in Key
      BY <1>2 DEF RoutingInv, WorkerInv, Worker
    <3>2. CASE j \in dropped[worker[v].key]
      BY <3>2 DEF LossInv, Ahead
    <3>3. CASE j \notin dropped[worker[v].key]
      <4>1. worker[v].key = key /\ j = next
        BY <2>3, <2>7, <3>1, <3>3
      <4>2. v = w \/ worker[v].step = "done"
        BY <1>2, <2>2, <4>1 DEF RoutingInv, Running
      <4>. QED
        BY <2>6, <4>1, <4>2 DEF Taking
    <3>. QED
      BY <3>2, <3>3
  <2>8. Ahead'
    BY <2>1, <2>7 DEF Ahead, WorkerIds
  <2>. QED
    BY <1>3, <2>1, <2>3, <2>5, <2>8 DEF LossInv, Unavailable
<1>7. CASE ~Unavailable(w) /\ ~(Len(worker[w].queue) >= InteractionQueueSize)
  <2>. DEFINE e == [seq |-> call.seq, waits |-> call.waits]
  <2>1. worker' = [worker EXCEPT ![w] = Enqueued(@, e)] /\ dropped' = dropped
    BY Zenon, <1>1, <1>7 DEF Enqueue, Enqueued
  <2>2. e \in Input
    BY <1>2 DEF Calls, Input
  <2>. HIDE DEF e
  <2>3. /\ WorkerIds' = WorkerIds
        /\ \A v \in WorkerIds : v # w => worker'[v] = worker[v]
        /\ worker'[w].key = worker[w].key /\ worker'[w].step = worker[w].step
        /\ worker'[w].stopped = worker[w].stopped
        /\ worker'[w].completing = worker[w].completing
        /\ worker'[w].current = worker[w].current
    BY Zenon, <1>2, <1>7, <2>1, <2>2, EnqueueAppends DEF OthersKept
  <2>4. \A v \in WorkerIds : /\ worker'[v].step = worker[v].step
                             /\ worker'[v].stopped = worker[v].stopped
                             /\ worker'[v].completing = worker[v].completing
    BY <2>3
  <2>5. \A k \in Key : workers[k] # NoWorker => workers[k] \in WorkerIds
    BY <1>2 DEF RoutingInv
  <2>6. \A k \in Key : dropped'[k] # {} => Losing(k)'
    BY <1>3, <1>4, <2>1, <2>4, <2>5, LosingKept DEF LossInv, Unavailable
  <2>7. \A k \in invalid : workers[k] # NoWorker =>
           worker'[workers[k]].stopped \/ worker'[workers[k]].completing
    BY <2>4, <2>5 DEF LossInv, Unavailable
  <2>8. worker[w].step \in Taking => dropped[worker[w].key] = {}
    BY <1>2, <1>7, NothingLost
  <2>9. worker[w].step = "deliver" => worker[w].step \in Taking
    BY DEF Taking
  <2>10. Ahead'
    BY <2>1, <2>3, <2>8, <2>9 DEF LossInv, Ahead
  <2>. QED
    BY <1>3, <2>1, <2>6, <2>7, <2>10 DEF LossInv, Unavailable
<1>. QED
  BY <1>5, <1>6, <1>7

LEMMA LossEnds ==
    ASSUME ServiceInv, LossInv, NEW p \in Publishers, Overrun(p) \/ WaitReturns(p)
    PROVE  LossInv'
<1>1. /\ Advance /\ RoutingInv /\ publisher' = [publisher EXCEPT ![p] = IdlePublisher]
      /\ \A q \in Publishers : q # p => publisher'[q] = publisher[q]
  BY ServiceEnds DEF ServiceInv, CallInv
<1>2. UNCHANGED <<workers, closed, dropped>>
  BY DEF Overrun, WaitReturns, routing
<1>3. CASE WaitReturns(p)
  <2>1. worker' = worker /\ invalid' = invalid /\ publisher[p].step # "overrun"
    BY <1>3 DEF WaitReturns, routing
  <2>2. \A k \in Key : Losing(k) => Losing(k)'
    BY <1>1, <1>2, <2>1, LosingKept DEF Unavailable
  <2>. QED
    BY <1>1, <1>2, <2>1, <2>2, LossKept DEF LossInv
<1>4. CASE Overrun(p)
  <2>1. PICK w \in WorkerIds : w = publisher[p].to
    BY <1>4 DEF Overrun, ServiceInv, CallInv, Pending
  <2>2. /\ OthersKept(w)
        /\ \/ /\ ~Unavailable(w) /\ worker'[w].stopped
              /\ invalid' = invalid \cup {worker[w].key}
           \/ Unavailable(w) /\ invalid' = invalid /\ worker' = worker
    BY <1>1, <1>4, <2>1, FailOf DEF Overrun
  <2>3. worker[w].key \in Key
    BY <1>1 DEF RoutingInv, WorkerInv, Worker
  <2>4. ASSUME NEW k \in Key, Losing(k)
        PROVE  Losing(k)'
    <3>1. CASE workers[k] = w
      <4>1. w # NoWorker /\ worker[w].key = k
        BY <1>1, <3>1 DEF RoutingInv, WorkerIds, NoWorker
      <4>2. CASE Unavailable(w)
        BY <1>2, <2>2, <2>4, <3>1, <4>2, LosingKept
      <4>3. CASE ~Unavailable(w)
        BY <2>2, <4>1, <4>3 DEF Losing
      <4>. QED
        BY <4>2, <4>3
    <3>2. CASE workers[k] # w
      <4>1. workers[k] # NoWorker => workers[k] \in WorkerIds
        BY <1>1 DEF RoutingInv
      <4>. QED
        BY <1>1, <1>2, <2>1, <2>2, <2>4, <3>2, <4>1, LosingKept DEF OthersKept, Unavailable
    <3>. QED
      BY <3>1, <3>2
  <2>5. ASSUME NEW k \in invalid', workers[k] # NoWorker
        PROVE  k \in invalid \/ worker'[workers[k]].stopped
    <3>1. k \notin invalid => k = worker[w].key /\ ~Unavailable(w) /\ worker'[w].stopped
      BY <2>2, <2>5
    <3>2. ~Unavailable(w) => workers[worker[w].key] = w
      BY <1>1, RegisteredTyped DEF RoutingInv
    <3>. QED
      BY <3>1, <3>2
  <2>6. invalid' \subseteq Key
    BY <2>2, <2>3 DEF LossInv
  <2>. QED
    BY <1>1, <1>2, <2>4, <2>5, <2>6, LossKept DEF LossInv
<1>. QED
  BY <1>3, <1>4

LEMMA LossFinish ==
    ASSUME ServiceInv, LossInv, NEW w \in WorkerIds, NEW ok \in BOOLEAN, FinishDelivery(w, ok)
    PROVE  LossInv'
<1>6. PICK key \in Key : key = worker[w].key
  BY DEF ServiceInv, RoutingInv, WorkerInv, Worker
<1>1. /\ Advance /\ OthersKept(w) /\ RoutingInv
      /\ \/ Unavailable(w) /\ dropped' = dropped
         \/ /\ ~Unavailable(w) /\ ~worker'[w].stopped /\ ~worker'[w].completing
            /\ \/ dropped' = dropped
               \/ /\ worker'[w].step = "failed"
                  /\ dropped' = [dropped EXCEPT ![key] = @ \cup {worker[w].current.seq}]
  BY <1>6, FinishAdvances DEF ServiceInv
<1>2. UNCHANGED <<workers, closed, invalid, publisher>> /\ worker[w].step = "deliver"
  BY DEF FinishDelivery, routing
<1>3. ASSUME NEW k \in Key, Losing(k)
      PROVE  Losing(k)'
  <2>1. workers[k] # NoWorker => workers[k] \in WorkerIds
    BY <1>1 DEF RoutingInv
  <2>. QED
    BY <1>1, <1>2, <1>3, <2>1, LosingKept DEF OthersKept, Unavailable
<1>4. CASE dropped' = dropped
  BY <1>1, <1>2, <1>3, <1>4, LossKept DEF LossInv
<1>5. CASE dropped' # dropped
  <2>1. /\ ~Unavailable(w) /\ ~worker'[w].stopped /\ ~worker'[w].completing
        /\ worker'[w].step = "failed"
        /\ dropped' = [dropped EXCEPT ![key] = @ \cup {worker[w].current.seq}]
    BY <1>1, <1>5
  <2>2. workers[key] = w /\ w # NoWorker
    BY <1>1, <1>6, <2>1, ServiceRoutes
  <2>9. worker[w].current.seq \in Int
    BY <1>1 DEF RoutingInv, WorkerInv, Worker, Input
  <2>3. /\ dropped' \in [Key -> SUBSET Int]
        /\ \A k \in Key : k # key => dropped'[k] = dropped[k]
    BY <2>1, <2>9 DEF LossInv
  <2>4. Losing(key)'
    BY <1>2, <2>1, <2>2 DEF Losing, Unavailable
  <2>5. \A k \in Key : dropped'[k] # {} => Losing(k)'
    BY <1>3, <2>3, <2>4 DEF LossInv
  <2>6. \A k \in invalid : workers[k] # NoWorker =>
          worker'[workers[k]].stopped \/ worker'[workers[k]].completing
    BY <1>1 DEF LossInv, RoutingInv, Advance, Later, Unavailable
  <2>7. ASSUME NEW v \in WorkerIds, NEW j \in dropped'[worker'[v].key]
        PROVE  /\ worker'[v].step \in Taking =>
                     \A n \in DOMAIN worker'[v].queue : worker'[v].queue[n].seq < j
               /\ worker'[v].step = "deliver" => worker'[v].current.seq < j
    <3>1. CASE v = w
      BY <2>1, <3>1 DEF Taking
    <3>2. CASE v # w
      <4>1. worker'[v] = worker[v] /\ worker[v].key \in Key
        BY <1>1, <3>2 DEF OthersKept, RoutingInv, WorkerInv, Worker
      <4>2. CASE worker[v].key = key
        <5>1. worker[v].step = "done"
          BY <1>1, <2>2, <3>2, <4>2 DEF RoutingInv, Running
        <5>. QED
          BY <4>1, <5>1 DEF Taking
      <4>3. CASE worker[v].key # key
        BY <2>3, <2>7, <4>1, <4>3 DEF LossInv, Ahead
      <4>. QED
        BY <4>2, <4>3
    <3>. QED
      BY <3>1, <3>2
  <2>8. Ahead'
    BY <1>1, <2>7 DEF Ahead, Advance
  <2>. QED
    BY <1>2, <2>3, <2>5, <2>6, <2>8 DEF LossInv, Unavailable
<1>. QED
  BY <1>4, <1>5

LEMMA LossFail ==
    ASSUME ServiceInv, LossInv, NEW w \in WorkerIds, FailDelivery(w)
    PROVE  LossInv'
<1>. DEFINE key == worker[w].key
<1>1. /\ Advance /\ OthersKept(w) /\ RoutingInv
      /\ \/ /\ workers[key] = w /\ ~Unavailable(w)
            /\ worker'[w].stopped /\ invalid' = invalid \cup {key}
         \/ /\ workers[key] # w \/ Unavailable(w)
            /\ invalid' = invalid
  BY FailAdvances DEF ServiceInv
<1>2. UNCHANGED <<workers, closed, dropped, publisher>>
  BY DEF FailDelivery
<1>3. key \in Key /\ invalid' \subseteq Key /\ invalid \subseteq invalid'
  BY <1>1 DEF RoutingInv, WorkerInv, Worker, LossInv
<1>4. ASSUME NEW k \in Key, Losing(k)
      PROVE  Losing(k)'
  <2>1. CASE workers[k] = w
    <3>1. key = k
      BY <1>1, <2>1 DEF RoutingInv, WorkerIds, NoWorker
    <3>2. CASE Unavailable(w)
      BY <1>2, <1>3, <1>4, <2>1, <3>2, LosingKept
    <3>3. CASE ~Unavailable(w)
      BY <1>1, <2>1, <3>1, <3>3 DEF Losing
    <3>. QED
      BY <3>2, <3>3
  <2>2. CASE workers[k] # w
    <3>1. workers[k] # NoWorker => workers[k] \in WorkerIds
      BY <1>1 DEF RoutingInv
    <3>. QED
      BY <1>1, <1>2, <1>3, <1>4, <2>2, <3>1, LosingKept DEF OthersKept, Unavailable
  <2>. QED
    BY <2>1, <2>2
<1>5. \A k \in invalid' : workers[k] # NoWorker => k \in invalid \/ worker'[workers[k]].stopped
  BY <1>1
<1>. QED
  BY <1>1, <1>2, <1>3, <1>4, <1>5, LossKept DEF LossInv

LEMMA LossExit ==
    ASSUME ServiceInv, LossInv, NEW w \in WorkerIds, RunWorkerExit(w)
    PROVE  LossInv'
<1>1. Advance /\ OthersKept(w) /\ Unavailable(w) /\ RoutingInv
  BY ExitAdvances DEF ServiceInv
<1>2. UNCHANGED <<closed, invalid, dropped, publisher>>
  BY DEF RunWorkerExit
<1>3. \A k \in Key : workers'[k] = workers[k] \/ (workers[k] = w /\ workers'[k] = NoWorker)
  BY <1>1 DEF RunWorkerExit, RoutingInv
<1>4. Ahead'
  BY <1>1, <1>2, AdvanceAhead DEF LossInv
<1>5. ASSUME NEW k \in Key, Losing(k)
      PROVE  Losing(k)'
  <2>1. CASE closed \/ k \in invalid
    BY <1>2, <2>1 DEF Losing
  <2>2. CASE ~(closed \/ k \in invalid)
    <3>1. workers[k] # w /\ workers[k] # NoWorker
      BY <1>1, <1>5, <2>2 DEF Losing
    <3>2. workers[k] \in WorkerIds /\ workers'[k] = workers[k]
      BY <1>1, <1>3, <3>1 DEF RoutingInv
    <3>. QED
      BY <1>1, <1>2, <1>5, <3>1, <3>2, LosingKept DEF OthersKept, Unavailable
  <2>. QED
    BY <2>1, <2>2
<1>6. ASSUME NEW k \in invalid, workers'[k] # NoWorker
      PROVE  worker'[workers'[k]].stopped \/ worker'[workers'[k]].completing
  <2>1. workers'[k] = workers[k] /\ workers[k] \in WorkerIds /\ Unavailable(workers[k])
    BY <1>1, <1>3, <1>6 DEF LossInv, RoutingInv
  <2>. QED
    BY <1>1, <2>1 DEF Advance, Later, Unavailable
<1>. QED
  BY <1>2, <1>4, <1>5, <1>6 DEF LossInv, Unavailable

LEMMA LossRun ==
    ASSUME ServiceInv, LossInv, NEW w \in WorkerIds, RunWorker(w)
    PROVE  LossInv'
<1>1. CASE Select(w) \/ BeginDelivery(w)
  <2>1. /\ Advance /\ OthersKept(w) /\ RoutingInv /\ worker[w].step # "failed"
        /\ worker'[w].stopped = worker[w].stopped /\ worker'[w].completing = worker[w].completing
    BY Zenon, <1>1, SelectAdvances, BeginAdvances DEF ServiceInv, Select, BeginDelivery
  <2>2. UNCHANGED <<workers, closed, invalid, dropped, publisher>>
    BY <1>1 DEF Select, BeginDelivery, routing
  <2>3. ASSUME NEW k \in Key, Losing(k)
        PROVE  Losing(k)'
    <3>1. workers[k] # NoWorker => workers[k] \in WorkerIds
      BY <2>1 DEF RoutingInv
    <3>. QED
      BY <2>1, <2>2, <2>3, <3>1, LosingKept DEF OthersKept, Unavailable
  <2>. QED
    BY <2>1, <2>2, <2>3, LossKept DEF LossInv
<1>. QED
  BY <1>1, LossFail, LossExit, LossFinish DEF RunWorker

LEMMA LossRetire ==
    ASSUME ServiceInv, LossInv, NEW key \in Key, Cancel(key) \/ Complete(key)
    PROVE  LossInv'
<1>1. /\ Advance /\ RoutingInv
      /\ \A v \in WorkerIds : v # workers[key] => worker'[v] = worker[v]
      /\ invalid' = invalid \ {key} /\ dropped' = [dropped EXCEPT ![key] = {}]
      /\ UNCHANGED <<workers, closed, publisher>>
  BY RetireAdvances DEF ServiceInv
<1>2. /\ dropped' \in [Key -> SUBSET Int] /\ dropped'[key] = {}
      /\ \A k \in Key : k # key => dropped'[k] = dropped[k]
  BY <1>1 DEF LossInv
<1>3. ASSUME NEW k \in Key, dropped'[k] # {}, Losing(k)
      PROVE  Losing(k)'
  <2>1. k # key /\ (k \in invalid => k \in invalid')
    BY <1>1, <1>2, <1>3
  <2>2. workers[k] # NoWorker => workers[k] \in WorkerIds /\ workers[k] # workers[key]
    BY <1>1, <2>1 DEF RoutingInv
  <2>. QED
    BY <1>1, <1>3, <2>1, <2>2, LosingKept DEF Unavailable
<1>4. invalid' \subseteq invalid /\ \A k \in Key : dropped'[k] \subseteq dropped[k]
  BY <1>1, <1>2
<1>. QED
  BY <1>1, <1>2, <1>3, <1>4, LossKept DEF LossInv

LEMMA LossApply ==
    ASSUME ServiceInv, LossInv, NEW new \in [Instances -> Plugins \cup {NoPlugin}], Apply(new)
    PROVE  LossInv'
<1>. DEFINE gone == {k \in Key : new[k.instance] # k.plugin}
<1>1. /\ Advance /\ RoutingInv
      /\ \A w \in WorkerIds : w \notin Retired(new) => worker'[w] = worker[w]
  BY ApplyStops DEF ServiceInv
<1>2. /\ UNCHANGED <<workers, closed, publisher>> /\ invalid' = invalid \ gone
      /\ dropped' = [k \in Key |-> IF k \in gone THEN {} ELSE dropped[k]]
  BY DEF Apply
<1>3. dropped' \in [Key -> SUBSET Int] /\ \A k \in Key : dropped'[k] \subseteq dropped[k]
  BY <1>2 DEF LossInv
<1>4. ASSUME NEW k \in Key, dropped'[k] # {}, Losing(k)
      PROVE  Losing(k)'
  <2>1. k \notin gone
    BY <1>2, <1>4
  <2>2. workers[k] # NoWorker => workers[k] \in WorkerIds /\ workers[k] \notin Retired(new)
    BY <1>1, <2>1 DEF RoutingInv, Retired
  <2>. QED
    BY <1>1, <1>2, <1>4, <2>1, <2>2, LosingKept DEF Unavailable
<1>. QED
  BY <1>1, <1>2, <1>3, <1>4, LossKept DEF LossInv

LEMMA LossClose ==
    ASSUME ServiceInv, LossInv, Close
    PROVE  LossInv'
<1>1. Advance /\ RoutingInv
  BY ServiceClose DEF ServiceInv
<1>2. closed' = TRUE /\ invalid' = {} /\ UNCHANGED <<workers, dropped>>
  BY DEF Close
<1>3. \A k \in Key : Losing(k)'
  BY <1>2 DEF Losing
<1>. QED
  BY <1>1, <1>2, <1>3, LossKept DEF LossInv

LEMMA LossReturns ==
    ASSUME ServiceInv, LossInv, UNCHANGED <<routing, worker, publisher, dropped>>
    PROVE  LossInv'
BY DEF LossInv, Ahead, Losing, Unavailable, WorkerIds, routing

LEMMA BrokerInit == Init => BrokerInv
<1>. SUFFICES ASSUME Init PROVE BrokerInv
  OBVIOUS
<1>1. ServiceInv
  BY ServiceInit
<1>2. WorkerIds = {} /\ dropped = [k \in Key |-> {}] /\ invalid = {}
  BY DEF Init, WorkerIds
<1>3. Pending = {}
  BY IdleCall DEF Init, Pending
<1>4. OrderInv
  BY <1>2, <1>3 DEF OrderInv
<1>5. LossInv
  BY <1>2 DEF LossInv, Ahead
<1>. QED
  BY <1>1, <1>4, <1>5 DEF BrokerInv

LEMMA BrokerNext ==
    ASSUME BrokerInv, [Next]_vars, NEW only, Publishers = {only}
    PROVE  BrokerInv'
<1>1. ServiceInv /\ OrderInv /\ LossInv /\ ServiceInv'
  BY ServiceNext DEF BrokerInv
<1>2. CASE \E p \in Publishers, i \in Instances, t \in Tokens, waits \in BOOLEAN :
              Publish(p, i, t, waits)
  BY <1>1, <1>2, OrderPublish, LossPublish DEF BrokerInv
<1>3. CASE \E p \in Publishers : Enqueue(p)
  BY <1>1, <1>3, OrderEnqueue, LossEnqueue DEF BrokerInv
<1>4. CASE \E p \in Publishers : Overrun(p) \/ WaitReturns(p)
  <2>1. PICK p \in Publishers : Overrun(p) \/ WaitReturns(p)
    BY <1>4
  <2>2. next' = next
    BY <2>1 DEF Overrun, WaitReturns, routing
  <2>3. OrderInv'
    BY <1>1, <2>1, <2>2, ServiceEnds, AdvanceOrder
  <2>. QED
    BY <1>1, <2>1, <2>3, LossEnds DEF BrokerInv
<1>5. CASE \E w \in WorkerIds : RunWorker(w)
  <2>1. PICK w \in WorkerIds : RunWorker(w)
    BY <1>5
  <2>2. next' = next /\ publisher' = publisher
    BY ZenonT(30), <2>1 DEF RunWorker, Select, BeginDelivery, FailDelivery, RunWorkerExit, FinishDelivery, routing
  <2>3. OrderInv'
    BY <1>1, <2>1, <2>2, ServiceRun, AdvanceOrder DEF Pending
  <2>. QED
    BY <1>1, <2>1, <2>3, LossRun DEF BrokerInv
<1>6. CASE Retire
  <2>1. PICK key \in Key : Cancel(key) \/ Complete(key)
    BY <1>6 DEF Retire
  <2>2. Advance /\ next' = next /\ publisher' = publisher
    BY <1>1, <2>1, RetireAdvances DEF ServiceInv
  <2>3. OrderInv'
    BY <1>1, <2>2, AdvanceOrder DEF Pending
  <2>. QED
    BY <1>1, <2>1, <2>3, LossRetire DEF BrokerInv
<1>7. CASE \E new \in [Instances -> Plugins \cup {NoPlugin}] : Apply(new)
  <2>1. PICK new \in [Instances -> Plugins \cup {NoPlugin}] : Apply(new)
    BY <1>7
  <2>2. Advance /\ next' = next /\ publisher' = publisher
    BY <1>1, <2>1, ApplyStops DEF ServiceInv, Apply
  <2>3. OrderInv'
    BY <1>1, <2>2, AdvanceOrder DEF Pending
  <2>. QED
    BY <1>1, <2>1, <2>3, LossApply DEF BrokerInv
<1>8. CASE Close
  <2>1. Advance /\ next' = next /\ publisher' = publisher
    BY <1>1, <1>8, ServiceClose DEF Close
  <2>2. OrderInv'
    BY <1>1, <2>1, AdvanceOrder DEF Pending
  <2>. QED
    BY <1>1, <1>8, <2>2, LossClose DEF BrokerInv
<1>9. CASE ApplyReturns \/ CloseReturns \/ UNCHANGED vars
  <2>1. UNCHANGED <<routing, worker, publisher, dropped>>
    BY <1>9 DEF ApplyReturns, CloseReturns, vars
  <2>2. OrderInv'
    BY <1>1, <2>1 DEF OrderInv, Pending, WorkerIds, routing
  <2>. QED
    BY <1>1, <2>1, <2>2, LossReturns DEF BrokerInv
<1>. QED
  BY <1>2, <1>3, <1>4, <1>5, <1>6, <1>7, <1>8, <1>9 DEF Next, Continue

LEMMA BrokerHolds == BrokerInv => InputInOrder
<1>. SUFFICES ASSUME BrokerInv PROVE InputInOrder
  OBVIOUS
<1>1. OneDeliveryPerSession /\ QuietAfterJoin
  BY ServiceHolds DEF BrokerInv
<1>2. ASSUME NEW w \in WorkerIds, worker[w].step = "deliver", NEW n \in DOMAIN worker[w].queue
      PROVE  worker[w].queue[n].seq >= worker[w].current.seq
  <2>. DEFINE q == worker[w].queue
  <2>1. WorkerInv(worker[w]) /\ q \in Queues
    BY DEF BrokerInv, ServiceInv, RoutingInv, WorkerInv, Worker
  <2>2. q # <<>>
    BY <1>2, EmptyQueue
  <2>3. worker[w].current = q[1]
    BY <1>2, <2>1, <2>2 DEF WorkerInv
  <2>4. Increasing(q)
    BY DEF BrokerInv, OrderInv
  <2>5. n \in Int /\ n >= 1 /\ 1 \in DOMAIN q /\ q[n].seq \in Int
    BY <1>2, <2>1, <2>2, HeadOfQueue, QueueTyped DEF Queues
  <2>6. n = 1 \/ q[1].seq < q[n].seq
    BY <1>2, <2>4, <2>5 DEF Increasing
  <2>7. q[1].seq \in Int
    BY <2>1, <2>5, QueueTyped
  <2>. HIDE DEF q
  <2>8. q[n].seq >= q[1].seq
    BY <2>5, <2>6, <2>7
  <2>. QED
    BY <2>3, <2>8 DEF q
<1>3. \A w \in WorkerIds : worker[w].step = "deliver" =>
         \A i \in dropped[worker[w].key] : worker[w].current.seq < i
  BY DEF BrokerInv, LossInv, Ahead
<1>. QED
  BY <1>1, <1>2, <1>3 DEF InputInOrder, NothingOvertaken

(* With one caller that publishes, as the daemon's input loop does: each     *)
(* session's input is delivered one at a time, in the order published, and   *)
(* none after one that was lost until the session is reset.                  *)
THEOREM SessionInputInOrder ==
    ASSUME NEW only, Publishers = {only}
    PROVE  Spec => []InputInOrder
<1>1. BrokerInv /\ [Next]_vars => BrokerInv'
  BY BrokerNext
<1>. QED
  BY <1>1, BrokerInit, BrokerHolds, PTL DEF Spec

=============================================================================
