------------------------------- MODULE Broker -------------------------------
(***************************************************************************)
(* Session input delivery (internal/eventbus/broker.go).                   *)
(*                                                                         *)
(* The broker routes each input to a worker goroutine of its exact         *)
(* session.  It has two levels of locks: b.mu for the routing tables and   *)
(* w.mu for one worker's queue, and a publisher holds neither between      *)
(* choosing a worker and appending to its queue.  One action is one        *)
(* critical section, or one step of a goroutine between two of them.       *)
(***************************************************************************)
EXTENDS Integers, Sequences, FiniteSets

CONSTANTS Plugins, Instances,
          Tokens,                \* generation and token of a session
          NoPlugin,              \* targets[id] == ""
          Publishers,            \* callers of PublishSessionInput[AndWait]
          InteractionQueueSize,
          MaxInputs,             \* bound on the input sequence
          MaxWorkers             \* bound on the workers ever started

BrokerBounds ==
    /\ NoPlugin \notin Plugins
    /\ InteractionQueueSize \in Nat \ {0}
    /\ MaxInputs \in Nat /\ MaxWorkers \in Nat

VARIABLES
    targets, workers, invalid, closed, next,   \* Broker fields
    worker,      \* the workers ever started, in order
    publisher,   \* publish calls in progress
    applier,     \* the Apply call in progress (callers hold eventMu)
    closer,      \* the Close call
    responses,   \* number of responses sent on each input's channel
    dropped      \* history: inputs lost since the session was last reset

routing == <<targets, workers, invalid, closed, next>>
vars == <<routing, worker, publisher, applier, closer, responses, dropped>>

Key == [plugin : Plugins, instance : Instances, token : Tokens]
NoWorker == 0
WorkerIds == 1 .. Len(worker)
Inputs == 1 .. MaxInputs
IdlePublisher == [step |-> "idle", seq |-> 0, waits |-> FALSE, to |-> NoWorker]
IdleCaller == [step |-> "idle", joins |-> {}]

NewWorker(key) ==
    [key |-> key, queue |-> <<>>, inFlight |-> FALSE, completing |-> FALSE,
     stopped |-> FALSE, notify |-> FALSE, step |-> "select",
     current |-> [seq |-> 0, waits |-> FALSE]]

Unavailable(w) == worker[w].stopped \/ worker[w].completing

Init ==
    /\ targets \in [Instances -> Plugins]
    /\ workers = [k \in Key |-> NoWorker]
    /\ invalid = {} /\ closed = FALSE /\ next = 0
    /\ worker = <<>>
    /\ publisher = [p \in Publishers |-> IdlePublisher]
    /\ applier = IdleCaller /\ closer = IdleCaller
    /\ responses = [i \in Inputs |-> 0]
    /\ dropped = [k \in Key |-> {}]

----------------------------------------------------------------------------
(* Worker transitions under w.mu, as functions of the worker record         *)

(* rejectDeliveries answers the waiting publishers among the discarded.     *)
Rejecting(deliveries) ==
    [i \in Inputs |-> responses[i] +
        Cardinality({n \in DOMAIN deliveries :
                        deliveries[n].seq = i /\ deliveries[n].waits})]

Stopped(r) == [r EXCEPT !.stopped = TRUE, !.queue = <<>>]

StopWithoutRejecting(ws) ==
    /\ worker' = [w \in WorkerIds |-> IF w \in ws THEN Stopped(worker[w]) ELSE worker[w]]
    /\ UNCHANGED responses

(* stopNoWait for each worker of a set.                                     *)
StopNoWait(ws) ==
    LET fresh == {w \in ws : ~worker[w].stopped}
        discarded(i) == {d \in UNION {{w} \X DOMAIN worker[w].queue : w \in fresh} :
                            worker[d[1]].queue[d[2]] = [seq |-> i, waits |-> TRUE]}
    IN  /\ worker' = [w \in WorkerIds |-> IF w \in fresh THEN Stopped(worker[w]) ELSE worker[w]]
        /\ responses' = [i \in Inputs |-> responses[i] + Cardinality(discarded(i))]

(* completeNoWait keeps the delivery in flight and discards the rest.       *)
CompleteNoWait(w) ==
    LET r == worker[w] IN
    IF Unavailable(w) THEN UNCHANGED <<worker, responses>>
    ELSE IF r.inFlight
    THEN /\ worker' = [worker EXCEPT ![w].completing = TRUE, ![w].queue = <<Head(r.queue)>>]
         /\ responses' = Rejecting(Tail(r.queue))
    ELSE /\ worker' = [worker EXCEPT ![w] = [Stopped(r) EXCEPT !.completing = TRUE]]
         /\ responses' = Rejecting(r.queue)

----------------------------------------------------------------------------
(* Publishing                                                               *)

(* publishSessionInput under b.mu; a call that fails here changes nothing.  *)
Publish(p, instance, token, waits) ==
    LET key == [plugin |-> targets[instance], instance |-> instance, token |-> token] IN
    /\ publisher[p].step = "idle" /\ next < MaxInputs
    /\ ~closed /\ targets[instance] # NoPlugin
    /\ key \notin invalid
    /\ workers[key] # NoWorker => ~Unavailable(workers[key])
    /\ next' = next + 1
    /\ IF workers[key] = NoWorker
       THEN /\ Len(worker) < MaxWorkers
            /\ worker' = Append(worker, NewWorker(key))
            /\ workers' = [workers EXCEPT ![key] = Len(worker) + 1]
       ELSE UNCHANGED <<worker, workers>>
    /\ publisher' = [publisher EXCEPT ![p] =
                        [step |-> "enqueue", seq |-> next', waits |-> waits,
                         to |-> workers'[key]]]
    /\ UNCHANGED <<targets, invalid, closed, applier, closer, responses, dropped>>

(* worker.enqueue, and the wake that follows it.                            *)
Enqueue(p) ==
    LET call == publisher[p]
        w == call.to
        key == worker[w].key
    IN  /\ call.step = "enqueue"
        /\ IF Unavailable(w)
           THEN /\ publisher' = [publisher EXCEPT ![p] = IdlePublisher]
                /\ UNCHANGED <<worker, dropped>>
           ELSE IF Len(worker[w].queue) >= InteractionQueueSize
           THEN /\ publisher' = [publisher EXCEPT ![p].step = "overrun"]
                /\ dropped' = [dropped EXCEPT ![key] = @ \cup {call.seq}]
                /\ UNCHANGED worker
           ELSE /\ worker' = [worker EXCEPT
                      ![w].queue = Append(@, [seq |-> call.seq, waits |-> call.waits]),
                      ![w].notify = TRUE]
                /\ publisher' = [publisher EXCEPT ![p] =
                                    IF call.waits THEN [call EXCEPT !.step = "wait"]
                                    ELSE IdlePublisher]
                /\ UNCHANGED dropped
        /\ UNCHANGED <<routing, applier, closer, responses>>

FailLeavesSessionOpen(w) ==
    /\ IF workers[worker[w].key] = w /\ ~Unavailable(w)
       THEN StopNoWait({w})
       ELSE UNCHANGED <<worker, responses>>
    /\ UNCHANGED invalid

(* Broker.fail invalidates the session of a worker that is still current.   *)
(* The failure callback that follows ends in Cancel.                        *)
Fail(w) ==
    IF workers[worker[w].key] = w /\ ~Unavailable(w)
    THEN invalid' = invalid \cup {worker[w].key} /\ StopNoWait({w})
    ELSE UNCHANGED <<invalid, worker, responses>>

Overrun(p) ==
    /\ publisher[p].step = "overrun"
    /\ Fail(publisher[p].to)
    /\ publisher' = [publisher EXCEPT ![p] = IdlePublisher]
    /\ UNCHANGED <<targets, workers, closed, next, applier, closer, dropped>>

(* PublishSessionInputAndWait returns with the response, or on ctx.Done.    *)
WaitReturns(p) ==
    /\ publisher[p].step = "wait"
    /\ publisher' = [publisher EXCEPT ![p] = IdlePublisher]
    /\ UNCHANGED <<routing, worker, applier, closer, responses, dropped>>

----------------------------------------------------------------------------
(* The worker goroutine                                                     *)

SelectIgnoresCancel(w) ==
    /\ worker[w].step = "select" /\ worker[w].notify
    /\ worker' = [worker EXCEPT ![w].step = "loop", ![w].notify = FALSE]
    /\ UNCHANGED <<routing, publisher, applier, closer, responses, dropped>>

(* The select of worker.run.  The context is canceled when stopped is set;  *)
(* with both channels ready either is chosen.                               *)
Select(w) ==
    /\ worker[w].step = "select"
    /\ \/ worker[w].stopped /\ worker' = [worker EXCEPT ![w].step = "returned"]
       \/ worker[w].notify
          /\ worker' = [worker EXCEPT ![w].step = "loop", ![w].notify = FALSE]
    /\ UNCHANGED <<routing, publisher, applier, closer, responses, dropped>>

BeginDelivery(w) ==
    LET r == worker[w] IN
    /\ r.step = "loop"
    /\ worker' = IF r.stopped \/ r.inFlight \/ r.queue = <<>>
                 THEN [worker EXCEPT ![w].step = "select"]
                 ELSE [worker EXCEPT ![w].step = "deliver", ![w].inFlight = TRUE,
                                     ![w].current = Head(r.queue)]
    /\ UNCHANGED <<routing, publisher, applier, closer, responses, dropped>>

(* deliver returned: finish, then the response.                             *)
FinishDelivery(w, ok) ==
    LET r == worker[w] IN
    /\ r.step = "deliver"
    /\ IF r.stopped \/ r.queue = <<>> \/ Head(r.queue) # r.current
       THEN /\ worker' = [worker EXCEPT ![w].step = "returned"]
            /\ UNCHANGED <<responses, dropped>>
       ELSE /\ worker' = [worker EXCEPT ![w] =
                   [(IF r.completing THEN Stopped(r) ELSE [r EXCEPT !.queue = Tail(@)])
                    EXCEPT !.inFlight = FALSE,
                           !.step = IF ~ok THEN "failed"
                                    ELSE IF r.completing THEN "returned" ELSE "loop"]]
            /\ responses' = Rejecting(<<r.current>>)
            /\ dropped' = IF ok \/ r.completing THEN dropped
                          ELSE [dropped EXCEPT ![r.key] = @ \cup {r.current.seq}]
    /\ UNCHANGED <<routing, publisher, applier, closer>>

(* w.complete reports the delivery error, and run returns.                  *)
FailDelivery(w) ==
    /\ worker[w].step = "failed"
    /\ LET key == worker[w].key IN
       IF workers[key] = w /\ ~Unavailable(w)
       THEN /\ invalid' = invalid \cup {key}
            /\ worker' = [worker EXCEPT ![w] = [Stopped(@) EXCEPT !.step = "returned"]]
            /\ responses' = Rejecting(worker[w].queue)
       ELSE /\ worker' = [worker EXCEPT ![w].step = "returned"]
            /\ UNCHANGED <<invalid, responses>>
    /\ UNCHANGED <<targets, workers, closed, next, publisher, applier, closer, dropped>>

(* runWorker after run: unregister, then close(done).                       *)
RunWorkerExit(w) ==
    /\ worker[w].step = "returned"
    /\ worker' = [worker EXCEPT ![w].step = "done"]
    /\ workers' = IF workers[worker[w].key] = w
                  THEN [workers EXCEPT ![worker[w].key] = NoWorker] ELSE workers
    /\ UNCHANGED <<targets, invalid, closed, next, publisher, applier, closer, responses,
                   dropped>>

----------------------------------------------------------------------------
(* Retirement of sessions                                                   *)

CancelUnregisters(key) ==
    /\ IF workers[key] # NoWorker THEN StopNoWait({workers[key]})
       ELSE UNCHANGED <<worker, responses>>
    /\ workers' = [workers EXCEPT ![key] = NoWorker]
    /\ invalid' = invalid \ {key}
    /\ dropped' = [dropped EXCEPT ![key] = {}]
    /\ UNCHANGED <<targets, closed, next, publisher, applier, closer>>

Cancel(key) ==
    /\ IF workers[key] # NoWorker THEN StopNoWait({workers[key]})
       ELSE UNCHANGED <<worker, responses>>
    /\ invalid' = invalid \ {key}
    /\ dropped' = [dropped EXCEPT ![key] = {}]
    /\ UNCHANGED <<targets, workers, closed, next, publisher, applier, closer>>

Complete(key) ==
    /\ IF workers[key] # NoWorker THEN CompleteNoWait(workers[key])
       ELSE UNCHANGED <<worker, responses>>
    /\ invalid' = invalid \ {key}
    /\ dropped' = [dropped EXCEPT ![key] = {}]
    /\ UNCHANGED <<targets, workers, closed, next, publisher, applier, closer>>

Registered == {workers[k] : k \in Key} \ {NoWorker}

RetiresNothing(new) == {}

(* Workers whose session the new routing set no longer contains.            *)
Retired(new) ==
    {w \in Registered : new[worker[w].key.instance] # worker[w].key.plugin}

Apply(new) ==
    LET gone == {k \in Key : new[k.instance] # k.plugin} IN
    /\ applier.step = "idle" /\ ~closed
    /\ StopNoWait(Retired(new))
    /\ invalid' = invalid \ gone
    /\ targets' = new
    /\ dropped' = [k \in Key |-> IF k \in gone THEN {} ELSE dropped[k]]
    /\ applier' = [step |-> "joining", joins |-> Retired(new)]
    /\ UNCHANGED <<workers, closed, next, publisher, closer>>

ApplyReturns ==
    /\ applier.step = "joining"
    /\ \A w \in applier.joins : worker[w].step = "done"
    /\ applier' = IdleCaller
    /\ UNCHANGED <<routing, worker, publisher, closer, responses, dropped>>

Close ==
    /\ ~closed
    /\ closed' = TRUE
    /\ StopNoWait(Registered)
    /\ invalid' = {}
    /\ closer' = [step |-> "joining", joins |-> Registered]
    /\ UNCHANGED <<targets, workers, next, publisher, applier, dropped>>

CloseReturns ==
    /\ closer.step = "joining"
    /\ \A w \in closer.joins : worker[w].step = "done"
    /\ closer' = [closer EXCEPT !.step = "closed"]
    /\ UNCHANGED <<routing, worker, publisher, applier, responses, dropped>>

----------------------------------------------------------------------------
RunWorker(w) ==
    \/ Select(w) \/ BeginDelivery(w) \/ FailDelivery(w) \/ RunWorkerExit(w)
    \/ \E ok \in BOOLEAN : FinishDelivery(w, ok)

Continue(p) == Enqueue(p) \/ Overrun(p)

Retire == \E key \in Key : Cancel(key) \/ Complete(key)

Next ==
    \/ \E p \in Publishers, i \in Instances, t \in Tokens, waits \in BOOLEAN :
          Publish(p, i, t, waits)
    \/ \E p \in Publishers : Continue(p) \/ WaitReturns(p)
    \/ \E w \in WorkerIds : RunWorker(w)
    \/ Retire
    \/ \E new \in [Instances -> Plugins \cup {NoPlugin}] : Apply(new)
    \/ ApplyReturns \/ Close \/ CloseReturns

Spec == Init /\ [][Next]_vars

WorkerRuns(w) == w \in WorkerIds /\ RunWorker(w)

(* Goroutines keep running, and the delivery a worker waits for returns: it *)
(* has a deadline of its own and a context that stopping cancels.           *)
FairSpec ==
    /\ Spec
    /\ \A p \in Publishers : WF_vars(Continue(p))
    /\ \A w \in 1 .. MaxWorkers : WF_vars(WorkerRuns(w))
    /\ WF_vars(ApplyReturns) /\ WF_vars(CloseReturns)

----------------------------------------------------------------------------
(* Properties *)

(* At most one input of a session is being delivered, even while a canceled *)
(* delivery has not returned and a new publisher wants the same session.    *)
OneDeliveryPerSession ==
    \A v, w \in WorkerIds :
        worker[v].step = "deliver" /\ worker[w].step = "deliver"
            /\ worker[v].key = worker[w].key => v = w

(* No input of a session is delivered after a later one, or after an input  *)
(* before it was lost by overrun or by a failed delivery: until the session *)
(* is canceled or completed it stays invalid.                               *)
NothingOvertaken ==
    \A w \in WorkerIds : worker[w].step = "deliver" =>
        /\ \A i \in dropped[worker[w].key] : worker[w].current.seq < i
        /\ \A n \in DOMAIN worker[w].queue : worker[w].queue[n].seq >= worker[w].current.seq

(* Once Apply has returned no worker runs for a session outside the routing *)
(* set, and once Close has returned none runs at all.                       *)
QuietAfterJoin ==
    /\ applier.step = "idle" =>
          \A w \in WorkerIds : worker[w].step # "done" =>
              targets[worker[w].key.instance] = worker[w].key.plugin
    /\ closer.step = "closed" => \A w \in WorkerIds : worker[w].step = "done"

(* What a session may rely on: its input comes one at a time, in order and  *)
(* without gaps, and not at all once Apply or Close returned without it.    *)
InputInOrder == OneDeliveryPerSession /\ NothingOvertaken /\ QuietAfterJoin

Queued(i) == \E w \in WorkerIds : \E n \in DOMAIN worker[w].queue :
                worker[w].queue[n] = [seq |-> i, waits |-> TRUE]

(* Every input queued with a waiting publisher is answered once: delivered, *)
(* failed or rejected.  Its channel has room for one response: the sender   *)
(* of a second would block, and it may hold b.mu (rejectDeliveries under    *)
(* stopNoWait).                                                             *)
Answered(i) == responses[i] = 1
WaiterAnswered == \A i \in Inputs : Queued(i) ~> []Answered(i)

(* Apply and Close return: the workers they wait for all come to an end.    *)
Joining == applier.step = "joining" \/ closer.step = "joining"
JoinsReturn == Joining ~> ~Joining

=============================================================================
