---------------------------- MODULE MCAttention ----------------------------
(* What reaches the display: the daemon that owns it, the observation       *)
(* store, the engine that selects and draws, the saved acknowledgements,    *)
(* the ledger of what was shown, the gateway to the device, the commands    *)
(* queued for it, the menu that input opens, and the plugins that keep      *)
(* cards on it, on small instances. A behaviour is one of a single          *)
(* component; no daemon runs in the behaviours of the other components.     *)
EXTENDS DaemonRun, TLC

CONSTANTS Parts,   \* the components that run
          Observed, Disturbances

VARIABLES
    part,      \* the component that runs
    v1, v2, v3, v4, v5, v6, v7, v8, v9, v10, v11, v12, v13, v14, v15, v16,
    v17, v18, v19, v20, v21   \* the variables of the others

----------------------------------------------------------------------------
Rule(policy, impact, hold, cooldown, interval, ack) ==
    [policy |-> policy, impact |-> impact, hold |-> hold, cooldown |-> cooldown,
     interval |-> interval, ack |-> ack]

(* A critical app and two ambient ones that share the display.              *)
ThreeKinds == 1 :> Rule("attention", 4, 1, 0, 0, TRUE) @@
              2 :> Rule("when_relevant", 2, 1, 2, 0, FALSE) @@
              3 :> Rule("rotation", 2, 1, 0, 2, FALSE)

(* Two observations of one channel that compete for its only place: one     *)
(* in every generation, the other in the first one only.                    *)
Id(key) == [plugin |-> "p", instance |-> "i", channel |-> "c", key |-> key]
TwoKeys == {Id("k"), Id("l")}
Bounds == [x \in [id : TwoKeys, gen : 1 .. 2] |->
              IF x.id.key = "k" THEN 3 - x.gen ELSE IF x.gen = 1 THEN 1 ELSE 0]

(* Two scenes that share a layout, and two that share a priority.           *)
ThreeScenes == {[id |-> "a", topology |-> 1, priority |-> 1],
                [id |-> "b", topology |-> 1, priority |-> 2],
                [id |-> "c", topology |-> 2, priority |-> 2]}

Engine == INSTANCE AttentionEngine WITH
    Ids <- Observed, Kind <- ThreeKinds, MaxTime <- 3, MaxSequence <- 2,
    Validity <- 2, Gate <- 2, Retry <- 1, MaxDisturbances <- Disturbances,
    now <- v1, records <- v2, hidden <- v3, sequence <- v4, local <- v5,
    changes <- v6, wakes <- v7, allowed <- v8, acked <- v9, history <- v10,
    claim <- v11, criticalOwned <- v12, gate <- v13, loop <- v14,
    processed <- v15, deadline <- v16, retryAt <- v17, step <- v18,
    back <- v19, disturbances <- v20, parked <- v21

Store == INSTANCE ObservationStore WITH
    Identities <- TwoKeys, globalCapacity <- 3, pluginCapacity <- 3,
    pluginInstanceCapacity <- 3, pluginInstanceChannelCapacity <- 1,
    MaxGeneration <- 2, MaxRevision <- Bounds, MaxPublishing <- 1,
    records <- v1, watermarks <- v2, expired <- v3, generation <- v4,
    desired <- v5, hosted <- v6, publishing <- v7, retired <- v8,
    stepMu <- v9, candidate <- v10, shown <- v11, back <- v12,
    tombstoned <- v13

Gateway == INSTANCE DeviceGateway WITH
    Scenes <- ThreeScenes, Timers <- {"t1", "t2"}, MaxFaults <- 5,
    gateway <- v1, device <- v2, stream <- v3, phase <- v4, switched <- v5,
    last <- v6, faults <- v7, ghost <- v8

Recorder == INSTANCE AttentionRecorder WITH
    Keys <- {"k1", "k2"}, Capacity <- 3, MaxLines <- 2, Retained <- 2,
    MaxSequence <- 9, MaxFaults <- 3, MaxCrashes <- 2,
    disk <- v1, ledger <- v2, op <- v3, used <- v4

State == INSTANCE AttentionState WITH
    Ids <- {"i1", "i2"}, Interactive <- {"i2"}, StateCapacity <- 2, TTL <- 1,
    MaxTime <- 2, MaxGeneration <- 2, MaxFaults <- 1, MaxCrashes <- 1,
    now <- v1, generation <- v2, records <- v3, memory <- v4, file <- v5,
    phase <- v6, used <- v7, promised <- v8

Input == INSTANCE InputPath WITH
    QueueCapacity <- 2, MaxSession <- 1, MaxRevision <- 3, MaxSequence <- 2,
    dispatcher <- v1, handler <- v2, router <- v3, card <- v4, relay <- v5,
    owner <- v6

Output == INSTANCE DeviceOutput WITH
    Callers <- {"c1", "c2", "c3"}, QueueSize <- 2,
    caller <- v1, queue <- v2, worker <- v3, closing <- v4, stopper <- v5

Events == INSTANCE Calendar WITH
    Events <- {1, 2}, Deletable <- {1}, MaxFailures <- 1,
    store <- v1, state <- v2, monitor <- v3, due <- v4, publisher <- v5,
    shown <- v6, session <- v7, disk <- v8, dirty <- v9, failures <- v10,
    ghost <- v11

Resources == INSTANCE MacResources WITH
    SustainSamples <- 2, Lifetime <- 2, SummaryInterval <- 3, MaxRevision <- 2,
    machine <- v1, worker <- v2, pressure <- v3, panel <- v4, live <- v5,
    counters <- v6, ghost <- v7

Quota == INSTANCE CodexQuota WITH
    Accounts <- {"a"}, Windows <- {"w1", "w2"}, Slots <- 1, Threshold <- 2,
    phase <- v1, worker <- v2, hostCards <- v3, ghost <- v4

(* The variables that a component leaves alone.                             *)
Idle13 == v14 = 0 /\ v15 = 0 /\ v16 = 0 /\ v17 = 0 /\ v18 = 0 /\ v19 = 0 /\
          v20 = 0 /\ v21 = 0
Idle11 == v12 = 0 /\ v13 = 0 /\ Idle13
Idle8 == v9 = 0 /\ v10 = 0 /\ v11 = 0 /\ Idle11
Idle7 == v8 = 0 /\ Idle8
Idle6 == v7 = 0 /\ Idle7
Idle5 == v6 = 0 /\ Idle6
Idle4 == v5 = 0 /\ Idle5
Idle0 == v1 = 0 /\ v2 = 0 /\ v3 = 0 /\ v4 = 0 /\ Idle4

Rest13 == <<v14, v15, v16, v17, v18, v19, v20, v21>>
Rest11 == <<v12, v13, Rest13>>
Rest8 == <<v9, v10, v11, Rest11>>
Rest7 == <<v8, Rest8>>
Rest6 == <<v7, Rest7>>
Rest5 == <<v6, Rest6>>
Rest4 == <<v5, Rest5>>
Rest0 == <<v1, v2, v3, v4, Rest4>>
all == <<part, vars, Rest0>>

(* The bounds of these components let them come to a stop.                  *)
MayStop == {"Daemon", "Engine", "Gateway", "Recorder", "State", "Input", "Output"}

MCInit ==
    /\ part \in Parts /\ Init
    /\ \/ part = "Daemon" /\ Idle0
       \/ part = "Engine" /\ Engine!Init
       \/ part = "Store" /\ Store!Init /\ Idle13
       \/ part = "Gateway" /\ Gateway!Init /\ Idle8
       \/ part = "Recorder" /\ Recorder!Init /\ Idle4
       \/ part = "State" /\ State!Init /\ Idle8
       \/ part = "Input" /\ Input!Init /\ Idle6
       \/ part = "Output" /\ Output!Init /\ Idle5
       \/ part = "Events" /\ Events!Init /\ Idle11
       \/ part = "Resources" /\ Resources!Init /\ Idle7
       \/ part = "Quota" /\ Quota!Init /\ Idle4

MCNext ==
    /\ UNCHANGED part
    /\ \/ part = "Daemon" /\ Next /\ UNCHANGED Rest0
       \/ /\ UNCHANGED vars
          /\ \/ part = "Engine" /\ Engine!Next
             \/ part = "Store" /\ Store!Next /\ UNCHANGED Rest13
             \/ part = "Gateway" /\ Gateway!Next /\ UNCHANGED Rest8
             \/ part = "Recorder" /\ Recorder!Next /\ UNCHANGED Rest4
             \/ part = "State" /\ State!Next /\ UNCHANGED Rest8
             \/ part = "Input" /\ Input!Next /\ UNCHANGED Rest6
             \/ part = "Output" /\ Output!Next /\ UNCHANGED Rest5
             \/ part = "Events" /\ Events!Next /\ UNCHANGED Rest11
             \/ part = "Resources" /\ Resources!Next /\ UNCHANGED Rest7
             \/ part = "Quota" /\ Quota!Next /\ UNCHANGED Rest4
       \/ part \in MayStop /\ UNCHANGED all

MCSpec == MCInit /\ [][MCNext]_all

ASSUME DaemonAssumption /\ Engine!AttentionAssumption /\ Store!StoreAssumption

----------------------------------------------------------------------------
(* Whenever the engine rests the display shows what selection wants, and no *)
(* wakeup is lost.                                                          *)
DisplaySettled == part = "Engine" => Engine!DisplaySettled /\ Engine!WakeupsKept

(* Critical ownership is not left behind, except behind the gate of a       *)
(* dismissed Back press.                                                    *)
CriticalReleased == part = "Engine" => Engine!CriticalReleasedUngated

(* Critical ownership is not left behind, gate or not.                      *)
CriticalAlwaysReleased == part = "Engine" => Engine!CriticalReleased

(* While the gate is closed only critical attention is drawn, and a Back    *)
(* press clears only the presentation it was captured for.                  *)
BackExact == [][part = "Engine" => Engine!DrawsThroughGate /\ Engine!ClearsLeaseOnly]_all

(* A revision the engine excluded stays hidden, and every record of a       *)
(* retired generation is withdrawn, whatever is republished in between.     *)
HiddenStaysHidden ==
    part = "Store" =>
        /\ Store!TypeOK
        /\ Store!ExcludedStaysHidden
        /\ Store!RetiredRecordsWithdrawn

(* The live records stay within the capacities, and a reservation outlives  *)
(* its Back press only when its generation was no longer current.           *)
CapacityKept == part = "Store" => Store!LiveWithinCapacity /\ Store!ReservationsReleased

(* What the gateway reports as delivered is what the device shows, and a    *)
(* caller whose command was queued is answered before the output stops.     *)
OutputTrue ==
    /\ part = "Gateway" => Gateway!DeliveredIsShown
    /\ part = "Output" => Output!NobodyLeftWaiting

(* An acknowledgement that was confirmed survives a restart while it is     *)
(* kept at all, and a ledger that was opened once can be opened after every *)
(* failed append and every crash.                                           *)
RecordsSurvive ==
    /\ part = "State" => State!AcksSurvive
    /\ part = "Recorder" => Recorder!LedgerOpens

(* The menu on the display is the one the router has open.                  *)
MenuTrue == part = "Input" => Input!MenuTrue

(* The cards of the calendar, of the pressure on the machine and of the     *)
(* quota say what their plugin last learnt.                                 *)
CardsTrue ==
    /\ part = "Events" => Events!CardsSettle
    /\ part = "Resources" => Resources!CardsTruthful
    /\ part = "Quota" => Quota!CardsRemembered
=============================================================================
