----------------------------- MODULE MCProgress -----------------------------
(* What has to come to an end: launches, reconciliation, the calls to a     *)
(* plugin process, the event pump of the Codex plugin and the close of the  *)
(* device output, on small instances. A behaviour is one of a single        *)
(* component; the plugin process rests in its initial state while another   *)
(* component runs.                                                          *)
EXTENDS PluginProcess

CONSTANTS Parts,   \* the components that run
          None, NoSession, NoApp, NoCritical

VARIABLES
    part,      \* the component that runs
    v1, v2, v3, v4, v5, v6, v7, v8, v9, v10, v11, v12, v13, v14, v15, v16,
    v17, v18, v19, v20, v21, v22   \* the variables of the others

----------------------------------------------------------------------------
(* Every instance set over the generations.                                 *)
AnySet == [Ids -> 0 .. MaxGeneration]

Session == INSTANCE SessionCoordinator WITH
    Apps <- {"a1"}, Plugins <- {"p1"}, Identities <- {"c1"}, MaxSession <- 1,
    MaxGeneration <- 2, MaxCritical <- 0,
    foreground <- v1, executing <- v2, pending <- v3, nextSession <- v4,
    criticalIdentity <- v5, criticalSequence <- v6, document <- v7,
    docGen <- v8, generations <- v9, specs <- v10, config <- v11,
    retiring <- v12, plan <- v13, hosted <- v14, launch <- v15,
    execution <- v16, opened <- v17, callbacks <- v18, ending <- v19,
    launcher <- v20, abandoned <- v21, unnoticed <- v22

Reconciler == INSTANCE Reconciler WITH
    Apps <- {"a", "b"}, InitiallyEnabled <- {"a"}, AssetApps <- {},
    SecretApps <- {"b"}, Clients <- {"c1"},
    Kinds <- {"enable", "replace", "activate"}, MaxCommits <- 3,
    MaxDisturbances <- 1,
    live <- v1, host <- v2, assets <- v3, assetMu <- v4, proc <- v5,
    retryWake <- v6, stopped <- v7, quiesced <- v8, disturbances <- v9

Pump == INSTANCE CodexPump WITH
    MaxVersion <- 4, MaxFaults <- 2, EventBuffer <- 1, OutputBuffer <- 1,
    server <- v1, wire <- v2, session <- v3, pump <- v4, mgr <- v5,
    output <- v6, reducer <- v7, faults <- v8

Output == INSTANCE DeviceOutput WITH
    Callers <- {"c1", "c2", "c3"}, QueueSize <- 2,
    caller <- v1, queue <- v2, worker <- v3, closing <- v4, stopper <- v5

(* The variables that a component leaves alone.                             *)
Idle9 == v10 = 0 /\ v11 = 0 /\ v12 = 0 /\ v13 = 0 /\ v14 = 0 /\ v15 = 0 /\
         v16 = 0 /\ v17 = 0 /\ v18 = 0 /\ v19 = 0 /\ v20 = 0 /\ v21 = 0 /\
         v22 = 0
Idle8 == v9 = 0 /\ Idle9
Idle5 == v6 = 0 /\ v7 = 0 /\ v8 = 0 /\ Idle8
Idle0 == v1 = 0 /\ v2 = 0 /\ v3 = 0 /\ v4 = 0 /\ v5 = 0 /\ Idle5

Rest9 == <<v10, v11, v12, v13, v14, v15, v16, v17, v18, v19, v20, v21, v22>>
Rest8 == <<v9, Rest9>>
Rest5 == <<v6, v7, v8, Rest8>>
Rest0 == <<v1, v2, v3, v4, v5, Rest5>>
all == <<part, vars, Rest0>>

MCInit ==
    /\ part \in Parts /\ Init
    /\ \/ part = "Process" /\ Idle0
       \/ part = "Session" /\ Session!Init
       \/ part = "Reconciler" /\ Reconciler!Init /\ Idle9
       \/ part = "Pump" /\ Pump!Init /\ Idle8
       \/ part = "Output" /\ Output!Init /\ Idle5

MCNext ==
    /\ UNCHANGED part
    /\ \/ part = "Process" /\ Next /\ UNCHANGED Rest0
       \/ /\ UNCHANGED vars
          /\ \/ part = "Session" /\ Session!Next
             \/ part = "Reconciler" /\ Reconciler!Next /\ UNCHANGED Rest9
             \/ part = "Pump" /\ Pump!Next /\ UNCHANGED Rest8
             \/ part = "Output" /\ Output!Next /\ UNCHANGED Rest5

ASSUME ProcessAssumption

(* The fairness of every component, for the behaviours in which it runs.    *)
SessionFairness ==
    /\ WF_(Session!vars)(part = "Session" /\ Session!LaunchContinues)
    /\ WF_(Session!vars)(part = "Session" /\ Session!DeliverCallback)
    /\ WF_(Session!vars)(part = "Session" /\ Session!RunEndSession)

ReconcilerFairness ==
    /\ WF_(Reconciler!vars)(part = "Reconciler" /\ Reconciler!Load("c1"))
    /\ \A p \in Reconciler!Procs : WF_(Reconciler!vars)(part = "Reconciler" /\ Reconciler!Step(p))
    /\ WF_(Reconciler!vars)(part = "Reconciler" /\ Reconciler!RetryLoop)
    /\ WF_(Reconciler!vars)(part = "Reconciler" /\ Reconciler!AssetLoop)

ProcessFairness ==
    /\ WF_(vars)(part = "Process" /\ Initialized)
    /\ WF_(vars)(part = "Process" /\ DrainEnds)
    /\ WF_(vars)(part = "Process" /\ ReplaceEnds)
    /\ WF_(vars)(part = "Process" /\ RequestReturns)
    /\ WF_(vars)(part = "Process" /\ Ending)
    /\ WF_(vars)(part = "Process" /\ KilledExits)
    /\ WF_(vars)(part = "Process" /\ Reap)

PumpFairness ==
    /\ WF_(Pump!vars)(part = "Pump" /\ Pump!Answers)
    /\ WF_(Pump!vars)(part = "Pump" /\ Pump!ReadLine)
    /\ WF_(Pump!vars)(part = "Pump" /\ Pump!PumpIn)
    /\ WF_(Pump!vars)(part = "Pump" /\ Pump!PumpOut)
    /\ WF_(Pump!vars)(part = "Pump" /\ Pump!PumpDrained)
    /\ WF_(Pump!vars)(part = "Pump" /\ Pump!Connect)
    /\ WF_(Pump!vars)(part = "Pump" /\ Pump!Phase)
    /\ WF_(Pump!vars)(part = "Pump" /\ Pump!StuckTimesOut)
    /\ WF_(Pump!vars)(part = "Pump" /\ Pump!Disconnected)
    /\ WF_(Pump!vars)(part = "Pump" /\ Pump!Work)

OutputFairness ==
    /\ WF_(Output!vars)(part = "Output" /\ Output!Take)
    /\ WF_(Output!vars)(part = "Output" /\ Output!Answer)
    /\ WF_(Output!vars)(part = "Output" /\ Output!AdmissionsDone)
    /\ WF_(Output!vars)(part = "Output" /\ Output!SendStop)
    /\ \A c \in {"c1", "c2", "c3"} : WF_(Output!vars)(part = "Output" /\ Output!Admitted(c))

MCSpec ==
    /\ MCInit /\ [][MCNext]_all
    /\ SessionFairness /\ ReconcilerFairness /\ ProcessFairness
    /\ PumpFairness /\ OutputFairness

----------------------------------------------------------------------------
(* A session that was opened does not stay open behind the foreground: it   *)
(* becomes the foreground, or it is closed, or its caller gave up on it.    *)
SessionSettles ==
    \A g \in 1 .. 2 :
        LET s == [app |-> "a1", plugin |-> "p1", gen |-> g, token |-> 1]
        IN  (part = "Session" /\ Session!Unsettled(s)) ~> (part = "Session" /\ ~Session!Unsettled(s))

(* Once commits and failures have ended, what is enabled and has its assets *)
(* runs, and what is disabled does not, unless the reconciler is closed.    *)
Converges == <>[](part = "Reconciler" => Reconciler!Converged)

(* Nothing the daemon does with a child waits forever, not even for a       *)
(* plugin that answers nothing and ignores SIGTERM, and the device output   *)
(* closes, whatever its callers do.                                         *)
Waiting == (part = "Process" /\ Waits) \/ (part = "Output" /\ Output!Closing)
WaitsEnd == Waiting ~> ~Waiting

(* The Codex plugin catches up: once the thread stops changing and the      *)
(* connection stops failing, the worker shows its last version for good.    *)
(* No snapshot overwrites newer news, and full buffers never leave everyone *)
(* waiting.                                                                 *)
CatchesUp == <>[](part = "Pump" => Pump!CaughtUp)
=============================================================================
