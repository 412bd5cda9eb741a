----------------------------- MODULE MCDelivery -----------------------------
(* The way of input to a plugin: the broker of session input and the        *)
(* supervisor of the plugin process, on small instances. A behaviour is     *)
(* one of a single component; the broker rests in its initial state while   *)
(* the supervisor runs.                                                     *)
EXTENDS Broker, TLC

CONSTANTS Parts,   \* the components that run
          Hosted, Specs

VARIABLES
    part,      \* the component that runs
    v1, v2, v3   \* the variables of the others

----------------------------------------------------------------------------
(* One instance, transient; withdrawn (and back); or resident, of a new     *)
(* generation and with a new startup.                                       *)
OneInstance(generation, resident, startup) ==
    [instances |-> "a" :> generation, resident |-> resident, startup |-> startup]
Upgraded == {OneInstance(1, FALSE, 0), OneInstance(0, FALSE, 0),
             OneInstance(2, TRUE, 1)}

(* Two instances of a transient plugin, and one of them alone.              *)
Hosting(x, y) == [instances |-> "a" :> x @@ "b" :> y, resident |-> FALSE, startup |-> 0]
TwoInstances == {Hosting(1, 1), Hosting(1, 0)}

Supervisor == INSTANCE Supervisor WITH
    Instances <- Hosted, maxPendingSessionCleanups <- 1, HealthMissLimit <- 2,
    ExitLimit <- 2, MaxRuns <- 3, MaxTokens <- 2,
    s <- v1, completions <- v2, issued <- v3

(* The variables that a component leaves alone.                             *)
Idle0 == v1 = 0 /\ v2 = 0 /\ v3 = 0

Rest0 == <<v1, v2, v3>>
all == <<part, vars, Rest0>>

MCInit ==
    /\ part \in Parts /\ Init
    /\ \/ part = "Broker" /\ Idle0
       \/ part = "Supervisor" /\ Supervisor!Init

MCNext ==
    /\ UNCHANGED part
    /\ \/ part = "Broker" /\ Next /\ UNCHANGED Rest0
       \/ part = "Supervisor" /\ Supervisor!Next /\ UNCHANGED vars

(* The fairness of every component, for the behaviours in which it runs.    *)
BrokerFairness ==
    /\ \A p \in Publishers : WF_vars(part = "Broker" /\ Continue(p))
    /\ \A w \in 1 .. MaxWorkers : WF_vars(part = "Broker" /\ WorkerRuns(w))
    /\ WF_vars(part = "Broker" /\ ApplyReturns)
    /\ WF_vars(part = "Broker" /\ CloseReturns)

SupervisorFairness ==
    /\ WF_(Supervisor!vars)(part = "Supervisor" /\ Supervisor!StoppedChildExits)
    /\ \A run \in 1 .. 3 : WF_(Supervisor!vars)(part = "Supervisor" /\ Supervisor!Exited(run))

ASSUME BrokerBounds

MCSpec == MCInit /\ [][MCNext]_all /\ BrokerFairness /\ SupervisorFairness

----------------------------------------------------------------------------
(* Whoever waits for the broker is answered: every input queued with a      *)
(* waiting publisher gets its one response, and Apply and Close return.     *)
BrokerAnswers == WaiterAnswered /\ JoinsReturn

(* The supervisor forgets neither its child nor the sessions in it, and a   *)
(* resident plugin always has a child, a retry or its quarantine.           *)
ChildTracked ==
    part = "Supervisor" =>
        /\ Supervisor!ResidentRecovers
        /\ Supervisor!NoOrphanProcess
        /\ Supervisor!LossReported
        /\ Supervisor!HeldSessionsTracked

(* Stopping always ends, also when Stop timed out and its caller is gone.   *)
StoppingEnds ==
    (part = "Supervisor" /\ Supervisor!Stopping) ~> (part = "Supervisor" /\ ~Supervisor!Stopping)

(* What the core holds of its sessions can receive input: there is a child *)
(* that is not being stopped, or whose exit is about to be noticed.          *)
SessionsServed == part = "Supervisor" => Supervisor!SessionsServed
=============================================================================
