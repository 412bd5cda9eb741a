SPECIFICATION MCSpec
CONSTANTS
    Parts = {"Broker", "Supervisor"}
    Plugins = {"p1"}
    Instances = {"i1"}
    Tokens = {"t1"}
    NoPlugin = NoPlugin
    Publishers = {"input"}
    InteractionQueueSize = 1
    MaxInputs = 3
    MaxWorkers = 2
    Hosted = {"a"}
    Specs <- Upgraded
INVARIANTS
    
    ChildTracked
PROPERTIES
    BrokerAnswers
    StoppingEnds
CHECK_DEADLOCK FALSE
