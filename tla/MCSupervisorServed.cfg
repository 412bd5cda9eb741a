SPECIFICATION MCSpec
CONSTANTS
    Parts = {"Supervisor"}
    Plugins = {"p1"}
    Instances = {"i1"}
    Tokens = {"t1"}
    NoPlugin = NoPlugin
    Publishers = {"input"}
    InteractionQueueSize = 1
    MaxInputs = 3
    MaxWorkers = 2
    Hosted = {"a", "b"}
    Specs <- TwoInstances
INVARIANT SessionsServed
CHECK_DEADLOCK FALSE
