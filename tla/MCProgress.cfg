SPECIFICATION MCSpec
CONSTANTS
    Parts = {"Session", "Reconciler", "Process", "Pump", "Output"}
    Ids = {"a"}
    MaxGeneration = 2
    Desired <- AnySet
    Workers = {"w1"}
    MaxCalls = 4
    None = None
    NoSession = NoSession
    NoApp = NoApp
    NoCritical = NoCritical
INVARIANT
    InstancesAgree
PROPERTIES
    SessionSettles
    
    WaitsEnd
    CatchesUp
CHECK_DEADLOCK FALSE
