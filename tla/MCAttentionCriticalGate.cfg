SPECIFICATION MCSpec
CONSTANTS
    Parts = {"Engine"}
    Procs = {"d1"}
    MaxStarts = 1
    MaxFaults = 1
    None = None
    Observed = {1, 3}
    Disturbances = 2
INVARIANTS
    CriticalAlwaysReleased
CHECK_DEADLOCK FALSE
