SPECIFICATION Spec
CONSTANTS
    Apps = {a1}
    Values = {v1, v2}
    MaxGeneration = 2
    MaxEpoch = 2
    MaxFaults = 1
    MaxCrashes = 1
    Capacity = 1
    None = None
INVARIANT RestoredIsLatest
CHECK_DEADLOCK FALSE
