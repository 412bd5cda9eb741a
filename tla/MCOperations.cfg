SPECIFICATION MCSpec
CONSTANTS
    Parts = {"Config", "Checkpoints", "Installer", "Service", "Setup", "Assets", "Publisher"}
    Apps = {"a1"}
    Values = {"v1"}
    MaxGeneration = 2
    MaxEpoch = 2
    MaxFaults = 2
    MaxCrashes = 1
    Capacity = 1
    None = None
    Local = Local
    r1 = r1
    r2 = r2
    r3 = r3
    broken = broken
INVARIANTS
    
    StoreClean
    
    AnswersTrue
    
    ReadyIsStored
    CatalogResolves
PROPERTIES
    StoreIsDurable
