SPECIFICATION MCSpec
CONSTANTS
    Parts = {"Daemon", "Engine", "Store", "Gateway", "Recorder", "State", "Input", "Output", "Events", "Resources", "Quota"}
    Procs = {"d1", "d2"}
    MaxStarts = 4
    MaxFaults = 3
    None = None
    Observed = {1, 2, 3}
    Disturbances = 1
INVARIANTS
    
    DisplaySettled
    CriticalReleased
    HiddenStaysHidden
    CapacityKept
    OutputTrue
    RecordsSurvive
    MenuTrue
    CardsTrue
PROPERTIES
    BackExact
