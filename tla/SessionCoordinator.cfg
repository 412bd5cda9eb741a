SPECIFICATION Spec
CONSTANTS
    Apps = {a1}
    Plugins = {p1}
    Identities = {c1}
    NoSession = NoSession
    NoApp = NoApp
    NoCritical = NoCritical
    MaxSession = 2
    MaxGeneration = 2
    MaxCritical = 1
INVARIANTS
    TypeOK
    ForegroundExclusive
    NoOrphanedSession
    ForegroundCurrent
    LauncherAdmissionSound
