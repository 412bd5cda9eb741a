SPECIFICATION Spec
CONSTANTS
    Apps = {a1}
    Configs = {c1, c2}
    Packages = {p1, p2}
    Tokens = {t1, t2}
    MaxGeneration = 4
    MaxFaults = 1
    MaxCrashes = 1
    None = None
INVARIANT ReplacesExpected
CHECK_DEADLOCK FALSE
