SPECIFICATION Spec
CONSTANTS
    Keys = {k1, k2, k3}
    Requests = {r1, r2}
    Records = 2
    Attempts = 3
    MaxMessages = 3
    MaxClears = 1
    MaxFaults = 1
    MaxCrashes = 1
SYMMETRY Interchangeable
INVARIANTS
    NoSilentDuplicate
    ReplayTruthful
PROPERTIES
    PendingKept
CHECK_DEADLOCK FALSE
