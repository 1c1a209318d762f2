SPECIFICATION Spec
CONSTANTS
    Requests = {r1, r2}
    Checks = {c1}
    Grace = 1
    Lookback = 2
    CacheTTL = 1
    IdleTime = 4
    Absolute = 5
    MaxDelay = 1
    MaxVer = 1
    MaxTime = 5
    Never = Never
INVARIANTS
    TypeOK
    ReuseIsOld
    LostRotationIsSafe
    HandedIsUsable
PROPERTIES
    ImplementsSession
CHECK_DEADLOCK FALSE
