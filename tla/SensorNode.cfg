SPECIFICATION Spec
CONSTANTS
    Banner = {aht21}
    Pms = pms7003
    RxMax = 2
    StaleTime = 1
    MaxRun = 2
    MaxTime = 1
CHECK_DEADLOCK FALSE
INVARIANTS
    TypeOK
    SnapshotIsFresh
    PresenceIsTrue
