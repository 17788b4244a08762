SPECIFICATION Spec
CONSTANTS
    RxMax = 2
    LinkTimeout = 1
    MaxRun = 2
    ClockMod = 3
    Wraps = FALSE
CHECK_DEADLOCK FALSE
INVARIANTS
    TypeOK
    LinkOkIsFresh
    NoPhantomReboot
