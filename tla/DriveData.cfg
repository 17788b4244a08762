SPECIFICATION CalibSpec
CONSTANTS
    Frames <- MCFrames
    Tracks = {0, 4}
    Twists <- MCTwists
    DefaultTrack = 0
    SkidNum = 3
    SkidDen = 2
    GyroBias = 1
    RateUnit = 2
    SlipFloor = 1
    SlipMinSpeed = 2
    Curve <- MCCurve
    Cells = 2
    UseImu = TRUE
    YawOnly = TRUE
    Offset <- MCOffset
    MaxSpeed = 6
    Int16Max = 7
    Turns <- MCTurns
    Gaps = {0, 1, 3}
    MinRate = 2
    MinCalib = 2
    MaxGap = 2
    MaxSamples = 3
    None = None
INVARIANTS
    TypeOK
    OneTurnRate
    HeadingsAgree
    SlipIsNormalised
    ChargeWithinReadings
    MismatchIsReported
    EveryTwistIsSendable
    FactorIsMeasured
PROPERTIES
    LogTellsTheState
