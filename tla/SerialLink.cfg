SPECIFICATION Spec
CONSTANTS
    Handles = {h1, h2, h3, h4}
    None = None
INVARIANTS
    TypeOK
    NoForgottenHandle
    FlagMeansOpen
    OnlyOthersEndReader
    ReleasedAfterStop
PROPERTIES
    Reconnects
    LossIsNoticed
    ShutdownEnds
    KeepsContract
