SPECIFICATION Spec
CONSTANTS
    Types = {1, 2}
    Pins = {17, 27, 99}
    Invalid = {99}
    Contended = {27}
    MaxId = 3
CHECK_DEADLOCK FALSE
INVARIANTS
    TypeOK
    IdIsNeverReused
    ClaimedPinIsDriven
    NoOrphanOutput
PROPERTIES
    EditSparesOthers
