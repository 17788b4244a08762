SPECIFICATION Spec
CONSTANTS
    Types = {1, 2}
    Pins = {17, 27, 99}
    Invalid = {99}
    Contended = {}
    MaxId = 3
CHECK_DEADLOCK FALSE
INVARIANTS
    BadPinIsContained
