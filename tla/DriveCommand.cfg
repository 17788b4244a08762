SPECIFICATION Spec
CONSTANTS
    Tasks = {"explore"}
    CmdPeriod = 2
    CmdTimeout = 1
    WriteTime = 1
    StopTime = 2
    McuTimeout = 2
    QueueDepth = 1
INVARIANTS
    TypeOK
    MotionIsBounded
    EstopStops
    FedWhileIdle
PROPERTIES
    EstopIsServed
    ImplementsSafeMotion
