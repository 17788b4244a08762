SPECIFICATION RecoverySpec
CONSTANTS
    Tasks = {"explore"}
    CmdPeriod = 1
    CmdTimeout = 2
    WriteTime = 1
    StopTime = 1
    McuTimeout = 2
    QueueDepth = 2
PROPERTIES
    RecoveryIsDeliberate
