SPECIFICATION BothSpec
CONSTANTS
    ChunkLen = 6
    AutoAhead = TRUE
    FixedTrigger = 0
    MinLatency = 1
    MaxLatency = 3
    MayFail = FALSE
    MayPanic = FALSE
    MaxSteps = 14
    MaxRequests = 14
INVARIANTS QueueAligned AutoNeverStalls
PROPERTIES ExecutesInOrder RobotKeepsMoving DropReturns
CHECK_DEADLOCK FALSE
