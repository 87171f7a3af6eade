CONSTANTS
    Streams = {a, b}
    MaxStreams = 2
    MaxRev = 2
    MaxFaults = 1
    EarlyLoss = TRUE
SPECIFICATION Spec
INVARIANT ClosedLeavesNothing
CHECK_DEADLOCK FALSE
