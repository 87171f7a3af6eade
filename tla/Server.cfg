CONSTANTS
    Streams = {a, b}
    MaxStreams = 1
    MaxRev = 2
    MaxFaults = 1
    EarlyLoss = TRUE
    r1 = r1
    r2 = r2
    s1 = s1
    Requests <- ThreeRequests
    StreamRequests <- OneStream
    MaxInflight = 1
    Starts <- TwoStarts
    Histories <- AllHistories
    MaxCrashes = 2
SPECIFICATION ServerFairSpec
INVARIANTS
    NothingMissed
    CountIsExact NothingIsCutOff
    HistoryIsTrue ServingIsComplete EachRunsOnce
PROPERTIES
    StreamsCatchUp SignOutCloses
    SlotsReturn ShutdownEnds
CHECK_DEADLOCK FALSE
