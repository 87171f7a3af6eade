CONSTANTS
    Sessions = {s1, s2, s3}
    Requests = {r1, r2}
    Second = 2
    AccessLife = 4
    RefreshLife = 7
    RequestLife = 1
    MaxInstant = 8
    Nothing = Nothing
    Capacity = 2
    Refill = 3
    Window = 7
    PerSecond = 2
    Steps <- FewSteps
    MaxTime = 14
    Handlers = {h1, h2}
    sender = sender
    Keys <- OneKey
    User = User
    Messages <- FourMessages
    Malformed <- BadMessages
    MaxPending = 1
    MaxFaults = 1
    None = None
SPECIFICATION ApiSpec
SYMMETRY Symmetry
INVARIANTS TokensMatch AdmitsWithinRate RetryAfterIsLeast AnswersAreTrue
PROPERTIES LiveIsNotRefused SignedOutStaysOut RenewalsConverge RevokedKeysAreSilent FirstWins
CHECK_DEADLOCK FALSE
