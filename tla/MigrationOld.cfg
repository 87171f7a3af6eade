CONSTANTS
    Starts <- TwoStarts
    Histories <- OldHistories
    MaxCrashes = 0
SPECIFICATION MigrationSpec
INVARIANT NothingRepeated
