SPECIFICATION BoundedSpec
CONSTRAINT OneFault
CONSTANTS
    first = first
    rival = rival
    newer = newer
    garbled = garbled
    l1 = l1
    a = a
    b = b
    Events <- Receipts
    Leads = {l1}
    Data = {a, b}
    LeadOf <- TheLead
    VersionOf <- Versions
    DataOf <- Snapshots
    Invalid = {garbled}
    Workers = {w1, w2}
    Dispatchers = {d1, d2}
    MaxAttempts = 2
    Batch = 2
    MaxFaults = 3
    None = None
SYMMETRY ProcessSymmetry
INVARIANTS EffectsOnce LeadIsNewest LedgerMatchesLeads ConflictHasRival PendingHasBudget Serialized
PROPERTY ImplementsInbox
CHECK_DEADLOCK FALSE
