SPECIFICATION FairSpec
CONSTANTS
    first = first
    rival = rival
    newer = newer
    garbled = garbled
    l1 = l1
    a = a
    b = b
    Events = {first, rival}
    Leads = {l1}
    Data = {a, b}
    LeadOf <- TheLead
    VersionOf <- Versions
    DataOf <- Snapshots
    Invalid = {}
    Workers = {w1}
    Dispatchers = {d1}
    MaxAttempts = 2
    Batch = 1
    MaxFaults = 1
    None = None
PROPERTIES
    EventuallySettled
    EventuallyPublished
CHECK_DEADLOCK FALSE
