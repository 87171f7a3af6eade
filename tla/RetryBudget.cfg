SPECIFICATION BudgetSpec
CONSTANTS
    Events = {e1}
    Leads = {l1}
    Data = {a}
    LeadOf <- OneLead
    VersionOf <- OneVersion
    DataOf <- OneData
    Invalid = {}
    Workers = {w1, w2}
    Dispatchers = {d1}
    MaxAttempts = 2
    Batch = 1
    MaxFaults = 5
    None = None
    e1 = e1
    l1 = l1
    a = a
INVARIANT ExhaustedMeansSpent
CHECK_DEADLOCK FALSE
