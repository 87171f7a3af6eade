CONSTANTS
    Statuses <- ThreeStatuses
    Leads <- TwoLeads
    Txns = {t1, t2, t3}
    Shards <- TwoShards
    ShardOf <- Split
    Seeded <- FirstOne
    Positions <- FewPositions
    MaxActive = 2
    MaxRequests = 4
    None = None
    Rows <- ThreeRows
    Sorts <- AllSorts
    PageSize = 1
    MaxPages = 2
    MaxStamp = 1
SPECIFICATION DataSpec
SYMMETRY Symmetry
INVARIANTS TypeOK DefaultIsActive CatalogIsAudited CountersAreExact NoDeadlock NothingIsSkipped
PROPERTIES EditsWhatWasSeen ImplementsBoard
CHECK_DEADLOCK FALSE
