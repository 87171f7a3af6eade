CONSTANTS
    Rows <- FourRows
    Sorts <- ByCreation
    PageSize = 1
    MaxPages = 2
    MaxStamp = 1
SPECIFICATION PagingSpec
PROPERTY RefreshShowsNew
CHECK_DEADLOCK FALSE
