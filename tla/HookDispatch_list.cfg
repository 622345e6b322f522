SPECIFICATION FairSpec
CONSTANTS
    NumSessions = 1
    MaxRows = 1
    PageMax = 1
    MaxRequests = 2
    MaxFaults = 1
    OfTurn = {TRUE}
PROPERTY ListedRowsAreServed
CHECK_DEADLOCK FALSE
