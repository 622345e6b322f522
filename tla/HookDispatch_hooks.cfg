SPECIFICATION FairSpec
CONSTANTS
    NumSessions = 1
    MaxRows = 2
    PageMax = 2
    MaxRequests = 2
    MaxFaults = 1
    OfTurn = {TRUE}
INVARIANTS NoInputDropped JobOwnsItsRow
PROPERTIES NoHooksOnceUnavailable EveryRowIsServed DrainIsAnswered
CHECK_DEADLOCK FALSE
