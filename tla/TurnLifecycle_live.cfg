SPECIFICATION FairSpec
CONSTANTS
    MaxRuns = 2
    Capacity = 1
    Disturbances = {"panic", "budget", "stop"}
    MaxDisturbances = 2
PROPERTIES CancelSettles QueuedIsServed DrainEnds
CHECK_DEADLOCK FALSE
