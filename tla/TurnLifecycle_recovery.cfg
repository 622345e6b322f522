SPECIFICATION Spec
CONSTANTS
    MaxRuns = 2
    Capacity = 1
    Disturbances = {"stop"}
    MaxDisturbances = 1
INVARIANT IdleMeansQuiet
CHECK_DEADLOCK FALSE
