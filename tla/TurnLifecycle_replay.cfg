SPECIFICATION Spec
CONSTANTS
    MaxRuns = 1
    Capacity = 1
    Disturbances = {"repeat"}
    MaxDisturbances = 1
INVARIANT LiveTurnIsOpen
CHECK_DEADLOCK FALSE
