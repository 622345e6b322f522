SPECIFICATION FairSpec
CONSTANTS
    MaxRuns = 1
    Capacity = 1
    Disturbances = {"stop"}
    MaxDisturbances = 1
PROPERTY WaitsSurviveDrain
CHECK_DEADLOCK FALSE
