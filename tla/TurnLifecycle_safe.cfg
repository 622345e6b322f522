SPECIFICATION Spec
CONSTANTS
    MaxRuns = 3
    Capacity = 1
    Disturbances = {"shell", "repeat", "panic", "retire", "budget", "stop"}
    MaxDisturbances = 1
INVARIANTS OneAtWork NoTurnForgotten DrainIsComplete
PROPERTIES TerminalIsFinal
CHECK_DEADLOCK FALSE
