CONSTANTS
    Sessions = {s1, s2}
    Hooks = hooks
    Stop = stop
    MaxRequests = 1
    Weights = {1, 4}
    QueueMax = 2
    QueueBytes = 3
    GroupMax = 3
    GroupBytes = 2
    MaxFaults = 1
SPECIFICATION FairSpec
INVARIANTS AppliedOnce AdmissionExact
PROPERTIES EachAlone EveryRequestIsAnswered ShutdownEnds
