SPECIFICATION Spec
CONSTANTS
    Clients = {c1}
    CatchUpCapacity = 2
    ByteBudget = 2
    LaneCapacity = 2
    PageSize = 2
    Kinds = {"delta", "fact"}
    Weights = {1}
    MaxBatch = 1
    MaxSeq = 2
    MaxFaults = 2
INVARIANTS
    DeliveredOrForced
