SPECIFICATION FairSpec
CONSTANTS
    Clients = {c1}
    CatchUpCapacity = 1
    ByteBudget = 2
    LaneCapacity = 2
    PageSize = 2
    Kinds = {"delta", "fact"}
    Weights = {1}
    MaxBatch = 2
    MaxSeq = 3
    MaxFaults = 1
INVARIANTS
    TypeOK
    StreamContiguous
    CaughtUpIsComplete
    NothingStranded
    UnknownIdRule
    LedgerExact
    GracefulIsComplete
    SuffixFailureForces
PROPERTIES
    CaughtUpIncreases
    EveryCommitArrives
    DrainEnds
