SPECIFICATION RunningSpec
CONSTANTS
    Attachments = {a1}
    Monitors = {}
    Looms = {l1}
    System = System
    Nobody = Nobody
    FrameCapacity = 2
    ByteBudget = 2
    FloorAllowance = 2
    EventSizes = {1}
    ReplySizes = {1}
    MaxReplies = 0
    WriteFaults = FALSE
PROPERTIES
    TicketsAreServed
    ConnectionEnds
    StalledPeerHoldsNoStream
