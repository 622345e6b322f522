SPECIFICATION Spec
CONSTANTS
    Attachments = {a1}
    Monitors = {m1, m2}
    Looms = {}
    System = System
    Nobody = Nobody
    FrameCapacity = 2
    ByteBudget = 3
    FloorAllowance = 2
    EventSizes = {2}
    ReplySizes = {1}
    MaxReplies = 1
    WriteFaults = TRUE
SYMMETRY Symmetry
INVARIANTS
    NoLostWakeup
    TicketsAreHeld
    RingIsExact
    PendingIsQueued
    ResponseFirst
    EncodingBarrier
    NothingAfterPurge
    AccountingExact
    WorstCase
