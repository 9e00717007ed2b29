SPECIFICATION FairSpec
CONSTANTS
    NumFrames = 5
    IsNpu = FALSE
INVARIANTS
    TypeOK
    InputInOrder
    NoBacklogAsleep
PROPERTIES
    FifoSpec
    AllDelivered
