SPECIFICATION FairSpec
CONSTANTS
    NumGraphs = 4
    Channels <- BranchChannels
    Receivers <- BranchReceivers
    Targets <- BranchTargets
    Warmup = 2
    Runs = 2
INVARIANTS
    TypeOK
    InputsAligned
    AverageCoversRuns
PROPERTIES
    SwitchedSpec
    Termination
\* The threads end: the system really stops, and Termination says it stops nowhere else.
CHECK_DEADLOCK FALSE
