SPECIFICATION Spec
CONSTANTS
    MaxNodes = 5
    MaxJoin = 2
INVARIANTS
    TypeOK
    Consistent
    OutputsKeepTheirTensors
    NpuReadsItsInputs
    SortedTopologically
\* The graph is sorted once.
CHECK_DEADLOCK FALSE
