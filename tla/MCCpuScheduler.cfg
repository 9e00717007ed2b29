SPECIFICATION Spec
CONSTANTS
    Graphs = {little, big}
    little = little
    big = big
    None = None
    Own <- Clusters
    NumThreads <- Threads
    Kernels <- SmallKernels
    MaxKernels <- Bounds
INVARIANTS
    TypeOK
    UnlockedAssignAlone
PROPERTIES
    ParallelForSpec
    KernelsReturn
CHECK_DEADLOCK FALSE
