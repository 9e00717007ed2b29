SPECIFICATION Spec
CONSTANTS
    Graphs = {little, big}
    little = little
    big = big
    None = None
    Own <- Clusters
    NumThreads <- Threads
    Kernels <- SmallKernels
    MaxKernels <- Bounds
INVARIANT PrivateBuffers
CHECK_DEADLOCK FALSE
