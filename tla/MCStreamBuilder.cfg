SPECIFICATION Spec
SYMMETRY SubStreamSymmetry
CONSTANTS
    NumGraphs = 3
    Start <- OneEach
    End <- OneEach
    NpuGraphs <- MiddleOnNpu
    Main = main
    Streams = {main, left, right}
    MaxLayers = 3
    GraphIdFirst = FALSE
    ForwardAcross = FALSE
INVARIANTS
    TypeOK
    LayersReadTheirInputs
    ChannelsLeadForward
    OneChannelPerValue
    NoStrayChannel
    UsedGraphsFirst
    FirstReceiverTargets
\* The network is complete after MaxLayers layers.
CHECK_DEADLOCK FALSE
