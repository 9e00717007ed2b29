SPECIFICATION Spec
CONSTANTS
    Orders <- HeadNotNpu
    Networks = {"plain", "trailing", "detection"}
    PowerModes = {"layers", "transfers", "whole"}
    DetectionLayers = {2}
    GpuHost = "B"
    NpuHost = "L"
    GpuInBrackets = TRUE
    Levels = {1, 2}
    HostLevel = 3
    MaxGpu = 4
    Leftovers = {"N", "other"}
    Warmup = 1
    Runs = 1
    MaxRequests <- Requests
INVARIANTS
    TypeOK
    AtRequestedLevels
    CompleteRequestsRun
    PhasesPerFrame
CHECK_DEADLOCK FALSE
