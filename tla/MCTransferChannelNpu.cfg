SPECIFICATION Spec
CONSTANTS
    NumFrames = 5
    IsNpu = TRUE
INVARIANT InputInOrder
