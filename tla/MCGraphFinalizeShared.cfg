SPECIFICATION Spec
CONSTANTS
    MaxNodes = 5
    MaxJoin = 2
INVARIANT ConnectionsInRange
\* The graph is sorted once.
CHECK_DEADLOCK FALSE
