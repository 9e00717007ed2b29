SPECIFICATION Spec
CONSTANTS
    Letters <- Characters
    Orders <- AllOrders
INVARIANTS
    TypeOK
    EveryLayerPlaced
    GraphsInOrder
    NeighboursDiffer
\* config_pipeline returns when the loop is over.
CHECK_DEADLOCK FALSE
