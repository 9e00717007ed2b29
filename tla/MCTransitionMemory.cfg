SPECIFICATION Spec
CONSTANTS
    Networks <- SmallAndTypical
    Sizes = {1, 3}
    Alignment = 2
    JoinsUnmanaged = FALSE
INVARIANTS
    TypeOK
    InputsIntact
    SentIntact
    WithinPool
    AllFinalized
    FewestBlobs
