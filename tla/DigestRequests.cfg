SPECIFICATION Spec
CONSTANTS
    Tasks = {t1, t2}
    NoTask = NoTask
    None = None
    Sizes <- SmallSizes
    Bounds <- SmallBounds
    MaxRequests = 3
SYMMETRY Interchangeable
INVARIANTS
    TypeOK
    RangesServed
PROPERTIES
    BrokenOnlyIfRemoved
    CountedAsLooked
