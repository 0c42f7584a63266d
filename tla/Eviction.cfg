SPECIFICATION Spec
CONSTANTS
    Tasks = {t1, t2}
    small = small
    large = large
    other = other
    Digests = {small, large, other}
    NoDigest = NoDigest
    Size <- Sizes
    Capacity = 3
    MaxSeq = 4
SYMMETRY Symmetry
INVARIANTS
    TypeOK
    RecordedFits
    OrderOfUse
