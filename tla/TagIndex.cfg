SPECIFICATION SmallSpec
CONSTANTS
    Tasks = {t1, t2}
    References = {latest, stable}
    Digests = {d1}
    NoDigest = NoDigest
    Empty = Empty
    Torn = Torn
    Absent = Absent
    Nobody = Nobody
    Listers = {ui}
    Cancellable = {t1, t2}
SYMMETRY Symmetry
INVARIANTS
    TypeOK
    IndexReadable
    LayoutComplete
PROPERTIES
    NoLostUpdateWhileAwaited
