SPECIFICATION SafetySpec
CONSTANTS
    Callers = {c1, c2, c3}
    Instances = {blob_cache, digest_store}
    Digests = {d1}
    Entries = {e1, e2, e3}
    NoEntry = NoEntry
SYMMETRY Symmetry
INVARIANTS
    TypeOK
    EntriesMatchReservations
    OneFetchPerKey
    FilesComplete
PROPERTIES
    StoredOnce
    KeepsPromise
