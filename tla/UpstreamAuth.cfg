SPECIFICATION FairSpec
CONSTANTS
    Tasks = {t1, t2}
    Repositories = {r1, r2}
    NoRepository = NoRepository
    registry = registry
    issuer = issuer
    Realms <- AllRealms
    Anonymous = Anonymous
    NoShape = NoShape
    NoHost = NoHost
    Setups <- AllSetups
INVARIANTS
    TypeOK
    StoredUnlessMisled
    WithdrawnNotServed
    RefusedForReason
PROPERTIES
    OutageLeavesNoTrace
