SPECIFICATION FairSpec
CONSTANTS
    Tasks = {t1, t2}
    Repositories = {repo1}
    hub = hub
    ghcr = ghcr
    Upstreams = {hub, ghcr}
    NoUpstream = NoUpstream
    Orders <- BothOneNone
    NegativeTtl = 2
    ProbeTimeout = 1
    MaxGeneration = 2
INVARIANTS
    TypeOK
    MemoOfCurrentOrder
    NegativeConfirmed
PROPERTIES
    MissingConfirmed
    ResolvesEnd
