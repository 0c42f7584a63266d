SPECIFICATION Spec
CONSTANTS
    Tasks = {t1, t2}
    Tags = {latest}
    foreign = foreign
    bare = bare
    docker = docker
    oci = oci
    Digests = {foreign, bare}
    NoDigest = NoDigest
    NoType = NoType
    MediaTypes = {docker, oci}
    MediaType <- Types
    Accepts <- EitherType
    Ttl = 1
    Cooldown = 2
    MaxDelay = 1
SYMMETRY TaskSymmetry
INVARIANTS
    TypeOK
    HitsAreRecent
    AnswersAcceptable
    RefreshSticks
PROPERTIES
    RefreshesApart
