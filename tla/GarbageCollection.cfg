SPECIFICATION Spec
CONSTANTS
    Tasks = {t1, t2}
    References = {latest}
    NoReference = NoReference
    list = list
    image = image
    layer = layer
    update = update
    Digests = {list, image, layer, update}
    NoDigest = NoDigest
    Manifests = {list, update}
    Leaves <- ContentLeaves
    Children <- ContentChildren
    Leftover = Leftover
    Nobody = Nobody
SYMMETRY Symmetry
INVARIANTS
    TypeOK
    ReplacedCollected
PROPERTIES
    KeepsReached
