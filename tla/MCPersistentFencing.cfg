SPECIFICATION Spec
CONSTANTS
    Process = {p1, p2}
    Resource = {r1}
    OperationId = {o1, o2}
    Value = {v1, v2}
    Generation = {g1, g2, g3}
    MaxEpoch = 3
    None = None
SYMMETRY SmallSymmetry
INVARIANTS
    TypeOK
    EpochsAreUnique
    OneTokenInAuthority
PROPERTIES
    AuthorityIsNotRevived
    WritesFollowEpochs
    ImplementsFencedAuthority
