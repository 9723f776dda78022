SPECIFICATION FairSpec
CONSTANTS
    Process = {p1, p2, p3}
    OperationId = {o1, o2}
    Payload = {x1, x2}
    None = None
INVARIANTS
    TypeOK
    EffectIsAtomicAndApproved
    AtMostOneTrue
    InsertNeverCollides
PROPERTIES
    ImplementsApprovals
    ApprovedIsExecuted
