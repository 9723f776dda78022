SPECIFICATION Spec
CONSTANTS
    Provider = {p1}
    OperationId = {o1}
    Effect = {x1, x2}
    EvidenceId = {e1, e2}
    Worker = {w1, w2}
    MaxRevision = 4
    None = None
SYMMETRY SmallSymmetry
INVARIANTS
    TypeOK
    VerdictsWereTrue
    HonouredAuthorityIsCurrent
    SameRevisionNeverConflicts
    CompletionWasWitnessed
    CompletedNeverRegainsRetry
PROPERTIES
    HeadsOnlyAdvance
    CompletionIsFinal
    ImplementsLostAckContract
