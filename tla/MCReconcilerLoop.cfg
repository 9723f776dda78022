SPECIFICATION FairLoopSpec
CONSTANTS
    p1 = p1
    o1 = o1
    x1 = x1
    Provider = {p1}
    OperationId = {o1}
    Effect = {x1}
    EvidenceId = {e1, e2}
    Worker = {w1, w2}
    MaxRevision = 5
    Disturbances = 2
    Crashes = 1
    None = None
    Target <- MCTarget
CHECK_DEADLOCK FALSE
PROPERTIES
    EventuallyReconciled
    EveryWorkerFinishes
