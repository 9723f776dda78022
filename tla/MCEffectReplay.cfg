SPECIFICATION Spec
CONSTANTS
    OperationId = {o1, o2, o3}
    Effect = {x1, x2}
    MaxRequests = 5
    None = None
CHECK_DEADLOCK FALSE
INVARIANTS
    OneEffectPerOperation
