SPECIFICATION Spec
CONSTANTS
    RunId = {r1, r2}
    CheckpointId = {c1, c2, c3, c4}
    short = short
    long = long
    Plan = {short, long}
    OperationCount <- MCOperationCount
    MaxSequence = 3
    None = None
SYMMETRY SmallSymmetry
CHECK_DEADLOCK FALSE
INVARIANTS
    ExactReplayIsIdempotent
