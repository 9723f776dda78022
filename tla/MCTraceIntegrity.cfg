SPECIFICATION TraceSpec
CONSTANTS
    RecordKind = {"approval", "effect", "provider_evidence", "reconciliation_completion"}
    Id = {i1, i2}
    Payload = {d1, d2}
    MaxNumber = 1
    MaxRecords = 2
    MaxMutated = 2
    Foreign = foreign
    None = None
SYMMETRY IdSymmetry
CHECK_DEADLOCK FALSE
INVARIANTS
    AcceptedTracesAreConsistent
