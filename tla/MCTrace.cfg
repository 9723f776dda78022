SPECIFICATION MCSpec
CONSTANTS
    RecordKind = {"runtime_event", "approval", "effect", "checkpoint",
                  "provider_evidence", "reconciliation_completion"}
    Id = {i1, i2}
    Payload = {d1, d2}
    MaxNumber = 1
    MaxRecords = 4
    MaxMutated = 3
    Foreign = foreign
    None = None
    Effect = {d1, d2}
    Plan = {d1, d2}
    EvidenceId = {i1, i2}
    CheckpointId = {c1, c2, c3}
    OperationCount <- MCOperationCount
    MaxSequence = 2
    MaxRevision = 2
SYMMETRY Symmetry
CHECK_DEADLOCK FALSE
INVARIANTS
    AcceptsExactlyCoherentTraces
    CorruptionIsDetected
    StoresWriteCleanTraces
