SPECIFICATION Spec
CONSTANTS
    reliability_v1 = reliability_v1
    trace_integrity_v1 = trace_integrity_v1
    Source <- Sources
    Manifest <- FrozenManifest
    RequiredRuns = 2
    MaxSlips = 2
    None = None
CHECK_DEADLOCK FALSE
INVARIANTS
    TypeOK
    ReadyIsBacked
    VerifiedReleaseIsReproduced
