SPECIFICATION Spec
CONSTANTS
    Replicas = {r1, r2}
    LocalTTL = 1
    SharedTTL = 2
    NegativeTTL = 1
    RequestTimeout = 1
    MaxVersion = 2
    MaxTime = 7
SYMMETRY Symmetric
INVARIANTS
    StalenessIsBounded
    CleanInvalidationHolds
CHECK_DEADLOCK FALSE
