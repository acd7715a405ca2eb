SPECIFICATION MCSpec
CONSTANTS
    None = None
    Requests = {r1, r2, r3}
    Fingerprints = {f1, f2}
    TTL = 2
    ProcessingTimeout = 1
    FailedRetryBackoff = 1
    MaxTime = 3
    Lease = 3
    RenewInterval = 1
    LockTTL = 4
    MaxFailures = 1
    LockMaxTime = 4
SYMMETRY Symmetry
INVARIANTS OneExecutionAtATime ExclusionUntilLapse RecordsSound
PROPERTIES NoSecondEffectBeforeExpiry
CHECK_DEADLOCK FALSE
