\* Two concurrent single requests with the same key.
CONSTANTS
    k1 = k1
    k2 = k2
    c1 = c1
    c2 = c2
    NULL = NULL
    Keys <- MCKeys
    Calls = {c1, c2}
    Requests <- K1Requests
    MaxRetries = 3
    MaxStalledCount = 1
    MaxCrashes = 0
    QueueMayFail = FALSE
    LedgerOutcomes = {"ok"}

SPECIFICATION Spec

INVARIANT DuplicateKeyAnsweredConflict

CHECK_DEADLOCK FALSE
