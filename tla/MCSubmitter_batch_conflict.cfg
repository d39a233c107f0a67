\* A batch request that repeats a key.
CONSTANTS
    k1 = k1
    k2 = k2
    c1 = c1
    c2 = c2
    NULL = NULL
    Keys <- MCKeys
    Calls = {c1}
    Requests <- DuplicateBatchRequests
    MaxRetries = 3
    MaxStalledCount = 1
    MaxCrashes = 0
    QueueMayFail = FALSE
    LedgerOutcomes = {"ok"}

SPECIFICATION Spec

INVARIANT BatchCoversEveryItem

CHECK_DEADLOCK FALSE
