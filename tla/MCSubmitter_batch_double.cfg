\* A batch request with a ledger that never fails: each item is submitted
\* by its submit-single job and again by the submit-batch job.
CONSTANTS
    k1 = k1
    k2 = k2
    c1 = c1
    c2 = c2
    NULL = NULL
    Keys <- MCKeys
    Calls = {c1}
    Requests <- BatchRequests
    MaxRetries = 3
    MaxStalledCount = 1
    MaxCrashes = 0
    QueueMayFail = FALSE
    LedgerOutcomes = {"ok"}

SPECIFICATION Spec

INVARIANT DeliveredAtMostOnce

CHECK_DEADLOCK FALSE
