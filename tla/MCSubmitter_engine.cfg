\* One two-item batch request: its two single jobs and its batch job race
\* over the same rows, with rejected and timed-out ledger calls, a failing
\* queue.add, and a worker crash redelivered by the stalled-job check.
CONSTANTS
    k1 = k1
    k2 = k2
    c1 = c1
    c2 = c2
    NULL = NULL
    Keys <- MCKeys
    Calls = {c1}
    Requests <- BatchRequests
    MaxRetries = 3
    MaxStalledCount = 1
    MaxCrashes = 1
    QueueMayFail = TRUE
    LedgerOutcomes = {"ok", "rejected", "timeout"}

SPECIFICATION Spec

INVARIANT TypeOK
INVARIANT CompletedHoldsOwnTransaction

CHECK_DEADLOCK FALSE
