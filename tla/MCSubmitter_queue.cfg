\* Two concurrent requests (singles on either key, or a batch repeating a
\* key) under weakly fair workers and Bull, with failing ledger calls, a
\* failing queue.add and two worker crashes.
CONSTANTS
    k1 = k1
    k2 = k2
    c1 = c1
    c2 = c2
    NULL = NULL
    Keys <- MCKeys
    Calls = {c1, c2}
    Requests <- QueueRequests
    MaxRetries = 3
    MaxStalledCount = 1
    MaxCrashes = 2
    QueueMayFail = TRUE
    LedgerOutcomes = {"ok", "rejected"}

SPECIFICATION FairSpec

PROPERTY QueueDrains

CHECK_DEADLOCK FALSE
