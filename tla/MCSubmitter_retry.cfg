\* A single submission whose ledger call is rejected, under fair workers.
CONSTANTS
    k1 = k1
    k2 = k2
    c1 = c1
    c2 = c2
    NULL = NULL
    Keys <- MCKeys
    Calls = {c1}
    Requests <- SingleRequests
    MaxRetries = 3
    MaxStalledCount = 1
    MaxCrashes = 0
    QueueMayFail = FALSE
    LedgerOutcomes = {"ok", "rejected"}

SPECIFICATION FairSpec

PROPERTY EventuallySettled

CHECK_DEADLOCK FALSE
