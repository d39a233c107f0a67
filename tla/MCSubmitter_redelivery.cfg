\* A single submission whose worker dies after the completed row is saved
\* and before Bull records the job: the stalled job runs again.
CONSTANTS
    k1 = k1
    k2 = k2
    c1 = c1
    c2 = c2
    NULL = NULL
    Keys <- MCKeys
    Calls = {c1}
    Requests <- SingleRequests
    MaxRetries = 3
    MaxStalledCount = 1
    MaxCrashes = 1
    QueueMayFail = FALSE
    LedgerOutcomes = {"ok"}

SPECIFICATION Spec

PROPERTY TerminalStable

CHECK_DEADLOCK FALSE
