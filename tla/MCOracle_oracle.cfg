\* Two signed updates of both pairs in either order, plus unsigned ones
\* rejected by the signer check; deadlocks and their aborts happen.
CONSTANTS
    p1 = p1
    p2 = p2
    u1 = u1
    u2 = u2
    oracle = oracle
    intruder = intruder
    NULL = NULL
    Pairs <- MCPairs
    Updates <- MCUpdates
    Requests <- AllRequests
    OracleSigner = oracle
    SignerConfigured = TRUE
    MaxClockSkew = 1
    MaxTime = 2

SPECIFICATION OracleFairSpec

INVARIANT OracleTypeOK
INVARIANT LatestFromCommittedSnapshot
INVARIANT AnsweredAsStored
PROPERTY EveryUpdateAnswered

CHECK_DEADLOCK FALSE
