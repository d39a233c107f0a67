\* Two signed updates of both pairs listed in opposite orders.
CONSTANTS
    p1 = p1
    p2 = p2
    u1 = u1
    u2 = u2
    oracle = oracle
    intruder = intruder
    NULL = NULL
    Pairs <- MCPairs
    Updates <- MCUpdates
    Requests <- SignedRequests
    OracleSigner = oracle
    SignerConfigured = TRUE
    MaxClockSkew = 1
    MaxTime = 2

SPECIFICATION OracleFairSpec


PROPERTY ValidUpdateStored

CHECK_DEADLOCK FALSE
