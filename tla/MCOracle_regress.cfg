\* Two updates of both pairs in the same order, timestamps 1 and 2.
CONSTANTS
    p1 = p1
    p2 = p2
    u1 = u1
    u2 = u2
    oracle = oracle
    intruder = intruder
    NULL = NULL
    Pairs <- MCPairs
    Updates <- MCUpdates
    Requests <- OrderedRequests
    OracleSigner = oracle
    SignerConfigured = TRUE
    MaxClockSkew = 1
    MaxTime = 2

SPECIFICATION OracleSpec


PROPERTY LatestNeverRegresses

CHECK_DEADLOCK FALSE
