\* ORACLE_SIGNER_ADDRESS unset; updates signed by the oracle or another key.
CONSTANTS
    p1 = p1
    p2 = p2
    u1 = u1
    u2 = u2
    oracle = oracle
    intruder = intruder
    NULL = NULL
    Pairs <- MCPairs
    Updates <- MCUpdates
    Requests <- AnySignerRequests
    OracleSigner = oracle
    SignerConfigured = FALSE
    MaxClockSkew = 1
    MaxTime = 2

SPECIFICATION OracleSpec


INVARIANT StoredOnlyFromSigner

CHECK_DEADLOCK FALSE
