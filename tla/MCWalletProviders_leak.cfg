\* A second Stellar connect leaves an interval _stopPolling cannot clear.
CONSTANTS
    a1 = a1
    a2 = a2
    Accounts <- MCAccounts
    NULL = NULL
    StellarMaxConnects = 2
    MetaMaskMaxConnects = 2
SPECIFICATION WalletsSpec
INVARIANT NoLeakedPoller
CHECK_DEADLOCK FALSE
