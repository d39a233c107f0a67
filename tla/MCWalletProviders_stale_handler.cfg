\* A MetaMask handler registered twice survives disconnect and sets an account.
CONSTANTS
    a1 = a1
    a2 = a2
    Accounts <- MCAccounts
    NULL = NULL
    StellarMaxConnects = 2
    MetaMaskMaxConnects = 2
SPECIFICATION WalletsSpec
INVARIANT AccountOnlyWhenConnected
CHECK_DEADLOCK FALSE
