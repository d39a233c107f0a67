\* A Stellar connect awaiting the Freighter prompt reconnects after a disconnect click.
CONSTANTS
    a1 = a1
    a2 = a2
    Accounts <- MCAccounts
    NULL = NULL
    StellarMaxConnects = 2
    MetaMaskMaxConnects = 2
SPECIFICATION WalletsSpec
INVARIANT DisconnectHonoured
CHECK_DEADLOCK FALSE
