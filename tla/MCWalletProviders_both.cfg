\* The Stellar and MetaMask providers side by side (fair extension calls and
\* timers for Stellar): two connect clicks on each.
CONSTANTS
    a1 = a1
    a2 = a2
    Accounts <- MCAccounts
    NULL = NULL
    StellarMaxConnects = 2
    MetaMaskMaxConnects = 2
SPECIFICATION WalletsFairSpec
INVARIANT ConnectedOnSelectedAccount
PROPERTY ProviderTracksWallet
CHECK_DEADLOCK FALSE
