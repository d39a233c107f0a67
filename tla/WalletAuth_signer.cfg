\* Tokens are issued only for signatures the wallet made.
CONSTANTS
    Wallets = {w1, w2}
    Messages = {m1, m2}
    BadAddress = BadAddress
    MaxLogins = 3
SPECIFICATION AuthSpec
INVARIANT TokenOnlyForSigner
CHECK_DEADLOCK FALSE
