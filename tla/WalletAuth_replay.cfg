\* A login request replayed from the wire is accepted again.
CONSTANTS
    Wallets = {w1, w2}
    Messages = {m1, m2}
    BadAddress = BadAddress
    MaxLogins = 3
SPECIFICATION AuthSpec
INVARIANT NoReplayAccepted
CHECK_DEADLOCK FALSE
