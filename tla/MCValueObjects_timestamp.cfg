\* A timestamp moved by add, or left behind by the clock, that fromJSON rejects.
CONSTANTS
    PercentInputs <- MCPercentInputs
    HexLengths <- MCHexLengths
    Window = 2
    MaxTime = 2
    Deltas = {1}
    NULL = NULL
    NaN = NaN
SPECIFICATION VOSpec
INVARIANT TimestampReparses
CHECK_DEADLOCK FALSE
