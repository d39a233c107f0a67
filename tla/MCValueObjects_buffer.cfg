\* A hash or signature that the Buffer round trip changes.
CONSTANTS
    PercentInputs <- MCPercentInputs
    HexLengths <- MCHexLengths
    Window = 2
    MaxTime = 2
    Deltas = {1}
    NULL = NULL
    NaN = NaN
SPECIFICATION VOSpec
INVARIANT BufferRoundTrip
CHECK_DEADLOCK FALSE
