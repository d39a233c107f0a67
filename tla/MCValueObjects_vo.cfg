\* Percentages combined by add and subtract and converted by toFraction.
CONSTANTS
    PercentInputs <- MCPercentInputs
    HexLengths <- MCHexLengths
    Window = 2
    MaxTime = 2
    Deltas = {1}
    NULL = NULL
    NaN = NaN
SPECIFICATION VOSpec
INVARIANT FractionReduced
CHECK_DEADLOCK FALSE
