--------------------------- MODULE MCValueObjects ---------------------------
(* ValueObjects over inputs at the edges of every check. *)
EXTENDS ValueObjects

\* -0.1%, 0%, 12.5%, 30%, 87.5%, 100%, 100.1% and NaN, in tenths.
MCPercentInputs == {-1, 0, 125, 300, 875, 1000, 1001, NaN}

\* Lengths either side of every bound of Hash and Signature, odd and even.
MCHexLengths == {0, 31, 32, 33, 64, 65, 128, 129, 256, 257}
=============================================================================
