----------------------------- MODULE ValueObjects -----------------------------
(***************************************************************************)
(* The domain value objects of common/value-objects: Percentage,           *)
(* Timestamp, Hash and Signature, as held by one caller that creates them, *)
(* combines them and converts them, while the server clock advances.       *)
(*                                                                         *)
(* Each value is abstracted to what its checks tell apart:                 *)
(*  - a percentage is a number of tenths of a percent (12.5% is 125), so   *)
(*    Math.round in toFraction still has fractions to round;               *)
(*  - a timestamp is a point on the clock, in units of the checks' window; *)
(*  - a hex string is its length, whether it is all hexadecimal, and       *)
(*    whether it has upper-case digits.                                    *)
(* A create that throws ValidationError leaves the held value unchanged    *)
(* and sets failed.                                                        *)
(***************************************************************************)
EXTENDS Integers, TLC

CONSTANTS
    PercentInputs,  \* numbers passed to Percentage.create, in tenths, or NaN
    NaN,            \* a number input that is NaN
    Window,         \* the 10 years Timestamp.create accepts around now
    MaxTime,        \* bound on the clock
    Deltas,         \* milliseconds passed to Timestamp.add / subtract
    HexLengths,     \* lengths of the strings passed to Hash/Signature.create
    NULL

VARIABLES
    now,        \* new Date() of the process
    pct,        \* the held Percentage, in tenths, or NULL
    ts,         \* the held Timestamp, or NULL
    hexes,      \* hexes[k]: the held Hash ("hash") or Signature ("signature")
    failed      \* the last operation threw ValidationError

voVars == <<now, pct, ts, hexes, failed>>

MaxPercentTenths == 1000        \* MAX_PERCENTAGE = 100
MinPercentTenths == 0           \* MIN_PERCENTAGE = 0

\* The timestamps the model can hold: a bounded stretch of the clock.
TimeRange == (0 - Window - 1)..(MaxTime + Window + 1)

HexKinds == {"hash", "signature"}

\* MIN_LENGTH and MAX_LENGTH of Hash and of Signature.
HexBounds == [hash |-> [min |-> 32, max |-> 128],
              signature |-> [min |-> 64, max |-> 256]]

HexString == [len : HexLengths, hex : BOOLEAN, upper : BOOLEAN]

-----------------------------------------------------------------------------
(* Percentage                                                              *)

\* Percentage.create / isValid: a number, in [0, 100].
IsValidPercentage(v) ==
    v # NaN /\ MinPercentTenths <= v /\ v <= MaxPercentTenths

\* Math.round of a non-negative number of tenths, to a whole percent.
RoundTenths(v) == (v + 5) \div 10

\* Mutant: the loop sets a before computing a % b from it.
RECURSIVE GreatestCommonDivisorSwapped(_, _)
GreatestCommonDivisorSwapped(a, b) ==
    IF b = 0 THEN a ELSE GreatestCommonDivisorSwapped(b, b % b)

\* greatestCommonDivisor: Euclid's loop on |a| and |b|.
RECURSIVE GreatestCommonDivisor(_, _)
GreatestCommonDivisor(a, b) ==
    IF b = 0 THEN a ELSE GreatestCommonDivisor(b, a % b)

\* toFraction: Math.round(value) over 100, both divided by their gcd.
ToFraction(v) ==
    LET r == RoundTenths(v)
        g == GreatestCommonDivisor(r, 100)
    IN  [numerator |-> r \div g, denominator |-> 100 \div g]

\* Percentage.create(v): the held percentage becomes v, or create throws.
CreatePercentage(v) ==
    IF IsValidPercentage(v)
    THEN pct' = v /\ failed' = FALSE
    ELSE UNCHANGED pct /\ failed' = TRUE

\* Percentage.create(value), and fromJSON(json) = create(json).
PercentageCreate ==
    /\ \E v \in PercentInputs : CreatePercentage(v)
    /\ UNCHANGED <<now, ts, hexes>>

\* Percentage.fromString(str): an empty string, or one parseFloat reads as
\* NaN, throws; otherwise Percentage.create of the number read.
PercentageFromString ==
    /\ \/ UNCHANGED pct /\ failed' = TRUE
       \/ \E v \in PercentInputs : CreatePercentage(v)
    /\ UNCHANGED <<now, ts, hexes>>

\* p.add(Percentage.create(v)): a sum above MAX_PERCENTAGE throws, else
\* Percentage.create(sum).
PercentageAdd ==
    /\ pct # NULL
    /\ \E v \in PercentInputs :
          /\ IsValidPercentage(v)
          /\ IF pct + v > MaxPercentTenths
             THEN UNCHANGED pct /\ failed' = TRUE
             ELSE CreatePercentage(pct + v)
    /\ UNCHANGED <<now, ts, hexes>>

\* p.subtract(Percentage.create(v)): below MIN_PERCENTAGE throws.
PercentageSubtract ==
    /\ pct # NULL
    /\ \E v \in PercentInputs :
          /\ IsValidPercentage(v)
          /\ IF pct - v < MinPercentTenths
             THEN UNCHANGED pct /\ failed' = TRUE
             ELSE CreatePercentage(pct - v)
    /\ UNCHANGED <<now, ts, hexes>>

-----------------------------------------------------------------------------
(* Timestamp                                                               *)

\* Timestamp.create's range check: within 10 years of now.
WithinWindow(d) == now - Window <= d /\ d <= now + Window

\* Timestamp.create(d) (and fromUnix, fromJSON); an unparsable input is
\* the "Invalid date" error.
TimestampCreate ==
    /\ \/ \E d \in (now - Window - 1)..(now + Window + 1) :
             IF WithinWindow(d)
             THEN ts' = d /\ failed' = FALSE
             ELSE UNCHANGED ts /\ failed' = TRUE
       \/ UNCHANGED ts /\ failed' = TRUE
    /\ UNCHANGED <<now, pct, hexes>>

\* Timestamp.now().
TimestampNow ==
    /\ ts' = now
    /\ failed' = FALSE
    /\ UNCHANGED <<now, pct, hexes>>

\* t.add(ms) and t.subtract(ms) = add(-ms): the private constructor, with
\* no range check.
TimestampAdd ==
    /\ ts # NULL
    /\ \E ms \in Deltas, sign \in {1, -1} :
          /\ ts + sign * ms \in TimeRange
          /\ ts' = ts + sign * ms
    /\ failed' = FALSE
    /\ UNCHANGED <<now, pct, hexes>>

\* The clock advances.
Tick ==
    /\ now < MaxTime
    /\ now' = now + 1
    /\ UNCHANGED <<pct, ts, hexes, failed>>

-----------------------------------------------------------------------------
(* Hash and Signature                                                      *)

\* Hash.create / Signature.create: non-empty, length within the bounds,
\* hexadecimal (HASH_REGEX / SIGNATURE_REGEX).
IsValidHex(k, s) ==
    /\ s.len > 0
    /\ HexBounds[k].min <= s.len /\ s.len <= HexBounds[k].max
    /\ s.hex

\* toBuffer: Buffer.from(value, 'hex') decodes whole digit pairs and drops
\* a trailing odd digit.
ToBuffer(s) == s.len \div 2

\* fromBuffer's input: buffer.toString('hex'), two lower-case digits a byte.
BufferHex(n) == [len |-> 2 * n, hex |-> TRUE, upper |-> FALSE]

CreateHex(k, s) ==
    IF IsValidHex(k, s)
    THEN hexes' = [hexes EXCEPT ![k] = s] /\ failed' = FALSE
    ELSE UNCHANGED hexes /\ failed' = TRUE

\* Hash.create(value) (and fromJSON).
HashCreate ==
    /\ \E s \in HexString : CreateHex("hash", s)
    /\ UNCHANGED <<now, pct, ts>>

\* Signature.create(value) (and fromJSON).
SignatureCreate ==
    /\ \E s \in HexString : CreateHex("signature", s)
    /\ UNCHANGED <<now, pct, ts>>

\* Hash.fromBuffer(h.toBuffer()).
HashFromBuffer ==
    /\ hexes["hash"] # NULL
    /\ CreateHex("hash", BufferHex(ToBuffer(hexes["hash"])))
    /\ UNCHANGED <<now, pct, ts>>

\* Signature.fromBuffer(s.toBuffer()).
SignatureFromBuffer ==
    /\ hexes["signature"] # NULL
    /\ CreateHex("signature", BufferHex(ToBuffer(hexes["signature"])))
    /\ UNCHANGED <<now, pct, ts>>

-----------------------------------------------------------------------------

VOInit ==
    /\ now = 0
    /\ pct = NULL
    /\ ts = NULL
    /\ hexes = [k \in HexKinds |-> NULL]
    /\ failed = FALSE

VONext ==
    \/ PercentageCreate \/ PercentageAdd \/ PercentageSubtract
    \/ TimestampCreate \/ TimestampNow \/ TimestampAdd \/ Tick
    \/ PercentageFromString
    \/ HashCreate \/ HashFromBuffer \/ SignatureCreate \/ SignatureFromBuffer

VOSpec == VOInit /\ [][VONext]_voVars

-----------------------------------------------------------------------------
(* Properties                                                              *)

\* The greatest common divisor by definition: the largest number dividing
\* both (a reference for the Euclid loop).
CommonDivisorsRef(a, b) == {d \in 1..100 : a % d = 0 /\ b % d = 0}
GcdRef(a, b) == CHOOSE d \in CommonDivisorsRef(a, b) :
                    \A e \in CommonDivisorsRef(a, b) : e <= d

\* toFraction of the held percentage is round(value)/100 in lowest terms.
FractionReduced ==
    pct # NULL =>
        LET f == ToFraction(pct) IN
        /\ GcdRef(f.numerator, f.denominator) = 1
        /\ f.numerator * 100 = RoundTenths(pct) * f.denominator

\* A held timestamp survives its own JSON round trip:
\* Timestamp.fromJSON(t.toJSON()) accepts it at the current clock.
TimestampReparses == ts # NULL => WithinWindow(ts)

\* A held hash or signature survives the Buffer round trip unchanged:
\* X.fromBuffer(x.toBuffer()) equals x.
BufferRoundTrip ==
    \A k \in HexKinds :
        hexes[k] # NULL => BufferHex(ToBuffer(hexes[k])) = hexes[k]
=============================================================================
