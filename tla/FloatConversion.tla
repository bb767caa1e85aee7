--------------------------- MODULE FloatConversion ---------------------------
(***************************************************************************)
(* The conversions between float and the two 16-bit formats, in            *)
(* sandstone_data.cpp, on formats with fewer bits and for all of their     *)
(* bit patterns: a pattern is a number, sign, exponent and mantissa from   *)
(* the left.                                                               *)
(***************************************************************************)
EXTENDS Integers

CONSTANTS
  FloatDigits, FloatExponent,  \* 24 and 8: digits, with the implicit one, and bits of the exponent
  HalfDigits, HalfExponent,    \* 11 and 5: Float16
  BFloatDigits                 \* 8: BFloat16, with the exponent of float

ASSUME FormatsAssumption ==
  /\ 2 < HalfDigits /\ HalfDigits < FloatDigits /\ 2 < BFloatDigits /\ BFloatDigits < FloatDigits
  /\ 2 < HalfExponent /\ HalfExponent < FloatExponent

VARIABLES floatIn, half, halfBack, bfloat, bfloatBack

floatVars == <<floatIn, half, halfBack, bfloat, bfloatBack>>

Patterns(digits, exponent) == 0 .. 2 ^ (digits + exponent) - 1
Floats == Patterns(FloatDigits, FloatExponent)
Halves == Patterns(HalfDigits, HalfExponent)
None == -1

FloatInit ==
  /\ floatIn \in Floats
  /\ half = None /\ halfBack = None /\ bfloat = None /\ bfloatBack = None

Sign(v, digits, exponent) == v \div 2 ^ (digits + exponent - 1)
Exp(v, digits, exponent) == (v \div 2 ^ (digits - 1)) % 2 ^ exponent
Mant(v, digits) == v % 2 ^ (digits - 1)
Pack(sign, exp, mant, digits, exponent) == sign * 2 ^ (digits + exponent - 1) + exp * 2 ^ (digits - 1) + mant

MaxExponent(exponent) == 2 ^ (exponent - 1)
MinExponent(exponent) == 3 - MaxExponent(exponent)

-----------------------------------------------------------------------------

\* what x86 does with a NaN; without a mantissa it is an infinity
Quiet(mant, digits) ==
  IF mant = 0 \/ (mant \div 2 ^ (digits - 2)) % 2 = 1 THEN mant ELSE mant + 2 ^ (digits - 2)

\* mutant: one place too few
SubnormalShift_short(exp) == MinExponent(HalfExponent) - 2 - exp

SubnormalShift(exp) == MinExponent(HalfExponent) - 1 - exp

ieee754_downconvert(v) ==
  LET sign == Sign(v, FloatDigits, FloatExponent)
      exp == Exp(v, FloatDigits, FloatExponent) - (MaxExponent(FloatExponent) - 1)
      mant == Mant(v, FloatDigits) \div 2 ^ (FloatDigits - HalfDigits)
      max == 2 ^ HalfExponent - 2
      pack(s, e, m) == Pack(s, e, m, HalfDigits, HalfExponent)
  IN  CASE exp = MaxExponent(FloatExponent) -> pack(sign, max + 1, Quiet(mant, HalfDigits))
        [] exp # MaxExponent(FloatExponent) /\ exp >= MaxExponent(HalfExponent) ->
             pack(sign, max, 2 ^ (HalfDigits - 1) - 1)
        [] exp < MaxExponent(HalfExponent) /\ exp >= MinExponent(HalfExponent) - 1 ->
             pack(sign, exp + MaxExponent(HalfExponent) - 1, mant)
        [] exp < MinExponent(HalfExponent) - 1 /\ exp >= MinExponent(HalfExponent) - HalfDigits ->
             pack(sign, 0, (mant + 2 ^ (HalfDigits - 1)) \div 2 ^ SubnormalShift(exp))
        [] OTHER -> 0

RoundingBias(mant) == 2 ^ (FloatDigits - BFloatDigits - 1) - 1 + (mant % 2)

to_bfloat16(v) ==
  LET sign == Sign(v, FloatDigits, FloatExponent)
      exp == Exp(v, FloatDigits, FloatExponent)
      mant == Mant(v, FloatDigits) \div 2 ^ (FloatDigits - BFloatDigits)
  IN  CASE exp = 0 -> Pack(sign, 0, 0, BFloatDigits, FloatExponent)
        [] exp = 2 ^ FloatExponent - 1 -> Pack(sign, exp, Quiet(mant, BFloatDigits), BFloatDigits, FloatExponent)
        [] OTHER -> (v + RoundingBias(mant)) \div 2 ^ (FloatDigits - BFloatDigits)

\* the value of a pattern that is finite, without its sign, in units of the smallest float
Value(v, digits, exponent) ==
  LET unit == 2 ^ ((FloatDigits - digits) + (MaxExponent(FloatExponent) - MaxExponent(exponent)))
  IN  IF Exp(v, digits, exponent) = 0 THEN Mant(v, digits) * unit
      ELSE (Mant(v, digits) + 2 ^ (digits - 1)) * 2 ^ (Exp(v, digits, exponent) - 1) * unit

\* the float with a value: ldexp()
FloatOf(sign, value) ==
  CHOOSE v \in Floats : /\ Sign(v, FloatDigits, FloatExponent) = sign
                        /\ Exp(v, FloatDigits, FloatExponent) # 2 ^ FloatExponent - 1
                        /\ Value(v, FloatDigits, FloatExponent) = value

Scaled(h) ==
  LET unit == 2 ^ ((FloatDigits - HalfDigits) + (MaxExponent(FloatExponent) - MaxExponent(HalfExponent)))
      exp == Exp(h, HalfDigits, HalfExponent)
  IN  IF exp = 0 THEN Mant(h, HalfDigits) * unit ELSE (Mant(h, HalfDigits) + 2 ^ (HalfDigits - 1)) * 2 ^ (exp - 1) * unit

Infinite(sign) == Pack(sign, 2 ^ FloatExponent - 1, 0, FloatDigits, FloatExponent)

decode_half(h) ==
  LET sign == Sign(h, HalfDigits, HalfExponent)
  IN  IF Exp(h, HalfDigits, HalfExponent) = 2 ^ HalfExponent - 1 THEN Infinite(sign) ELSE FloatOf(sign, Scaled(h))

\* the sign of a NaN is moved into the exponent, where all bits are set
fromfp16_emulated(h) ==
  IF Exp(h, HalfDigits, HalfExponent) # 2 ^ HalfExponent - 1 \/ Mant(h, HalfDigits) = 0 THEN decode_half(h)
  ELSE Infinite(0) + Quiet(Mant(h, HalfDigits), HalfDigits) * 2 ^ (FloatDigits - HalfDigits)

\* adding 0 makes a NaN quiet, and -0 positive
frombf16_emulated(b) ==
  LET sign == Sign(b, BFloatDigits, FloatExponent)
      exp == Exp(b, BFloatDigits, FloatExponent)
      mant == Mant(b, BFloatDigits)
  IN  IF exp = 0 /\ mant = 0 THEN 0
      ELSE Pack(sign, exp, IF exp = 2 ^ FloatExponent - 1 THEN Quiet(mant, BFloatDigits) ELSE mant,
                BFloatDigits, FloatExponent) * 2 ^ (FloatDigits - BFloatDigits)

Convert ==
  /\ half = None
  /\ half' = ieee754_downconvert(floatIn) /\ halfBack' = fromfp16_emulated(half')
  /\ bfloat' = to_bfloat16(floatIn) /\ bfloatBack' = frombf16_emulated(bfloat')
  /\ UNCHANGED floatIn

FloatNext == Convert
FloatSpec == FloatInit /\ [][FloatNext]_floatVars

-----------------------------------------------------------------------------
(* Properties.                                                             *)

FloatFinite(v) == Exp(v, FloatDigits, FloatExponent) # 2 ^ FloatExponent - 1
FloatValue(v) == Value(v, FloatDigits, FloatExponent)
HalfValues ==
  {Value(h, HalfDigits, HalfExponent) :
     h \in {p \in Halves : Exp(p, HalfDigits, HalfExponent) # 2 ^ HalfExponent - 1}}
\* up to the infinity, as the number that would follow the largest
BFloatValues ==
  {Value(b, BFloatDigits, FloatExponent) : b \in 0 .. Pack(0, 2 ^ FloatExponent - 1, 0, BFloatDigits, FloatExponent)}
Distance(a, b) == IF a < b THEN b - a ELSE a - b

\* A float that is stored in 16 bits and read back is what the rounding of the format makes of it.  Through
\* Float16 it is the largest that is no larger, down through the subnormal numbers and up to the largest
\* half, as _cvtss_sh(f, _MM_FROUND_TRUNC) is asked to do; through BFloat16 the nearest, a tie to the even
\* one, and zero for what is below the normal numbers.  The sign is kept, but for that of a zero.
StoredRounded ==
  half # None /\ FloatFinite(floatIn) =>
    LET value == FloatValue(floatIn)
        truncated == FloatValue(halfBack)
        nearest == FloatValue(bfloatBack)
    IN  /\ \A back \in {halfBack, bfloatBack} :
             Sign(back, FloatDigits, FloatExponent) =
               IF FloatValue(back) = 0 THEN 0 ELSE Sign(floatIn, FloatDigits, FloatExponent)
        /\ truncated \in HalfValues /\ truncated <= value
        /\ \A h \in HalfValues : h <= value => h <= truncated
        /\ nearest \in BFloatValues
        /\ IF Exp(floatIn, FloatDigits, FloatExponent) = 0 THEN nearest = 0
           ELSE \A b \in BFloatValues \ {nearest} :
                  \/ Distance(nearest, value) < Distance(b, value)
                  \/ Distance(nearest, value) = Distance(b, value) /\ bfloat % 2 = 0
=============================================================================
