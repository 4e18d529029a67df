---------------------------- MODULE FpArithmetic ----------------------------
(***************************************************************************)
(* Floating point in software, as the test generator does it               *)
(* (HSAILTestGenEmulatorTypes.h and .cpp): IEEE 754 numbers, conversions,  *)
(* add, mul and fma with rounding.  The templates over f16_t, f32_t and    *)
(* f64_t become operators of a format, F.m bits of mantissa and F.e bits   *)
(* of exponent, and the machine's 64 and 128 bit integers one of `carrier' *)
(* bits, so that TLC can try every number of small formats.                *)
(***************************************************************************)
EXTENDS Integers

Format(m, e) == [m |-> m, e |-> e]
Pow(n) == 2^n
Least(S) == CHOOSE x \in S : \A y \in S : x <= y
Larger(x, y) == IF x < y THEN y ELSE x

(* Ieee754Props: a number of the format is a sign and two fields.           *)
EXP_BIAS(F) == Pow(F.e - 1) - 1
EXP_MASK(F) == Pow(F.e) - 1
HIDDEN(F) == Pow(F.m)
QUIET(F) == Pow(F.m - 1)
DECODED_EXP_SUBNORMAL_OR_ZERO(F) == -EXP_BIAS(F)
DECODED_EXP_NORM_MIN(F) == 1 - EXP_BIAS(F)
DECODED_EXP_NORM_MAX(F) == EXP_BIAS(F)

Float(neg, ex, man) == [neg |-> neg, ex |-> ex, man |-> man]
Floats(F) == [neg : BOOLEAN, ex : 0..EXP_MASK(F), man : 0..(HIDDEN(F) - 1)]
Zero(neg) == Float(neg, 0, 0)
Inf(F, neg) == Float(neg, EXP_MASK(F), 0)
makeQuietNan(F, neg, payload) == Float(neg, EXP_MASK(F), QUIET(F) + (payload % QUIET(F)))
makeSignalingNan(F, neg, payload) ==
    Float(neg, EXP_MASK(F), IF payload % QUIET(F) = 0 THEN 1 ELSE payload % QUIET(F))

isZero(x) == x.ex = 0 /\ x.man = 0
isSubnormal(x) == x.ex = 0 /\ x.man # 0
isInf(F, x) == x.ex = EXP_MASK(F) /\ x.man = 0
isNan(F, x) == x.ex = EXP_MASK(F) /\ x.man # 0
isSignalingNan(F, x) == isNan(F, x) /\ x.man < QUIET(F)
isRegular(F, x) == ~isZero(x) /\ x.ex # EXP_MASK(F)
getExponent(F, x) == IF isSubnormal(x) THEN DECODED_EXP_NORM_MIN(F) ELSE x.ex - EXP_BIAS(F)

neg(x) == [x EXCEPT !.neg = ~@]
abs(x) == [x EXCEPT !.neg = FALSE]
copySign(x, v) == [x EXCEPT !.neg = v.neg]
quieted(F, x) == IF isSignalingNan(F, x) THEN [x EXCEPT !.man = @ + QUIET(F)] ELSE x
clearPayloadIfNan(F, discardSign, x) ==
    IF isNan(F, x)
    THEN Float(x.neg /\ ~discardSign, EXP_MASK(F), IF isSignalingNan(F, x) THEN 1 ELSE QUIET(F))
    ELSE x

\* The bits of a number, as ulp counts them; the sign is not among them.
Index(F, x) == x.ex * HIDDEN(F) + x.man
OfIndex(F, sign, i) == Float(sign, i \div HIDDEN(F), i % HIDDEN(F))
ulp(F, x, delta) ==
    IF isInf(F, x) \/ isNan(F, x) THEN Zero(FALSE)
    ELSE IF isZero(x) THEN Float(delta = -1, 0, 1)
    ELSE IF x.neg /\ x.ex = 0 /\ x.man = 1 /\ delta = 1 THEN Zero(FALSE)
    ELSE OfIndex(F, x.neg, Index(F, x) + (IF x.neg THEN -delta ELSE delta))

mapSpecialValues(F, G, x) ==
    IF isZero(x) THEN Zero(x.neg)
    ELSE IF isInf(F, x) THEN Inf(G, x.neg)
    ELSE IF isSignalingNan(F, x) THEN makeSignalingNan(G, x.neg, x.man)
    ELSE makeQuietNan(G, x.neg, x.man)
-----------------------------------------------------------------------------
(* DecodedFpValueImpl: the mantissa with its hidden bit, whose weight is    *)
(* exp.  add_omicron tells of a tail that was lost behind the last bit, as  *)
(* far as its sign.                                                         *)
Decoded(mant, exp, sign, width) ==
    [mant |-> mant, exp |-> exp, neg |-> sign, width |-> width, omicron |-> 0]
DecodedFloat(F, x) ==
    Decoded(x.man + (IF x.ex = 0 THEN 0 ELSE HIDDEN(F)), getExponent(F, x), x.neg, F.m)
DecodedInteger(bits, i) == Decoded(IF i < 0 THEN -i ELSE i, bits - 1, i < 0, bits - 1)

toProps(F, v) ==
    IF v.exp > DECODED_EXP_NORM_MAX(F) THEN Inf(F, v.neg)
    ELSE Float(v.neg, v.exp + EXP_BIAS(F), v.mant % HIDDEN(F))

\* Shifts left until the hidden bit is one.
Normalized(v) ==
    IF v.mant = 0 THEN v
    ELSE LET n == CHOOSE k \in 0..v.width :
                     Pow(v.width) <= v.mant * Pow(k) /\ v.mant * Pow(k) < Pow(v.width + 1)
         IN  [v EXCEPT !.mant = @ * Pow(n), !.exp = @ - n]

(* FpProcessorImpl: the input normalized, and how far the mantissa is to be *)
(* shifted right, further where the result is subnormal.                    *)
NormalizeInput(F, input) ==
    LET v == Normalized(input)
        deficit == IF v.mant # 0 /\ v.exp < DECODED_EXP_NORM_MIN(F)
                   THEN DECODED_EXP_NORM_MIN(F) - v.exp ELSE 0
    IN  [v |-> [v EXCEPT !.exp = @ + deficit], shr |-> v.width - F.m + deficit]

(* CalculateTieKind: the tail to be shifted out, against a half: -2 to 2    *)
(* for TIE_LT_ZERO, TIE_IS_ZERO, TIE_LT_HALF, TIE_IS_HALF, TIE_GT_HALF.     *)
LT_ZERO == -2   IS_ZERO == -1   LT_HALF == 0   IS_HALF == 1   GT_HALF == 2
ForgetsOmicron(carrier, v, shr) ==    \* a variation
    LET tail == v.mant % Pow(shr)  half == Pow(shr) \div 2
    IN  IF shr <= 0 THEN IS_ZERO
        ELSE IF tail = 0 THEN IS_ZERO ELSE IF tail = half THEN IS_HALF
        ELSE IF tail < half THEN LT_HALF ELSE GT_HALF
TieKind(carrier, v, shr) ==
    IF shr <= 0 THEN IS_ZERO
    ELSE IF shr >= carrier - 1 THEN IF v.mant = 0 THEN IS_ZERO ELSE LT_HALF
    ELSE LET tail == v.mant % Pow(shr)  half == Pow(shr - 1)
         IN  IF tail = 0 THEN IF v.omicron < 0 THEN LT_ZERO ELSE IF v.omicron > 0 THEN LT_HALF ELSE IS_ZERO
             ELSE IF tail = half THEN IF v.omicron < 0 THEN LT_HALF ELSE IF v.omicron > 0 THEN GT_HALF ELSE IS_HALF
             ELSE IF tail < half THEN LT_HALF ELSE GT_HALF

IncrementMantAdjustExp(F, v) ==
    IF v.mant + 1 = 2 * HIDDEN(F) THEN [v EXCEPT !.mant = HIDDEN(F), !.exp = @ + 1]
    ELSE [v EXCEPT !.mant = @ + 1]
DecrementMantAdjustExp(F, v) ==
    IF v.mant - 1 < HIDDEN(F) THEN [v EXCEPT !.mant = (@ - 1) * 2, !.exp = @ - 1]
    ELSE [v EXCEPT !.mant = @ - 1]

RoundMantAdjustExp(F, carrier, v, shr, rounding) ==
    LET tie == TieKind(carrier, v, shr)
        cut == [v EXCEPT !.mant = IF shr >= carrier THEN 0
                                  ELSE IF shr > 0 THEN @ \div Pow(shr) ELSE @ * Pow(-shr),
                         !.width = F.m, !.omicron = 0]
        up == \/ rounding = "near" /\ (tie = GT_HALF \/ (tie = IS_HALF /\ cut.mant % 2 = 1))
              \/ rounding = (IF v.neg THEN "minf" ELSE "pinf") /\ tie >= LT_HALF
        down == tie = LT_ZERO /\ rounding \in {"zero", IF v.neg THEN "pinf" ELSE "minf"}
    IN  IF shr > 0 /\ up THEN IncrementMantAdjustExp(F, cut)
        ELSE IF shr > 0 /\ down THEN DecrementMantAdjustExp(F, cut) ELSE cut

NormalizeMantAdjustExp(F, v) ==
    IF v.mant = 0 THEN [v EXCEPT !.exp = DECODED_EXP_SUBNORMAL_OR_ZERO(F)]
    ELSE LET n == Least({k \in 0..F.m : v.mant * Pow(k) >= HIDDEN(F)}
                        \cup {v.exp - DECODED_EXP_NORM_MIN(F)})
             w == [v EXCEPT !.mant = @ * Pow(n), !.exp = @ - n]
         IN  IF w.mant < HIDDEN(F) THEN [w EXCEPT !.exp = DECODED_EXP_SUBNORMAL_OR_ZERO(F)] ELSE w

NormalizeRound(F, carrier, input, rounding) ==
    LET s == NormalizeInput(F, input)
    IN  toProps(F, NormalizeMantAdjustExp(F, RoundMantAdjustExp(F, carrier, s.v, s.shr, rounding)))

convertProp2RawBits(F, G, carrier, x, rounding) ==
    IF isRegular(F, x) THEN NormalizeRound(G, carrier, DecodedFloat(F, x), rounding)
    ELSE mapSpecialValues(F, G, x)
convertInteger2RawBits(bits, G, carrier, i, rounding) ==
    NormalizeRound(G, carrier, DecodedInteger(bits, i), rounding)
-----------------------------------------------------------------------------
(* mul.  The product is exact; the weight of its first bit is two.          *)
mulIsSpecial(F, x, y) == ~isRegular(F, x) \/ ~isRegular(F, y)
mulSpecial(F, x, y) ==
    LET sign == x.neg # y.neg
    IN  IF isNan(F, x) THEN quieted(F, x)
        ELSE IF isNan(F, y) THEN quieted(F, y)
        ELSE IF isInf(F, x) THEN IF isZero(y) THEN makeQuietNan(F, sign, 0) ELSE Inf(F, sign)
        ELSE IF isInf(F, y) THEN IF isZero(x) THEN makeQuietNan(F, sign, 0) ELSE Inf(F, sign)
        ELSE Zero(sign)

mulMantissas(nx, ny, sign, width) ==
    LET product == nx.v.mant * ny.v.mant
        exp == nx.v.exp + ny.v.exp - nx.shr - ny.shr
    IN  IF product < Pow(width) THEN Decoded(2 * product, exp, sign, width)
        ELSE Decoded(product, exp + 1, sign, width)
mulNumeric(F, x, y) ==
    mulMantissas(NormalizeInput(F, DecodedFloat(F, x)), NormalizeInput(F, DecodedFloat(F, y)),
                 x.neg # y.neg, 2 * (F.m + 1) - 1)

mul(F, carrier, x, y, rounding) ==
    IF mulIsSpecial(F, x, y) THEN mulSpecial(F, x, y)
    ELSE NormalizeRound(F, carrier, mulNumeric(F, x, y), rounding)

(* add.                                                                     *)
addSpecial(F, x, y) ==
    IF isNan(F, x) THEN quieted(F, x)
    ELSE IF isNan(F, y) THEN quieted(F, y)
    ELSE IF isInf(F, x) /\ isInf(F, y) /\ x.neg # y.neg THEN makeQuietNan(F, FALSE, 0)
    ELSE IF isInf(F, x) THEN x
    ELSE IF isInf(F, y) THEN y
    ELSE IF isZero(x) /\ isZero(y) THEN Zero(x.neg /\ y.neg)
    ELSE IF isZero(x) THEN y ELSE x

widenMant(carrier, v, width) ==
    [v EXCEPT !.mant = (@ * Pow(width - v.width)) % Pow(carrier), !.width = width]
shrMantIncExpRememberOmicron(v, count) ==
    [v EXCEPT !.omicron = IF v.mant % Pow(count) = 0 THEN 0 ELSE 1,
              !.mant = @ \div Pow(count), !.exp = @ + count]
subtract(x, y, width) ==
    [Decoded(x.mant - y.mant, x.exp + 1, x.neg, width) EXCEPT
        !.omicron = IF x.omicron # 0 THEN 1 ELSE -y.omicron]

addMantissas(ax, ay, width) ==
    IF ax.neg = ay.neg
    THEN [Decoded(ax.mant + ay.mant, ax.exp + 1, ax.neg, width) EXCEPT
            !.omicron = Larger(ax.omicron, ay.omicron)]
    ELSE IF ax.mant > ay.mant THEN subtract(ax, ay, width)
    ELSE IF ax.mant < ay.mant THEN subtract(ay, ax, width)
    ELSE Decoded(0, 0, FALSE, width)
addAligned(nx, ny, width) ==
    LET exp == Larger(nx.exp, ny.exp)
    IN  addMantissas(shrMantIncExpRememberOmicron(nx, exp - nx.exp),
                     shrMantIncExpRememberOmicron(ny, exp - ny.exp), width)
addNumeric(F, carrier, x, y) ==
    LET width == Larger(Larger(x.width, y.width) + 1, F.m + 2 + 1)
    IN  addAligned(Normalized(widenMant(carrier, x, width - 1)),
                   Normalized(widenMant(carrier, y, width - 1)), width)

add(F, carrier, x, y, rounding) ==
    IF mulIsSpecial(F, x, y) THEN addSpecial(F, x, y)
    ELSE NormalizeRound(F, carrier,
            addNumeric(F, carrier, DecodedFloat(F, x), DecodedFloat(F, y)), rounding)

(* fma: one rounding, of the exact product and the sum.                     *)
RoundsTwice(F, carrier, x, y, z, rounding) ==    \* a variation
    add(F, carrier, mul(F, carrier, x, y, rounding), z, rounding)
fma(F, carrier, x, y, z, rounding) ==
    IF mulIsSpecial(F, x, y) THEN addSpecial(F, mulSpecial(F, x, y), z)
    ELSE IF isNan(F, z) THEN quieted(F, z)
    ELSE IF isInf(F, z) THEN z
    ELSE NormalizeRound(F, carrier,
            IF isZero(z) THEN mulNumeric(F, x, y)
            ELSE addNumeric(F, carrier, mulNumeric(F, x, y), DecodedFloat(F, z)), rounding)
-----------------------------------------------------------------------------
(* The numbers of a format, without reference to how they are computed.     *)
(* Units counts the least subnormal number; the magnitude after the largest *)
(* finite one stands for infinity when numbers are rounded.                 *)
Magnitude(F, i) ==
    LET ex == i \div HIDDEN(F)  man == i % HIDDEN(F)
    IN  IF ex = 0 THEN man ELSE (HIDDEN(F) + man) * Pow(ex - 1)
Units(F, x) == (IF x.neg THEN -1 ELSE 1) * Magnitude(F, Index(F, x))
Distance(a, b) == IF a < b THEN b - a ELSE a - b

\* The number nearest to num/den units, of the two nearest ones the even one.
IndexBelow(F, units) ==
    LET k == CHOOSE n \in 0..(Pow(F.e) + F.m) : units < Pow(F.m + 1 + n) /\ (n = 0 \/ Pow(F.m + n) <= units)
    IN  k * HIDDEN(F) + (units \div Pow(k))
Nearest(F, num, den, sign) ==
    LET InfIndex == EXP_MASK(F) * HIDDEN(F)
        i == IndexBelow(F, num \div den)
        far(k) == Distance(Magnitude(F, k) * den, num)
        up == far(i + 1) < far(i) \/ (far(i + 1) = far(i) /\ i % 2 = 1)
    IN  IF i >= InfIndex THEN Inf(F, sign) ELSE OfIndex(F, sign, IF up THEN i + 1 ELSE i)
NearestOf(F, num, den, zeroSign) ==
    Nearest(F, IF num < 0 THEN -num ELSE num, den, IF num = 0 THEN zeroSign ELSE num < 0)

Finite(F, x) == x.ex # EXP_MASK(F)

\* How many units of the product of two numbers make a unit, which is 2^(1 - EXP_BIAS - m).
UnitsInOne(F) == Pow(EXP_BIAS(F) - 1 + F.m)

AddRounds(F, carrier, x, y) ==
    Finite(F, x) /\ Finite(F, y) =>
        add(F, carrier, x, y, "near") =
            NearestOf(F, Units(F, x) + Units(F, y), 1, isZero(x) /\ isZero(y) /\ x.neg /\ y.neg)
MulRounds(F, carrier, x, y) ==
    Finite(F, x) /\ Finite(F, y) =>
        mul(F, carrier, x, y, "near") =
            Nearest(F, Distance(0, Units(F, x) * Units(F, y)), UnitsInOne(F), x.neg # y.neg)
FmaRounds(F, carrier, x, y, z) ==
    Finite(F, x) /\ Finite(F, y) /\ Finite(F, z) =>
        LET product == Units(F, x) * Units(F, y)
        IN  fma(F, carrier, x, y, z, "near") =
                NearestOf(F, product + Units(F, z) * UnitsInOne(F), UnitsInOne(F),
                          product = 0 /\ isZero(z) /\ (x.neg # y.neg) /\ z.neg)

\* Numbers that are not finite: a NaN or an invalid operation gives a quiet NaN.
SpecialsOf(F, x, y, sum, product) ==
    LET nan == isNan(F, x) \/ isNan(F, y)
    IN  /\ isNan(F, sum) <=> nan \/ (isInf(F, x) /\ y = Inf(F, ~x.neg))
        /\ isNan(F, product) <=>
              nan \/ (isInf(F, x) /\ isZero(y)) \/ (isZero(x) /\ isInf(F, y))
        /\ ~isSignalingNan(F, sum) /\ ~isSignalingNan(F, product)
        /\ ~nan /\ isInf(F, x) /\ ~isNan(F, sum) => sum = x
        /\ ~nan /\ isInf(F, x) /\ ~isNan(F, product) => product = Inf(F, x.neg # y.neg)
SpecialsPropagate(F, carrier, x, y) ==
    SpecialsOf(F, x, y, add(F, carrier, x, y, "near"), mul(F, carrier, x, y, "near"))
=============================================================================
