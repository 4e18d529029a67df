----------------------------- MODULE FpEmulator -----------------------------
(***************************************************************************)
(* The emulator's instructions on floating point numbers                   *)
(* (HSAILTestGenFpEmulator.cpp, HSAILTestGenEmulator.cpp): comparison,     *)
(* rounding to whole numbers, conversions to and from integers, and what   *)
(* every result goes through, flushing and clearing of NaNs.  Arithmetic   *)
(* of the host (float and double of the C++ program) is IEEE 754's.        *)
(***************************************************************************)
EXTENDS FpArithmetic, IntegerEmulator

Truth(b) == IF b THEN 1 ELSE 0
HostAdd(F, x, y) ==
    IF mulIsSpecial(F, x, y) THEN addSpecial(F, x, y)
    ELSE NearestOf(F, Units(F, x) + Units(F, y), 1, FALSE)
One(F, sign) == Float(sign, EXP_BIAS(F), 0)
Half(F) == Float(FALSE, EXP_BIAS(F) - 1, 0)

\* The order of numbers that are no NaNs; infinity is a magnitude like others.
Before(F, x, y) == ~isNan(F, x) /\ ~isNan(F, y) /\ Units(F, x) < Units(F, y)
emulate_cmp(F, x, y) == IF Before(F, x, y) THEN -1 ELSE IF Before(F, y, x) THEN 1 ELSE 0

(* cmp: ordered, "u" also true of NaNs.  The signaling forms are not        *)
(* emulated for NaNs.                                                       *)
emulateFpCmp(F, op, unordered, signaling, x, y) ==
    LET cmp == emulate_cmp(F, x, y)
        nan == isNan(F, x) \/ isNan(F, y)
        holds == CASE op = "eq" -> cmp = 0
                   [] op = "ne" -> cmp # 0
                   [] op = "lt" -> cmp = -1
                   [] op = "le" -> cmp # 1
                   [] op = "gt" -> cmp = 1
                   [] op = "ge" -> cmp # -1
                   [] op = "num" -> ~nan
                   [] op = "nan" -> nan
    IN  IF signaling /\ nan THEN Undef
        ELSE IF op \in {"num", "nan"} THEN holds
        ELSE IF unordered THEN holds \/ nan ELSE holds /\ ~nan

(* class: the flags that hold of a number; it is in the class asked for if  *)
(* one of these was.                                                        *)
emulate_class(F, x, flags) ==    \* the bits that are set in the second operand
    IF isNan(F, x) THEN (IF isSignalingNan(F, x) THEN 1 ELSE 2) \in flags
    ELSE IF isInf(F, x) THEN (IF x.neg THEN 4 ELSE 512) \in flags
    ELSE IF isSubnormal(x) THEN (IF x.neg THEN 16 ELSE 128) \in flags
    ELSE IF isZero(x) THEN (IF x.neg THEN 32 ELSE 64) \in flags
    ELSE (IF x.neg THEN 8 ELSE 256) \in flags

emulate_max(F, x, y) ==
    IF isNan(F, x) THEN y ELSE IF isNan(F, y) THEN x
    ELSE IF isZero(x) /\ isZero(y) THEN Zero(x.neg /\ y.neg)
    ELSE IF Before(F, x, y) THEN y ELSE x
emulate_min(F, x, y) ==
    IF isNan(F, x) THEN y ELSE IF isNan(F, y) THEN x
    ELSE IF isZero(x) /\ isZero(y) THEN Zero(x.neg \/ y.neg)
    ELSE IF Before(F, y, x) THEN y ELSE x

ftz(x) == IF isSubnormal(x) THEN Zero(x.neg) ELSE x

(* f16 divides as f64 and rounds again.                                     *)
HostDivide(F, x, y) ==
    Nearest(F, Magnitude(F, Index(F, x)) * UnitsInOne(F), Magnitude(F, Index(F, y)), x.neg # y.neg)
emulate_div(F, Wide, carrier, x, y) ==
    LET W(v) == convertProp2RawBits(F, Wide, carrier, v, "near")
    IN  convertProp2RawBits(Wide, F, carrier, HostDivide(Wide, W(x), W(y)), "near")
-----------------------------------------------------------------------------
(* Whole numbers.  std::modf splits a number into its whole and fractional  *)
(* part, both with its sign.                                                *)
Whole(F, x) == NearestOf(F, SignOf(Units(F, x)) * (AbsOf(Units(F, x)) \div UnitsInOne(F)) * UnitsInOne(F), 1, x.neg)
modfRes(F, x) == [Whole(F, x) EXCEPT !.neg = x.neg]
modfFract(F, x) == [Nearest(F, AbsOf(Units(F, x)) % UnitsInOne(F), 1, x.neg) EXCEPT !.neg = x.neg]

LargestBelowOne(F) == ulp(F, One(F, FALSE), -1)
modfKept(F, x, res) ==
    LET below == HostAdd(F, One(F, FALSE), res)
    IN  IF ~x.neg THEN res
        ELSE IF isZero(res) THEN Zero(FALSE)
        ELSE IF Before(F, below, One(F, FALSE)) THEN below ELSE LargestBelowOne(F)
fract_impl(F, x) ==
    IF isNan(F, x) THEN x
    ELSE IF isInf(F, x) \/ isZero(x) THEN Zero(x.neg)
    ELSE modfKept(F, x, modfFract(F, x))
\* f16 takes the fraction as f32, which can round to one.
narrowFract(F, Wide, carrier, f) ==
    IF Before(Wide, convertProp2RawBits(F, Wide, carrier, LargestBelowOne(F), "near"), f) THEN LargestBelowOne(F)
    ELSE convertProp2RawBits(Wide, F, carrier, f, "near")
fract_narrow(F, Wide, carrier, x) ==
    narrowFract(F, Wide, carrier, fract_impl(Wide, convertProp2RawBits(F, Wide, carrier, x, "near")))

ceil_impl(F, x) ==
    IF ~Finite(F, x) THEN x
    ELSE IF ~isZero(modfFract(F, x)) /\ ~x.neg THEN HostAdd(F, modfRes(F, x), One(F, FALSE))
    ELSE modfRes(F, x)
floor_impl(F, x) ==
    IF ~Finite(F, x) THEN x
    ELSE IF ~isZero(modfFract(F, x)) /\ x.neg THEN HostAdd(F, modfRes(F, x), One(F, TRUE))
    ELSE modfRes(F, x)
trunc_impl(F, x) == IF Finite(F, x) THEN modfRes(F, x) ELSE x

(* rint looks whether the whole part, converted to an unsigned 64 bit       *)
(* integer, is even.  Converting a negative number is undefined: processors *)
(* wrap it or give zero, or whatever.                                       *)
OddNumbers(F, x) ==
    LET i == Units(F, modfRes(F, x)) \div UnitsInOne(F)
    IN  IF i < 0 THEN {i % 2 = 1, FALSE} ELSE {i % 2 = 1}
WrappedOdd(F, x) == {(Units(F, modfRes(F, x)) \div UnitsInOne(F)) % 2 = 1}
rint_impl(F, x, odd) ==
    LET fract == abs(modfFract(F, x))
        down == Before(F, fract, Half(F)) \/ (fract = Half(F) /\ ~odd)
    IN  IF ~Finite(F, x) \/ isZero(x) THEN x
        ELSE IF down THEN copySign(modfRes(F, x), x)
        ELSE copySign(HostAdd(F, modfRes(F, x), One(F, x.neg)), x)
-----------------------------------------------------------------------------
(* cvt to integers.  The fraction of a number in a word of `word' bits, of  *)
(* which x keeps bits in front of the point.                                *)
getFractionalOfNormalized(F, word, v, x) ==
    LET shift == getExponent(F, v) + (word - F.m) - x
        mant == v.man + (IF v.ex = 0 THEN 0 ELSE HIDDEN(F))
    IN  IF shift <= -word \/ word <= shift THEN 0
        ELSE IF shift >= 0 THEN (mant * Two(shift)) % Two(word) ELSE mant \div Two(-shift)
isIntegral(F, word, v) ==
    isZero(v) \/ (getFractionalOfNormalized(F, word, v, 0) = 0 /\ getExponent(F, v) >= 0)

TiesAway(F, word, v) ==    \* a variation
    getFractionalOfNormalized(F, word, v, 0) >= Two(word - 1)
RoundsAway(F, word, v) ==
    LET half == Two(word - 1)  fract == getFractionalOfNormalized(F, word, v, 0)
    IN  fract > half \/ (fract = half /\ getFractionalOfNormalized(F, word, v, 1) > half)
f2i_round(F, word, v, mode) ==
    LET away == IF v.neg THEN -1 ELSE 1
    IN  CASE mode = "near" -> IF ~isInf(F, v) /\ RoundsAway(F, word, v) THEN away ELSE 0
          [] mode = "zero" -> 0
          [] mode = "up" -> IF isRegular(F, v) /\ ~v.neg /\ ~isIntegral(F, word, v) THEN 1 ELSE 0
          [] mode = "down" -> IF isRegular(F, v) /\ v.neg /\ ~isIntegral(F, word, v) THEN -1 ELSE 0

\* The outermost numbers of the format that the type holds.
getTypeBoundary(F, carrier, t, low) ==
    LET i == IntBoundary(t, low)  most == OfIndex(F, low, EXP_MASK(F) * HIDDEN(F) - 1)
    IN  IF (t.signed \/ ~low) /\ AbsOf(Units(F, most)) <= AbsOf(i) * UnitsInOne(F) THEN most
        ELSE convertInteger2RawBits(t.bits, F, carrier, i, "zero")

withinBoundaries(F, lo, hi, v) ==
    /\ Units(F, lo) <= Units(F, v) \/ Before(F, HostAdd(F, lo, One(F, TRUE)), v)
    /\ Units(F, v) <= Units(F, hi) \/ Before(F, v, HostAdd(F, hi, One(F, FALSE)))
checkTypeBoundaries(F, carrier, t, v) ==
    withinBoundaries(F, getTypeBoundary(F, carrier, t, TRUE), getTypeBoundary(F, carrier, t, FALSE), v)

f2i_rounded(F, v, round) == IF round = 0 THEN v ELSE HostAdd(F, v, One(F, round < 0))
f2i_truncated(F, carrier, t, sat, res) ==
    IF checkTypeBoundaries(F, carrier, t, res)
    THEN Val(t, SignOf(Units(F, res)) * (AbsOf(Units(F, res)) \div UnitsInOne(F)))
    ELSE IF sat THEN IntBoundary(t, Units(F, res) <= 0) ELSE Undef
f2i_impl(F, carrier, word, v, t, mode, sat) ==
    IF isNan(F, v) THEN IF sat THEN 0 ELSE Undef
    ELSE f2i_truncated(F, carrier, t, sat, f2i_rounded(F, v, f2i_round(F, word, v, mode)))

\* The signaling modes are not emulated for numbers that are not whole.
cvt_f2i(F, carrier, word, v, t, mode, sat, signaling) ==
    LET res == f2i_impl(F, carrier, word, v, t, mode, sat)
    IN  IF signaling /\ ~isZero(fract_impl(F, v)) THEN Undef ELSE res
cvt_x2b1(F, v) == Truth(~isZero(v))

(* The test values of a rounding mode, around the boundaries of the type.   *)
MovedBoundary(F, mode, b) ==
    CASE mode = "near" -> HostAdd(F, b, Half(F))
      [] mode = "zero" -> IF Units(F, b) > 0 THEN HostAdd(F, b, One(F, FALSE)) ELSE b
      [] mode = "up" -> HostAdd(F, b, Zero(FALSE))
      [] mode = "down" -> HostAdd(F, b, One(F, FALSE))
AroundBoundaries(F, lo, hi) ==
    LET less(x) == HostAdd(F, x, One(F, TRUE))  more(x) == HostAdd(F, x, One(F, FALSE))
    IN  << less(lo), ulp(F, less(lo), 1), ulp(F, lo, -1), lo, ulp(F, lo, 1), more(lo),
           less(hi), ulp(F, hi, -1), hi, ulp(F, hi, 1), ulp(F, more(hi), -1), more(hi) >>
makeRoundingTestsData(F, carrier, t, mode) ==
    AroundBoundaries(F, MovedBoundary(F, mode, getTypeBoundary(F, carrier, t, TRUE)),
                     MovedBoundary(F, mode, getTypeBoundary(F, carrier, t, FALSE)))
-----------------------------------------------------------------------------
(* What the results mean.                                                   *)
\* The whole number that a mode makes of num/den.
RoundedTo(num, den, mode) ==
    LET down == num \div den  twice == 2 * (num % den)
    IN  CASE mode = "down" -> down
          [] mode = "up" -> IF num % den = 0 THEN down ELSE down + 1
          [] mode = "zero" -> IF num < 0 /\ num % den # 0 THEN down + 1 ELSE down
          [] mode = "near" -> IF twice > den \/ (twice = den /\ down % 2 = 1) THEN down + 1 ELSE down

IsWhole(F, x, i, sign) == x = NearestOf(F, i * UnitsInOne(F), 1, sign) /\ Units(F, x) = i * UnitsInOne(F)

\* The whole numbers of a number, and the way back of its fraction.
WholesOn(F, x) ==
    Finite(F, x) =>
        LET u == Units(F, x)  d == UnitsInOne(F)
        IN  /\ IsWhole(F, floor_impl(F, x), RoundedTo(u, d, "down"), x.neg)
            /\ IsWhole(F, ceil_impl(F, x), RoundedTo(u, d, "up"), x.neg)
            /\ IsWhole(F, trunc_impl(F, x), RoundedTo(u, d, "zero"), x.neg)
            /\ \A odd \in WrappedOdd(F, x) :
                  IsWhole(F, rint_impl(F, x, odd), RoundedTo(u, d, "near"), x.neg)
            /\ isZero(x) \/ fract_impl(F, x) =
                  LET near == Nearest(F, u % d, 1, FALSE)
                  IN  IF Units(F, near) >= d THEN LargestBelowOne(F) ELSE near

\* A narrow number gives the same through a wider format, when rounded twice.
NarrowOn(F, Wide, carrier, x, y) ==
    LET there(v) == convertProp2RawBits(F, Wide, carrier, v, "near")
        back(v) == convertProp2RawBits(Wide, F, carrier, v, "near")
    IN  /\ back(there(x)) = x \/ isNan(F, x)
        /\ Finite(F, x) => Units(Wide, there(x)) * UnitsInOne(F) = Units(F, x) * UnitsInOne(Wide)
        /\ isRegular(F, x) /\ isRegular(F, y) => emulate_div(F, Wide, carrier, x, y) = HostDivide(F, x, y)
        /\ Finite(F, x) => fract_narrow(F, Wide, carrier, x) = fract_impl(F, x)

\* A number converted to an integer is rounded, or undefined, or saturated.
IntegerOf(F, v, t, mode, sat) ==
    LET i == RoundedTo(Units(F, v), UnitsInOne(F), mode)
        within == ~isInf(F, v) /\ i \in Values(t)
    IN  IF within THEN i
        ELSE IF ~sat THEN Undef ELSE IF isInf(F, v) THEN IntBoundary(t, v.neg) ELSE Clamp(t, i)

ConvertsOn(F, carrier, word, v, t, mode, sat) ==
    ~isNan(F, v) => f2i_impl(F, carrier, word, v, t, mode, sat) = IntegerOf(F, v, t, mode, sat)
\* A rounding that signals is for whole numbers, and infinities.
SignalsOn(F, carrier, word, v, t, mode, sat) ==
    ~isNan(F, v) =>
        cvt_f2i(F, carrier, word, v, t, mode, sat, TRUE) =
            IF Units(F, v) % UnitsInOne(F) = 0 \/ isInf(F, v) THEN IntegerOf(F, v, t, mode, sat) ELSE Undef

\* ... when the number and one more in the direction of rounding can be added.
AddsExactly(F, word, v, mode) ==
    LET one == One(F, f2i_round(F, word, v, mode) < 0)
    IN  f2i_round(F, word, v, mode) = 0
        \/ Units(F, HostAdd(F, v, one)) = Units(F, v) + Units(F, one)

FromIntegersOn(F, carrier, t, i) ==
    /\ convertInteger2RawBits(t.bits, F, carrier, i, "near") =
          NearestOf(F, i * UnitsInOne(F), 1, FALSE)
    /\ LET x == convertInteger2RawBits(t.bits, F, carrier, i, "zero")
       IN  Finite(F, x) => /\ AbsOf(Units(F, x)) <= AbsOf(i) * UnitsInOne(F)
                           /\ AbsOf(Units(F, ulp(F, x, SignOf(i)))) > AbsOf(i) * UnitsInOne(F)
\* Comparisons follow the order of numbers; one and its opposite are never
\* the same of two operands, when one of them takes NaNs and the other does not.
ComparedOn(F, x, y) ==
    LET Holds(op, unordered) == emulateFpCmp(F, op, unordered, FALSE, x, y)
        nan == isNan(F, x) \/ isNan(F, y)
    IN  /\ \A ops \in {<<"eq", "ne">>, <<"lt", "ge">>, <<"gt", "le">>}, unordered \in BOOLEAN :
              Holds(ops[1], unordered) # Holds(ops[2], ~unordered)
        /\ Holds("nan", FALSE) # Holds("num", FALSE)
        /\ Finite(F, x) /\ Finite(F, y) => (Holds("lt", FALSE) <=> Units(F, x) < Units(F, y))
        /\ \A op \in {"eq", "lt", "le", "num"}, unordered \in BOOLEAN :
              (emulateFpCmp(F, op, unordered, TRUE, x, y) = Undef) <=> nan
        /\ ~nan => (cvt_x2b1(F, x) = 0 <=> emulateFpCmp(F, "eq", FALSE, FALSE, x, Zero(FALSE)))
\* Every value is in one class, and its negation in the opposite one.
Classes == {1, 2, 4, 8, 16, 32, 64, 128, 256, 512}
ClassedOn(F, x) ==
    LET ClassOf(v) == {c \in Classes : emulate_class(F, v, {c})}
    IN  /\ \E c \in Classes : ClassOf(x) = {c}
        /\ emulate_class(F, x, Classes) /\ ~emulate_class(F, x, {})
        /\ ClassOf(neg(x)) = IF isNan(F, x) THEN ClassOf(x) ELSE {2048 \div c : c \in ClassOf(x)}
=============================================================================
