------------------------------- MODULE Values -------------------------------
(***************************************************************************)
(* Typed values (MObject.hpp, MObject.cpp): how they lie in memory, how a  *)
(* result of a kernel is compared with the value a test expects, and how   *)
(* the comparisons of a buffer make a verdict (ValidateMemory).  Halves    *)
(* have a copy of the generator's conversions, so FpArithmetic describes   *)
(* them too.  Bytes are digits of base BYTE, so that TLC can count them.   *)
(***************************************************************************)
EXTENDS FpEmulator, Sequences, SequencesExt

\* A type: its elements, and what they are.
VType(name, bytes, count) == [name |-> name, bytes |-> bytes, count |-> count]
MV_UINT128 == VType("uint128", 8, 2)
MV_PLAIN_FLOAT16 == VType("plain half", 4, 1)
IsPacked(t) == t.count > 1 /\ t # MV_UINT128
ValueTypeSize(t) == t.bytes * t.count

(* Value::WriteTo and ReadFrom.  The elements of a value are in the order   *)
(* of their memory, of a 128 bit word the low half and the high one.        *)
BYTE == 2
ToBytes(n, e) == [k \in 1..n |-> (e \div BYTE^(k - 1)) % BYTE]
OfBytes(s) == FoldLeft(LAMBDA n, b : n * BYTE + b, 0, Reverse(s))
WriteTo(t, v) ==
    IF t = MV_UINT128 THEN ToBytes(t.bytes, v[2]) \o ToBytes(t.bytes, v[1])
    ELSE FlattenSeq([i \in 1..t.count |-> ToBytes(t.bytes, v[i])])
ReadFrom(t, mem, at) ==
    IF t = MV_PLAIN_FLOAT16 THEN <<OfBytes(SubSeq(mem, at + 1, at + 2))>>
    ELSE [i \in 1..t.count |-> OfBytes(SubSeq(mem, at + (i - 1) * t.bytes + 1, at + i * t.bytes))]

\* Arrays of values.
WriteValues(t, values) == FlattenSeq([i \in DOMAIN values |-> WriteTo(t, values[i])])
ReadValues(t, mem, count) == [i \in 1..count |-> ReadFrom(t, mem, (i - 1) * ValueTypeSize(t))]
SizeOf(t, values) == Len(values) * ValueTypeSize(t)

\* MBuffer::GetDim: the place of an element in an array of up to three dimensions.
GetDim(size, pos) ==
    << pos % size[1], (pos \div size[1]) % size[2], ((pos \div size[1]) \div size[2]) % size[3] >>
-----------------------------------------------------------------------------
(* The copied conversions, and the arithmetic of halves, worked out in a    *)
(* wider format and rounded again.                                          *)
DecodedFpValueImpl(F, x) == DecodedFloat(F, x)
FpProcessor(F, carrier, v, rounding) == NormalizeRound(F, carrier, v, rounding)
HalfOf(Wide, F, carrier, x) ==
    IF isRegular(Wide, x) THEN FpProcessor(F, carrier, DecodedFpValueImpl(Wide, x), "near")
    ELSE mapSpecialValues(Wide, F, x)
Widened(F, Wide, carrier, x) == HalfOf(F, Wide, carrier, x)
HalfOfInteger(bits, F, carrier, i) == FpProcessor(F, carrier, DecodedInteger(bits, i), "near")
HalfAdd(F, Wide, carrier, x, y) ==
    HalfOf(Wide, F, carrier, HostAdd(Wide, Widened(F, Wide, carrier, x), Widened(F, Wide, carrier, y)))
HalfMultiply(F, Wide, carrier, x, y) ==
    HalfOf(Wide, F, carrier, mul(Wide, carrier, Widened(F, Wide, carrier, x), Widened(F, Wide, carrier, y), "near"))
-----------------------------------------------------------------------------
(* Comparison.  An error and a precision are fractions; of numbers their    *)
(* difference in units, the least numbers of the format.                    *)
Frac(num, den) == [num |-> num, den |-> den]
Less(a, b) == a.num * b.den < b.num * a.den
Within(a, b) == ~Less(b, a)
LesserOf(a, b) == IF Less(b, a) THEN b ELSE a

Unlimited(F, method, precision) ==
    [method |-> method, precision |-> precision, flush |-> FALSE,
     min |-> Units(F, Inf(F, TRUE)), max |-> Units(F, Inf(F, FALSE))]

\* What "legacy_default" takes: so many decimal digits after the point.
SetDefaultPrecision(F, method, digits) ==
    CASE method \in {"decimal", "image"} -> Frac(UnitsInOne(F), 10^digits)
      [] method = "ulps" -> Frac(1, 1)
      [] method = "relative" -> Frac(1, 100)

(* NewComparison: of the options that set a method the last one in the      *)
(* order ulps, absf, relf, image decides; the rest narrows or widens it.    *)
NewComparison(F, floating, digits, options) ==
    LET Chosen == SelectSeq(<<"image", "relative", "decimal", "ulps">>, LAMBDA o : o \in DOMAIN options)
        base == IF ~floating THEN Unlimited(F, "decimal", Frac(0, 1))
                ELSE IF "legacy_default" \in DOMAIN options
                THEN Unlimited(F, "decimal", SetDefaultPrecision(F, "decimal", digits))
                ELSE IF Chosen = <<>> THEN Unlimited(F, "ulps", Frac(1, 2))
                ELSE Unlimited(F, Head(Chosen), options[Head(Chosen)])
    IN  [base EXCEPT !.flush = "flushDenorms" \in DOMAIN options,
                     !.min = IF "minf" \in DOMAIN options THEN options["minf"] ELSE @,
                     !.max = IF "maxf" \in DOMAIN options THEN options["maxf"] ELSE @]

FlushDenorms(x) == IF isSubnormal(x) THEN copySign(Zero(FALSE), x) ELSE x
RawBits(F, x) == (IF x.neg THEN Two(F.e + F.m) ELSE 0) + Index(F, x)
IgnoresZeros(F, x, y) == Frac(Distance(RawBits(F, x), RawBits(F, y)), 1)    \* a variation
AbsDiffUlps(F, x, y) ==
    Frac(IF isZero(x) /\ isZero(y) /\ x # y THEN 1 ELSE Distance(RawBits(F, x), RawBits(F, y)), 1)

\* The curve of sRGB, of numbers between zero and one; Curve is C's pow.
ConvertToStandard(F, Curve, x) ==
    IF isNan(F, x) \/ Units(F, x) < 0 THEN 0
    ELSE Curve[IF Units(F, x) > UnitsInOne(F) THEN UnitsInOne(F) ELSE Units(F, x)]

ErrorBetween(F, Curve, method, x, y) ==
    CASE method = "ulps" -> AbsDiffUlps(F, x, y)
      [] method = "decimal" -> Frac(AbsOf(Units(F, x) - Units(F, y)), 1)
      [] method = "relative" -> IF isZero(x) THEN Frac(2 * AbsOf(Units(F, y)), UnitsInOne(F))
                                ELSE Frac(AbsOf(Units(F, x) - Units(F, y)), AbsOf(Units(F, x)))
      [] method = "image" ->
            Frac(Distance(ConvertToStandard(F, Curve, x), ConvertToStandard(F, Curve, y)), 1)

Verdict(passed, error) == [passed |-> passed, error |-> error]

\* What is not a number with an error: NaNs, infinities, results beyond the limits.
ComparedAlready(F, c, x, y) ==
    ~Finite(F, x) \/ ~Finite(F, y) \/ ~(Units(F, y) \in c.min..c.max)
PassesAlready(F, c, x, y) ==
    /\ IF isNan(F, x) \/ isNan(F, y)
       THEN isNan(F, x) /\ isNan(F, y) /\ (c.method # "decimal" \/ x.neg = y.neg)
       ELSE x = y /\ isInf(F, x)
    /\ ~isNan(F, y) => Units(F, y) \in c.min..c.max

CompareFloating(F, Curve, c, x, y) ==
    LET error == ErrorBetween(F, Curve, c.method, x, y)
        flushed == ErrorBetween(F, Curve, c.method, FlushDenorms(x), FlushDenorms(y))
        least == IF c.flush /\ c.method # "image" THEN LesserOf(error, flushed) ELSE error
        passed == PassesAlready(F, c, x, y)
    IN  IF ComparedAlready(F, c, x, y) THEN Verdict(passed, Frac(IF passed THEN 0 ELSE 1, 1))
        ELSE Verdict(IF c.method = "image" THEN Less(least, c.precision) ELSE Within(least, c.precision), least)
CompareHalf(F, c, x, y) == CompareFloating(F, <<>>, c, x, y)
CompareFloat(F, Curve, c, x, y) == CompareFloating(F, Curve, c, x, y)
CompareDouble(F, c, x, y) == CompareFloating(F, <<>>, c, x, y)

\* Integers, elements of packed ones included: the difference, cut to the width.
CompareIntegers(bits, v, w) ==
    LET error == [i \in DOMAIN v |-> Distance(v[i], w[i]) % Two(bits)]
    IN  Verdict(\A i \in DOMAIN v : error[i] = 0, error)

(* Comparison::Compare counts; the worst error is kept, where values of the *)
(* type have an order (operator < knows none of packed ones).               *)
Counted == [checks |-> 0, failed |-> 0, maxError |-> Frac(0, 1), maxErrorIndex |-> 0]
Compare(n, ordered, verdict) ==
    LET worse == ~verdict.passed /\ ordered /\ Less(n.maxError, verdict.error)
    IN  [checks |-> n.checks + 1,
         failed |-> n.failed + Truth(~verdict.passed),
         maxError |-> IF worse THEN verdict.error ELSE n.maxError,
         maxErrorIndex |-> IF worse THEN n.checks ELSE n.maxErrorIndex]

\* ValidateMemory, with the failures it prints one by one.
MAX_SHOWN_FAILURES == 2
ValidateMemory(ordered, verdicts) ==
    FoldLeft(LAMBDA n, v :
                LET m == Compare(n.count, ordered, v)
                IN  [count |-> m, shown |-> n.shown + Truth(~v.passed /\ m.failed < MAX_SHOWN_FAILURES)],
             [count |-> Counted, shown |-> 0], verdicts)
-----------------------------------------------------------------------------
(* What comparisons mean.                                                   *)
Options(method, precision, flush) ==
    (method :> precision) @@ (IF flush THEN "flushDenorms" :> TRUE ELSE <<>>)
Passed(F, Curve, options, x, y) == CompareFloat(F, Curve, NewComparison(F, TRUE, 1, options), x, y).passed

\* The numbers that ulp leads to, a unit in the last place at a time.
UlpSteps(F, S) == S \cup {y \in {ulp(F, x, d) : x \in S, d \in {-1, 1}} : Finite(F, y)}

\* Numbers of one sign pass if that many steps lead from one to the other.
UlpsCountedOn(F, x, y) ==
    Finite(F, x) /\ Finite(F, y) =>
        LET once == UlpSteps(F, {x})
            Agrees(n, reached) == Passed(F, <<>>, Options("ulps", Frac(n, 1), FALSE), x, y) <=>
                    /\ x.neg = y.neg \/ (isZero(x) /\ isZero(y))
                    /\ \E z \in reached : Units(F, z) = Units(F, y)
        IN  Agrees(1, once) /\ Agrees(2, UlpSteps(F, once))

(* By whatever method: a value passes against itself, and not against what  *)
(* is a NaN or an infinity when it is none; more precision asked for passes *)
(* less; flushing only forgives, and limits only refuse.                    *)
Methods == {"ulps", "decimal", "relative", "image"}
ComparesSoundlyOn(F, Curve, precisions, x, y) ==
    \A method \in Methods, p \in precisions :
        LET plain == Options(method, p, FALSE)
            passed == Passed(F, Curve, plain, x, y)
            limit == AbsOf(Units(F, x))
        IN  /\ x = y => passed \/ (method = "image" /\ p.num = 0)
            /\ method # "relative" => (passed <=> Passed(F, Curve, plain, y, x))
            /\ passed => /\ isNan(F, x) = isNan(F, y)
                         /\ isInf(F, x) \/ isInf(F, y) => x = y
                         /\ \A q \in precisions : Within(p, q) => Passed(F, Curve, Options(method, q, FALSE), x, y)
                         /\ Passed(F, Curve, Options(method, p, TRUE), x, y)
            /\ Passed(F, Curve, ("maxf" :> limit) @@ plain, x, y) <=>
                    passed /\ (isNan(F, y) \/ Units(F, y) <= limit)
\* Halves and doubles are compared as floats are.
SameOfAllSizesOn(F, x, y) ==
    \A method \in Methods \ {"image"}, flush \in BOOLEAN :
        LET c == NewComparison(F, TRUE, 1, Options(method, Frac(1, 1), flush))
        IN  {CompareHalf(F, c, x, y), CompareDouble(F, c, x, y)} = {CompareFloat(F, <<>>, c, x, y)}
NoOptionsCompareBitsOn(F, x, y) ==
    Passed(F, <<>>, <<>>, x, y) <=> x = y \/ (isNan(F, x) /\ isNan(F, y))

HalvesRoundOn(F, Wide, carrier, x, y) ==
    Finite(F, x) /\ Finite(F, y) =>
        /\ HalfAdd(F, Wide, carrier, x, y) = HostAdd(F, x, y)
        /\ HalfMultiply(F, Wide, carrier, x, y) =
              Nearest(F, AbsOf(Units(F, x) * Units(F, y)), UnitsInOne(F), x.neg # y.neg)

\* A buffer passes when each of its values does, and the worst one is reported.
ValidatesOn(verdicts) ==
    LET n == ValidateMemory(TRUE, verdicts)
        Failed == {i \in DOMAIN verdicts : ~verdicts[i].passed}
    IN  /\ n.count.failed = Cardinality(Failed)
        /\ n.shown <= n.count.failed
        /\ Failed # {} => /\ n.count.maxErrorIndex + 1 \in Failed
                          /\ n.count.maxError = verdicts[n.count.maxErrorIndex + 1].error
                          /\ \A i \in Failed : Within(verdicts[i].error, n.count.maxError)

\* What is written is read again, element by element, and only differs where values do.
ReadsBackOn(t, v) == ReadValues(t, WriteValues(t, v), Len(v)) = v /\ Len(WriteValues(t, v)) = SizeOf(t, v)
\* Integers pass when they are the same; the difference is told both ways.
IntegersComparedOn(bits, v, w) ==
    LET one == CompareIntegers(bits, v, w)  other == CompareIntegers(bits, w, v)
    IN  one.passed <=> v = w
        /\ other = one

\* The coordinates of a position are those of no other one.
DimsDistinctOn(size) ==
    \A pos \in 0..(size[1] * size[2] * size[3] - 1) :
        LET p == GetDim(size, pos) IN pos = (p[3] * size[2] + p[2]) * size[1] + p[1]
=============================================================================
