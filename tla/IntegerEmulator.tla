--------------------------- MODULE IntegerEmulator ---------------------------
(***************************************************************************)
(* What the emulator of the test generator (libTestGen,                    *)
(* HSAILTestGenEmulator.cpp) computes for instructions on integers: its    *)
(* results are the expected values of generated tests.  The templates over *)
(* C types become operators of a type: its number of bits, whether it is   *)
(* signed, and its rank, "narrow" (than int, of 8 and 16 bits), "int" (32) *)
(* or "long" (64).  A value is the number it stands for.  The numbers of   *)
(* bits are parameters, so that TLC can try all values of small types.     *)
(***************************************************************************)
EXTENDS Integers

CONSTANTS
    Undef,    \* an empty Val: what the standard leaves undefined
    Trap      \* a division that the machine cannot do

\* Neither is the result of a defined operation.
ASSUME NoResultAssumption == Undef \notin Int /\ Trap \notin Int /\ Undef # Trap

IntType(bits, signed, rank) == [bits |-> bits, signed |-> signed, rank |-> rank]
Unsigned(t) == [t EXCEPT !.signed = FALSE]
Signed(t) == [t EXCEPT !.signed = TRUE]

Two(n) == 2^n

(* getIntBoundary: the least or the greatest value of a type.               *)
IntBoundary(t, low) ==
    IF t.signed THEN IF low THEN -Two(t.bits - 1) ELSE Two(t.bits - 1) - 1
    ELSE IF low THEN 0 ELSE Two(t.bits) - 1

Values(t) == IntBoundary(t, TRUE) .. IntBoundary(t, FALSE)

(* Val(type, x): the value of the low bits of x.  AsB64 reads a value of    *)
(* any type with zero extension.                                            *)
Val(t, x) ==
    LET low == x % Two(t.bits)
    IN  IF t.signed /\ low >= Two(t.bits - 1) THEN low - Two(t.bits) ELSE low
AsB64(t, v) == v % Two(t.bits)

(* C++: the result of signed arithmetic in int and wider types is undefined *)
(* when it does not fit.                                                    *)
Overflows(t, x) == t.signed /\ t.rank # "narrow" /\ x \notin Values(t)

(* C++: division truncates, the remainder has the sign of the dividend.     *)
AbsOf(x) == IF x < 0 THEN -x ELSE x
SignOf(x) == IF x < 0 THEN -1 ELSE 1
Quot(a, b) == SignOf(a) * SignOf(b) * (AbsOf(a) \div AbsOf(b))
-----------------------------------------------------------------------------
(* Simple operations.                                                       *)
op_abs(t, a) == Val(t, AbsOf(a))
op_neg(t, a) == Val(t, -a)
op_add(t, a, b) == Val(t, a + b)
op_sub(t, a, b) == Val(t, a - b)
op_mul(t, a, b) == Val(t, a * b)
op_mad(t, a, b, c) == Val(t, a * b + c)
op_max(a, b) == IF a < b THEN b ELSE a
op_min(a, b) == IF b < a THEN b ELSE a
op_inc(t, a, b) == IF a >= b THEN 0 ELSE Val(t, a + 1)
op_dec(t, a, b) == IF a = 0 \/ a > b THEN b ELSE Val(t, a - 1)
op_cmp(a, b) == IF a < b THEN -1 ELSE IF a > b THEN 1 ELSE 0

OnlyZeroDivides(t, a, b) == b = 0    \* a variation
undef_div_rem(t, a, b) == b = 0 \/ (t.signed /\ a = IntBoundary(t, TRUE) /\ b = -1)
Divide(t, a, b) == IF Quot(a, b) \in Values(t) THEN Quot(a, b) ELSE Trap
op_div(t, a, b) == IF undef_div_rem(t, a, b) THEN Undef ELSE Divide(t, a, b)
op_rem(t, a, b) ==
    IF undef_div_rem(t, a, b) THEN IF b = 0 THEN Undef ELSE 0
    ELSE IF Divide(t, a, b) = Trap THEN Trap ELSE a - b * Quot(a, b)

(* carry and borrow: emulateAluFlag turns the arguments into unsigned ones. *)
op_carry(t, a, b) == IF op_add(t, a, b) < a THEN 1 ELSE 0
op_borrow(t, a, b) == IF a < b THEN 1 ELSE 0
AluFlag(t, a, b, op(_, _, _)) == Val(t, op(Unsigned(t), AsB64(t, a), AsB64(t, b)))

(* Shifts: the amount is masked, a signed value shifts in its sign.         *)
ShiftBy(t, n) == n % t.bits
op_shl(t, a, n) == Val(t, a * Two(ShiftBy(t, n)))
op_shr(t, a, n) == a \div Two(ShiftBy(t, n))
-----------------------------------------------------------------------------
(* Saturation.  The code looks at the wrapped result to see that it does    *)
(* not fit.  Where the result of the C operation is undefined, a compiler   *)
(* may take it as the result without overflow, of which the test is false,  *)
(* and leave the test out: the operators give the set of outcomes.          *)
Saturated(t, x, sat) ==
    {IF s = 0 THEN Val(t, x) ELSE IntBoundary(t, s = -1) :
        s \in {sat} \cup (IF Overflows(t, x) THEN {0} ELSE {})}

op_add_sat(t, a, b) ==
    LET res == Val(t, a + b)
    IN  Saturated(t, a + b,
            IF ~t.signed /\ res < a THEN 1
            ELSE IF t.signed /\ a >= 0 /\ b >= 0 /\ res < 0 THEN 1
            ELSE IF t.signed /\ a < 0 /\ b < 0 /\ res >= 0 THEN -1
            ELSE 0)

op_sub_sat(t, a, b) ==
    LET res == Val(t, a - b)
    IN  Saturated(t, a - b,
            IF ~t.signed /\ res > a THEN -1
            ELSE IF t.signed /\ a >= 0 /\ b < 0 /\ res < 0 THEN 1
            ELSE IF t.signed /\ a < 0 /\ b >= 0 /\ res >= 0 THEN -1
            ELSE 0)

DividesBack(t, a, b) ==    \* a variation: the least value is no special case
    a # 0 /\ Val(t, Quot(Val(t, a * b), a)) # b
LosesBits(t, a, b) ==
    \/ t.signed /\ a < 0 /\ b = IntBoundary(t, TRUE)
    \/ a # 0 /\ Val(t, Quot(Val(t, a * b), a)) # b

op_mul_sat(t, a, b) ==
    Saturated(t, a * b,
        IF ~LosesBits(t, a, b) THEN 0
        ELSE IF t.signed /\ (a < 0) # (b < 0) THEN -1 ELSE 1)
-----------------------------------------------------------------------------
(* mulhi.  Types of up to 32 bits shift the 64 bit product; for 64 bits the *)
(* product is put together from halves, whose sums may carry.  The halves   *)
(* have bits \div 2 bits.                                                   *)
mul64hi(t, x, y) ==
    LET D == Two(t.bits)  H == Two(t.bits \div 2)
        ly == y % H   hy == y \div H   lx == x % H   hx == x \div H
        low == (lx * ly) % D
        c1 == (hx * ly + (low \div H)) % D
        hasCarry == IF c1 = 0 THEN 2 ELSE 0
        c2 == (c1 + ((lx * hy) % H)) % D
        c3 == (IF (c2 = 0 /\ hasCarry # 2) \/ hasCarry = 1 THEN H ELSE 0)
              + (c2 \div H) + ((lx * hy) \div H) + hx * hy
    IN  IF x = 0 \/ y = 0 THEN [low |-> 0, high |-> 0]
        ELSE [low |-> ((c2 * H) % D) + (low % H), high |-> c3 % D]

neg64(t, val) ==
    LET D == Two(t.bits)
    IN  [low |-> (0 - val.low) % D,
         high |-> ((IF val.low > 0 THEN -1 ELSE 0) - val.high) % D]

op_mulhi(t, a, b) ==
    IF t.rank # "long" THEN
        LET x == a % Two(2 * t.bits)  y == b % Two(2 * t.bits)
        IN  Val(t, ((x * y) % Two(2 * t.bits)) \div Two(t.bits))
    ELSE
        LET negative == t.signed /\ (a < 0) # (b < 0) /\ a # 0 /\ b # 0
            product == mul64hi(t, AsB64(t, AbsOf(a)), AsB64(t, AbsOf(b)))
        IN  Val(t, (IF negative THEN neg64(t, product) ELSE product).high)

(* mul24 and mad24, for values of n bits with one bit to spare.             *)
isSU24(t, n, v) ==
    IF t.signed THEN -Two(n - 2) <= v /\ v <= Two(n - 2) - 1 ELSE v <= Two(n - 1) - 1
op_mad24(t, n, shift, a, b, c) ==
    IF isSU24(t, n, a) /\ isSU24(t, n, b) /\ isSU24(t, n, c)
    THEN Val(t, ((a * b) \div Two(shift)) + c) ELSE Undef
-----------------------------------------------------------------------------
(* What the results mean.                                                   *)
Clamp(t, x) ==
    IF x < IntBoundary(t, TRUE) THEN IntBoundary(t, TRUE)
    ELSE IF x > IntBoundary(t, FALSE) THEN IntBoundary(t, FALSE) ELSE x

SaturatesOn(t, a, b) ==
    /\ op_add_sat(t, a, b) = {Clamp(t, a + b)}
    /\ op_sub_sat(t, a, b) = {Clamp(t, a - b)}
    /\ op_mul_sat(t, a, b) = {Clamp(t, a * b)}

\* Unsigned, a sum and its carry are the whole sum, likewise the difference.
FlagsComplete(t, a, b) ==
    LET x == AsB64(t, a)  y == AsB64(t, b)  W == Two(t.bits)
    IN  /\ AsB64(t, op_add(t, a, b)) + W * AsB64(t, AluFlag(t, a, b, op_carry)) = x + y
        /\ AsB64(t, op_sub(t, a, b)) - W * AsB64(t, AluFlag(t, a, b, op_borrow)) = x - y

\* The two halves of a product are the product.
HalvesMakeProduct(t, a, b) ==
    AsB64(t, op_mul(t, a, b)) + Two(t.bits) * op_mulhi(t, a, b) = a * b

\* Quotient and remainder are Euclid's, truncated, and never trap.
DivisionDefined(t, a, b) ==
    LET q == op_div(t, a, b)  r == op_rem(t, a, b)
    IN  /\ Trap \notin {q, r}
        /\ (q = Undef) <=> (b = 0 \/ Quot(a, b) \notin Values(t))
        /\ (r = Undef) <=> (b = 0)
        /\ b # 0 /\ r # Trap => AbsOf(r) < AbsOf(b) /\ r * a >= 0
        /\ q \notin {Undef, Trap} => a = q * b + r

ExactOn(t, a, b) ==
    /\ FlagsComplete(t, a, b)
    /\ HalvesMakeProduct(t, a, b)
    /\ DivisionDefined(t, a, b)
    /\ \A n \in 0..(2 * t.bits - 1) :
          /\ op_shl(t, a, n) = Val(t, a * Two(n % t.bits))
          /\ (op_shr(t, op_shl(t, a, n), n) = a) <=> (a * Two(n % t.bits) \in Values(t))
\* The product of two numbers of n bits, from what mad24hi and mad24 leave of it.
Mad24On(t, n, shift, a, b) ==
    LET low == op_mad24(t, n, 0, a, b, 0)  high == op_mad24(t, n, shift, a, b, 0)
    IN  IF isSU24(t, n, a) /\ isSU24(t, n, b)
        THEN high * Two(shift) + (AsB64(t, low) % Two(shift)) = a * b
        ELSE low = Undef /\ high = Undef
=============================================================================
