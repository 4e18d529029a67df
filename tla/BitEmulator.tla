----------------------------- MODULE BitEmulator -----------------------------
(***************************************************************************)
(* The emulator's operations on bits and on packed values                  *)
(* (HSAILTestGenEmulator.cpp, HSAILTestGenVal.cpp).  Bit operations take   *)
(* and give the unsigned value of a word.  A packed value is the function  *)
(* from the indices of its elements to their values.                       *)
(***************************************************************************)
EXTENDS IntegerEmulator, Sequences, Bitwise, FiniteSets, FiniteSetsExt, TLC

Ones(n) == Two(n) - 1
Inverted(n, a) == Ones(n) - a
Bit(a, i) == shiftR(a, i) % 2
SumOf(S, f(_)) == FoldSet(LAMBDA x, acc : acc + f(x), 0, S)

op_bitsel(n, a, b, c) == (b & a) | (c & Inverted(n, a))

op_bitmask(t, a, b) ==
    LET offset == ShiftBy(t, a)  width == ShiftBy(t, b)
    IN  IF offset + width > t.bits THEN Undef
        ELSE (Ones(width) * Two(offset)) % Two(t.bits)

op_bitextract(t, a, b, c) ==
    LET offset == ShiftBy(t, b)  width == ShiftBy(t, c)
        shift == t.bits - width
    IN  IF width = 0 THEN 0
        ELSE IF width + offset > t.bits THEN Undef
        ELSE Val(t, a * Two(shift - offset)) \div Two(shift)

op_bitinsert(t, a, b, c, d) ==
    LET offset == ShiftBy(t, c)  width == ShiftBy(t, d)
        hole == Inverted(t.bits, (Ones(width) * Two(offset)) % Two(t.bits))
    IN  IF width + offset > t.bits THEN Undef
        ELSE Val(t, (AsB64(t, a) & hole) | ((AsB64(t, b) & Ones(width)) * Two(offset)))

KeepsValue(n, a) ==    \* a variation: val is not shifted
    SumOf(0..(n - 1), LAMBDA i : Two(n - 1 - i) * Bit(a, 0))
op_bitrev(n, a) == SumOf(0..(n - 1), LAMBDA i : Two(n - 1 - i) * Bit(a, i))

\* bitalign and bytealign: a window in the double word of two words.
op_bitalign(n, mask, element, a, b, c) ==
    shiftR(b * Two(n) + a, (c % (mask + 1)) * element) % Two(n)

emulate_popcount(n, a) == Cardinality({i \in 0..(n - 1) : Bit(a, i) = 1})

(* The number of bits in front of the first one that differs from the sign, *)
(* and behind the last bit that is set; -1 as a u32 when there is none.     *)
NoBit == -1
emulate_firstbit(t, v) ==
    LET a == IF t.signed /\ v < 0 THEN -v - 1 ELSE v
    IN  IF a = 0 THEN NoBit
        ELSE CHOOSE res \in 0..(t.bits - 1) :
                /\ Bit(a, t.bits - 1 - res) = 1
                /\ \A i \in 0..(res - 1) : Bit(a, t.bits - 1 - i) = 0
emulate_lastbit(t, v) ==
    LET a == AsB64(t, v)
    IN  IF a = 0 THEN NoBit
        ELSE CHOOSE res \in 0..(t.bits - 1) :
                Bit(a, res) = 1 /\ \A i \in 0..(res - 1) : Bit(a, i) = 0

\* combine and expand, of words of n bits.
emulate_combine(n, words) == SumOf(DOMAIN words, LAMBDA i : words[i] * Two(n * i))
emulate_expand(n, dim, a) == [i \in 0..(dim - 1) |-> shiftR(a, n * i) % Two(n)]
-----------------------------------------------------------------------------
(* Comparison, without the operators on NaN.                                *)
emulateCmp(op, a, b) ==
    LET cmp == op_cmp(a, b)
    IN  CASE op = "eq" -> cmp = 0
          [] op = "ne" -> cmp # 0
          [] op = "lt" -> cmp = -1
          [] op = "le" -> cmp # 1
          [] op = "gt" -> cmp = 1
          [] op = "ge" -> cmp # -1

(* Atomic operations: the value in memory, a, and the operands.             *)
emulateAtomicMem(t, op, a, b, c) ==
    LET x == AsB64(t, a)  y == AsB64(t, b)
    IN  CASE op = "and" -> Val(t, x & y)
          [] op = "or" -> Val(t, x | y)
          [] op = "xor" -> Val(t, x ^^ y)
          [] op = "add" -> op_add(t, a, b)
          [] op = "sub" -> op_sub(t, a, b)
          [] op = "max" -> op_max(a, b)
          [] op = "min" -> op_min(a, b)
          [] op = "wrapinc" -> op_inc(t, a, b)
          [] op = "wrapdec" -> op_dec(t, a, b)
          [] op = "exch" -> b
          [] op = "cas" -> IF a = b THEN c ELSE a
          [] op = "ld" -> a
          [] op = "st" -> b
-----------------------------------------------------------------------------
(* Packed values of dim elements.  Every control of shuffle has as many     *)
(* bits as the index of an element.                                         *)
Dim(v) == Cardinality(DOMAIN v)
range2width(dim) == CHOOSE w \in 0..dim : Two(w) <= dim /\ dim < Two(w + 1)
Masked(i, dim) == i % Two(range2width(dim))

emulate_shuffle(a, b, ctl) ==
    [i \in DOMAIN a |->
        LET idx == Masked(shiftR(ctl, i * range2width(Dim(a))), Dim(a))
        IN  IF i < Dim(a) \div 2 THEN a[idx] ELSE b[idx]]

emulate_unpackHalf(low, a, b) ==
    LET first == IF low THEN 0 ELSE Dim(a) \div 2
    IN  [i \in DOMAIN a |-> IF i % 2 = 0 THEN a[first + (i \div 2)] ELSE b[first + (i \div 2)]]

emulate_pack(t, a, v, i) == [a EXCEPT ![Masked(i, Dim(a))] = Val(t, v)]
emulate_unpack(t, a, i) == Val(t, a[Masked(i, Dim(a))])
emulate_cmov(c, a, b) == [i \in DOMAIN a |-> IF c[i] # 0 THEN a[i] ELSE b[i]]
emulate_lerp(a, b, c) == [i \in DOMAIN a |-> (a[i] + b[i] + (c[i] % 2)) \div 2]

sad(a, b) == IF a < b THEN b - a ELSE a - b
emulate_sad(t, a, b, c) == Val(t, c + SumOf(DOMAIN a, LAMBDA i : sad(a[i], b[i])))
emulate_sadhi(t, a, b, c) == [c EXCEPT ![1] = Val(t, @ + SumOf(DOMAIN a, LAMBDA i : sad(a[i], b[i])))]

(* Regular operations: element by element, after which operand the packing  *)
(* tells, "p" for the elements and "s" for the lowest one.  An element is   *)
(* repacked to the base type, of 32 or 64 bits, and its result to the       *)
(* element type.  The elements of dst that are not computed keep the value  *)
(* it begins with.                                                          *)
getPackedElement(v, idx, packing) == v[IF packing = "p" THEN idx ELSE 0]
AllElements(packing, dim) == 0..(dim - 1)    \* a variation
getPackedDstDim(packing, dim) ==
    IF "p" \in {packing[1], packing[2]} THEN 0..(dim - 1) ELSE {0}

\* Mulhi of elements narrower than 32 bits: high bits of the base type's mul.
emulateMulHiPacked(elem, base, a, b) ==
    IF elem.rank # "narrow" THEN op_mulhi(elem, a, b)
    ELSE Val(elem, AsB64(base, op_mul(base, a, b)) \div Two(elem.bits))

emulateDstValPackedRegular(op(_, _), a, b, packing, initial) ==
    [i \in DOMAIN a |->
        IF i \in getPackedDstDim(packing, Dim(a))
        THEN op(getPackedElement(a, i, packing[1]), getPackedElement(b, i, packing[2]))
        ELSE initial]

\* Shifts of packed values: one amount for all, masked with the size of an element.
emulateShiftPacked(elem, base, left, a, n) ==
    LET Shift(v, k) == IF left THEN Val(elem, op_shl(base, v, k)) ELSE Val(elem, op_shr(base, v, k))
    IN  [i \in DOMAIN a |-> Shift(a[i], n % elem.bits)]
-----------------------------------------------------------------------------
(* What the results mean.                                                   *)
BitsExactOn(t, v, b, c) ==
    LET n == t.bits  a == AsB64(t, v)
        width == ShiftBy(t, c)  offset == ShiftBy(t, b)
        got == op_bitextract(t, v, b, c)
        put == op_bitinsert(t, v, v, b, c)
    IN  \* the extracted bits are the bits of the word; extract undoes insert
        /\ (got = Undef) <=> (width > 0 /\ offset + width > n)
        /\ (put = Undef) <=> (offset + width > n)
        /\ got # Undef /\ width > 0 =>
              \A i \in 0..(n - 1) : Bit(AsB64(t, got), i) =
                 IF i < width THEN Bit(a, offset + i)
                 ELSE IF t.signed THEN Bit(a, offset + width - 1) ELSE 0
        /\ put # Undef =>
              \A i \in 0..(n - 1) : Bit(AsB64(t, put), i) =
                 IF i \in offset..(offset + width - 1) THEN Bit(a, i - offset) ELSE Bit(a, i)
        /\ op_bitmask(t, b, c) # Undef =>
              op_bitsel(n, op_bitmask(t, b, c), Ones(n), 0) = op_bitmask(t, b, c)
        \* a word reversed is counted from its other end
        /\ op_bitrev(n, op_bitrev(n, a)) = a
        /\ emulate_lastbit(t, v) = emulate_firstbit(Unsigned(t), op_bitrev(n, a))
        /\ emulate_popcount(n, a) = n - emulate_popcount(n, Inverted(n, a))
        /\ emulate_firstbit(Signed(t), Val(Signed(t), a)) =
              emulate_firstbit(Signed(t), Val(Signed(t), Inverted(n, a)))
        \* a window in a word and itself is a rotation
        /\ op_bitalign(n, n - 1, 1, a, a, b) =
              (a \div Two(offset)) + ((a * Two(n - offset)) % Two(n))
        /\ emulate_expand(n, 2, emulate_combine(n, 0 :> a @@ 1 :> b)) = (0 :> a @@ 1 :> b)

PackedExactOn(elem, base, a, b, ctl) ==
    LET dim == Dim(a)
        Lanes(op(_, _), packing) == emulateDstValPackedRegular(op, a, b, packing, 0)
        low == emulate_unpackHalf(TRUE, a, b)  high == emulate_unpackHalf(FALSE, a, b)
    IN  \* the halves of two values hold every element of both
        /\ \A i \in DOMAIN a :
              /\ a[i] = (IF i < dim \div 2 THEN low ELSE high)[(2 * i) % dim]
              /\ b[i] = (IF i < dim \div 2 THEN low ELSE high)[((2 * i) % dim) + 1]
        /\ \A i \in DOMAIN a : emulate_unpack(elem, emulate_pack(elem, a, b[i], i), i) = b[i]
        \* the product of elements, from its two halves
        /\ LET lo == Lanes(LAMBDA x, y : Val(elem, op_mul(base, x, y)), <<"p", "p">>)
               hi == Lanes(LAMBDA x, y : emulateMulHiPacked(elem, base, x, y), <<"p", "p">>)
           IN  \A i \in DOMAIN a : AsB64(elem, lo[i]) + Two(elem.bits) * hi[i] = a[i] * b[i]
        \* an operation on the lowest elements leaves the others alone
        /\ \A packing \in {<<"s", "s">>, <<"p", "s">>, <<"s", "p">>} :
              LET res == Lanes(LAMBDA x, y : Val(elem, op_sub(base, x, y)), packing)
              IN  \A i \in DOMAIN a : res[i] =
                    IF packing = <<"s", "s">> /\ i > 0 THEN 0
                    ELSE Val(elem, a[IF packing[1] = "p" THEN i ELSE 0]
                                   - b[IF packing[2] = "p" THEN i ELSE 0])
        \* shifted left and right again an element loses its high bits only
        /\ \A n \in 0..(2 * elem.bits) :
              LET back == emulateShiftPacked(elem, base, FALSE,
                              emulateShiftPacked(elem, base, TRUE, a, n), n)
              IN  \A i \in DOMAIN a :
                    (back[i] = a[i]) <=> (a[i] * Two(n % elem.bits) \in Values(elem))
        \* the average of two elements, rounded as the third tells
        /\ ~elem.signed =>
              LET down == emulate_lerp(a, b, [i \in DOMAIN a |-> 2])
                  up == emulate_lerp(a, b, [i \in DOMAIN a |-> 1])
              IN  \A i \in DOMAIN a : down[i] + up[i] = a[i] + b[i] /\ down[i] \in Values(elem)
        /\ emulate_sad(base, a, b, 0) = emulate_sad(base, b, a, 0)
        /\ LET c == (0 :> 1 @@ 1 :> 2)
           IN  emulate_sadhi(base, a, b, c) = [c EXCEPT ![1] = emulate_sad(base, a, b, 2)]
        \* what two shuffles that reverse the elements take from each operand
        /\ LET Reversed(x) == emulate_shuffle(x, x, ctl)
           IN  /\ Reversed(Reversed(a)) = a
               /\ \A i \in DOMAIN a : emulate_shuffle(Reversed(a), Reversed(b), ctl)[i] = IF i < dim \div 2 THEN a[i] ELSE b[i]
        \* a comparison chooses the greater elements
        /\ emulate_cmov([i \in DOMAIN a |-> IF emulateCmp("lt", a[i], b[i]) THEN Ones(elem.bits) ELSE 0], b, a) =
              Lanes(op_max, <<"p", "p">>)
(* Two integers are in one order.  What an atomic operation does to memory  *)
(* can be undone from its other operand, or is one of the two values; the   *)
(* value that it returns is the one before.                                 *)
OrderedOn(a, b) ==
    /\ Cardinality({op \in {"lt", "eq", "gt"} : emulateCmp(op, a, b)}) = 1
    /\ \A ops \in {<<"lt", "ge">>, <<"gt", "le">>, <<"eq", "ne">>} :
          emulateCmp(ops[1], a, b) # emulateCmp(ops[2], a, b)
    /\ emulateCmp("lt", a, b) = emulateCmp("gt", b, a)
AtomicsUndoneOn(t, a, b) ==
    LET Mem(op, x) == emulateAtomicMem(t, op, x, b, a)
    IN  /\ \A ops \in {<<"add", "sub">>, <<"sub", "add">>, <<"xor", "xor">>} : Mem(ops[2], Mem(ops[1], a)) = a
        /\ Val(t, Mem("and", a) + Mem("or", a)) = Val(t, a + b)
        /\ {Mem("min", a), Mem("max", a)} = {a, b} /\ emulateCmp("le", Mem("min", a), Mem("max", a))
        /\ ~t.signed =>
              /\ {Mem("wrapinc", a), Mem("wrapdec", a)} \subseteq 0..b
              /\ a <= b => \A ops \in {<<"wrapinc", "wrapdec">>, <<"wrapdec", "wrapinc">>} : Mem(ops[2], Mem(ops[1], a)) = a
        /\ Mem("cas", Mem("exch", a)) = Mem("ld", a) /\ (Mem("cas", a) = a)
=============================================================================
