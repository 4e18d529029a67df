------------------------------ MODULE Emulator ------------------------------
(***************************************************************************)
(* The interface of the emulator (HSAILTestGenEmulator.cpp): how the value *)
(* that an instruction stores in its destination or in memory is put       *)
(* together from the operations on integers, bits and floats.  An          *)
(* instruction is the name of its opcode; its operands are a sequence.     *)
(***************************************************************************)
EXTENDS BitEmulator, FpEmulator

(* emulateMod, on integers.  The selectors of the code (emulateBinOpSU and  *)
(* its like) take values of 32 and 64 bits only, and signed ones for the    *)
(* operations on signs; packed elements come in a base type of such a size. *)
Selects(op, t) == t.rank # "narrow" /\ (op \in {"abs", "neg"} => t.signed)
emulateMod(op, t, a) ==
    CASE ~Selects(op, t) -> Undef
      [] op = "abs" -> op_abs(t, a[1])      [] op = "neg" -> op_neg(t, a[1])
      [] op = "add" -> op_add(t, a[1], a[2]) [] op = "sub" -> op_sub(t, a[1], a[2])
      [] op = "mul" -> op_mul(t, a[1], a[2]) [] op = "mulhi" -> op_mulhi(t, a[1], a[2])
      [] op = "max" -> op_max(a[1], a[2])    [] op = "min" -> op_min(a[1], a[2])
      [] op = "div" -> op_div(t, a[1], a[2]) [] op = "rem" -> op_rem(t, a[1], a[2])
      [] op = "shl" -> op_shl(t, a[1], a[2]) [] op = "shr" -> op_shr(t, a[1], a[2])
      [] op = "mad" -> op_mad(t, a[1], a[2], a[3])
      [] op = "carry" -> AluFlag(t, a[1], a[2], op_carry)
      [] op = "borrow" -> AluFlag(t, a[1], a[2], op_borrow)
      [] op = "cmov" -> IF a[1] # 0 THEN a[2] ELSE a[3]

emulateFpMod(op, F, carrier, a) ==
    CASE op = "abs" -> abs(a[1]) [] op = "neg" -> neg(a[1])
      [] op = "copysign" -> copySign(a[1], a[2])
      [] op = "add" -> add(F, carrier, a[1], a[2], "near")
      [] op = "sub" -> add(F, carrier, a[1], neg(a[2]), "near")
      [] op = "mul" -> mul(F, carrier, a[1], a[2], "near")
      [] op = "fma" -> fma(F, carrier, a[1], a[2], a[3], "near")
      [] op = "max" -> emulate_max(F, a[1], a[2]) [] op = "min" -> emulate_min(F, a[1], a[2])
      [] op = "fract" -> fract_impl(F, a[1]) [] op = "ceil" -> ceil_impl(F, a[1])
      [] op = "floor" -> floor_impl(F, a[1]) [] op = "trunc" -> trunc_impl(F, a[1])

\* The opcodes by the selector that emulateMod gives them.
UnaryOps == {"abs", "neg", "fract", "ceil", "floor", "trunc"}
BinaryOps == {"copysign", "add", "sub", "mul", "max", "min"}
TernaryOps == {"fma"}
Operands(op, x, y) ==
    IF op \in UnaryOps THEN <<x>> ELSE IF op \in BinaryOps THEN <<x, y>> ELSE <<x, y, x>>

(* emulateDstVal: with the modifier ftz, subnormal operands and results are *)
(* zeros.  The sign of a NaN is kept by the operations on bits only, its    *)
(* payload by none.                                                         *)
DiscardsOfNeg(op) == op \notin {"abs", "copysign", "class"}    \* a variation
discardNanSign(op) == op \notin {"abs", "neg", "copysign", "class"}
emulateDstVal(op, F, carrier, useFtz, a) ==
    LET Flushed(x) == IF useFtz THEN ftz(x) ELSE x
        res == emulateFpMod(op, F, carrier, [i \in DOMAIN a |-> Flushed(a[i])])
    IN  clearPayloadIfNan(F, discardNanSign(op), Flushed(res))

\* How a result is compared: equal, or as close as the format allows.
getPrecision(op) == IF discardNanSign(op) THEN "half ulp" ELSE "equal"

(* Packed values.  A saturating operation is done in the type of an element *)
(* and its result extended; the others are done in the base type.  A shift  *)
(* has one amount for all elements, masked with their size.                 *)
UnmaskedAmount(elem, n) == n    \* a variation
ElementAmount(elem, n) == n % elem.bits
emulateElement(op, sat, elem, base, x, y) ==
    IF op = "mulhi" THEN {emulateMulHiPacked(elem, base, x, y)}
    ELSE IF sat THEN CASE op = "add" -> op_add_sat(elem, x, y)
                       [] op = "sub" -> op_sub_sat(elem, x, y)
                       [] op = "mul" -> op_mul_sat(elem, x, y)
    ELSE {Val(elem, emulateMod(op, base,
             <<x, IF op \in {"shl", "shr"} THEN ElementAmount(elem, y) ELSE y>>))}
emulatePacked(op, sat, elem, base, a, b, packing) ==
    [i \in getPackedDstDim(packing, Dim(a)) |->
        emulateElement(op, sat, elem, base,
            getPackedElement(a, i, packing[1]), getPackedElement(b, i, packing[2]))]

(* packcvt and unpackcvt: floats to bytes, rounded and saturated, and back. *)
emulate_packcvt(F, carrier, word, byte, a) ==
    [i \in 0..(Len(a) - 1) |-> cvt_f2i(F, carrier, word, a[i + 1], byte, "near", TRUE, FALSE)]
emulate_unpackcvt(F, carrier, byte, v, i) ==
    convertInteger2RawBits(byte.bits, F, carrier, emulate_unpack(byte, v, i), "near")

(* Memory.  An atomic operation returns what was in memory, ld and st leave *)
(* the value in memory and in the register.                                 *)
emulateAtomicDst(opcode, a) == IF opcode = "atomic" THEN a ELSE Undef
emulateMemDst(op, val) == IF op = "ld" THEN val ELSE Undef
emulateMemMem(op, reg, mem) == IF op = "ld" THEN mem ELSE reg
-----------------------------------------------------------------------------
(* What the results mean.                                                   *)

\* The operations on bits keep the sign of every number; results are flushed and have no payload.
ResultNormal(F, op, useFtz, signed, results) == \E res \in results :
    /\ results = {res}
    /\ op = "neg" => res.neg = ~signed.neg
    /\ op = "abs" => ~res.neg
    /\ op = "copysign" => res.neg = signed.neg
    /\ useFtz => ~isSubnormal(res)
    /\ isNan(F, res) => res.man \in {1, QUIET(F)}
    /\ isNan(F, res) /\ getPrecision(op) # "equal" => ~res.neg
ResultsNormalOn(F, carrier, x, y) ==
    \A op \in UnaryOps \cup BinaryOps \cup TernaryOps, useFtz \in BOOLEAN :
        LET a == Operands(op, x, y)
            inputs == {a} \cup IF useFtz THEN {[i \in DOMAIN a |-> ftz(a[i])]} ELSE {}
        IN  ResultNormal(F, op, useFtz, a[Len(a)],
                {emulateDstVal(op, F, carrier, useFtz, b) : b \in inputs})

\* What is computed in the base type is the element's operation; saturation stays in its range.
PackedAgreesOn(elem, base, a, b) ==
    /\ \A op \in {"add", "sub", "mul", "max", "min", "mulhi", "shl", "shr"} :
          LET y(i) == IF op \in {"shl", "shr"} THEN AsB64(elem, b[0]) ELSE b[i]
              ys == [i \in DOMAIN b |-> y(i)]
              res == emulatePacked(op, FALSE, elem, base, a, ys, <<"p", "p">>)
          IN  \A i \in DOMAIN a :
                 LET exact == CASE op = "add" -> Val(elem, a[i] + b[i])
                                [] op = "sub" -> Val(elem, a[i] - b[i])
                                [] op = "mul" -> Val(elem, a[i] * b[i])
                                [] op = "max" -> op_max(a[i], b[i])
                                [] op = "min" -> op_min(a[i], b[i])
                                [] op = "mulhi" -> (a[i] * b[i]) \div Two(elem.bits)
                                [] op = "shl" -> Val(elem, a[i] * Two(y(0) % elem.bits))
                                [] op = "shr" -> a[i] \div Two(y(0) % elem.bits)
                 IN  res[i] = {exact}
    /\ \A packing \in {<<"p", "p">>, <<"p", "s">>, <<"s", "p">>, <<"s", "s">>} :
          LET res(op) == emulatePacked(op, TRUE, elem, base, a, b, packing)
              x(i) == a[IF packing[1] = "p" THEN i ELSE 0]
              y(i) == b[IF packing[2] = "p" THEN i ELSE 0]
          IN  \A i \in DOMAIN res("add") :
                 /\ res("add")[i] = {Clamp(elem, x(i) + y(i))}
                 /\ res("sub")[i] = {Clamp(elem, x(i) - y(i))}
                 /\ res("mul")[i] = {Clamp(elem, x(i) * y(i))}

\* Bytes come back from floats that hold them.
BytesReturnOn(F, carrier, word, byte, v) ==
    LET floats == [i \in 1..Cardinality(DOMAIN v) |-> emulate_unpackcvt(F, carrier, byte, v, i - 1)]
    IN  emulate_packcvt(F, carrier, word, byte, floats) = v
\* What is packed is each float's nearest byte, and is unpacked as that number.
PacksOn(F, carrier, word, byte, x, y) ==
    LET v == emulate_packcvt(F, carrier, word, byte, <<x, y, y, x>>)
    IN  ~isNan(F, x) /\ ~isNan(F, y) /\ AddsExactly(F, word, x, "near") /\ AddsExactly(F, word, y, "near") =>
            \A i \in 0..3 :
                /\ v[i] = IntegerOf(F, IF i \in {1, 2} THEN y ELSE x, byte, "near", TRUE)
                /\ emulate_unpackcvt(F, carrier, byte, v, i) = NearestOf(F, v[i] * UnitsInOne(F), 1, FALSE)

(* A store followed by a load, and an atomic operation by another: what the *)
(* second returns is what the first left in memory, unless it returns       *)
(* nothing.                                                                 *)
MemoryHandedOnOn(t, a, b) ==
    LET stored == emulateMemMem("st", a, b)
        incremented == emulateAtomicMem(t, "add", emulateMemMem("ld", b, stored), 1, 0)
    IN  /\ emulateMemDst("ld", stored) = a /\ emulateMemDst("st", stored) = Undef
        /\ op_sub(t, emulateAtomicDst("atomic", incremented), emulateAtomicDst("atomic", stored)) = Val(t, 1)
        /\ emulateAtomicDst("atomicnoret", stored) = Undef
=============================================================================
