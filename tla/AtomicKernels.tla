--------------------------- MODULE AtomicKernels ---------------------------
(***************************************************************************)
(* The kernel of hsail_conformance/core/AtomicTests.cpp and the flags it   *)
(* expects.  Every work-item does the tested operation on one variable and *)
(* checks what the operation returned and what the variable holds at last; *)
(* a check of a returned value sets its flag in the result of another work-*)
(* item, so that the flags are all there only if the values differ.        *)
(*                                                                         *)
(* A case has the operation `op', the segment that the operation names,    *)
(* `mapFlat2Group' (where a flat address points to) and `noret'.           *)
(***************************************************************************)
EXTENDS KernelCode, FiniteSets

testSize(c) == GridSize(c)

\* AtomicTest::SetTestKind.  A group has whole wavefronts, or is smaller.
testKind(c) ==
    CASE c.groups > 1                 -> "agent"
      [] GridSize(c) > c.wave         -> "wgroup"
      [] OTHER                        -> "wave"

FLAG_MEM == 1
FLAG_DST == 2
FLAG_VLD_MEM == 4
FLAG_VLD_DST == 8
-----------------------------------------------------------------------------
(* AtomicTestProp and the classes derived from it.                          *)
Encryptable(c) == c.op \notin {"and", "or", "xor", "wrapinc", "wrapdec"}
ALL_BITS(c) == 2^testSize(c) - 1    \* the type has as many bits as work-items
MAX_VALUE == 2147483647            \* bound: the largest value of the type
\* AtomicTestPropFactory::CreateProp; ld has no test.
AtomicOps == {"add", "and", "cas", "exch", "max", "min", "or", "st", "sub",
              "wrapdec", "wrapinc", "xor"}
PopCount(c, x) == Cardinality({b \in 0..(testSize(c) - 1) : (x \div 2^b) % 2 = 1})

InitialVar(c) ==
    CASE c.op \in {"sub", "wrapdec", "exch", "cas", "st"} -> testSize(c)
      [] c.op = "and" -> ALL_BITS(c)
      [] c.op = "min" -> testSize(c) - 1
      [] OTHER -> 0

AtomicOperand(c, wi) ==
    CASE c.op \in {"add", "sub"} -> 1
      [] c.op \in {"or", "xor"} -> 2^wi
      [] c.op = "and" -> ALL_BITS(c) - 2^wi
      [] c.op \in {"wrapinc", "wrapdec"} -> MAX_VALUE
      [] c.op = "cas" -> InitialVar(c)     \* what it compares with
      [] c.op \in {"max", "min", "exch", "st"} -> wi
\* What cas stores.
AtomicOperand1(c, wi) == IF c.op = "cas" THEN wi ELSE 0

\* How many operations were done before the one that returned dst, where the
\* value tells it.
DstOrder(c, dst) ==
    CASE c.op \in {"add", "wrapinc", "exch"} -> dst
      [] c.op \in {"sub", "wrapdec"} -> testSize(c) - dst
      [] c.op \in {"or", "xor"} -> PopCount(c, dst)
      [] c.op = "and" -> testSize(c) - PopCount(c, dst)

Least(x, y) == IF x < y THEN x ELSE y
DstIndex(c, wi, dst) ==
    IF c.op \in {"max", "min", "cas"} THEN wi
    ELSE Least(DstOrder(c, dst), testSize(c) - 1)

\* One work-item stores its value, and the others find it.
CasDstCond(c, wi, dst, mem) ==
    \/ dst = InitialVar(c) /\ mem = wi
    \/ dst = mem /\ mem # wi
DstCond(c, wi, dst, mem) ==
    CASE c.op \in {"max", "min"} -> dst < testSize(c)
      [] c.op = "cas" -> CasDstCond(c, wi, dst, mem)
      [] OTHER -> DstOrder(c, dst) < testSize(c)

MemCond(c, mem) ==
    CASE c.op \in {"add", "wrapinc"} -> mem = testSize(c)
      [] c.op \in {"sub", "wrapdec", "and", "min"} -> mem = 0
      [] c.op \in {"or", "xor"} -> mem = ALL_BITS(c)
      [] c.op = "max" -> mem = testSize(c) - 1
      [] OTHER -> mem < testSize(c)

MemCondAgent(c, mem) ==
    CASE c.op \in {"add", "wrapinc"} -> mem > 0 /\ mem <= testSize(c)
      [] c.op \in {"or", "xor"} -> mem # 0
      [] c.op = "and" -> mem # ALL_BITS(c)
      [] OTHER -> mem < testSize(c)

\* Only the last work-group is sure to see the final value.
MemCondFirst(c, wi, mem) == MemCond(c, mem)                  \* a variation
MemCondOf(c, wi, mem) ==
    IF testKind(c) = "agent" /\ GroupOf(c, wi) # c.groups - 1
    THEN MemCondAgent(c, mem) ELSE MemCond(c, mem)

ExchIndex(c, mem) == Least(mem, testSize(c) - 1)
ExchCond(c, wi, dst) ==
    IF testKind(c) = "agent" THEN wi = testSize(c) - 1 ELSE dst = testSize(c)
-----------------------------------------------------------------------------
(* AtomicTest::Key, EncodeRt, DecodeRt and VerifyRt, for a 32-bit type.     *)
Key(c) == IF ~Encryptable(c) THEN 1
          ELSE CASE testSize(c) <= 64 -> 16843009        \* 0x01010101
                 [] testSize(c) \in 65..16384 -> 65537   \* 0x00010001
                 [] OTHER -> 1
Encode(c, x) == x * Key(c)
Decode(c, x) == x \div Key(c)
Verified(c, x) == x % Key(c) = 0

(* AtomicTest::SetFlag: where each check puts its flag, and when.  DST and  *)
(* MEM are the registers with what the operation returned and the variable. *)
DST == 1
MEM == 2
FlagIndex(c, wi, check, regs) ==
    CASE check = "dst" -> DstIndex(c, wi, Decode(c, regs[DST]))
      [] check = "exch" -> ExchIndex(c, Decode(c, regs[MEM]))
      [] OTHER -> wi

FlagValue(c, wi, check, regs) ==
    LET dst == Decode(c, regs[DST])
        mem == Decode(c, regs[MEM])
    IN  CASE check = "vld_dst" -> IF Verified(c, regs[DST]) THEN FLAG_VLD_DST ELSE 0
          [] check = "vld_mem" -> IF Verified(c, regs[MEM]) THEN FLAG_VLD_MEM ELSE 0
          [] check = "mem" -> IF MemCondOf(c, wi, mem) THEN FLAG_MEM ELSE 0
          [] check = "dst" -> IF DstCond(c, wi, dst, mem) THEN FLAG_DST ELSE 0
          [] check = "exch" -> IF ExchCond(c, wi, dst) THEN FLAG_DST ELSE 0

SetFlag(check) == Atomic("add", NoReg, <<"flag", check>>, <<"flag", check>>, Imm(0))
-----------------------------------------------------------------------------
(* AtomicTest::KernelCode.                                                  *)
VarSegment(c) ==
    IF c.segment = "flat" THEN (IF c.mapFlat2Group THEN "group" ELSE "global")
    ELSE c.segment
\* The variable of ModuleVariables, at the address that LoadVarAddr loads.
AtomicVar(c, wi) ==
    IF VarSegment(c) = "group" THEN GroupVar(c, wi, "atomic_var", 0)
                           ELSE Global("atomic_var", 0)
GroupComplete(g) == Global("group_complete", g)

Synchronize(c) == IF testKind(c) = "wave" THEN WaveBarrier ELSE Barrier

\* AtomicTestHelper::CheckPrevWg: wait until the previous work-group is done,
\* then count this work-item.
IncWgComplete(c, wi) ==
    Atomic("add", NoReg, GroupComplete(GroupOf(c, wi) + 1), Imm(1), Imm(0))
CheckOwnWg(c, wi) ==                                        \* a variation
    LoopUntil(GroupComplete(GroupOf(c, wi) + 1), "ge", Imm(c.size)) \o IncWgComplete(c, wi)
CheckPrevWg(c, wi) ==
    LoopUntil(GroupComplete(GroupOf(c, wi)), "ge", Imm(c.size)) \o IncWgComplete(c, wi)
WaitForPrevWg(c, wi) == Only(testKind(c) = "agent", CheckPrevWg(c, wi))

InitVar(c, wi) ==
    Only(VarSegment(c) = "group" /\ wi = 0,
         AtomicSt(AtomicVar(c, wi), Imm(Encode(c, InitialVar(c)))))
InitRes(c, wi) == AtomicSt(Global("output", wi), Imm(0))
\* AtomicOperands: encoded, where the operation keeps what the key has made.
AtomicOperands(c, wi) == <<Imm(Encode(c, AtomicOperand(c, wi))), Imm(Encode(c, AtomicOperand1(c, wi)))>>
AtomicInst(c, wi, operands) ==
    Atomic(c.op, IF c.noret THEN NoReg ELSE DST, AtomicVar(c, wi), operands[1], operands[2])
LdVar(c, wi) == AtomicLd(MEM, AtomicVar(c, wi))
DecodeDst(c) == Only(~c.noret /\ Encryptable(c), SetFlag("vld_dst"))
DecodeMem(c, wi) == LdVar(c, wi) \o Only(Encryptable(c), SetFlag("vld_mem"))

AtomicTest(c, wi) ==
    InitVar(c, wi) \o InitRes(c, wi)
    \o Synchronize(c)
    \o AtomicInst(c, wi, AtomicOperands(c, wi))
    \o Synchronize(c)
    \o WaitForPrevWg(c, wi)
    \o DecodeDst(c) \o DecodeMem(c, wi)
    \o SetFlag("mem")
    \o Only(~c.noret /\ c.op # "st", SetFlag("dst"))
    \o Only(~c.noret /\ c.op = "exch", SetFlag("exch"))

\* AtomicTest::ExpectedResult.
AtomicExpected(c) ==
    FLAG_MEM + (IF Encryptable(c) THEN FLAG_VLD_MEM ELSE 0)
    + (IF c.noret THEN 0
       ELSE FLAG_DST + (IF Encryptable(c) THEN FLAG_VLD_DST ELSE 0))

-----------------------------------------------------------------------------
(* Which of the combinations are tests: of an operation, a type of a kind   *)
(* and bits, a memory order and a memory scope, and a geometry.             *)
IsValidAtomicOp(op, noret) ==
    /\ op \in {"exch", "cas", "ld"} => ~noret
    /\ op = "st" => noret
IsValidAtomicType(op, type) ==
    CASE op \in {"wrapinc", "wrapdec"} -> type.kind = "unsigned"
      [] op \in {"add", "sub", "max", "min"} -> type.kind \in {"signed", "unsigned"}
      [] OTHER -> type.kind = "bits"
IsValidAtomicOrder(op, order) ==
    CASE op = "st" -> order \in {"release", "relaxed"}
      [] op = "ld" -> order \in {"acquire", "relaxed"}
      [] OTHER -> TRUE
IsValidScope(segment, scope) ==
    IF segment = "group" THEN scope \in {"wave", "workgroup"}
    ELSE scope \in {"wave", "workgroup", "agent", "system"}
IsValidAtomic(c, type, order, scope) ==
    /\ IsValidAtomicOp(c.op, c.noret)
    /\ IsValidAtomicType(c.op, type)
    /\ IsValidAtomicOrder(c.op, order)
    /\ IsValidScope(c.segment, scope)

isValidTestSegment(c) == testKind(c) = "agent" => VarSegment(c) # "group"
isValidTestScope(c, scope) ==
    CASE testKind(c) = "wgroup" -> scope # "wave"
      [] testKind(c) = "agent" -> scope \notin {"wave", "workgroup"}
      [] OTHER -> TRUE
AtomicWaves(c) == GridSize(c) \div Least(c.wave, c.size)
IsValidGrid(c, type, scope) ==
    /\ scope = "wave" => AtomicWaves(c) = 1
    /\ scope = "workgroup" => c.groups = 1
    /\ c.op \in {"and", "or", "xor"} => type.bits = GridSize(c)
AtomicIsValid(c, type, order, scope) ==
    /\ IsValidAtomic(c, type, order, scope)
    /\ isValidTestSegment(c)
    /\ isValidTestScope(c, scope)
    /\ IsValidGrid(c, type, scope)
    /\ c.op # "ld"
=============================================================================
