--------------------------- MODULE BarrierKernels ---------------------------
(***************************************************************************)
(* The kernels of hsail_conformance/core/BarrierTests.cpp and the results  *)
(* they expect.  ITERATION_NUMBER, LOOP_COUNT and DATA_ITEM_COUNT are      *)
(* bounds here: the tests use 32 or 256, 32 and 8.                         *)
(***************************************************************************)
EXTENDS KernelCode

CONSTANTS ITERATION_NUMBER, LOOP_COUNT, DATA_ITEM_COUNT

ASSUME NumbersAssumption ==
    ITERATION_NUMBER \in Nat \ {0} /\ LOOP_COUNT \in Nat \ {0} /\ DATA_ITEM_COUNT \in Nat \ {0}

VALUE1 == 123
VALUE2 == 456
VALUE3 == 789

-----------------------------------------------------------------------------
(* BarrierTest: every work-item does one atomic operation on one variable,  *)
(* of the group segment or of the global one, then all pass a barrier and   *)
(* load the variable.                                                       *)
sizeX(c) == IF c.segment = "group" THEN c.size ELSE GridSize(c)
Waves(c) == sizeX(c) \div c.wave
Ones(n) == 2^n - 1

\* BarrierTest::EmulateAtomicOperation: the variable before, the operand.
InitialValue(c) ==
    CASE c.atomicOp = "and" -> Ones(c.size \div c.wave)
      [] c.atomicOp \in {"min", "sub"} -> sizeX(c) + 1
      [] c.atomicOp = "wrapdec" -> sizeX(c)
      [] OTHER -> 0

WORD == 2^16 - 1    \* bound: the bits of a word that the cases use

BarrierOperand(c, wi) ==
    LET id == IF c.segment = "group" THEN FlatId(c, wi) ELSE wi
        bit == 2^(id \div c.wave)
    IN  CASE c.atomicOp = "max" -> id
          [] c.atomicOp = "min" -> sizeX(c) - id
          [] c.atomicOp = "or" -> bit
          [] c.atomicOp \in {"and", "xor"} -> WORD - bit
          [] c.atomicOp = "wrapinc" -> sizeX(c)
          [] c.atomicOp = "wrapdec" -> sizeX(c) + 1
          [] OTHER -> 1

\* BarrierTest::ExpectedResult.
BarrierExpected(c) ==
    CASE c.atomicOp \in {"wrapinc", "add"} -> sizeX(c)
      [] c.atomicOp \in {"and", "wrapdec"} -> 0
      [] c.atomicOp = "max" -> sizeX(c) - 1
      [] c.atomicOp \in {"or", "xor"} -> Ones(Waves(c))
      [] OTHER -> 1

BarrierVar(c, wi) ==
    IF c.segment = "group" THEN GroupVar(c, wi, "group_var", 0)
                           ELSE Global("global_var", 0)

\* The work-item of id 1 (for MIN, of the operand 1) stores the first value.
FirstValueStored(c, wi) ==
    LET wiID == IF c.atomicOp = "min" THEN sizeX(c) - FlatId(c, wi)
                                      ELSE FlatId(c, wi)
    IN  Only(wiID = 1, AtomicSt(BarrierVar(c, wi), Imm(InitialValue(c))))
        \o Barrier

\* An xor is done by the first work-item of each wavefront: the branch skips
\* the others.
SkipsXor(c, wi) == c.atomicOp = "xor" /\ LaneId(c, wi) > 0
BarrierTest(c, wi) ==
    Only(c.segment = "group", FirstValueStored(c, wi))
    \o Only(~SkipsXor(c, wi),
            Atomic(c.atomicOp, NoReg, BarrierVar(c, wi),
                   Imm(BarrierOperand(c, wi)), Imm(0)))
    \o Barrier
    \o AtomicLd(1, BarrierVar(c, wi))
    \o StoreData(wi, Reg(1))
-----------------------------------------------------------------------------
(* FBarrierDoubleBranchTest: the first wavefront of each group (or, in two  *)
(* of the tests, the odd ones) runs one branch and the others a second one. *)
EmitInit(c, wi) == InitfbarInFirstWI(c, wi, "fb") \o Joinfbar("fb") \o Barrier

EmitRelease(c, wi) ==
    Barrier \o Leavefbar("fb") \o Barrier \o ReleasefbarInFirstWI(c, wi, "fb")

IsFirstWave(c, wi) == FlatId(c, wi) < c.wave
IsOddWave(c, wi) == WaveInGroup(c, wi) % 2 = 1

(* FBarrierBasicTest: odd wavefronts store and wait, even ones wait and then*)
(* store in their own part of the output and in that of the next wavefront. *)
BasicOddLate(c, wi) ==                                      \* a variation
    Waitfbar("fb") \o St(Global("output", wi), Imm(VALUE1))
BasicOdd(c, wi) == AtomicSt(Global("output", wi), Imm(VALUE1)) \o Waitfbar("fb")
BasicEven(c, wi) ==
    Waitfbar("fb") \o AtomicSt(Global("output", wi), Imm(VALUE2))
    \o AtomicSt(Global("output", wi + c.wave), Imm(VALUE2))

FBarrierBasic(c, wi) ==
    EmitInit(c, wi)
    \o (IF IsOddWave(c, wi) THEN BasicOdd(c, wi) ELSE BasicEven(c, wi))
    \o EmitRelease(c, wi)

(* FBarrierFirstExampleTest: the first wavefront waits for the others to    *)
(* leave; FBarrierSecondExampleTest: it also waits alone on a second one.   *)
ExampleValue(c, wi) ==
    CASE FlatId(c, wi) < c.wave -> VALUE1
      [] FlatId(c, wi) \in c.wave..(2 * c.wave - 1) -> VALUE2
      [] OTHER -> VALUE3

FBarrierFirstExample(c, wi) ==
    EmitInit(c, wi)
    \o StoreData(wi, Imm(ExampleValue(c, wi)))
    \o Only(IsFirstWave(c, wi), Waitfbar("fb"))
    \o Leavefbar("fb")
    \o Barrier \o ReleasefbarInFirstWI(c, wi, "fb")

FBarrierSecondExample(c, wi) ==
    InitfbarInFirstWI(c, wi, "fb") \o InitfbarInFirstWI(c, wi, "fb1")
    \o Joinfbar("fb") \o Barrier
    \o (IF IsFirstWave(c, wi)
          THEN Joinfbar("fb1") \o Waitfbar("fb")
               \o StoreData(wi, Imm(VALUE1))
               \o Waitfbar("fb1") \o Leavefbar("fb1")
          ELSE StoreData(wi, Imm(ExampleValue(c, wi))) \o Waitfbar("fb"))
    \o EmitRelease(c, wi) \o ReleasefbarInFirstWI(c, wi, "fb1")
-----------------------------------------------------------------------------
(* FBarrierThirdExampleTest: odd wavefronts produce items in a buffer of the*)
(* group, even ones consume them; each signals the other through its own    *)
(* fbarrier.                                                                *)
ItemOf(c, wi) ==
    GroupVar(c, wi, "buffer",
             (WaveInGroup(c, wi) \div 2) * c.wave + LaneId(c, wi))
OutputOf(c, wi, counter) == Global("output", counter * GridSize(c) + wi)

Produce(c, wi) ==
    Repeat(DATA_ITEM_COUNT, LAMBDA counter :
        Waitfbar("consumed_fb")
        \o AtomicSt(ItemOf(c, wi), Imm(counter))
        \o Arrivefbar("fb")
        \o St(OutputOf(c, wi, counter), Imm(counter)))

ArriveAlways(c, wi) ==                                      \* a variation
    Arrivefbar("consumed_fb")
    \o Repeat(DATA_ITEM_COUNT, LAMBDA counter :
        Waitfbar("fb") \o AtomicLd(1, ItemOf(c, wi))
        \o Arrivefbar("consumed_fb") \o St(OutputOf(c, wi, counter), Reg(1)))

Consume(c, wi) ==
    Arrivefbar("consumed_fb")
    \o Repeat(DATA_ITEM_COUNT, LAMBDA counter :
        Waitfbar("fb")
        \o AtomicLd(1, ItemOf(c, wi))
        \o Only(counter # DATA_ITEM_COUNT - 1, Arrivefbar("consumed_fb"))
        \o St(OutputOf(c, wi, counter), Reg(1)))

FBarrierThirdExample(c, wi) ==
    InitfbarInFirstWI(c, wi, "fb") \o InitfbarInFirstWI(c, wi, "consumed_fb")
    \o Joinfbar("fb") \o Joinfbar("consumed_fb") \o Barrier
    \o (IF IsOddWave(c, wi) THEN Produce(c, wi) ELSE Consume(c, wi))
    \o Barrier \o Leavefbar("fb") \o Leavefbar("consumed_fb") \o Barrier
    \o ReleasefbarInFirstWI(c, wi, "fb")
    \o ReleasefbarInFirstWI(c, wi, "consumed_fb")
-----------------------------------------------------------------------------
(* LdfTest: the fbarrier is named by its address.                           *)
Ldf(c, wi) ==
    InitfbarInFirstWI(c, wi, "fb") \o Joinfbar("fb") \o Barrier
    \o Arrivefbar("fb") \o Barrier \o Waitfbar("fb") \o Barrier
    \o Leavefbar("fb") \o Barrier \o ReleasefbarInFirstWI(c, wi, "fb")
    \o StoreData(wi, Imm(1))

(* FBarrierPairOperationTest: the two branches repeat a pair of operations  *)
(* on fb, lined up by waits on fb1.                                         *)
FirstLoop(c) ==
    CASE c.pair = "wait_arrive" -> Waitfbar("fb1") \o Waitfbar("fb")
      [] c.pair = "wait_leave" ->
            Waitfbar("fb1") \o Waitfbar("fb") \o Waitfbar("fb1")
      [] c.pair = "arrive_leave" ->
            Waitfbar("fb1") \o Arrivefbar("fb") \o Waitfbar("fb1")

SecondLoop(c) ==
    CASE c.pair = "wait_arrive" -> Waitfbar("fb1") \o Arrivefbar("fb")
      [] c.pair \in {"wait_leave", "arrive_leave"} ->
            Waitfbar("fb1") \o Leavefbar("fb")
            \o Waitfbar("fb1") \o Joinfbar("fb")

FBarrierPair(c, wi) ==
    EmitInit(c, wi)
    \o InitfbarInFirstWI(c, wi, "fb1") \o Joinfbar("fb1") \o Barrier
    \o Repeat(ITERATION_NUMBER,
              LAMBDA i : IF IsFirstWave(c, wi) THEN FirstLoop(c) ELSE SecondLoop(c))
    \o EmitRelease(c, wi)
    \o Leavefbar("fb1") \o Barrier \o ReleasefbarInFirstWI(c, wi, "fb1")
    \o StoreData(wi, Imm(VALUE1))

(* FBarrierWaitRaceTest, FBarrierJoinLeaveTest, FBarrierJoinLeaveJoinTest.  *)
FBarrierWaitRace(c, wi) ==
    EmitInit(c, wi)
    \o Repeat(ITERATION_NUMBER, LAMBDA i : Waitfbar("fb"))
    \o EmitRelease(c, wi) \o StoreData(wi, Imm(1))

FBarrierJoinLeave(c, wi) ==
    InitfbarInFirstWI(c, wi, "fb")
    \o Repeat(LOOP_COUNT, LAMBDA i : Joinfbar("fb") \o Leavefbar("fb"))
    \o Barrier \o ReleasefbarInFirstWI(c, wi, "fb")
    \o StoreData(wi, Imm(VALUE1))

FBarrierJoinLeaveJoin(c, wi) ==
    InitfbarInFirstWI(c, wi, "fb") \o Barrier
    \o Joinfbar("fb") \o Leavefbar("fb") \o Joinfbar("fb")
    \o Barrier \o Waitfbar("fb") \o Barrier
    \o Leavefbar("fb") \o Barrier \o ReleasefbarInFirstWI(c, wi, "fb")
    \o StoreData(wi, Imm(1))
=============================================================================
