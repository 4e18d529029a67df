--------------------------- MODULE WaitingKernels ---------------------------
(***************************************************************************)
(* Kernels whose work-items wait for each other at flags in memory: of the *)
(* tests of memory fences (hsail_conformance/core/MemoryFenceTests.cpp),   *)
(* of the execution model (ExecModelTests.cpp), and of those that compare  *)
(* an identifier with that of the work-item before                         *)
(* (MiscOperationsTests.cpp).                                              *)
(*                                                                         *)
(* A case of a fence test has the segments of its variables and `flag',    *)
(* what the flags hold when the kernel starts: no code initialises them.   *)
(* The fences themselves have nothing to do in the sequentially consistent *)
(* memory of KernelExecution, so that their orders and scopes are left out.*)
(***************************************************************************)
EXTENDS AtomicKernels

FenceVar(c, wi, segment, name) ==
    IF segment = "group" THEN GroupVar(c, wi, name, 0) ELSE Global(name, 0)
FenceFlag(i) == Global("global_flag", i)

\* GetInputValueForWI and GetInputValue2ForWI.
InputValue == 7
InputValue2 == 3

\* MemoryFenceTest::Result and MemoryFenceCompoundTest::Result: the work-items
\* of the last wavefront store, and set the flag on which the others wait.
lastWaveFront(c) == GridSize(c) \div c.wave - 1
StoresFirst(c, wi) == wi \div c.wave = lastWaveFront(c)

FenceExchange(c, wi, stores) ==
    Only(StoresFirst(c, wi), stores \o AtomicSt(FenceFlag(0), Imm(1)))
    \o Only(~StoresFirst(c, wi), LoopUntil(FenceFlag(0), "eq", Imm(1)))

MemoryFence(c, wi) ==
    LET var == FenceVar(c, wi, c.segment, "fence_var")
    IN  FenceExchange(c, wi, St(var, Imm(InputValue)))
        \o Ld(1, var)
        \o StoreData(wi, Reg(1))

MemoryFenceCompound(c, wi) ==
    LET var == FenceVar(c, wi, c.segment, "fence_var")
        var2 == FenceVar(c, wi, c.segment2, "fence_var_2")
    IN  FenceExchange(c, wi, St(var, Imm(InputValue)) \o St(var2, Imm(InputValue2)))
        \o Ld(1, var) \o Ld(2, var2)
        \o StoreData(wi, SumOf(1, 2))

\* MemoryFenceArrayTest::Result: each work-item gives its id to the one at the
\* other end of the grid.
Opposite(c, wi) == GridSize(c) - 1 - wi
MemoryFenceArray(c, wi) ==
    St(Global("fence_var", wi), Imm(wi))
    \o AtomicSt(FenceFlag(wi), Imm(wi))
    \o LoopUntil(FenceFlag(Opposite(c, wi)), "eq", Imm(Opposite(c, wi)))
    \o Ld(1, Global("fence_var", Opposite(c, wi)))
    \o StoreData(wi, Reg(1))

FenceExpected(c, wi) ==
    CASE c.test = "fence"          -> InputValue
      [] c.test = "fence_compound" -> InputValue + InputValue2
      [] c.test = "fence_array"    -> Opposite(c, wi)

\* IsValid, where it depends on what a case has.
FenceIsValid(c) ==
    /\ c.segment = "group" => c.groups = 1 /\ c.test # "fence_array"
    /\ c.test = "fence_compound" => (c.segment2 = "group" => c.groups = 1)
-----------------------------------------------------------------------------
\* ExecModelTest::KernelCode: later work-groups wait for earlier ones.
RES_VAL_FAILED == 0
RES_VAL_PASSED == 1
SetRes(wi, x) == AtomicSt(Global("output", wi), Imm(x))
ExecModel(c, wi) ==
    SetRes(wi, RES_VAL_FAILED)
    \o CheckPrevWg(c, wi)
    \o SetRes(wi, RES_VAL_PASSED)
-----------------------------------------------------------------------------
(* Identifiers: in a buffer of the work-group for cuid and waveid, in one of *)
(* the grid for maxcuid and maxwaveid, where each work-group waits for the   *)
(* flag of the one before.                                                   *)
\* GroupBufferIdentityTest and GlobalBufferIdentityTest: the buffer.
IsGlobal(c) == c.value \in {"maxcuid", "maxwaveid"}
BufferAt(c, wi, id) == IF IsGlobal(c) THEN Global("buffer", id) ELSE GroupVar(c, wi, "buffer", id)

\* EmitWorkItemId: of a grid, in chunks by work-groups.
WorkItemId(c, wi) == IF IsGlobal(c) THEN GroupOf(c, wi) * c.size + FlatId(c, wi) ELSE FlatId(c, wi)

\* EmitCompareValue: what the agent says of where the work-item runs.
CompareValue(c, wi) ==
    CASE c.value = "cuid"      -> GroupOf(c, wi)
      [] c.value = "waveid"    -> WaveInGroup(c, wi)
      [] c.value = "maxcuid"   -> c.groups - 1
      [] c.value = "maxwaveid" -> c.size - 1

\* EmitWaitWorkgroup: for the work-group before, where there is one.
FLAG_VALUE == 1
GroupFlag(g) == Global("flags", g)
WaitWorkgroup(c, wi) ==
    IF IsGlobal(c)
    THEN Barrier
         \o AtomicSt(GroupFlag(GroupOf(c, wi)), Imm(FLAG_VALUE))
         \o Barrier
         \o Only(GroupOf(c, wi) # 0, LoopUntil(GroupFlag(GroupOf(c, wi) - 1), "eq", Imm(FLAG_VALUE)))
    ELSE Barrier

\* EmitIsFirst, which for waveid is the first of each wavefront.
IsFirst(c, wi) == (IF c.value = "waveid" THEN WorkItemId(c, wi) % c.wave ELSE WorkItemId(c, wi)) = 0

BufferIdentity(c, wi) ==
    AtomicSt(BufferAt(c, wi, WorkItemId(c, wi)), Imm(CompareValue(c, wi)))
    \o WaitWorkgroup(c, wi)
    \o (IF IsFirst(c, wi) THEN StoreData(wi, Imm(1))
        ELSE AtomicLd(1, BufferAt(c, wi, WorkItemId(c, wi) - 1))
             \o StoreData(wi, EqualTo(1, CompareValue(c, wi))))

BufferIdentityIsValid(c) == IsGlobal(c) => c.last = c.size
=============================================================================
