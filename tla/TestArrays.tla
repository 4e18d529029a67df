----------------------------- MODULE TestArrays -----------------------------
(***************************************************************************)
(* Where the kernels of the test generator find their data (the backend    *)
(* HSAILTestGenBackendEml.h), and where the host puts it (HexlTestGen.cpp). *)
(* A kernel has an array for each source operand, for its destination and   *)
(* for the memory that the instruction changes, with an element for each    *)
(* work-item and test.  An instruction that accesses memory does so in an   *)
(* array of its segment, the memory test array: a bundle for each test,     *)
(* with a footer that keeps the next bundle from being better aligned than  *)
(* the instruction asks for.                                                *)
(*                                                                          *)
(* An instruction is a record: ldst tells ld and st from atomics, region is *)
(* "private" (private, spill), "group" or "global" (global, readonly), elem *)
(* the size of an element in bits, dim the elements of a vector, align the  *)
(* alignment in bytes.  A group of tests is a record of its groupSize tests *)
(* per work-item and its groupsNum work-items.  Sizes are bits, addresses   *)
(* bytes, as in the code.                                                   *)
(***************************************************************************)
EXTENDS Naturals, FiniteSets

MIN_GROUP_SEGMENT_SIZE == 32 * 1024
MIN_PRIVATE_REGION_SIZE == 64 * 1024
getMaxSegmentOverhead == 256

FlatSize(g) == g.groupSize * g.groupsNum
-----------------------------------------------------------------------------
(* The memory test array.                                                   *)
getSlotSize(size) == IF size <= 32 THEN 32 ELSE size
getMemDataAtomSize(i) == IF i.ldst THEN 8 ELSE getSlotSize(i.elem)
getMemTestArrayBundleOffset(i) == IF i.ldst THEN i.align * 8 ELSE 0
getMemTestArrayBundleDataSize(i) == i.elem * i.dim
getMemTestArrayBundleDataAlignSize(i) == IF i.ldst /\ i.dim = 3 THEN i.elem ELSE 0
AlignedFooter(i) ==    \* a variation: the next bundle is aligned, but not minimally
    LET size == getMemTestArrayBundleDataSize(i)
    IN  IF ~i.ldst THEN 0 ELSE IF i.align * 8 > size THEN i.align * 8 - size
        ELSE getMemTestArrayBundleDataAlignSize(i)
getFooterSize(i) ==
    LET size == getMemTestArrayBundleDataSize(i)
    IN  IF ~i.ldst THEN 0 ELSE IF i.align * 8 * 2 > size THEN i.align * 8 * 2 - size
        ELSE getMemTestArrayBundleDataAlignSize(i)
getMemTestArrayBundleSize(i) == getMemTestArrayBundleDataSize(i) + getFooterSize(i)
getMemTestArrayBundlesNum(i, g) == IF i.region = "private" THEN g.groupSize ELSE FlatSize(g)
getMemTestArraySizeInBytes(i, g) ==
    (getMemTestArrayBundleOffset(i) - getFooterSize(i)
        + getMemTestArrayBundleSize(i) * getMemTestArrayBundlesNum(i, g)) \div 8
getMemTestArrayDeclDim(i, g) ==    \* in atoms: bytes for ld and st, elements otherwise
    getMemTestArraySizeInBytes(i, g) \div (IF i.ldst THEN 1 ELSE i.elem \div 8)

\* The most tests for which the memory that any agent has is enough; 0 is no limit.
getMaxTotalTestNum(i) ==
    LET bundle == getMemTestArrayBundleSize(i) \div 8
    IN  CASE ~i.ldst \/ i.region = "global" -> 0
          [] i.region = "group" -> (MIN_GROUP_SEGMENT_SIZE - getMaxSegmentOverhead) \div bundle
          [] i.region = "private" -> MIN_PRIVATE_REGION_SIZE \div (bundle + getMaxSegmentOverhead)

initIdReg(g, item, tstIdx) == item * g.groupSize + tstIdx
loadMemIndexReg(i, g, item, tstIdx) ==
    (IF i.region = "private" THEN tstIdx ELSE initIdReg(g, item, tstIdx))
        * (getMemTestArrayBundleSize(i) \div 8)
getMemTestArrayAddr(i, g, item, tstIdx) ==
    loadMemIndexReg(i, g, item, tstIdx) + getMemTestArrayBundleOffset(i) \div 8

\* memTestArrayInitializer: where the value of element k of a test is put, and the length.
InitializerPos(i, flatIdx, k) ==
    getMemTestArrayBundleOffset(i) \div 8 + flatIdx * (getMemTestArrayBundleSize(i) \div 8)
        + k * (i.elem \div 8)
InitializerSize(i, g) == InitializerPos(i, FlatSize(g) - 1, i.dim)
-----------------------------------------------------------------------------
(* The arrays of values.  A byte of a value is its number, or Extension for *)
(* the bytes by which the host extends small integers to 32 bits.           *)
Extension == 255
ByteOf(n, m) == IF m < n \div 8 THEN m ELSE Extension

\* Val2Value: halves take 2 bytes each, other small values 4.
HostSize(elem, f16) == IF f16 THEN elem \div 8 ELSE getSlotSize(elem) \div 8
HostBytes(elem, f16, dim, flatIdx) ==
    {<<(flatIdx * dim + k) * HostSize(elem, f16) + m, k, ByteOf(elem, m)>> :
        k \in 0..(dim - 1), m \in 0..(HostSize(elem, f16) - 1)}

\* initSrcVal, saveDstVal: the elements of a register or vector, b1 by way of b32.
RegisterSize(elem, f16) == IF f16 THEN 16 ELSE getSlotSize(elem)
RegisterBytes(elem, f16, dim, id) ==
    {<<(id * dim + k) * (RegisterSize(elem, f16) \div 8) + m, k, ByteOf(elem, m)>> :
        k \in 0..(dim - 1), m \in 0..(RegisterSize(elem, f16) \div 8 - 1)}

(* copyMemTestArray: atom m of element i is at DataAddr in the array and at  *)
(* MemAddr in the memory test array.  When results are saved, the sign of    *)
(* the last byte of a small integer is put into the bytes that follow it.    *)
dataSlotSize(i) == IF i.f16 THEN 16 ELSE getSlotSize(i.elem)
memDim(i) == LET n == i.elem \div getMemDataAtomSize(i) IN IF n < 1 THEN 1 ELSE n
DataAddr(i, id, e, m) == id * ((dataSlotSize(i) * i.dim) \div 8) + (dataSlotSize(i) \div 8) * e + m
MemAddr(i, g, item, tstIdx, e, m) ==
    loadMemIndexReg(i, g, item, tstIdx) + ((i.elem + 7) \div 8) * e
        + m + getMemTestArrayBundleOffset(i) \div 8
Atoms(i) == (0..(i.dim - 1)) \X (0..(memDim(i) - 1)) \X (0..(getMemDataAtomSize(i) \div 8 - 1))
initMemTestArray(i, g, item, tstIdx) ==
    {<<DataAddr(i, initIdReg(g, item, tstIdx), a[1], a[2]) + a[3], MemAddr(i, g, item, tstIdx, a[1], a[2]) + a[3]>> :
        a \in Atoms(i)}
ForgetsSign(i, g, item, tstIdx) ==    \* a variation
    {<<DataAddr(i, initIdReg(g, item, tstIdx), a[1], a[2]) + a[3], a[1], a[2] + a[3]>> : a \in Atoms(i)}
saveMemTestArray(i, g, item, tstIdx) ==
    {<<DataAddr(i, initIdReg(g, item, tstIdx), a[1], a[2]) + a[3], a[1], a[2] + a[3]>> : a \in Atoms(i)}
    \cup IF i.elem >= 32 \/ i.f16 THEN {}
         ELSE {<<DataAddr(i, initIdReg(g, item, tstIdx), e, m), e, Extension>> :
                e \in 0..(i.dim - 1), m \in memDim(i)..3}
-----------------------------------------------------------------------------
(* The order of the arguments of a kernel: operands first..last, the        *)
(* destination if the first operand is one, and the memory.                 *)
getSrcArrayIdx(first, idx) == idx - first
getDstArrayIdx(first, last) == last - first + 1
getMemArrayIdx(first, last, hasDst) == last - first + (IF hasDst THEN 2 ELSE 1)
defKernelArgs(first, last, hasDst, hasMem) ==
    {<<n - first, "src", n>> : n \in first..last}
    \cup (IF hasDst THEN {<<last - first + 1, "dst", 0>>} ELSE {})
    \cup (IF hasMem THEN {<<last - first + (IF hasDst THEN 2 ELSE 1), "mem", 0>>} ELSE {})

ArgumentsFoundOn(first, last, hasMem) ==
    LET hasDst == first > 0
        args == defKernelArgs(first, last, hasDst, hasMem)
    IN  /\ \A n \in first..last : <<getSrcArrayIdx(first, n), "src", n>> \in args
        /\ hasDst => <<getDstArrayIdx(first, last), "dst", 0>> \in args
        /\ hasMem => <<getMemArrayIdx(first, last, hasDst), "mem", 0>> \in args
        /\ Cardinality({a[1] : a \in args}) = Cardinality(args)
-----------------------------------------------------------------------------
ItemsAndTests(g) == (0..(g.groupsNum - 1)) \X (0..(g.groupSize - 1))
Accessed(i, g, w, t) ==
    LET at == getMemTestArrayAddr(i, g, w, t) IN at..(at + i.dim * (i.elem \div 8) - 1)

\* Tests access disjoint memory inside the array, aligned as the instruction asks and not better.
BundlesFit(i, g, size) ==
    /\ \A p \in ItemsAndTests(g) :
        LET at == getMemTestArrayAddr(i, g, p[1], p[2])
        IN  /\ Accessed(i, g, p[1], p[2]) \subseteq 0..(size - 1)
            /\ i.ldst => at % i.align = 0 /\ at % (2 * i.align) # 0
            /\ ~i.ldst => at % (i.elem \div 8) = 0
    /\ \A p, q \in ItemsAndTests(g) :
        p # q /\ (i.region = "private" => p[1] = q[1]) =>
            Accessed(i, g, p[1], p[2]) \cap Accessed(i, g, q[1], q[2]) = {}
    /\ i.region = "global" =>
        /\ InitializerSize(i, g) = size
        /\ \A p \in ItemsAndTests(g), k \in 0..(i.dim - 1) :
             InitializerPos(i, initIdReg(g, p[1], p[2]), k)
                = getMemTestArrayAddr(i, g, p[1], p[2]) + k * (i.elem \div 8)

\* What the kernel copies is what the host wrote, and what it saves is where the host looks.
ValuesFound(i, g) ==
    \A p \in ItemsAndTests(g) :
        LET id == initIdReg(g, p[1], p[2])
            at == getMemTestArrayAddr(i, g, p[1], p[2])
            host == HostBytes(i.elem, i.f16, i.dim, id)
        IN  /\ RegisterBytes(i.elem, i.f16, i.dim, id) = host
            /\ saveMemTestArray(i, g, p[1], p[2]) = host
            /\ {<<b[2] * (i.elem \div 8) + b[3] + at, b[1]>> : b \in {h \in host : h[3] # Extension}}
                = {<<c[2], c[1]>> : c \in initMemTestArray(i, g, p[1], p[2])}

\* As many tests as getMaxTotalTestNum allows fit into the segment of any agent, which
\* holds the array of a work-group, or the ones of its work-items, each aligned anew.
AlignedUp(size) == ((size + 255) \div 256) * 256
SegmentHolds(i, g, size) ==
    /\ i.region = "group" => size <= MIN_GROUP_SEGMENT_SIZE
    /\ i.region = "private" => g.groupsNum * AlignedUp(size) <= MIN_PRIVATE_REGION_SIZE

ArraysFitOn(i, g) ==
    LET size == getMemTestArrayDeclDim(i, g) * (IF i.ldst THEN 1 ELSE i.elem \div 8)
    IN  BundlesFit(i, g, size) /\ ValuesFound(i, g)
LimitHoldsOn(i, groupSize) ==
    i.ldst /\ i.region # "global" =>
        LET g == [groupSize |-> groupSize, groupsNum |-> getMaxTotalTestNum(i) \div groupSize]
        IN  g.groupsNum > 0 => SegmentHolds(i, g, getMemTestArraySizeInBytes(i, g))
=============================================================================
