----------------------------- MODULE LimitsTests -----------------------------
(***************************************************************************)
(* The tests of limits (LimitsTests.cpp) use just as much as an agent must *)
(* have: registers, memory of a segment, equivalence classes, work-items.  *)
(* An agent that has less is one on which some register or some byte does  *)
(* not hold what was put there.                                            *)
(***************************************************************************)
EXTENDS EmittedTests, Bitwise

\* Equivalence classes: instruction i accesses variable i in class i.
EquivalenceClassesLimitsTest(limit) == [i \in 0..(limit - 1) |-> [memory |-> i, class |-> i]]
EquivalenceOpcodes == {"ld", "st"}
AtomicReturning == {"ld", "and", "or", "xor", "exch", "add", "sub", "wrapinc", "wrapdec", "max", "min", "cas"}
AtomicNoReturn == {"st", "and", "or", "xor", "add", "sub", "wrapinc", "wrapdec", "max", "min"}
IsValidEquivalence(opcode, operation) ==
    \/ opcode = "atomic" /\ operation \in AtomicReturning
    \/ opcode = "atomicnoret" /\ operation \in AtomicNoReturn
\* Whether the instruction has a destination.
EmitEquivInstruction(opcode) == opcode # "atomicnoret"

\* Sizes of work-groups, waves and grids.
WorkGroupSizeLimitIsValid(geometry) == geometry.workgroupSize >= 256 /\ ~geometry.isPartial
WorkGroupSizeLimitTest(reported) == IF reported[1] * reported[2] * reported[3] >= 256 THEN 1 ELSE 0
WavesizeLimitTest(wavesize) ==
    IF wavesize >= 1 /\ wavesize <= 256 /\ (wavesize & (wavesize - 1)) = 0 THEN 1 ELSE 0
DimsLimitTest(geometry, reported) == IF \A i \in 1..3 : reported[i] = geometry[i] THEN 1 ELSE 0
-----------------------------------------------------------------------------
(* Memory.  The work-items of a group store and load the first and the last *)
(* value of a variable that fills the segment; kernarg and arg memory are   *)
(* filled by the caller, and share the segment with the result.             *)
Limit(segment) ==
    CASE segment = "group" -> 32768
      [] segment = "private" -> 256
      [] segment = "kernarg" -> 1024 - 8
      [] segment = "arg" -> 64 - 8
ValueBytes(segment) == IF segment = "arg" THEN 8 ELSE 4
VarSize(segment) == Limit(segment) \div ValueBytes(segment)
InitializeVariable(segment) ==
    IF segment = "arg" THEN Parameter("var", ValueBytes(segment), VarSize(segment), FALSE)
    ELSE EVariable("var", segment, "auto", ValueBytes(segment), VarSize(segment),
                   IF segment = "kernarg" THEN VarSize(segment) ELSE 0)
MemoryIsValid(segment, geometry) ==
    CASE segment = "group" -> geometry.gridGroups = 1
      [] segment = "private" -> geometry.workgroupSize = 256 /\ ~geometry.isPartial
      [] segment = "kernarg" -> TRUE
      [] segment = "arg" -> VarSize(segment) <= 16
LastOffset(segment) == Limit(segment) - ValueBytes(segment)
\* The value: a constant, or the work-item's number in private memory.
EmitValue(segment, wi) == IF segment = "private" THEN wi ELSE 42
\* What the memory holds after the stores of work-item wi, or of the first one.
EmitInitialization(segment, wi) ==
    CASE segment \in {"group", "private"} ->
            [o \in {0, LastOffset(segment)} |-> EmitValue(segment, IF segment = "group" THEN 0 ELSE wi)]
      [] segment \in {"kernarg", "arg"} ->
            [o \in {i * ValueBytes(segment) : i \in 0..(VarSize(segment) - 1)} |-> EmitValue(segment, wi)]
\* On an agent whose segment ends at "bytes", what is beyond reads as -1.
Read(memory, offset, size, bytes) == IF offset + size <= bytes THEN memory[offset] ELSE -1
MemorySegmentSizeLimitTest(segment, wi, bytes) ==
    LET memory == EmitInitialization(segment, wi)
        loaded(offset) == Read(memory, offset, ValueBytes(segment), bytes)
    IN  IF loaded(0) # EmitValue(segment, wi) \/ loaded(LastOffset(segment)) # EmitValue(segment, wi) THEN 0 ELSE 1
-----------------------------------------------------------------------------
(* Registers: sizes in bits; the condition registers have one bit.         *)
Copies(n, bits) == [i \in 1..n |-> bits]
CreateRegisters(kind) ==
    CASE kind = "s" -> Copies(128 \div (32 \div 32), 32)
      [] kind = "d" -> Copies(128 \div (64 \div 32), 64)
      [] kind = "q" -> Copies(128 \div (128 \div 32), 128)
      [] kind = "sdq" -> Copies(42, 32) \o Copies(21, 64) \o Copies(11, 128)
      [] kind = "c" -> Copies(8, 1)
Slots(registers) == FoldLeft(LAMBDA n, bits : n + bits \div 32, 0, registers)
SDQIsValid(registers) == Slots(registers) <= 128
\* Registers of 128 bits are stored to and not compared.
CompareValues(registers, held) == \A i \in DOMAIN registers : registers[i] = 128 \/ i \in held
RegisterLimitTest(registers, held) == IF CompareValues(registers, held) THEN 1 ELSE 0

\* Live registers are loaded from a buffer of "limit" elements, and stored
\* there again after its words are cleared; nothing compares them.
LiveBuffer(kind) ==
    CASE kind \in {"s", "sdq"} -> [elements |-> 128, bytes |-> 4]
      [] kind = "d" -> [elements |-> 64, bytes |-> 8]
      [] kind = "q" -> [elements |-> 32, bytes |-> 16]
      [] kind = "c" -> [elements |-> 8, bytes |-> 4]
LiveRegisters(kind) == IF kind = "c" THEN Copies(8, 32) ELSE CreateRegisters(kind)
LoadRegisters(registers) ==
    FoldLeft(LAMBDA st, bits : [offset |-> st.offset + bits \div 8,
                                places |-> Append(st.places, [offset |-> st.offset, bytes |-> bits \div 8])],
             [offset |-> 0, places |-> <<>>], registers).places
Cleared(buffer) == {4 * i : i \in 0..((buffer.elements * buffer.bytes) \div 4 - 1)}
-----------------------------------------------------------------------------

(* A test passes where the limit is met, and not where a byte or a register *)
(* is missing that it looks at; it uses all of the limit, and nothing that  *)
(* is beyond or not aligned (LimitsTests.cpp).                              *)
MemoryReachedOn(segment, wi) ==
    /\ MemorySegmentSizeLimitTest(segment, wi, Limit(segment)) = 1
    /\ MemorySegmentSizeLimitTest(segment, wi, Limit(segment) - 1) = 0
    /\ segment = "kernarg" =>
        LET last == Last(KernargSegment(<<EBuffer("output", "host result"), InitializeVariable("kernarg")>>))
        IN  last.offset + last.bytes = 1024
    /\ MemoryIsValid("arg", <<>>)
RegistersReachedOn(registers, places, buffer) ==
    /\ Slots(registers) \in {0, 128}
    /\ RegisterLimitTest(registers, DOMAIN registers) = 1
    /\ \A i \in DOMAIN registers : registers[i] # 128 => RegisterLimitTest(registers, DOMAIN registers \ {i}) = 0
    /\ Last(places).offset + Last(places).bytes = buffer.elements * buffer.bytes
    /\ \A p \in ToSet(places) : p.offset % p.bytes = 0 /\ p.offset \in Cleared(buffer)
WavesizeReachedOn(wavesize) == WavesizeLimitTest(wavesize) = (IF wavesize \in {2^k : k \in 0..8} THEN 1 ELSE 0)
GroupSizeReachedOn(geometry, group) ==
    /\ WorkGroupSizeLimitIsValid(geometry) /\ WorkGroupSizeLimitTest(group) = 1
    /\ \A d \in 1..3 : WorkGroupSizeLimitTest([group EXCEPT ![d] = @ - 1]) = 0
DimsReachedOn(grid) ==
    DimsLimitTest(grid, grid) = 1 /\ \A d \in 1..3, lost \in {1, 2^16} : DimsLimitTest(grid, [grid EXCEPT ![d] = @ - lost]) = 0
\* Each class orders the accesses to a variable of its own.
EquivalenceReachedOn(limit) ==
    LET code == EquivalenceClassesLimitsTest(limit)
    IN  /\ Cardinality({code[i].class : i \in DOMAIN code}) = limit
        /\ \A i, j \in DOMAIN code : code[i].class = code[j].class <=> code[i].memory = code[j].memory
=============================================================================
