----------------------------- MODULE KernelCode -----------------------------
(***************************************************************************)
(* The vocabulary in which the modules of kernels write what BrigEmitter   *)
(* emits for one work-item: a sequence of instructions, with the branches  *)
(* on identifiers resolved and the loops with a known count unrolled.      *)
(* KernelExecution gives the instructions their meaning.                   *)
(*                                                                         *)
(* A case `c' is a test with its geometry in one dimension: `groups' work- *)
(* groups of `size' work-items, the last one of `last' (fewer when it is   *)
(* partial), in wavefronts of `wave' work-items.                           *)
(* Work-items are numbered by their flat absolute id, from 0.              *)
(***************************************************************************)
EXTENDS Integers, Sequences

\* Identifiers of a work-item (BrigEmitter::EmitWorkitemFlatAbsId and others).
GridSize(c) == (c.groups - 1) * c.size + c.last
WorkItems(c) == 0..(GridSize(c) - 1)
GroupOf(c, wi) == wi \div c.size
FlatId(c, wi) == wi % c.size
WaveInGroup(c, wi) == FlatId(c, wi) \div c.wave
LaneId(c, wi) == FlatId(c, wi) % c.wave
WaveOf(c, wi) == <<GroupOf(c, wi), WaveInGroup(c, wi)>>

\* Memory: a named variable or buffer and an index; a variable of the group
\* segment exists once in each group.
Global(name, i) == <<name, i>>
GroupVar(c, wi, name, i) == <<name, GroupOf(c, wi), i>>

\* Operands.
Imm(n) == <<"imm", n>>
Reg(r) == <<"reg", r>>
SumOf(r, q) == <<"sum", r, q>>          \* an add before the value is used
EqualTo(r, n) == <<"equal", r, n>>      \* a cmp_eq, and its result converted

\* Instructions of one work-item.
Ld(r, a) == << [op |-> "ld", dst |-> r, addr |-> a] >>
St(a, x) == << [op |-> "st", addr |-> a, x |-> x] >>
Atomic(f, r, a, x, y) ==
    << [op |-> "atomic", fun |-> f, dst |-> r, addr |-> a, x |-> x, y |-> y] >>
NoReg == 0
AtomicSt(a, x) == Atomic("st", NoReg, a, x, Imm(0))
AtomicLd(r, a) == Atomic("ld", r, a, Imm(0), Imm(0))

\* A loop that leaves when an atomic load of the address meets the comparison.
LoopUntil(a, cmp, x) == << [op |-> "until", addr |-> a, cmp |-> cmp, x |-> x] >>

\* Code for the work-items that meet a condition on their identifiers.
Only(condition, code) == IF condition THEN code ELSE <<>>

Repeat(n, code(_)) ==
    LET f[i \in 0..n] == IF i = 0 THEN <<>> ELSE f[i - 1] \o code(i - 1)
    IN  f[n]

\* Instructions of the whole group and of the whole wavefront.
Barrier == << [op |-> "barrier"] >>
WaveBarrier == << [op |-> "wavebarrier"] >>
Fbar(kind, f) == << [op |-> "fbar", kind |-> kind, fb |-> f] >>
Joinfbar(f) == Fbar("join", f)
Waitfbar(f) == Fbar("wait", f)
Arrivefbar(f) == Fbar("arrive", f)
Leavefbar(f) == Fbar("leave", f)

\* BrigEmitter::EmitInitfbarInFirstWI and EmitReleasefbarInFirstWI: work-item
\* 0 of each group, then a barrier.
InitfbarInFirstWI(c, wi, f) ==
    Only(FlatId(c, wi) = 0, << [op |-> "initfbar", fb |-> f] >>) \o Barrier
ReleasefbarInFirstWI(c, wi, f) ==
    Only(FlatId(c, wi) = 0, << [op |-> "releasefbar", fb |-> f] >>) \o Barrier

\* EBuffer::EmitStoreData: the result of a work-item, at its absolute id.
StoreData(wi, x) == St(Global("output", wi), x)
=============================================================================
