------------------------- MODULE MCKernelExecution -------------------------
(* The geometries of CoreConfig::GridsConfig in miniature: wavefronts of two *)
(* work-items and few of them.                                              *)
EXTENDS KernelExecution, TLC

Grid(n, size, wave) ==
    [groups |-> (n + size - 1) \div size, size |-> size,
     last |-> IF n % size = 0 THEN size ELSE n % size, wave |-> wave]

With(g, c) == c @@ g

BarrierOps == {"add", "and", "max", "min", "or", "sub", "wrapinc", "wrapdec", "xor"}
BarrierCases ==
    {With(Grid(4, 4, 2), [test |-> "barrier", atomicOp |-> op, segment |-> seg]) :
        op \in BarrierOps, seg \in {"group", "global"}}

\* FBarrierEvenWaveSet and FBarrierSet: one wavefront, several, a partial group.
EvenGrids == {Grid(4, 4, 2), Grid(8, 4, 2)}
FbarGrids == {Grid(2, 2, 2), Grid(3, 3, 1), Grid(5, 3, 2)}
FbarCases ==
    {With(g, [test |-> t]) : g \in EvenGrids, t \in {"basic", "example3"}}
    \cup {With(g, [test |-> t]) :
            g \in FbarGrids, t \in {"example1", "example2", "join_leave"}}
    \cup {With(g, [test |-> "pair", pair |-> p]) :
            g \in FbarGrids, p \in {"wait_arrive", "wait_leave", "arrive_leave"}}
    \cup {With(g, [test |-> t]) : g \in FbarGrids, t \in {"ldf", "join_leave_join"}}
    \cup {With(g, [test |-> "wait_race"]) : g \in FbarGrids \ {Grid(2, 2, 2)}}

\* A memory order and a scope make no difference to a memory that keeps the
\* order of the accesses; a case stands for all with which it is a test.
Orders == {"relaxed", "acquire", "release", "acquire_release"}
Scopes == {"workitem", "wave", "workgroup", "agent", "system"}
IsTest(c) ==
    \E kind \in {"signed", "unsigned", "bits"}, order \in Orders, scope \in Scopes :
        AtomicIsValid(c, [kind |-> kind, bits |-> GridSize(c)], order, scope)
AllAtomicCases(grids, ops) ==
    {c \in {With(g, [test |-> "atomic", op |-> op, segment |-> seg, mapFlat2Group |-> FALSE, noret |-> nr]) :
              g \in grids, op \in ops, seg \in {"group", "global"}, nr \in BOOLEAN} : IsTest(c)}
FlatCases(grids, ops) ==
    {c \in {With(g, [test |-> "atomic", op |-> op, segment |-> "flat", mapFlat2Group |-> m, noret |-> nr]) :
              g \in grids, op \in ops, m \in BOOLEAN, nr \in BOOLEAN} : IsTest(c)}

\* One wavefront, several, two work-groups; more of them where the flags stay
\* in the work-item's own result.
OwnResult(c) == c.noret \/ c.op \in {"max", "min", "cas"}
AtomicCases ==
    AllAtomicCases({Grid(3, 3, 4), Grid(3, 3, 1), Grid(2, 1, 1)}, AtomicOps)
    \cup FlatCases({Grid(2, 2, 2), Grid(2, 2, 1), Grid(2, 1, 1)}, AtomicOps)
    \cup {c \in AllAtomicCases({Grid(4, 2, 2)}, {"add"}) : c.noret}
    \cup {c \in AllAtomicCases({Grid(3, 1, 1)}, AtomicOps) : OwnResult(c)}

\* Three work-groups, and flags in the results of others.
OvertakenCases ==
    {c \in AllAtomicCases({Grid(3, 1, 1)}, {"add", "or"}) : ~OwnResult(c)}

\* CoreConfig's memfence and emodel sets: one group and several, of one
\* wavefront and of several.  The flags start with a value that no one awaits.
MemfenceGrids == {Grid(4, 2, 2), Grid(4, 4, 2), Grid(6, 3, 1)}
FenceCasesFrom(grids, flag) ==
    {c \in {With(g, [test |-> t, segment |-> seg, segment2 |-> seg2, flag |-> flag]) :
              g \in grids, t \in {"fence", "fence_array", "fence_compound"},
              seg \in {"global", "group"}, seg2 \in {"global", "group"}} :
        FenceIsValid(c) /\ (c.test # "fence_compound" => c.segment2 = "global")}
EModelCases ==
    {With(g, [test |-> "execmodel"]) : g \in {Grid(6, 2, 2), Grid(6, 2, 1), Grid(4, 4, 2)}}

\* CoreConfig's simple set: several groups, of several wavefronts, the last partial.
IdentityCases ==
    {c \in {With(g, [test |-> "identity", value |-> v]) :
              g \in {Grid(4, 2, 1), Grid(6, 4, 2), Grid(3, 1, 1)}, v \in {"cuid", "waveid", "maxcuid", "maxwaveid"}} :
        BufferIdentityIsValid(c)}

MCCases == BarrierCases \cup FbarCases \cup AtomicCases
           \cup FenceCasesFrom(MemfenceGrids, Undef) \cup EModelCases \cup IdentityCases

\* Flags that start with zeros, which the last work-item of an array waits for.
ZeroedCases == FenceCasesFrom({Grid(4, 2, 2)}, 0)
=============================================================================
