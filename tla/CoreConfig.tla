----------------------------- MODULE CoreConfig -----------------------------
(***************************************************************************)
(* The sets of values over which the tests of the core suite are made      *)
(* (CoreConfig.cpp): geometries of dispatches, which depend on the size of *)
(* the agent's wavefronts, and what can be done with a segment.  A set     *)
(* serves tests that rely on it: on whole groups, on a single one, on an   *)
(* even number of wavefronts, or on identifiers beyond 24 bits.            *)
(*                                                                         *)
(* The sets with sides of 2^31 and more are not here: TLC has no such      *)
(* numbers.                                                                *)
(***************************************************************************)
EXTENDS Grids

Atomicity == INSTANCE AtomicKernels

Line(x, a) == Geometry(1, <<x, 1, 1>>, <<a, 1, 1>>)
Plane(x, y, a, b) == Geometry(2, <<x, y, 1>>, <<a, b, 1>>)
Space(x, y, z, a, b, c) == Geometry(3, <<x, y, z>>, <<a, b, c>>)
P22 == 2^22 + 32
P23 == 2^23 + 32

\* A mutation: no group of 64 work-items.
NoGroupOf64(w) ==
    {Line(w, w), Line(4 * w, w), Line(8 * w, 4 * w), Line(8 * w, 8 * w), Line(32, 32), Line(32, 16), Line(64, 32)}
AtomicSet(w) ==
    {Line(w, w), Line(4 * w, w), Line(8 * w, 4 * w), Line(8 * w, 8 * w),
     Line(32, 32), Line(32, 16), Line(64, 64), Line(64, 32)}
GridsConfig(w, wavesPerGroup) ==
    [default |-> {Space(35, 5, 3, 9, 4, 2)},
     trivial |-> {Line(1, 1)},
     allWavesId |-> {Space(40, 32, 32, 8, 8, 4)},
     simple |-> {Line(256, 64), Line(200, 32), Line(42, 11),
                 Plane(64, 8, 16, 4), Plane(30, 7, 8, 4), Plane(10, 4, 4, 3),
                 Space(4, 8, 16, 4, 2, 8), Space(3, 5, 11, 4, 2, 8), Space(5, 7, 12, 3, 5, 7)},
     degenerate |-> {Line(1, 64), Plane(200, 1, 64, 1), Space(30, 7, 1, 8, 4, 1), Space(200, 1, 1, 64, 1, 1)},
     dimension |-> {Line(200, 64), Plane(30, 7, 8, 4), Space(3, 5, 11, 4, 2, 8)},
     boundary24 |-> {Line(2^24 + 64, 256), Plane(P23, 2, 256, 1), Plane(2, P23, 1, 256),
                     Space(P22, 2, 2, 256, 1, 1), Space(2, P22, 2, 1, 256, 1), Space(2, 2, P22, 1, 1, 256)},
     severalwaves |-> {Line(4 * w, w)},
     workgroup256 |-> {Line(256, 256), Plane(16, 16, 16, 16), Plane(64, 4, 64, 4),
                       Space(8, 8, 4, 8, 8, 4), Space(2, 32, 4, 2, 32, 4)},
     singleGroup |-> {Line(64, 64), Line(256, 256), Plane(16, 16, 16, 16), Space(8, 8, 4, 8, 8, 4)},
     atomic |-> AtomicSet(w),
     mmodel |-> {Line(8 * w, w), Line(32 * w, 4 * w), Line(64 * w, 8 * w)},
     emodel |-> {Line(n * w, g * w) : n \in {8, 64, 256}, g \in {1, 4, 8}},
     barrier |-> {Line(n * w, n * w) : n \in {4, 8, 16}},
     fbarrier |-> {Line(w, w), Line(16 * w, 4 * w), Line(4 * w, 4 * w), Plane(16, 16, 16, 16),
                   Plane(w, 4, w, 4), Space(6, 14, 5, 4, 13, 4), Space(8, 8, 4, 8, 8, 4),
                   Space(2, 32, 4, 2, 32, 4), Space(5, 7, 12, 3, 5, 7), Space(3, 9, 13, 2, 7, 11)},
     fbarrierEven |->
        (IF wavesPerGroup > 1 THEN {Line(4 * w, 2 * w), Plane(4, w, 2, w)} ELSE {})
        \cup (IF wavesPerGroup >= 4 THEN {Line(8 * w, 4 * w), Space(4, 1, w, 2, 1, w)} ELSE {}),
     images |-> {Line(1, 1), Line(100, 100), Plane(100, 10, 100, 1), Space(10, 10, 10, 10, 1, 1)},
     memfence |-> {Line(4 * w, w), Line(4 * w, 4 * w), Line(16 * w, 4 * w), Line(64 * w, 2 * w)},
     partial |-> {Line(64, 198), Line(256, 198), Plane(8, 7, 9, 12), Plane(32, 15, 9, 12),
                  Space(3, 5, 7, 8, 8, 4), Space(5, 7, 12, 3, 5, 7)}]
numBoundaryValues == 128    \* DispatchBoundaryBaseTest

AtomicTypes == [kind : {"signed", "unsigned", "bits"}, bits : {32, 64}]
AtomicSegments == {"flat", "global", "group"}
AllMemoryOrders == {"relaxed", "acquire", "release", "acquire_release"}
AllMemoryScopes == {"workitem", "wave", "workgroup", "agent", "system"}
-----------------------------------------------------------------------------
(* SegmentsConfig.                                                          *)
Segments == {"flat", "global", "readonly", "kernarg", "group", "private", "spill", "arg"}
CanStore(s) == s \notin {"readonly", "kernarg"}
HasAddress(s) == s \notin {"arg", "spill"}
HasNullptr(s) == s \in {"group", "private", "flat"}
HasFlatAddress(s) == s \in {"global", "group", "private"}     \* not asked of flat
-----------------------------------------------------------------------------
(* The tests of atomicity over these sets.  Two of them differ in           *)
(* mapFlat2Group alone when their segment is not flat, and are the same.    *)
Case(g, w, op, segment, mapFlat2Group, noret) ==
    [groups |-> GridSize(g) \div WorkgroupSize(g), size |-> WorkgroupSize(g), last |-> WorkgroupSize(g),
     wave |-> w, op |-> op, segment |-> segment, mapFlat2Group |-> mapFlat2Group, noret |-> noret]
AtomicTests(w, op) ==
    {t \in [case : {Case(g, w, op, s, m, n) : g \in AtomicSet(w), s \in AtomicSegments, m \in BOOLEAN, n \in BOOLEAN},
            type : AtomicTypes, order : AllMemoryOrders, scope : AllMemoryScopes] :
        Atomicity!AtomicIsValid(t.case, t.type, t.order, t.scope)}
-----------------------------------------------------------------------------
(* What tests rely on: the wavefronts of the atomicity, memory model and    *)
(* fence tests are whole, and they end; exchanges of data between two       *)
(* barriers stay in one group; pairs of wavefronts have a partner; and the  *)
(* last identifiers of a grid reach beyond 24 bits.                         *)
WholeWaves(g, w) ==
    /\ GridSize(g) % WorkgroupSize(g) = 0
    /\ GridSize(g) % (IF w <= WorkgroupSize(g) THEN w ELSE WorkgroupSize(g)) = 0
GeometriesSuitOn(w, grids) ==
    /\ \A g \in grids.atomic \cup grids.mmodel \cup grids.emodel \cup grids.memfence : WholeWaves(g, w)
    /\ \A g \in grids.mmodel : GridGroups(g) > 1
    /\ \A g \in grids.memfence : GridSize(g) >= w
    /\ \A g \in grids.barrier \cup grids.singleGroup : GridGroups(g) = 1 /\ ~isPartial(g)
    /\ \A g \in grids.fbarrierEven : MaxWaveNumInWorkgroup(g, w) % 2 = 0 /\ WorkgroupSize(g) % w = 0 /\ ~isPartial(g)
    /\ \A g \in grids.severalwaves : MaxWaveNumInWorkgroup(g, w) = 1 /\ GridGroups(g) > 1
    /\ \A g \in grids.workgroup256 : WorkgroupSize(g) = 256 /\ ~isPartial(g)
    /\ \A g \in grids.partial : isPartial(g)
    /\ \A g \in grids.boundary24 : 2^24 \in (GridSize(g) - numBoundaryValues)..(GridSize(g) - 1)
    /\ {g.nDim : g \in grids.dimension} = {1, 2, 3}

(* Every operation is tested on both sizes of memory in every segment, in   *)
(* one group and, where the memory is shared by them, in several; with any  *)
(* order that it may have; and results are not only those that vanish.      *)
AtomicsTestedOn(tests, op) ==
    /\ \A bits \in {32, 64}, s \in AtomicSegments, agent \in BOOLEAN :
        (s = "group" => ~agent) =>
            \E t \in tests : /\ t.case.segment = s /\ t.type.bits = bits
                             /\ (Atomicity!testKind(t.case) = "agent") = agent
    /\ \A o \in AllMemoryOrders : Atomicity!IsValidAtomicOrder(op, o) => \E t \in tests : t.order = o
    /\ op # "st" => \E t \in tests : ~t.case.noret
=============================================================================
