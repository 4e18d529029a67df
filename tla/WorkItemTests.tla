--------------------------- MODULE WorkItemTests ---------------------------
(***************************************************************************)
(* Tests of instructions that tell a work-item its place in the dispatch,  *)
(* and of those that work across the lanes of a wave.  The host lists the  *)
(* expected results in the order of the output buffer, where a work-item   *)
(* stores at its flat absolute identifier; points is the grid in the order *)
(* of the iterator, wavesize and WORD_BITS, the bits in one of the four    *)
(* words of a mask, are small here.                                        *)
(***************************************************************************)
EXTENDS Branches

WORD_BITS == 2
MASK_WORDS == 4

(* Tests of the dispatch packet.                                            *)
Looped(g) ==
    [i \in 1..GridSize(g) |->
        <<(i - 1) % g.grid[X], ((i - 1) \div g.grid[X]) % g.grid[Y], (i - 1) \div (g.grid[X] * g.grid[Y])>>]
CurrentWorkgroupSizeTest(g, loop, d) == [i \in DOMAIN loop |-> CurrentWorkgroupSizeOf(g, loop[i], d)]
WorkgroupIdTest(g, loop, d) == [i \in DOMAIN loop |-> WorkgroupId(g, loop[i], d)]
WorkitemIdTest(g, loop, d) == [i \in DOMAIN loop |-> WorkitemId(g, loop[i], d)]
WorkitemAbsIdTest(g, loop, d) == [i \in DOMAIN loop |-> WorkitemAbsId(g, loop[i], d)]
WorkitemFlatIdTest(g, loop) == [i \in DOMAIN loop |-> WorkitemFlatId(g, loop[i])]
CurrentWorkitemFlatIdTest(g, loop) == [i \in DOMAIN loop |-> CurrentWorkitemFlatId(g, loop[i])]
WorkitemFlatAbsIdTest(g) == [i \in 1..GridSize(g) |-> i - 1]
DimensionTest(g) == g.nDim
GridGroupsTest(g, d) == GridGroupsOf(g, d)
GridSizeTest(g, d) == g.grid[d]
WorkgroupSizeTest(g, d) == g.group[d]

\* Only the last work-items of a large grid store, each at its distance from the boundary.
BoundaryTest(g, n) == GridSize(g) - n
BoundaryIndex(g, n, flatabsid) == IF flatabsid >= BoundaryTest(g, n) THEN {flatabsid - BoundaryTest(g, n)} ELSE {}
BoundaryPoint(g, n, i) == Point(g, GridSize(g) - n + i)
WorkitemIdBoundaryTest(g, n, d) == [i \in 1..n |-> WorkitemId(g, BoundaryPoint(g, n, i - 1), d)]
WorkitemAbsIdBoundaryTest(g, n, d) == [i \in 1..n |-> WorkitemAbsId(g, BoundaryPoint(g, n, i - 1), d)]
WorkitemFlatIdBoundaryTest(g, n) == [i \in 1..n |-> WorkitemFlatId(g, BoundaryPoint(g, n, i - 1))]
WorkitemFlatAbsIdBoundaryTest(g, n) == [i \in 1..n |-> GridSize(g) - n + i - 1]

\* Control directives, made of the geometry that the test is dispatched with.
GeometryDirectives == {"dim", "grid size", "group size", "no partial groups", "max group size", "max grid size"}
EmitControlDirectiveGeometry(g, directive) ==
    CASE directive = "dim" -> g.nDim
      [] directive = "grid size" -> g.grid
      [] directive = "group size" -> g.group
      [] directive = "no partial groups" -> TRUE
      [] directive = "max group size" -> WorkgroupSize(g)
      [] directive = "max grid size" -> GridSize(g)
IsValidWith(g, directives) == ~isPartial(g) \/ "no partial groups" \notin directives
-----------------------------------------------------------------------------
(* Tests across the lanes of a wave.  src and then are the points where the *)
(* source and the condition are true; a result is counted or numbered once  *)
(* for each wave and path.                                                  *)
INIT == -1
Counts(g, points, counted, wavesize) ==
    FoldLeft(LAMBDA counts, p : IF p \in counted THEN [counts EXCEPT ![WaveIndex(g, p, wavesize)] = @ + 1] ELSE counts,
             [w \in 0..(MaxWaveIndex(g, wavesize) - 1) |-> 0], points)
CountOf(g, counts, points, wavesize) == [i \in DOMAIN points |-> counts[WaveIndex(g, points[i], wavesize)]]
Chosen(points, then, a, b) == [i \in DOMAIN points |-> IF points[i] \in then THEN a[i] ELSE b[i]]
Initial(points) == [i \in DOMAIN points |-> INIT]
InitialMask(points) == [i \in DOMAIN points |-> [j \in 0..(MASK_WORDS - 1) |-> {INIT}]]

ActiveLaneCountNoDivergence(g, points, src, wavesize) ==
    CountOf(g, Counts(g, points, src, wavesize), points, wavesize)
ActiveLaneCountIfThen(g, points, src, then, wavesize) ==
    Chosen(points, then, CountOf(g, Counts(g, points, src \cap then, wavesize), points, wavesize), Initial(points))
ActiveLaneCountIfThenElse(g, points, src, then, wavesize) ==
    Chosen(points, then, CountOf(g, Counts(g, points, src \cap then, wavesize), points, wavesize),
                         CountOf(g, Counts(g, points, src \ then, wavesize), points, wavesize))

\* Numbers: the counter of the wave before it is incremented.
Numbered(g, points, counted, wavesize) ==
    FoldLeft(LAMBDA s, p :
                [ids |-> Append(s.ids, s.next[WaveIndex(g, p, wavesize)]),
                 next |-> IF p \in counted THEN [s.next EXCEPT ![WaveIndex(g, p, wavesize)] = @ + 1] ELSE s.next],
             [ids |-> <<>>, next |-> [w \in 0..(MaxWaveIndex(g, wavesize) - 1) |-> 0]], points).ids
ActiveLaneIdNoDivergence(g, points, wavesize) == Numbered(g, points, ToSet(points), wavesize)
ActiveLaneIdIfThen(g, points, then, wavesize) ==
    Chosen(points, then, Numbered(g, points, then, wavesize), Initial(points))
ActiveLaneIdIfThenElse(g, points, then, wavesize) ==
    Chosen(points, then, Numbered(g, points, then, wavesize),
                         Numbered(g, points, ToSet(points) \ then, wavesize))

\* Masks: the set bits of the four words that a wave has in one array.
Masks(g, points, counted, wavesize) ==
    FoldLeft(LAMBDA mask, p :
                LET lid == LaneId(g, p, wavesize) IN
                IF p \in counted
                THEN [mask EXCEPT ![WaveIndex(g, p, wavesize) * MASK_WORDS + lid \div WORD_BITS] = @ \cup {lid % WORD_BITS}]
                ELSE mask,
             [w \in 0..(MaxWaveIndex(g, wavesize) * MASK_WORDS - 1) |-> {}], points)
MaskOf(g, mask, points, wavesize) ==
    [i \in DOMAIN points |-> [j \in 0..(MASK_WORDS - 1) |-> mask[WaveIndex(g, points[i], wavesize) * MASK_WORDS + j]]]
ActiveLaneMaskNoDivergence(g, points, src, wavesize) ==
    MaskOf(g, Masks(g, points, src, wavesize), points, wavesize)
ActiveLaneMaskIfThen(g, points, src, then, wavesize) ==
    Chosen(points, then, MaskOf(g, Masks(g, points, src \cap then, wavesize), points, wavesize), InitialMask(points))
ActiveLaneMaskIfThenElse(g, points, src, then, wavesize) ==
    Chosen(points, then, MaskOf(g, Masks(g, points, src \cap then, wavesize), points, wavesize),
                         MaskOf(g, Masks(g, points, src \ then, wavesize), points, wavesize))
-----------------------------------------------------------------------------
(* Tests that compare a work-item's value with that of the one before it.   *)
EmitWorkgroupFlatId(g, p) ==
    LET groups(d) == Cardinality({t[d] : t \in Tiles(g)}) IN
    (Tile(g, p)[Z] * groups(Y) + Tile(g, p)[Y]) * groups(X) + Tile(g, p)[X]
GroupBufferId(g, p) == Rank(GroupItems(g, Tile(g, p)), p)
GlobalBufferId(g, p) ==
    EmitWorkgroupFlatId(g, p) * WorkgroupSize(g) + Rank(WholeTile(g, Tile(g, p)), p)
EmitIsFirst(id) == id = 0
EmitIsFirstOfWave(id, wavesize) == id % wavesize = 0
GroupBufferSize(g) == WorkgroupSize(g)
GlobalBufferSize(g) == GridSize(g)
IsValidGlobal(g) == ~isPartial(g)
\* A group waits for the flag of the one before it, which every item of that group sets.
WaitsFor(g, p) == IF EmitWorkgroupFlatId(g, p) = 0 THEN {} ELSE {EmitWorkgroupFlatId(g, p) - 1}

LaneidSequenceTest(g, loop, wavesize) ==
    FoldLeft(LAMBDA s, p :
                [ids |-> Append(s.ids, s.workgroups[WorkgroupFlatId(g, p)] % wavesize),
                 workgroups |-> [s.workgroups EXCEPT ![WorkgroupFlatId(g, p)] = @ + 1]],
             [ids |-> <<>>, workgroups |-> [w \in 0..(GridGroups(g) - 1) |-> 0]], loop).ids

\* Group memory: a static variable, and after it what the dispatch adds, of which
\* the first item writes the beginning and every item has four bytes.
VALUE_BYTES == 4
DynamicMemorySize(g, offset) == VALUE_BYTES * GridSize(g) + offset
GroupOffsetArg(static, offset) == static + offset
DynamicBytes(g, p, static, offset) ==
    LET address == GroupOffsetArg(static, offset) + VALUE_BYTES * Rank(WholeTile(g, Tile(g, p)), p)
    IN  address..(address + VALUE_BYTES - 1)
InitializedBytes(static, offset) == IF static = 0 THEN {} ELSE 0..(static + offset - 1)
-----------------------------------------------------------------------------
(* What the host expects at the place where a work-item stores is what the  *)
(* instruction gives it.                                                    *)
PlaceFoundOn(g, loop, p) ==
    LET i == Rank(Items(g), p) + 1
        tile == Tile(g, p)
        coordinates(d) == {q[d] : q \in GroupItems(g, tile)}
    IN  /\ \A d \in {X, Y, Z} :
            /\ CurrentWorkgroupSizeTest(g, loop, d)[i] = Cardinality(coordinates(d))
            /\ WorkgroupIdTest(g, loop, d)[i] = tile[d]
            /\ WorkitemIdTest(g, loop, d)[i] = p[d] - tile[d] * g.group[d]
            /\ WorkitemAbsIdTest(g, loop, d)[i] = p[d]
            /\ GridGroupsTest(g, d) = Cardinality({t[d] : t \in Tiles(g)})
            /\ GridSizeTest(g, d) = Cardinality({q[d] : q \in Items(g)})
            /\ WorkgroupSizeTest(g, d) = Cardinality(Extent(g, tile, d))
        /\ CurrentWorkgroupSize(g, p) = Cardinality(GroupItems(g, tile))
        /\ \A d \in {X, Y, Z} : GridSizeTest(g, d) > 1 => d <= DimensionTest(g)
        /\ WorkitemFlatIdTest(g, loop)[i] = Rank(WholeTile(g, tile), p)
        /\ CurrentWorkitemFlatIdTest(g, loop)[i] = Rank(GroupItems(g, tile), p)
        /\ WorkitemFlatAbsIdTest(g)[i] = Rank(Items(g), p)

(* The last n work-items, and no other, store to the n results, each the    *)
(* value expected there.                                                    *)
BoundaryStoredOn(g, n) ==
    /\ UNION {BoundaryIndex(g, n, Rank(Items(g), p)) : p \in Items(g)} = 0..(n - 1)
    /\ \A p \in Items(g) : \A i \in BoundaryIndex(g, n, Rank(Items(g), p)) :
        /\ \A d \in {X, Y, Z} :
            /\ WorkitemIdBoundaryTest(g, n, d)[i + 1] = p[d] - Tile(g, p)[d] * g.group[d]
            /\ WorkitemAbsIdBoundaryTest(g, n, d)[i + 1] = p[d]
        /\ WorkitemFlatIdBoundaryTest(g, n)[i + 1] = Rank(WholeTile(g, Tile(g, p)), p)
        /\ WorkitemFlatAbsIdBoundaryTest(g, n)[i + 1] = Rank(Items(g), p)

(* A test that is not rejected promises nothing that its dispatch breaks.   *)
DirectivesKeptOn(g, directives) ==
    IsValidWith(g, directives) =>
        \A directive \in directives :
            LET value == EmitControlDirectiveGeometry(g, directive) IN
            CASE directive = "dim" -> \A d \in {X, Y, Z} : Cardinality({q[d] : q \in Items(g)}) > 1 => d <= value
              [] directive = "grid size" -> Items(g) = (0..(value[X] - 1)) \X (0..(value[Y] - 1)) \X (0..(value[Z] - 1))
              [] directive = "group size" ->
                    \A tile \in Tiles(g) : Cardinality(WholeTile(g, tile)) = value[X] * value[Y] * value[Z]
              [] directive = "no partial groups" -> \A tile \in Tiles(g) : GroupItems(g, tile) = WholeTile(g, tile)
              [] directive = "max group size" -> \A tile \in Tiles(g) : Cardinality(GroupItems(g, tile)) <= value
              [] directive = "max grid size" -> Cardinality(Items(g)) <= value

(* Counts, numbers and masks of active lanes are those of the work-items of *)
(* the same wave that take the same path.                                   *)
LanesFoundOn(g, points, src, then, wavesize) ==
    LET all == ToSet(points)
        Active(p) == {q \in Wave(g, p, wavesize) : (q \in then) = (p \in then)}
        Bits(lanes) == [j \in 0..(MASK_WORDS - 1) |->
                            {Lane(g, q, wavesize) % WORD_BITS : q \in {r \in lanes : Lane(g, r, wavesize) \div WORD_BITS = j}}]
        counts == ActiveLaneCountNoDivergence(g, points, src, wavesize)
        countsThen == ActiveLaneCountIfThen(g, points, src, then, wavesize)
        countsElse == ActiveLaneCountIfThenElse(g, points, src, then, wavesize)
        ids == ActiveLaneIdNoDivergence(g, points, wavesize)
        idsThen == ActiveLaneIdIfThen(g, points, then, wavesize)
        idsElse == ActiveLaneIdIfThenElse(g, points, then, wavesize)
        masks == ActiveLaneMaskNoDivergence(g, points, src, wavesize)
        masksThen == ActiveLaneMaskIfThen(g, points, src, then, wavesize)
        masksElse == ActiveLaneMaskIfThenElse(g, points, src, then, wavesize)
        Found(i, p, wave, active) ==
            /\ counts[i] = Cardinality(src \cap wave)
            /\ ids[i] = Rank(wave, p)
            /\ masks[i] = Bits(src \cap wave)
            /\ countsElse[i] = Cardinality(src \cap active)
            /\ idsElse[i] = Rank(active, p)
            /\ masksElse[i] = Bits(src \cap active)
            /\ countsThen[i] = IF p \in then THEN countsElse[i] ELSE INIT
            /\ idsThen[i] = IF p \in then THEN idsElse[i] ELSE INIT
            /\ masksThen[i] = IF p \in then THEN masksElse[i] ELSE InitialMask(points)[i]
    IN  \A p \in all : Found(Rank(Items(g), p) + 1, p, Wave(g, p, wavesize), Active(p))

(* Work-items that compare with the one before them store apart, inside the *)
(* buffer; the one before has stored by then: it is in the same group, or   *)
(* the same wave, or in a group whose flag was waited for.                  *)
NeighboursStoredOn(g, wavesize) ==
    \A p \in Items(g) :
        LET group == GroupItems(g, Tile(g, p)) IN
        /\ GroupBufferId(g, p) < GroupBufferSize(g)
        /\ \A q \in group \ {p} : GroupBufferId(g, q) # GroupBufferId(g, p)
        /\ ~EmitIsFirst(GroupBufferId(g, p)) => \E q \in group : GroupBufferId(g, q) = GroupBufferId(g, p) - 1
        /\ ~EmitIsFirstOfWave(GroupBufferId(g, p), wavesize) =>
            \E q \in Wave(g, p, wavesize) : GroupBufferId(g, q) = GroupBufferId(g, p) - 1
        /\ IsValidGlobal(g) =>
            /\ GlobalBufferId(g, p) < GlobalBufferSize(g)
            /\ EmitWorkgroupFlatId(g, p) < GridGroups(g)
            /\ \A q \in Items(g) \ {p} : GlobalBufferId(g, q) # GlobalBufferId(g, p)
            /\ ~EmitIsFirst(GlobalBufferId(g, p)) => \E q \in Items(g) :
                /\ GlobalBufferId(g, q) = GlobalBufferId(g, p) - 1
                /\ q \in group \/ EmitWorkgroupFlatId(g, q) \in WaitsFor(g, p)

LaneSequenceOn(g, loop, wavesize) ==
    \A p \in Items(g) : LaneidSequenceTest(g, loop, wavesize)[Rank(Items(g), p) + 1] = Lane(g, p, wavesize)

(* What an item keeps in dynamic group memory is its own, and inside what   *)
(* the dispatch was given.                                                  *)
GroupMemoryApartOn(g, static, offset) ==
    \A p \in Items(g) :
        LET bytes == DynamicBytes(g, p, static, offset) IN
        /\ bytes \cap InitializedBytes(static, offset) = {}
        /\ \A q \in GroupItems(g, Tile(g, p)) \ {p} : bytes \cap DynamicBytes(g, q, static, offset) = {}
        /\ (\A d \in {X, Y, Z} : g.group[d] <= g.grid[d]) =>
            bytes \subseteq 0..(static + DynamicMemorySize(g, offset) - 1)

TruePoints(c, g, wavesize) == {p \in Items(g) : IsTrueFor(c, WorkitemFlatAbsId(g, p), g, wavesize)}

\* All of these for one grid, whose points the iterator and the loops list.
GridHoldsOn(g, points, loop, wavesize) ==
    /\ VisitsAllOn(g, points)
    /\ loop = points
    /\ WavesDistinctOn(g, wavesize)
    /\ \A p \in Items(g) : PlaceFoundOn(g, loop, p)
    /\ \A n \in 1..3 : n <= GridSize(g) => BoundaryStoredOn(g, n)
    /\ \A directives \in {GeometryDirectives, GeometryDirectives \ {"no partial groups"}} :
            DirectivesKeptOn(g, directives)
    /\ NeighboursStoredOn(g, wavesize)
    /\ LaneSequenceOn(g, loop, wavesize)
    /\ \A static \in {0, 3}, offset \in {0, 5} : GroupMemoryApartOn(g, static, offset)
=============================================================================
