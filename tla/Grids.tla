------------------------------- MODULE Grids -------------------------------
(***************************************************************************)
(* The geometry of a dispatch (GridGeometry in Grid.cpp): the identifiers  *)
(* that a test computes on the host for the work-item at a point of the    *)
(* grid, and the order in which it visits the grid.  The last group of a   *)
(* dimension may be partial.                                               *)
(***************************************************************************)
EXTENDS Integers, Sequences, FiniteSets, SequencesExt, FiniteSetsExt

X == 1
Y == 2
Z == 3
Geometry(nDim, gridSize, workgroupSize) == [nDim |-> nDim, grid |-> gridSize, group |-> workgroupSize]
Used(g, d) == d = X \/ d <= g.nDim
Volume(size) == size[X] * size[Y] * size[Z]
GridSize(g) == Volume(g.grid)
WorkgroupSize(g) == Volume(g.group)

\* The dimensions are looked at whether they are used or not.
isPartial(g) == \E d \in {X, Y, Z} : g.grid[d] % g.group[d] > 0
-----------------------------------------------------------------------------
(* Identifiers.                                                             *)
WorkitemId(g, p, d) == IF Used(g, d) THEN p[d] % g.group[d] ELSE 0
WorkitemAbsId(g, p, d) == IF Used(g, d) THEN p[d] % g.grid[d] ELSE 0
WorkgroupId(g, p, d) == IF Used(g, d) THEN p[d] \div g.group[d] ELSE 0

GridGroupsOf(g, d) == IF Used(g, d) THEN (g.grid[d] + g.group[d] - 1) \div g.group[d] ELSE 1
GridGroups(g) == GridGroupsOf(g, X) * GridGroupsOf(g, Y) * GridGroupsOf(g, Z)

CurrentWorkgroupSizeOf(g, p, d) ==
    IF ~Used(g, d) THEN 1
    ELSE IF p[d] < (g.grid[d] \div g.group[d]) * g.group[d] THEN g.group[d]
    ELSE g.grid[d] % g.group[d]
CurrentWorkgroupSize(g, p) ==
    CurrentWorkgroupSizeOf(g, p, X) * CurrentWorkgroupSizeOf(g, p, Y) * CurrentWorkgroupSizeOf(g, p, Z)

Flat(x, y, z, width, height) == x + y * width + z * width * height
WorkitemFlatId(g, p) ==
    Flat(WorkitemId(g, p, X), WorkitemId(g, p, Y), WorkitemId(g, p, Z), g.group[X], g.group[Y])
CurrentWorkitemFlatId(g, p) ==
    Flat(WorkitemId(g, p, X), WorkitemId(g, p, Y), WorkitemId(g, p, Z),
         CurrentWorkgroupSizeOf(g, p, X), CurrentWorkgroupSizeOf(g, p, Y))
WorkitemFlatAbsId(g, p) ==
    Flat(WorkitemAbsId(g, p, X), WorkitemAbsId(g, p, Y), WorkitemAbsId(g, p, Z), g.grid[X], g.grid[Y])
WorkgroupFlatId(g, p) ==
    Flat(WorkgroupId(g, p, X), WorkgroupId(g, p, Y), WorkgroupId(g, p, Z), GridGroupsOf(g, X), GridGroupsOf(g, Y))

Point(g, flatabsid) ==
    LET z == flatabsid \div (g.grid[X] * g.grid[Y])
        y == (flatabsid - z * (g.grid[X] * g.grid[Y])) \div g.grid[X]
    IN  <<flatabsid - z * (g.grid[X] * g.grid[Y]) - y * g.grid[X], y, z>>

LaneId(g, p, wavesize) == CurrentWorkitemFlatId(g, p) % wavesize
WaveNumInWorkgroup(g, p, wavesize) == CurrentWorkitemFlatId(g, p) \div wavesize
\* A mutation: the last wave of a group is forgotten when it is not full.
WholeWavesOnly(g, wavesize) == IF WorkgroupSize(g) < wavesize THEN 1 ELSE WorkgroupSize(g) \div wavesize
MaxWaveNumInWorkgroup(g, wavesize) == (WorkgroupSize(g) + wavesize - 1) \div wavesize
WaveIndex(g, p, wavesize) ==
    WorkgroupFlatId(g, p) * MaxWaveNumInWorkgroup(g, wavesize) + WaveNumInWorkgroup(g, p, wavesize)
MaxWaveIndex(g, wavesize) == GridGroups(g) * MaxWaveNumInWorkgroup(g, wavesize)
-----------------------------------------------------------------------------
(* GridIterator: from GridBegin to GridEnd.                                 *)
GridBegin == <<0, 0, 0>>
GridEnd(g) == <<0, 0, g.grid[Z]>>
Advance(g, p) ==
    IF p[X] + 1 # g.grid[X] THEN <<p[X] + 1, p[Y], p[Z]>>
    ELSE IF p[Y] + 1 # g.grid[Y] THEN <<0, p[Y] + 1, p[Z]>>
    ELSE <<0, 0, p[Z] + 1>>
GridPoints(g) ==
    FoldLeft(LAMBDA points, i : Append(points, Advance(g, Last(points))),
             <<GridBegin>>, [i \in 1..(GridSize(g) - 1) |-> i])
-----------------------------------------------------------------------------
(* The agent's view (external): the grid is tiled into groups, and the      *)
(* identifiers of work-items count them in the order of z, y, x.  WholeTile *)
(* has the points that a group would have if it were not partial.           *)
Items(g) == (0..(g.grid[X] - 1)) \X (0..(g.grid[Y] - 1)) \X (0..(g.grid[Z] - 1))
Precedes(p, q) ==
    \/ p[Z] < q[Z]
    \/ p[Z] = q[Z] /\ p[Y] < q[Y]
    \/ p[Z] = q[Z] /\ p[Y] = q[Y] /\ p[X] < q[X]
Rank(S, p) == Cardinality({q \in S : Precedes(q, p)})
Tile(g, p) == [d \in 1..3 |-> p[d] \div g.group[d]]
Tiles(g) == {Tile(g, p) : p \in Items(g)}
Extent(g, tile, d) == (tile[d] * g.group[d])..((tile[d] + 1) * g.group[d] - 1)
WholeTile(g, tile) == Extent(g, tile, X) \X Extent(g, tile, Y) \X Extent(g, tile, Z)
GroupItems(g, tile) == {q \in WholeTile(g, tile) : q \in Items(g)}
Lane(g, p, wavesize) == Rank(GroupItems(g, Tile(g, p)), p) % wavesize
Wave(g, p, wavesize) ==
    LET r == Rank(GroupItems(g, Tile(g, p)), p)
    IN  {q \in GroupItems(g, Tile(g, p)) : Rank(GroupItems(g, Tile(g, p)), q) \div wavesize = r \div wavesize}
-----------------------------------------------------------------------------
(* The iterator visits every point once, and the flat absolute identifier   *)
(* of a point, the index of its result, is its place in this order.         *)
VisitsAllOn(g, points) ==
    /\ ToSet(points) = Items(g)
    /\ Advance(g, Last(points)) = GridEnd(g)
    /\ \A i \in 1..Len(points) :
        WorkitemFlatAbsId(g, points[i]) = i - 1 /\ Point(g, i - 1) = points[i]

(* Identifiers of groups and waves name them uniquely, below the number of  *)
(* them that arrays are made for, in partial groups too; and lanes are      *)
(* those of the agent.                                                      *)
WavesDistinctOn(g, wavesize) ==
    \A p, q \in Items(g) :
        /\ WorkgroupFlatId(g, p) < GridGroups(g)
        /\ (WorkgroupFlatId(g, p) = WorkgroupFlatId(g, q)) <=> (Tile(g, p) = Tile(g, q))
        /\ WaveIndex(g, p, wavesize) < MaxWaveIndex(g, wavesize)
        /\ (WaveIndex(g, p, wavesize) = WaveIndex(g, q, wavesize)) <=> (q \in Wave(g, p, wavesize))
        /\ LaneId(g, p, wavesize) = Lane(g, p, wavesize)
=============================================================================
