-------------------------- MODULE Algorithms_proofs --------------------------
(***************************************************************************)
(* What the run `algorithms' tries with small values, for all of them.     *)
(*                                                                         *)
(* Nothing that the tests lay out overlaps: the results of the work-items  *)
(* of a grid and the wavefronts that buffers are indexed by, the memory    *)
(* that generated tests access, and the blocks of an arena, for every      *)
(* geometry, number of tests and sequence of requests.                     *)
(*                                                                         *)
(* The integers of the emulator, for types of every width, the 8 to 64     *)
(* bits of the code among them: those theorems rest on three facts, that a *)
(* power of two doubles with its exponent (the library counts subsets, 2^n *)
(* of a set of n elements), that quotient and remainder are the only ones  *)
(* (RemainderIs), and that Val changes a number by a multiple of 2^bits    *)
(* and puts it into the type (ValWraps).                                   *)
(***************************************************************************)
EXTENDS Grids, TestArrays, Arena, IntegerEmulator, NaturalNumbers,
        FunctionTheorems, FiniteSetTheorems, TLAPS

Sizes == [1..3 -> Nat \ {0}]

(* Geometries as GridGeometry is made: dimensions that are not used have    *)
(* one work-item.                                                           *)
Geometries ==
    {g \in [nDim : 1..3, grid : Sizes, group : Sizes] :
        \A d \in 1..3 : ~Used(g, d) => g.grid[d] = 1}

(* A box of a by b by c places, numbered in the order of z, y, x.           *)
LEMMA FlatFound ==
    ASSUME NEW a \in Nat \ {0}, NEW b \in Nat \ {0},
           NEW x \in 0..(a - 1), NEW y \in 0..(b - 1), NEW z \in Nat
    PROVE  LET f == Flat(x, y, z, a, b)
           IN  /\ f \in Nat /\ f \div (a * b) = z
               /\ f - z * (a * b) = x + y * a /\ (f - z * (a * b)) \div a = y
               /\ f - z * (a * b) - y * a = x
               /\ \A c \in Nat : z < c => f < a * b * c
<1> DEFINE f == Flat(x, y, z, a, b)  m == a * b  r == x + y * a
<1>1. a \in Nat /\ a >= 1 /\ b \in Nat /\ b >= 1 /\ x \in Nat /\ x < a /\ y \in Nat /\ y < b
  OBVIOUS
<1>2. m \in Nat \ {0} /\ m \in Nat
  BY <1>1
<1>3. r \in Nat /\ r < m
  <2>1. y * a <= (b - 1) * a /\ y * a \in Nat
    BY <1>1
  <2>2. (b - 1) * a = m - a
    BY <1>1
  <2> HIDE DEF m
  <2> QED BY <1>1, <1>2, <2>1, <2>2
<1>4. z * a * b = z * m
  BY <1>1
<1>5. f = r + z * m /\ z * m \in Nat
  BY <1>2, <1>4 DEF Flat
<1>6. a * b * z = m * z
  OBVIOUS
<1> HIDE DEF f, m
<1>7. f \in Nat /\ f = m * z + r /\ f - z * m = r
  <2> HIDE DEF r
  <2> QED BY <1>2, <1>3, <1>5
<1>8. f \div m = z
  <2> HIDE DEF r
  <2> QED BY <1>2, <1>3, <1>7, RemainderIs
<1>9. r \div a = y
  <2> DEFINE s == r
  <2>1. s = a * y + x /\ s \in Int
    BY <1>1
  <2> HIDE DEF s
  <2>2. s \div a = y
    BY <1>1, <2>1, RemainderIs
  <2> QED BY <2>2 DEF s
<1>10. r - y * a = x
  BY <1>1
<1>11. ASSUME NEW c \in Nat, z < c PROVE f < a * b * c
  <2>1. a * b * c = m * c
    BY DEF m
  <2> HIDE DEF r
  <2>2. z + 1 <= c /\ m * (z + 1) <= m * c /\ m * (z + 1) = m * z + m
    BY <1>2, <1>11
  <2> DEFINE mz == m * z  mc == m * c
  <2>3. mz \in Int /\ mc \in Int
    BY <1>2
  <2> HIDE DEF mz, mc
  <2>4. mz + m <= mc /\ f = mz + r
    BY <1>7, <2>2 DEF mz, mc
  <2>5. f < mc
    BY <1>2, <1>3, <1>7, <2>3, <2>4
  <2> QED BY <2>1, <2>5 DEF mc
<1> QED BY <1>7, <1>8, <1>9, <1>10, <1>11 DEF f, m

(* Every number below a * b * c is that of a place.                         *)
Numbers(a, b, c) == 0..(a * b * c - 1)

LEMMA FlatReached ==
    ASSUME NEW a \in Nat \ {0}, NEW b \in Nat \ {0}, NEW c \in Nat \ {0},
           NEW n \in Numbers(a, b, c)
    PROVE  \E x \in 0..(a - 1), y \in 0..(b - 1), z \in 0..(c - 1) : Flat(x, y, z, a, b) = n
<1> DEFINE m == a * b  l == n \div m  r == n % m  s == n - l * m
           k == s \div a  j == s - k * a
<1>1. a \in Nat /\ a >= 1 /\ b \in Nat /\ b >= 1 /\ c \in Nat /\ c >= 1
  OBVIOUS
<1>2. m \in Nat \ {0} /\ m \in Nat
  BY <1>1
<1>3. a * b * c = m * c /\ m * c \in Nat
  BY <1>1, <1>2
<1>4. n \in Nat /\ n < m * c
  <2> DEFINE size == m * c
  <2>1. size \in Nat /\ n \in 0..(size - 1)
    BY <1>3 DEF Numbers
  <2> HIDE DEF size
  <2>2. n \in Nat /\ n < size
    BY <2>1
  <2> QED BY <2>2 DEF size
<1> HIDE DEF m
<1>5. l \in Int /\ r \in Int /\ 0 <= r /\ r < m /\ n = m * l + r /\ l >= 0
  BY <1>2, <1>4, DivMod
<1> HIDE DEF l, r
<1>6. l < c
  <2>1. ~ (l >= c)
    <3>1. l >= c => m * l >= m * c
      BY <1>1, <1>2, <1>5
    <3> DEFINE ml == m * l  mc == m * c
    <3>2. ml \in Int /\ mc \in Int
      BY <1>1, <1>2, <1>5
    <3> HIDE DEF ml, mc
    <3>3. n < mc /\ n = ml + r /\ (l >= c => ml >= mc)
      BY <1>4, <1>5, <3>1 DEF ml, mc
    <3> QED BY <1>4, <1>5, <3>2, <3>3
  <2> QED BY <1>1, <1>5, <2>1
<1>7. s = r
  BY <1>2, <1>4, <1>5
<1> DEFINE q == s % a
<1> HIDE DEF s
<1>8. k \in Int /\ q \in Int /\ 0 <= q /\ q < a /\ s = a * k + q /\ k >= 0
  BY <1>5, <1>7, DivMod
<1> HIDE DEF q, k
<1>9. k < b
  <2>1. k >= b => a * k >= a * b
    BY <1>1, <1>8
  <2> DEFINE ak == a * k
  <2>2. ak \in Int
    BY <1>1, <1>8
  <2> HIDE DEF ak
  <2>3. s = ak + q /\ (k >= b => ak >= m) /\ s < m
    BY <1>5, <1>7, <1>8, <2>1 DEF ak, m
  <2> QED BY <1>1, <1>2, <1>8, <2>2, <2>3
<1>10. j = q
  BY <1>1, <1>5, <1>7, <1>8
<1>11. Flat(j, k, l, a, b) = n
  <2>1. j + k * a = s
    BY <1>1, <1>8, <1>10
  <2>2. l * a * b = l * m
    BY <1>1, <1>5 DEF m
  <2>3. Flat(j, k, l, a, b) = s + l * m
    BY <2>1, <2>2 DEF Flat
  <2>4. n = s + l * m
    BY <1>2, <1>5, <1>7
  <2> QED BY <2>3, <2>4
<1>12. j \in 0..(a - 1) /\ k \in 0..(b - 1) /\ l \in 0..(c - 1)
  BY <1>1, <1>5, <1>6, <1>8, <1>9, <1>10
<1> QED BY <1>11, <1>12

(* Numbers are in the order of the places.                                  *)
Before(x, y, z, u, v, w) == z < w \/ (z = w /\ y < v) \/ (z = w /\ y = v /\ x < u)

LEMMA FlatGrows ==
    ASSUME NEW a \in Nat \ {0}, NEW b \in Nat \ {0},
           NEW x \in 0..(a - 1), NEW y \in 0..(b - 1), NEW z \in Nat,
           NEW u \in 0..(a - 1), NEW v \in 0..(b - 1), NEW w \in Nat,
           Before(x, y, z, u, v, w)
    PROVE  Flat(x, y, z, a, b) < Flat(u, v, w, a, b)
<1> DEFINE f == Flat(x, y, z, a, b)  g == Flat(u, v, w, a, b)  m == a * b
<1>1. f \in Nat /\ f - z * m = x + y * a /\ \A c \in Nat : z < c => f < m * c
  <2>1. f \in Nat /\ f - z * m = x + y * a
    BY FlatFound
  <2>2. \A c \in Nat : z < c => f < m * c
    BY FlatFound, Zenon
  <2> QED BY <2>1, <2>2
<1>10. g \in Nat /\ g - w * m = u + v * a
  BY FlatFound
<1>2. x + y * a \in Nat /\ u + v * a \in Nat /\ m \in Nat /\ z * m \in Nat /\ w * m \in Nat
  OBVIOUS
<1>3. m * w = w * m
  OBVIOUS
<1> DEFINE zm == z * m  wm == w * m  r == x + y * a  s == u + v * a
<1>11. /\ f \in Nat /\ f = zm + r /\ g \in Nat /\ g = wm + s /\ r \in Nat /\ s \in Nat
       /\ zm \in Nat /\ wm \in Nat /\ (z < w => f < wm) /\ (z = w => zm = wm)
  <2>1. z < w => f < m * w
    BY <1>1
  <2> HIDE DEF f, g, m
  <2>2. z < w => f < w * m
    BY <1>3, <2>1
  <2>3. f = z * m + r
    BY <1>1, <1>2
  <2>4. g = w * m + s
    BY <1>2, <1>10
  <2> QED BY <1>1, <1>2, <1>10, <2>2, <2>3, <2>4
<1> HIDE DEF f, g, m, zm, wm, r, s
<1>4. CASE z < w
  <2>1. f < g
    BY <1>4, <1>11
  <2> QED BY <2>1 DEF f, g
<1>5. CASE z = w /\ y < v
  <2>1. x + y * a < u + v * a
    <3>1. (y + 1) * a <= v * a /\ (y + 1) * a = y * a + a
      BY <1>5
    <3> DEFINE ya == y * a  va == v * a
    <3>2. ya \in Nat /\ va \in Nat /\ ya + a <= va
      BY <3>1
    <3> HIDE DEF ya, va
    <3>3. x + ya < u + va
      BY <3>2
    <3> QED BY <3>3 DEF ya, va
  <2>2. r < s
    BY <2>1 DEF r, s
  <2>3. f < g
    BY <1>5, <1>11, <2>2
  <2> QED BY <2>3 DEF f, g
<1>6. CASE z = w /\ y = v /\ x < u
  <2>1. x + y * a < u + v * a
    <3> DEFINE ya == y * a
    <3>1. ya \in Nat /\ v * a = ya
      BY <1>6
    <3> HIDE DEF ya
    <3>2. x + ya < u + ya
      BY <1>6, <3>1
    <3> QED BY <3>1, <3>2 DEF ya
  <2>2. r < s
    BY <2>1 DEF r, s
  <2>3. f < g
    BY <1>6, <1>11, <2>2
  <2> QED BY <2>3 DEF f, g
<1> QED BY <1>4, <1>5, <1>6 DEF Before, f, g

LEMMA FlatOrder ==
    ASSUME NEW a \in Nat \ {0}, NEW b \in Nat \ {0},
           NEW x \in 0..(a - 1), NEW y \in 0..(b - 1), NEW z \in Nat,
           NEW u \in 0..(a - 1), NEW v \in 0..(b - 1), NEW w \in Nat
    PROVE  /\ Flat(x, y, z, a, b) < Flat(u, v, w, a, b) <=> Before(x, y, z, u, v, w)
           /\ Flat(x, y, z, a, b) = Flat(u, v, w, a, b) <=> x = u /\ y = v /\ z = w
<1> DEFINE f == Flat(x, y, z, a, b)  g == Flat(u, v, w, a, b)
<1>1. f \in Nat /\ g \in Nat
  BY FlatFound
<1>2. Before(x, y, z, u, v, w) => f < g
  BY FlatGrows
<1>3. Before(u, v, w, x, y, z) => g < f
  BY FlatGrows
<1>4. Before(x, y, z, u, v, w) \/ Before(u, v, w, x, y, z) \/ (x = u /\ y = v /\ z = w)
  BY DEF Before
<1>5. x = u /\ y = v /\ z = w => f = g
  OBVIOUS
<1>6. Before(x, y, z, u, v, w) => ~ (x = u /\ y = v /\ z = w)
  BY DEF Before
<1>7. Before(u, v, w, x, y, z) => ~ (x = u /\ y = v /\ z = w)
  BY DEF Before
<1> HIDE DEF f, g
<1>8. /\ f < g <=> Before(x, y, z, u, v, w)
      /\ f = g <=> x = u /\ y = v /\ z = w
  BY <1>1, <1>2, <1>3, <1>4, <1>5, <1>6, <1>7
<1> QED BY <1>8 DEF f, g
-----------------------------------------------------------------------------
(* Results: the flat absolute identifier is the index of a result.          *)
LEMMA GeometryIs ==
    ASSUME NEW g \in Geometries
    PROVE  /\ \A d \in 1..3 : g.grid[d] \in Nat \ {0} /\ g.group[d] \in Nat \ {0}
           /\ g.nDim \in 1..3
           /\ \A d \in 1..3 : ~Used(g, d) => g.grid[d] = 1
           /\ GridSize(g) = g.grid[1] * g.grid[2] * g.grid[3]
           /\ GridSize(g) \in Nat \ {0}
<1>1. /\ \A d \in 1..3 : g.grid[d] \in Nat \ {0} /\ g.group[d] \in Nat \ {0}
      /\ g.nDim \in 1..3
      /\ \A d \in 1..3 : ~Used(g, d) => g.grid[d] = 1
  BY DEF Geometries, Sizes
<1>2. GridSize(g) = g.grid[1] * g.grid[2] * g.grid[3]
  BY DEF GridSize, Volume, X, Y, Z
<1> DEFINE a == g.grid[1]  b == g.grid[2]  c == g.grid[3]
<1>3. a \in Nat \ {0} /\ b \in Nat \ {0} /\ c \in Nat \ {0}
  BY <1>1
<1> HIDE DEF a, b, c
<1>4. a * b * c \in Nat \ {0}
  <2>1. a * b \in Nat \ {0}
    BY <1>3
  <2> DEFINE m == a * b
  <2> HIDE DEF m
  <2>2. m * c \in Nat \ {0}
    BY <1>3, <2>1 DEF m
  <2> QED BY <2>2 DEF m
<1> QED BY <1>1, <1>2, <1>4 DEF a, b, c

LEMMA ItemIs ==
    ASSUME NEW g \in Geometries, NEW p \in Items(g)
    PROVE  /\ \A d \in 1..3 : p[d] \in 0..(g.grid[d] - 1)
           /\ p = <<p[1], p[2], p[3]>>
           /\ WorkitemFlatAbsId(g, p) = Flat(p[1], p[2], p[3], g.grid[1], g.grid[2])
<1>1. \A d \in 1..3 : p[d] \in 0..(g.grid[d] - 1)
  BY DEF Items, X, Y, Z
<1>2. p = <<p[1], p[2], p[3]>>
  BY DEF Items
<1>3. ASSUME NEW d \in 1..3 PROVE WorkitemAbsId(g, p, d) = p[d]
  <2> DEFINE w == g.grid[d]  x == p[d]
  <2>1. w \in Nat \ {0} /\ x \in 0..(w - 1) /\ (~Used(g, d) => w = 1)
    BY <1>1, GeometryIs
  <2>2. WorkitemAbsId(g, p, d) = IF Used(g, d) THEN x % w ELSE 0
    BY DEF WorkitemAbsId
  <2> HIDE DEF w, x
  <2>3. x % w = x
    <3>1. x = w * 0 + x /\ x \in Int /\ 0 <= x /\ x < w
      BY <2>1
    <3> QED BY <2>1, <3>1, RemainderIs
  <2>4. w = 1 => x = 0
    BY <2>1
  <2> QED BY <2>1, <2>2, <2>3, <2>4 DEF x
<1>4. WorkitemFlatAbsId(g, p) = Flat(p[1], p[2], p[3], g.grid[1], g.grid[2])
  BY <1>3 DEF WorkitemFlatAbsId, X, Y, Z
<1> QED BY <1>1, <1>2, <1>4

LEMMA PlaceIs ==
    ASSUME NEW g \in Geometries, NEW x \in 0..(g.grid[1] - 1),
           NEW y \in 0..(g.grid[2] - 1), NEW z \in 0..(g.grid[3] - 1)
    PROVE  <<x, y, z>> \in Items(g)
  BY DEF Items, X, Y, Z

(* Every work-item has a result of its own, and every result is that of a   *)
(* work-item, which Point finds.                                            *)
THEOREM ResultsApart ==
    ASSUME NEW g \in Geometries
    PROVE  /\ \A p \in Items(g) :
                /\ WorkitemFlatAbsId(g, p) \in 0..(GridSize(g) - 1)
                /\ Point(g, WorkitemFlatAbsId(g, p)) = p
           /\ \A n \in 0..(GridSize(g) - 1) :
                Point(g, n) \in Items(g) /\ WorkitemFlatAbsId(g, Point(g, n)) = n
<1> DEFINE a == g.grid[1]  b == g.grid[2]  c == g.grid[3]
<1>1. a \in Nat \ {0} /\ b \in Nat \ {0} /\ c \in Nat \ {0} /\ GridSize(g) = a * b * c
  BY GeometryIs
<1>2. ASSUME NEW n
      PROVE  Point(g, n) = LET z == n \div (a * b)  y == (n - z * (a * b)) \div a
                           IN  <<n - z * (a * b) - y * a, y, z>>
  BY DEF Point, X, Y
<1>3. ASSUME NEW p \in Items(g)
      PROVE  /\ WorkitemFlatAbsId(g, p) \in 0..(GridSize(g) - 1)
             /\ Point(g, WorkitemFlatAbsId(g, p)) = p
  <2> DEFINE x == p[1]  y == p[2]  z == p[3]  f == Flat(x, y, z, a, b)
  <2>1. /\ x \in 0..(a - 1) /\ y \in 0..(b - 1) /\ z \in 0..(c - 1)
        /\ p = <<x, y, z>> /\ WorkitemFlatAbsId(g, p) = f
    BY ItemIs
  <2> HIDE DEF a, b, c, x, y, z
  <2>2. z \in Nat /\ z < c /\ c \in Nat
    BY <1>1, <2>1
  <2>3. /\ f \in Nat /\ f \div (a * b) = z
        /\ (f - z * (a * b)) \div a = y
        /\ f - z * (a * b) - y * a = x
        /\ f < a * b * c
    <3> HIDE DEF f
    <3>1. \A i \in Nat : z < i => f < a * b * i
      BY <1>1, <2>1, <2>2, FlatFound DEF f
    <3>2. f < a * b * c
      BY <2>2, <3>1
    <3>3. /\ f \in Nat /\ f \div (a * b) = z
          /\ (f - z * (a * b)) \div a = y
          /\ f - z * (a * b) - y * a = x
      BY <1>1, <2>1, <2>2, FlatFound DEF f
    <3> QED BY <3>2, <3>3
  <2> HIDE DEF f
  <2>4. Point(g, f) = <<x, y, z>>
    BY <1>2, <2>3
  <2>5. f \in 0..(a * b * c - 1)
    <3> DEFINE v == a * b * c
    <3>1. v \in Nat /\ f < v
      BY <1>1, <2>3
    <3> HIDE DEF v
    <3>2. f \in 0..(v - 1)
      BY <2>3, <3>1
    <3> QED BY <3>2 DEF v
  <2> QED BY <1>1, <2>1, <2>4, <2>5
<1>4. ASSUME NEW n \in 0..(GridSize(g) - 1)
      PROVE  Point(g, n) \in Items(g) /\ WorkitemFlatAbsId(g, Point(g, n)) = n
  <2>1. n \in Numbers(a, b, c)
    BY <1>1 DEF Numbers
  <2> HIDE DEF a, b, c
  <2>2. PICK x \in 0..(a - 1), y \in 0..(b - 1), z \in 0..(c - 1) : Flat(x, y, z, a, b) = n
    <3>1. a \in Nat \ {0} /\ b \in Nat \ {0} /\ c \in Nat \ {0}
      BY <1>1
    <3> QED BY <2>1, <3>1, FlatReached
  <2>3. <<x, y, z>> \in Items(g)
    BY PlaceIs DEF a, b, c
  <2>4. WorkitemFlatAbsId(g, <<x, y, z>>) = Flat(x, y, z, a, b)
    BY <2>3, ItemIs DEF a, b
  <2>5. Point(g, n) = <<x, y, z>>
    BY <1>3, <2>2, <2>3, <2>4
  <2> QED BY <2>2, <2>3, <2>4, <2>5
<1> QED BY <1>3, <1>4

(* The iterator goes to the work-item with the next result.                 *)
LEMMA AdvanceIs ==
    ASSUME NEW g \in Geometries, NEW n \in 0..(GridSize(g) - 1)
    PROVE  Advance(g, Point(g, n)) = IF n + 1 < GridSize(g) THEN Point(g, n + 1) ELSE GridEnd(g)
<1> DEFINE a == g.grid[1]  b == g.grid[2]  c == g.grid[3]  p == Point(g, n)
           x == p[1]  y == p[2]  z == p[3]
<1>1. a \in Nat \ {0} /\ b \in Nat \ {0} /\ c \in Nat \ {0} /\ GridSize(g) = a * b * c /\ GridSize(g) \in Nat
  BY GeometryIs
<1>2. p \in Items(g) /\ WorkitemFlatAbsId(g, p) = n
  BY ResultsApart
<1> HIDE DEF p
<1>3. /\ x \in 0..(a - 1) /\ y \in 0..(b - 1) /\ z \in 0..(c - 1)
      /\ n = Flat(x, y, z, a, b)
  BY <1>2, ItemIs
<1>4. Advance(g, p) = IF x + 1 # a THEN <<x + 1, y, z>>
                      ELSE IF y + 1 # b THEN <<0, y + 1, z>> ELSE <<0, 0, z + 1>>
  BY DEF Advance, X, Y, Z
<1>5. GridEnd(g) = <<0, 0, c>>
  BY DEF GridEnd, Z
\* What it takes to be the next.
<1>6. ASSUME NEW u \in 0..(a - 1), NEW v \in 0..(b - 1), NEW w \in 0..(c - 1),
             Flat(u, v, w, a, b) = n + 1
      PROVE  n + 1 < GridSize(g) /\ Point(g, n + 1) = <<u, v, w>>
  <2>1. <<u, v, w>> \in Items(g)
    BY PlaceIs
  <2>2. WorkitemFlatAbsId(g, <<u, v, w>>) = n + 1
    BY <1>6, <2>1, ItemIs
  <2>3. n + 1 \in 0..(GridSize(g) - 1) /\ Point(g, n + 1) = <<u, v, w>>
    BY <2>1, <2>2, ResultsApart
  <2> QED BY <1>1, <2>3
<1> HIDE DEF a, b, c, x, y, z
<1>7. CASE x + 1 # a
  <2>1. x + 1 \in 0..(a - 1)
    BY <1>1, <1>3, <1>7
  <2>2. Flat(x + 1, y, z, a, b) = n + 1
    BY <1>1, <1>3 DEF Flat
  <2>3. n + 1 < GridSize(g) /\ Point(g, n + 1) = <<x + 1, y, z>>
    BY <1>3, <1>6, <2>1, <2>2
  <2> QED BY <1>4, <1>7, <2>3 DEF p
<1>8. CASE x + 1 = a /\ y + 1 # b
  <2>1. y + 1 \in 0..(b - 1) /\ 0 \in 0..(a - 1)
    BY <1>1, <1>3, <1>8
  <2>2. Flat(0, y + 1, z, a, b) = n + 1
    <3>1. (y + 1) * a = y * a + a /\ y * a \in Int /\ z * a * b \in Int
      BY <1>1, <1>3
    <3> QED BY <1>1, <1>3, <1>8, <3>1 DEF Flat
  <2>3. n + 1 < GridSize(g) /\ Point(g, n + 1) = <<0, y + 1, z>>
    BY <1>3, <1>6, <2>1, <2>2
  <2> QED BY <1>4, <1>8, <2>3 DEF p
<1>9. CASE x + 1 = a /\ y + 1 = b
  <2>1. Flat(0, 0, z + 1, a, b) = n + 1
    <3>1. (z + 1) * a * b = z * a * b + a * b /\ a * b \in Int /\ z * a * b \in Int
      BY <1>1, <1>3
    <3>2. x + y * a = a * b - 1
      <4>1. (y + 1) * a = y * a + a /\ y * a \in Int
        BY <1>1, <1>3
      <4>2. b * a = a * b
        BY <1>1
      <4> QED BY <1>1, <1>3, <1>9, <4>1, <4>2
    <3>3. 0 * a = 0
      BY <1>1
    <3> QED BY <1>1, <1>3, <3>1, <3>2, <3>3 DEF Flat
  <2>2. CASE z + 1 < c
    <3>1. z + 1 \in 0..(c - 1) /\ 0 \in 0..(a - 1) /\ 0 \in 0..(b - 1)
      BY <1>1, <1>3, <2>2
    <3>2. n + 1 < GridSize(g) /\ Point(g, n + 1) = <<0, 0, z + 1>>
      BY <1>6, <2>1, <3>1
    <3> QED BY <1>4, <1>9, <3>2 DEF p
  <2>3. CASE ~ (z + 1 < c)
    <3>1. z + 1 = c
      BY <1>1, <1>3, <2>3
    <3>2. n + 1 = a * b * c
      <4>1. c * a * b = a * b * c /\ 0 * a = 0
        BY <1>1
      <4> QED BY <1>1, <2>1, <3>1, <4>1 DEF Flat
    <3>3. ~ (n + 1 < GridSize(g))
      BY <1>1, <3>2
    <3> QED BY <1>4, <1>5, <1>9, <3>1, <3>3 DEF p
  <2> QED BY <2>2, <2>3
<1> QED BY <1>3, <1>7, <1>8, <1>9

(* From GridBegin, the iterator visits every work-item once, in the order   *)
(* of their results, and stops at GridEnd.                                  *)
THEOREM VisitsAllHolds ==
    ASSUME NEW g \in Geometries, NEW points \in Seq(Nat \X Nat \X Nat),
           Len(points) = GridSize(g), points[1] = GridBegin,
           \A i \in 1..(GridSize(g) - 1) : points[i + 1] = Advance(g, points[i])
    PROVE  VisitsAllOn(g, points)
<1> DEFINE N == GridSize(g)
           S == {i \in Nat : i < N => points[i + 1] = Point(g, i)}
<1>1. N \in Nat \ {0}
  BY GeometryIs
<1>2. 0 \in S
  <2> DEFINE a == g.grid[1]  b == g.grid[2]  c == g.grid[3]
  <2>1. a \in Nat \ {0} /\ b \in Nat \ {0} /\ c \in Nat \ {0}
    BY GeometryIs
  <2>2. <<0, 0, 0>> \in Items(g)
    <3>1. ASSUME NEW w \in Nat \ {0} PROVE 0 \in 0..(w - 1)
      OBVIOUS
    <3> QED BY <2>1, <3>1, PlaceIs
  <2>3. WorkitemFlatAbsId(g, <<0, 0, 0>>) = 0
    <3>1. Flat(0, 0, 0, a, b) = 0
      <4> HIDE DEF a, b
      <4>1. 0 * a = 0 /\ 0 * b = 0
        BY <2>1
      <4> QED BY <4>1 DEF Flat
    <3> QED BY <2>2, <3>1, ItemIs
  <2>4. Point(g, 0) = <<0, 0, 0>>
    BY <2>2, <2>3, ResultsApart
  <2>5. points[1] = <<0, 0, 0>> /\ 0 + 1 = 1
    BY DEF GridBegin
  <2>6. points[0 + 1] = Point(g, 0)
    BY <2>4, <2>5, Zenon
  <2> QED BY <2>6
<1>3. ASSUME NEW i \in Nat, i \in S PROVE i + 1 \in S
  <2>1. SUFFICES ASSUME i + 1 < N PROVE points[(i + 1) + 1] = Point(g, i + 1)
    OBVIOUS
  <2>2. i \in 0..(N - 1) /\ i + 1 \in 1..(N - 1) /\ i < N
    BY <1>1, <2>1
  <2>3. points[(i + 1) + 1] = Advance(g, points[i + 1])
    BY <2>2
  <2>4. points[i + 1] = Point(g, i)
    BY <1>3, <2>2
  <2>5. Advance(g, Point(g, i)) = Point(g, i + 1)
    BY <2>1, <2>2, AdvanceIs
  <2> QED BY <2>3, <2>4, <2>5
<1> HIDE DEF S
<1>4. Nat \subseteq S
  BY <1>2, <1>3, ByInduction
<1>5. ASSUME NEW i \in 1..N PROVE points[i] = Point(g, i - 1)
  <2>1. i - 1 \in S /\ i - 1 < N /\ (i - 1) + 1 = i
    BY <1>1, <1>4
  <2>2. points[(i - 1) + 1] = Point(g, i - 1)
    BY <2>1 DEF S
  <2> QED BY <2>1, <2>2
<1> HIDE DEF N
<1>6. DOMAIN points = 1..N /\ Len(points) = N
  BY DEF N
<1>7. \A i \in 1..N : i - 1 \in 0..(N - 1)
  BY <1>1
<1>8. ToSet(points) = Items(g)
  <2>1. ASSUME NEW i \in 1..N PROVE points[i] \in Items(g)
    BY <1>5, <1>7, ResultsApart DEF N
  <2>2. ASSUME NEW p \in Items(g) PROVE \E i \in 1..N : points[i] = p
    <3> DEFINE n == WorkitemFlatAbsId(g, p)
    <3>1. n \in 0..(N - 1) /\ Point(g, n) = p
      BY ResultsApart DEF N
    <3> HIDE DEF n
    <3>2. n + 1 \in 1..N /\ (n + 1) - 1 = n
      BY <1>1, <3>1
    <3> QED BY <1>5, <3>1, <3>2
  <2> QED BY <1>6, <2>1, <2>2 DEF ToSet
<1>9. Advance(g, Last(points)) = GridEnd(g)
  <2>1. N \in 1..N /\ N - 1 \in 0..(N - 1) /\ ~ ((N - 1) + 1 < N)
    BY <1>1
  <2>2. Last(points) = Point(g, N - 1)
    BY <1>5, <1>6, <2>1 DEF Last
  <2> QED BY <2>1, <2>2, AdvanceIs DEF N
<1>10. ASSUME NEW i \in 1..Len(points)
       PROVE  WorkitemFlatAbsId(g, points[i]) = i - 1 /\ Point(g, i - 1) = points[i]
  BY <1>5, <1>6, <1>7, ResultsApart DEF N
<1> QED BY <1>8, <1>9, <1>10 DEF VisitsAllOn
-----------------------------------------------------------------------------
(* Groups: what a dimension of size n is divided into by groups of size w.  *)
\* CurrentWorkgroupSize, in a used dimension.
SizeAt(n, w, i) == IF i < (n \div w) * w THEN w ELSE n % w
\* Extent, of the group t.
GroupAt(t, w) == (t * w)..((t + 1) * w - 1)
\* The places of one group agree on the group and on its size.
AgreeOnGroup(n, w, i) ==
    \A j \in 0..(n - 1) : j \in GroupAt(i \div w, w) =>
        j \div w = i \div w /\ SizeAt(n, w, j) = SizeAt(n, w, i)

LEMMA GroupOfPlace ==
    ASSUME NEW w \in Nat \ {0}, NEW n \in Nat \ {0}, NEW i \in 0..(n - 1)
    PROVE  LET t == i \div w
           IN  /\ t \in Nat /\ t < (n + w - 1) \div w /\ (n + w - 1) \div w \in Nat
               /\ i % w = i - t * w
               /\ i - t * w \in 0..(SizeAt(n, w, i) - 1)
               /\ SizeAt(n, w, i) \in 1..w
               /\ \A e \in 0..(SizeAt(n, w, i) - 1) :
                    /\ t * w + e \in 0..(n - 1)
                    /\ t * w + e \in GroupAt(t, w)
               /\ AgreeOnGroup(n, w, i)
<1> DEFINE t == i \div w  r == i % w  k == n \div w  e == n % w  tw == t * w  kw == k * w
           C == SizeAt(n, w, i)
<1>1. t \in Nat /\ t < (n + w - 1) \div w /\ (n + w - 1) \div w \in Nat
  BY RoundedUp, Quotient
<1>2. t \in Int /\ r \in Int /\ 0 <= r /\ r < w /\ i = w * t + r
  BY DivMod
<1>3. k \in Nat /\ e \in Int /\ 0 <= e /\ e < w /\ n = w * k + e
  BY DivMod, Quotient
<1>4. C = IF i < kw THEN w ELSE e
  BY DEF SizeAt
<1> HIDE DEF t, r, k, e
<1>5. tw \in Nat /\ kw \in Nat /\ i = tw + r /\ n = kw + e
  BY <1>1, <1>2, <1>3
<1>6. (t + 1) * w = tw + w
  BY <1>1
\* Whole groups are those before k; the last one has what remains.
<1>7. /\ i < kw => t + 1 <= k /\ tw + w <= kw
      /\ ~ (i < kw) => t = k
  <2>1. i < kw => t < k
    <3>1. t >= k => tw >= kw
      BY <1>1, <1>3
    <3> QED BY <1>1, <1>2, <1>3, <1>5, <3>1
  <2>2. t + 1 <= k => tw + w <= kw
    <3>1. t + 1 <= k => (t + 1) * w <= k * w
      BY <1>1, <1>3
    <3> QED BY <1>6, <3>1
  <2>3. ~ (i < kw) => t >= k
    <3>1. t + 1 <= k => i < kw
      BY <1>2, <1>5, <2>2
    <3> QED BY <1>1, <1>3, <3>1
  <2>4. t <= k
    <3>1. t >= k + 1 => tw >= kw + w
      <4>1. t >= k + 1 => t * w >= (k + 1) * w /\ (k + 1) * w = kw + w
        BY <1>1, <1>3
      <4> QED BY <4>1
    <3> QED BY <1>1, <1>2, <1>3, <1>5, <3>1
  <2> QED BY <1>1, <1>3, <2>1, <2>2, <2>3, <2>4
<1>8. t = k => tw = kw
  OBVIOUS
<1> HIDE DEF tw, kw, C
<1>9. r = i - tw /\ r < C /\ C \in 1..w
  BY <1>2, <1>3, <1>4, <1>5, <1>7, <1>8
<1>10. tw + C <= n
  BY <1>3, <1>4, <1>5, <1>7, <1>8
<1>11. ASSUME NEW j \in 0..(n - 1), tw <= j, j <= tw + w - 1
       PROVE  j \div w = t /\ SizeAt(n, w, j) = C
  <2>1. j = w * t + (j - tw) /\ j - tw \in Int /\ 0 <= j - tw /\ j - tw < w /\ j \in Int
    BY <1>1, <1>5, <1>11 DEF tw
  <2>2. j \div w = t
    BY <1>2, <2>1, RemainderIs
  <2>3. SizeAt(n, w, j) = IF j < kw THEN w ELSE e
    BY DEF SizeAt, kw, k, e
  <2>4. j < kw <=> i < kw
    BY <1>5, <1>7, <1>8, <1>9, <1>11, <2>1
  <2> QED BY <1>4, <2>2, <2>3, <2>4
<1> DEFINE u == (t + 1) * w
<1>19. u = tw + w
  BY <1>6
<1> HIDE DEF u
<1>12. ASSUME NEW x \in 0..(C - 1)
       PROVE  tw + x \in 0..(n - 1) /\ tw + x \in tw..(u - 1)
  BY <1>5, <1>9, <1>10, <1>19
<1>13. ASSUME NEW j \in 0..(n - 1), j \in tw..(u - 1)
       PROVE  j \div w = t /\ SizeAt(n, w, j) = C
  BY <1>5, <1>11, <1>13, <1>19
<1>14. r \in 0..(C - 1)
  BY <1>2, <1>9
<1>15. \A x \in 0..(C - 1) : tw + x \in 0..(n - 1) /\ tw + x \in tw..(u - 1)
  BY <1>12
<1>16. \A j \in 0..(n - 1) : j \in tw..(u - 1) =>
          j \div w = t /\ SizeAt(n, w, j) = C
  BY <1>13
<1>17. r = i - tw /\ i - tw \in 0..(C - 1) /\ C \in 1..w
  BY <1>9, <1>14
<1>18. GroupAt(t, w) = tw..(u - 1)
  BY DEF GroupAt, tw, u
<1>20. AgreeOnGroup(n, w, i)
  BY <1>16, <1>18, Zenon DEF AgreeOnGroup, C, t
<1> QED BY <1>1, <1>15, <1>17, <1>18, <1>20, Zenon DEF tw, C, t, r

(* The place of a work-item in its group, in dimensions used or not.        *)
LEMMA PlaceInGroup ==
    ASSUME NEW g \in Geometries, NEW p \in Items(g), NEW d \in 1..3
    PROVE  LET t == Tile(g, p)[d]  C == CurrentWorkgroupSizeOf(g, p, d)  base == t * g.group[d]
           IN  /\ t \in 0..(GridGroupsOf(g, d) - 1) /\ GridGroupsOf(g, d) \in Nat \ {0}
               /\ base \in Nat
               /\ WorkgroupId(g, p, d) = t
               /\ WorkitemId(g, p, d) = p[d] - base
               /\ p[d] - base \in 0..(C - 1)
               /\ C \in 1..g.group[d]
               /\ \A e \in 0..(C - 1) :
                    base + e \in 0..(g.grid[d] - 1) /\ base + e \in Extent(g, Tile(g, p), d)
               /\ p[d] \in Extent(g, Tile(g, p), d)
               /\ \A q \in Items(g) : q[d] \in Extent(g, Tile(g, p), d) =>
                    /\ Tile(g, q)[d] = t
                    /\ CurrentWorkgroupSizeOf(g, q, d) = C
<1> DEFINE w == g.group[d]  n == g.grid[d]  i == p[d]  t == Tile(g, p)[d]
           base == t * w  C == CurrentWorkgroupSizeOf(g, p, d)  G == GridGroupsOf(g, d)
           E == Extent(g, Tile(g, p), d)
<1>1. w \in Nat \ {0} /\ n \in Nat \ {0} /\ i \in 0..(n - 1) /\ (~Used(g, d) => n = 1)
  BY GeometryIs, ItemIs
<1>2. ASSUME NEW q \in Items(g)
      PROVE  /\ Tile(g, q)[d] = q[d] \div w
             /\ q[d] \in 0..(n - 1)
             /\ CurrentWorkgroupSizeOf(g, q, d) = IF Used(g, d) THEN SizeAt(n, w, q[d]) ELSE 1
  BY ItemIs DEF Tile, CurrentWorkgroupSizeOf, SizeAt
<1>3. E = GroupAt(t, w)
  BY DEF Extent, GroupAt
<1>4. /\ G = IF Used(g, d) THEN (n + w - 1) \div w ELSE 1
      /\ WorkgroupId(g, p, d) = IF Used(g, d) THEN i \div w ELSE 0
      /\ WorkitemId(g, p, d) = IF Used(g, d) THEN i % w ELSE 0
  BY DEF GridGroupsOf, WorkgroupId, WorkitemId
<1>5. t = i \div w /\ C = IF Used(g, d) THEN SizeAt(n, w, i) ELSE 1
  BY <1>2
<1>6. /\ i \div w \in Nat /\ i \div w < (n + w - 1) \div w /\ (n + w - 1) \div w \in Nat
      /\ i % w = i - t * w
      /\ i - t * w \in 0..(SizeAt(n, w, i) - 1)
      /\ SizeAt(n, w, i) \in 1..w
      /\ AgreeOnGroup(n, w, i)
  <2> HIDE DEF w, n, i, t
  <2> QED BY <1>1, <1>5, GroupOfPlace
<1>7. ASSUME NEW e \in 0..(SizeAt(n, w, i) - 1)
      PROVE  t * w + e \in 0..(n - 1) /\ t * w + e \in E
  <2> DEFINE tt == i \div w
  <2> HIDE DEF w, n, i, t, E
  <2>1. tt * w + e \in 0..(n - 1) /\ tt * w + e \in GroupAt(tt, w)
    BY <1>1, GroupOfPlace
  <2> QED BY <1>3, <1>5, <2>1
<1>8. ASSUME NEW j \in 0..(n - 1), j \in E
      PROVE  j \div w = t /\ SizeAt(n, w, j) = SizeAt(n, w, i)
  <2> HIDE DEF w, n, i, t, E
  <2>1. j \in GroupAt(i \div w, w)
    BY <1>3, <1>5, <1>8
  <2>2. j \div w = i \div w /\ SizeAt(n, w, j) = SizeAt(n, w, i)
    BY <1>6, <1>8, <2>1 DEF AgreeOnGroup
  <2> QED BY <1>5, <2>2
<1> DEFINE S == SizeAt(n, w, i)
<1>9. /\ t \in Nat /\ base \in Nat /\ i = base + (i - base) /\ i - base \in 0..(S - 1) /\ S \in 1..w
  <2> HIDE DEF w, n, i, t, S
  <2> QED BY <1>1, <1>5, <1>6 DEF S
<1>10. i \in E
  <2> HIDE DEF w, n, i, t, S, E
  <2> QED BY <1>7, <1>9 DEF S
<1>11. CASE Used(g, d)
  <2>1. C = S /\ G = (n + w - 1) \div w
    BY <1>4, <1>5, <1>11
  <2> HIDE DEF w, n, i, t, S, E, C, G
  <2>2. t \in 0..(G - 1) /\ G \in Nat \ {0}
    BY <1>5, <1>6, <2>1
  <2>3. WorkgroupId(g, p, d) = t /\ WorkitemId(g, p, d) = i - base
    BY <1>4, <1>5, <1>6, <1>11
  <2>4. \A e \in 0..(C - 1) : base + e \in 0..(n - 1) /\ base + e \in E
    BY <1>7, <2>1 DEF S
  <2>5. ASSUME NEW q \in Items(g), q[d] \in E
        PROVE  Tile(g, q)[d] = t /\ CurrentWorkgroupSizeOf(g, q, d) = C
    <3>1. q[d] \div w = t /\ SizeAt(n, w, q[d]) = S
      BY <1>2, <1>8, <2>5 DEF S
    <3> QED BY <1>2, <1>11, <2>1, <3>1
  <2> QED BY <1>9, <1>10, <2>1, <2>2, <2>3, <2>4, <2>5 DEF w, n, i, t, E, C, G
<1>12. CASE ~Used(g, d)
  <2>1. n = 1 /\ i = 0 /\ C = 1 /\ G = 1
    BY <1>1, <1>4, <1>5, <1>12
  <2> HIDE DEF w, n, i, t, S, E, C, G
  <2>2. t = 0
    <3>1. 0 = w * 0 + 0 /\ 0 \in Int /\ 0 < w
      BY <1>1
    <3>2. 0 \div w = 0
      BY <1>1, <3>1, RemainderIs
    <3> QED BY <1>5, <2>1, <3>2
  <2>3. base = 0
    BY <1>1, <2>2
  <2>4. WorkgroupId(g, p, d) = t /\ WorkitemId(g, p, d) = i - base
    BY <1>4, <1>12, <2>1, <2>2, <2>3
  <2>5. \A e \in 0..(C - 1) : base + e \in 0..(n - 1) /\ base + e \in E
    <3> TAKE e \in 0..(C - 1)
    <3>1. e = 0 /\ base + e = i
      BY <2>1, <2>3
    <3> QED BY <1>1, <1>10, <3>1
  <2>6. ASSUME NEW q \in Items(g), q[d] \in E
        PROVE  Tile(g, q)[d] = t /\ CurrentWorkgroupSizeOf(g, q, d) = C
    <3>1. q[d] \div w = t
      BY <1>2, <1>8, <2>6
    <3> QED BY <1>2, <1>12, <2>1, <3>1
  <2>7. t \in 0..(G - 1) /\ G \in Nat \ {0} /\ base \in Nat /\ i - base \in 0..(C - 1) /\ C \in 1..w
    BY <1>1, <2>1, <2>2, <2>3
  <2> QED BY <1>10, <2>4, <2>5, <2>6, <2>7 DEF w, n, i, t, E, C, G
<1> QED BY <1>11, <1>12

(* The work-items of a group, and the numbers that they have in it.         *)
Base(g, p, d) == Tile(g, p)[d] * g.group[d]
InGroup(g, p, d) == 0..(CurrentWorkgroupSizeOf(g, p, d) - 1)

LEMMA GroupHas ==
    ASSUME NEW g \in Geometries, NEW p \in Items(g), NEW q \in GroupItems(g, Tile(g, p))
    PROVE  /\ q \in Items(g) /\ Tile(g, q) = Tile(g, p)
           /\ \A d \in 1..3 :
                /\ q[d] \in Int /\ Base(g, p, d) \in Nat /\ CurrentWorkgroupSizeOf(g, p, d) \in Nat \ {0}
                /\ q[d] - Base(g, p, d) \in InGroup(g, p, d)
                /\ WorkitemId(g, q, d) = q[d] - Base(g, p, d)
                /\ CurrentWorkgroupSizeOf(g, q, d) = CurrentWorkgroupSizeOf(g, p, d)
<1>1. q \in Items(g) /\ \A d \in 1..3 : q[d] \in Extent(g, Tile(g, p), d)
  BY DEF GroupItems, WholeTile, X, Y, Z
<1>2. \A d \in 1..3 : /\ Tile(g, q)[d] = Tile(g, p)[d]
                      /\ CurrentWorkgroupSizeOf(g, q, d) = CurrentWorkgroupSizeOf(g, p, d)
                      /\ CurrentWorkgroupSizeOf(g, p, d) \in 1..g.group[d]
                      /\ Base(g, p, d) \in Nat
  BY <1>1, PlaceInGroup DEF Base
<1>3. \A d \in 1..3 : /\ q[d] - Base(g, q, d) \in InGroup(g, q, d)
                      /\ WorkitemId(g, q, d) = q[d] - Base(g, q, d)
  BY <1>1, PlaceInGroup DEF Base, InGroup
<1>4. Tile(g, q) = Tile(g, p)
  BY <1>2 DEF Tile
<1>5. \A d \in 1..3 : Base(g, q, d) = Base(g, p, d) /\ InGroup(g, q, d) = InGroup(g, p, d)
  BY <1>2 DEF Base, InGroup
<1>6. \A d \in 1..3 : q[d] \in Int /\ CurrentWorkgroupSizeOf(g, p, d) \in Nat \ {0}
  BY <1>1, <1>2, ItemIs, GeometryIs
<1> QED BY <1>1, <1>2, <1>3, <1>4, <1>5, <1>6

LEMMA GroupHasAll ==
    ASSUME NEW g \in Geometries, NEW p \in Items(g)
    PROVE  /\ \A q \in Items(g) : Tile(g, q) = Tile(g, p) => q \in GroupItems(g, Tile(g, p))
           /\ \A x \in InGroup(g, p, 1), y \in InGroup(g, p, 2), z \in InGroup(g, p, 3) :
                <<Base(g, p, 1) + x, Base(g, p, 2) + y, Base(g, p, 3) + z>> \in GroupItems(g, Tile(g, p))
<1>1. ASSUME NEW q \in Items(g), Tile(g, q) = Tile(g, p) PROVE q \in GroupItems(g, Tile(g, p))
  <2>1. \A d \in 1..3 : q[d] \in Extent(g, Tile(g, p), d)
    BY <1>1, PlaceInGroup
  <2>2. q = <<q[1], q[2], q[3]>>
    BY ItemIs
  <2> QED BY <2>1, <2>2 DEF GroupItems, WholeTile, X, Y, Z
<1>2. ASSUME NEW x \in InGroup(g, p, 1), NEW y \in InGroup(g, p, 2), NEW z \in InGroup(g, p, 3)
      PROVE  <<Base(g, p, 1) + x, Base(g, p, 2) + y, Base(g, p, 3) + z>> \in GroupItems(g, Tile(g, p))
  <2>1. ASSUME NEW d \in 1..3, NEW e \in InGroup(g, p, d)
        PROVE  /\ Base(g, p, d) + e \in 0..(g.grid[d] - 1)
               /\ Base(g, p, d) + e \in Extent(g, Tile(g, p), d)
    BY PlaceInGroup DEF Base, InGroup
  <2> DEFINE u == Base(g, p, 1) + x  v == Base(g, p, 2) + y  w == Base(g, p, 3) + z
  <2>2. /\ u \in 0..(g.grid[1] - 1) /\ u \in Extent(g, Tile(g, p), 1)
        /\ v \in 0..(g.grid[2] - 1) /\ v \in Extent(g, Tile(g, p), 2)
        /\ w \in 0..(g.grid[3] - 1) /\ w \in Extent(g, Tile(g, p), 3)
    BY <2>1
  <2> HIDE DEF u, v, w
  <2>3. <<u, v, w>> \in GroupItems(g, Tile(g, p))
    BY <2>2, PlaceIs DEF GroupItems, WholeTile, X, Y, Z
  <2> QED BY <2>3 DEF u, v, w
<1> QED BY <1>1, <1>2

(* They are numbered from 0, without gaps, in the order of z, y, x.         *)
NumbersOfGroup(g, p) ==
    Numbers(CurrentWorkgroupSizeOf(g, p, 1), CurrentWorkgroupSizeOf(g, p, 2), CurrentWorkgroupSizeOf(g, p, 3))

LEMMA NumberIs ==
    ASSUME NEW g \in Geometries, NEW p \in Items(g), NEW q \in GroupItems(g, Tile(g, p))
    PROVE  CurrentWorkitemFlatId(g, q) =
              Flat(q[1] - Base(g, p, 1), q[2] - Base(g, p, 2), q[3] - Base(g, p, 3),
                   CurrentWorkgroupSizeOf(g, p, 1), CurrentWorkgroupSizeOf(g, p, 2))
  BY GroupHas DEF CurrentWorkitemFlatId, X, Y, Z

LEMMA FlatBelow ==
    ASSUME NEW a \in Nat \ {0}, NEW b \in Nat \ {0}, NEW c \in Nat \ {0},
           NEW x \in 0..(a - 1), NEW y \in 0..(b - 1), NEW z \in 0..(c - 1)
    PROVE  Flat(x, y, z, a, b) \in Numbers(a, b, c)
<1> DEFINE f == Flat(x, y, z, a, b)  m == a * b * c
<1>1. z \in Nat /\ z < c /\ c \in Nat
  OBVIOUS
<1>2. f \in Nat
  BY <1>1, FlatFound
<1>3. \A i \in Nat : z < i => f < a * b * i
  BY <1>1, FlatFound, Zenon
<1>4. f < m
  BY <1>1, <1>3, Zenon
<1>6. m \in Int
  OBVIOUS
<1> HIDE DEF f, m
<1>5. f \in 0..(m - 1)
  BY <1>2, <1>4, <1>6
<1> QED BY <1>5 DEF f, m, Numbers

LEMMA NumbersInOrder ==
    ASSUME NEW g \in Geometries, NEW p \in Items(g),
           NEW q \in GroupItems(g, Tile(g, p)), NEW r \in GroupItems(g, Tile(g, p))
    PROVE  /\ CurrentWorkitemFlatId(g, q) \in NumbersOfGroup(g, p)
           /\ CurrentWorkitemFlatId(g, q) < CurrentWorkitemFlatId(g, r) <=> Precedes(q, r)
           /\ CurrentWorkitemFlatId(g, q) = CurrentWorkitemFlatId(g, r) <=> q = r
<1> DEFINE a == CurrentWorkgroupSizeOf(g, p, 1)  b == CurrentWorkgroupSizeOf(g, p, 2)
           c == CurrentWorkgroupSizeOf(g, p, 3)
           x == q[1] - Base(g, p, 1)  y == q[2] - Base(g, p, 2)  z == q[3] - Base(g, p, 3)
           u == r[1] - Base(g, p, 1)  v == r[2] - Base(g, p, 2)  w == r[3] - Base(g, p, 3)
<1>1. /\ a \in Nat \ {0} /\ b \in Nat \ {0} /\ c \in Nat \ {0}
      /\ x \in 0..(a - 1) /\ y \in 0..(b - 1) /\ z \in 0..(c - 1)
      /\ u \in 0..(a - 1) /\ v \in 0..(b - 1) /\ w \in 0..(c - 1)
  BY GroupHas DEF InGroup
<1>2. /\ CurrentWorkitemFlatId(g, q) = Flat(x, y, z, a, b)
      /\ CurrentWorkitemFlatId(g, r) = Flat(u, v, w, a, b)
      /\ NumbersOfGroup(g, p) = Numbers(a, b, c)
  BY NumberIs DEF NumbersOfGroup
<1>3. /\ Before(x, y, z, u, v, w) <=> Precedes(q, r)
      /\ (x = u /\ y = v /\ z = w) <=> q = r
  <2>1. \A d \in 1..3 : q[d] \in Int /\ r[d] \in Int /\ Base(g, p, d) \in Int
    BY GroupHas
  <2>2. q = <<q[1], q[2], q[3]>> /\ r = <<r[1], r[2], r[3]>>
    BY GroupHas, ItemIs
  <2>3. \A d \in 1..3 : /\ q[d] - Base(g, p, d) < r[d] - Base(g, p, d) <=> q[d] < r[d]
                        /\ q[d] - Base(g, p, d) = r[d] - Base(g, p, d) <=> q[d] = r[d]
    BY <2>1
  <2> QED BY <2>2, <2>3 DEF Before, Precedes, X, Y, Z
<1> HIDE DEF a, b, c, x, y, z, u, v, w
<1>4. z \in Nat /\ w \in Nat
  BY <1>1
<1>5. /\ Flat(x, y, z, a, b) < Flat(u, v, w, a, b) <=> Before(x, y, z, u, v, w)
      /\ Flat(x, y, z, a, b) = Flat(u, v, w, a, b) <=> x = u /\ y = v /\ z = w
  BY <1>1, <1>4, FlatOrder
<1>6. Flat(x, y, z, a, b) \in Numbers(a, b, c)
  BY <1>1, FlatBelow
<1> QED BY <1>2, <1>3, <1>5, <1>6

LEMMA NumbersReached ==
    ASSUME NEW g \in Geometries, NEW p \in Items(g), NEW n \in NumbersOfGroup(g, p)
    PROVE  \E q \in GroupItems(g, Tile(g, p)) : CurrentWorkitemFlatId(g, q) = n
<1> DEFINE a == CurrentWorkgroupSizeOf(g, p, 1)  b == CurrentWorkgroupSizeOf(g, p, 2)
           c == CurrentWorkgroupSizeOf(g, p, 3)
           i == Base(g, p, 1)  j == Base(g, p, 2)  k == Base(g, p, 3)
<1>1. p \in GroupItems(g, Tile(g, p))
  BY GroupHasAll
<1>2. /\ a \in Nat \ {0} /\ b \in Nat \ {0} /\ c \in Nat \ {0}
      /\ i \in Nat /\ j \in Nat /\ k \in Nat
  BY <1>1, GroupHas
<1>3. n \in Numbers(a, b, c)
  BY DEF NumbersOfGroup
<1>4. PICK x \in 0..(a - 1), y \in 0..(b - 1), z \in 0..(c - 1) : Flat(x, y, z, a, b) = n
  <2> HIDE DEF a, b, c
  <2> QED BY <1>2, <1>3, FlatReached
<1> DEFINE q == <<i + x, j + y, k + z>>
<1>5. q \in GroupItems(g, Tile(g, p))
  BY GroupHasAll DEF InGroup
<1>6. q[1] - i = x /\ q[2] - j = y /\ q[3] - k = z
  <2> HIDE DEF i, j, k, a, b, c
  <2> QED BY <1>2
<1>7. CurrentWorkitemFlatId(g, q) = Flat(q[1] - i, q[2] - j, q[3] - k, a, b)
  BY <1>5, NumberIs
<1> HIDE DEF q, a, b
<1> QED BY <1>4, <1>5, <1>6, <1>7

(* The flat identifier of a work-item in its group is its place among the   *)
(* work-items of the group.                                                 *)
THEOREM RankIs ==
    ASSUME NEW g \in Geometries, NEW p \in Items(g), NEW q \in GroupItems(g, Tile(g, p))
    PROVE  Rank(GroupItems(g, Tile(g, p)), q) = CurrentWorkitemFlatId(g, q)
<1> DEFINE S == GroupItems(g, Tile(g, p))  n == CurrentWorkitemFlatId(g, q)
           N == NumbersOfGroup(g, p)  P == {r \in S : Precedes(r, q)}
           F == [r \in P |-> CurrentWorkitemFlatId(g, r)]
<1>1. n \in N /\ n \in Nat /\ 0..(n - 1) \subseteq N
  <2> DEFINE m == CurrentWorkgroupSizeOf(g, p, 1) * CurrentWorkgroupSizeOf(g, p, 2)
                    * CurrentWorkgroupSizeOf(g, p, 3)
  <2>1. m \in Int
    <3> DEFINE a == CurrentWorkgroupSizeOf(g, p, 1)  b == CurrentWorkgroupSizeOf(g, p, 2)
               c == CurrentWorkgroupSizeOf(g, p, 3)
    <3>1. a \in Int /\ b \in Int /\ c \in Int
      BY GroupHas
    <3> HIDE DEF a, b, c
    <3>2. a * b * c \in Int
      BY <3>1
    <3> QED BY <3>2 DEF a, b, c
  <2>2. N = 0..(m - 1)
    BY DEF NumbersOfGroup, Numbers
  <2>3. n \in N
    BY NumbersInOrder
  <2> HIDE DEF N, m, n
  <2> QED BY <2>1, <2>2, <2>3
<1>2. F \in Bijection(P, 0..(n - 1))
  <2>1. ASSUME NEW r \in P PROVE F[r] \in 0..(n - 1)
    <3>1. CurrentWorkitemFlatId(g, r) \in N /\ CurrentWorkitemFlatId(g, r) < n
      BY <2>1, NumbersInOrder
    <3>2. CurrentWorkitemFlatId(g, r) \in Nat
      BY <1>1, <3>1, NumbersInOrder DEF NumbersOfGroup, Numbers
    <3> HIDE DEF n, N
    <3> QED BY <1>1, <3>1, <3>2
  <2>2. ASSUME NEW r \in P, NEW s \in P, F[r] = F[s] PROVE r = s
    BY <2>2, NumbersInOrder
  <2>3. ASSUME NEW k \in 0..(n - 1) PROVE \E r \in P : F[r] = k
    <3>1. PICK r \in S : CurrentWorkitemFlatId(g, r) = k
      BY <1>1, <2>3, NumbersReached
    <3>2. k < n
      BY <1>1
    <3>3. r \in P
      BY <3>1, <3>2, NumbersInOrder
    <3> QED BY <3>1, <3>3
  <2>4. F \in [P -> 0..(n - 1)]
    BY <2>1
  <2> HIDE DEF F, P, n
  <2>5. F \in Injection(P, 0..(n - 1))
    BY <2>2, <2>4, Zenon DEF Injection, IsInjective
  <2>6. F \in Surjection(P, 0..(n - 1))
    BY <2>3, <2>4, Zenon DEF Surjection
  <2> QED BY <2>5, <2>6 DEF Bijection
<1>3. IsFiniteSet(0..(n - 1)) /\ Cardinality(0..(n - 1)) = n
  <2> HIDE DEF n
  <2>1. /\ IsFiniteSet(0..(n - 1))
        /\ Cardinality(0..(n - 1)) = IF 0 > n - 1 THEN 0 ELSE n - 1 - 0 + 1
    BY <1>1, FS_Interval
  <2> QED BY <1>1, <2>1
<1>4. Cardinality(P) = n
  <2> HIDE DEF P, n, F
  <2>1. ExistsBijection(0..(n - 1), P)
    <3>1. ExistsBijection(P, 0..(n - 1))
      BY <1>2 DEF ExistsBijection
    <3> QED BY <3>1, Fun_ExistsBijSymmetric
  <2> QED BY <1>3, <2>1, FS_Bijection
<1> QED BY <1>4 DEF Rank

(* Groups have numbers of their own, below the number of groups.            *)
LEMMA GroupNumber ==
    ASSUME NEW g \in Geometries, NEW p \in Items(g)
    PROVE  /\ WorkgroupFlatId(g, p) \in Nat /\ GridGroups(g) \in Nat
           /\ WorkgroupFlatId(g, p) < GridGroups(g)
           /\ \A q \in Items(g) : WorkgroupFlatId(g, p) = WorkgroupFlatId(g, q) <=> Tile(g, p) = Tile(g, q)
<1> DEFINE a == GridGroupsOf(g, 1)  b == GridGroupsOf(g, 2)  c == GridGroupsOf(g, 3)
<1>1. ASSUME NEW q \in Items(g)
      PROVE  /\ a \in Nat \ {0} /\ b \in Nat \ {0} /\ c \in Nat \ {0}
             /\ Tile(g, q)[1] \in 0..(a - 1) /\ Tile(g, q)[2] \in 0..(b - 1) /\ Tile(g, q)[3] \in 0..(c - 1)
             /\ WorkgroupFlatId(g, q) = Flat(Tile(g, q)[1], Tile(g, q)[2], Tile(g, q)[3], a, b)
  <2>1. \A d \in 1..3 : /\ Tile(g, q)[d] \in 0..(GridGroupsOf(g, d) - 1)
                        /\ GridGroupsOf(g, d) \in Nat \ {0}
                        /\ WorkgroupId(g, q, d) = Tile(g, q)[d]
    BY PlaceInGroup
  <2> QED BY <2>1 DEF WorkgroupFlatId, X, Y, Z
<1>2. GridGroups(g) = a * b * c
  BY DEF GridGroups, X, Y, Z
<1>3. WorkgroupFlatId(g, p) \in Nat /\ GridGroups(g) \in Nat /\ WorkgroupFlatId(g, p) < GridGroups(g)
  <2> DEFINE x == Tile(g, p)[1]  y == Tile(g, p)[2]  z == Tile(g, p)[3]  m == a * b * c
             f == Flat(x, y, z, a, b)
  <2>1. /\ a \in Nat \ {0} /\ b \in Nat \ {0} /\ c \in Nat \ {0}
        /\ x \in 0..(a - 1) /\ y \in 0..(b - 1) /\ z \in 0..(c - 1)
        /\ WorkgroupFlatId(g, p) = f
    BY <1>1
  <2> HIDE DEF a, b, c, x, y, z
  <2>2. f \in Numbers(a, b, c)
    BY <2>1, FlatBelow
  <2>3. a * b \in Nat
    BY <2>1
  <2>4. m \in Nat
    <3> DEFINE k == a * b
    <3> HIDE DEF k
    <3>1. k * c \in Nat
      BY <2>1, <2>3 DEF k
    <3> QED BY <3>1 DEF k
  <2>5. f \in 0..(m - 1)
    BY <2>2 DEF Numbers
  <2> HIDE DEF f, m
  <2>6. f \in Nat /\ f < m
    BY <2>4, <2>5
  <2> QED BY <1>2, <2>1, <2>4, <2>6 DEF m
<1>4. ASSUME NEW q \in Items(g)
      PROVE  WorkgroupFlatId(g, p) = WorkgroupFlatId(g, q) <=> Tile(g, p) = Tile(g, q)
  <2> DEFINE x == Tile(g, p)[1]  y == Tile(g, p)[2]  z == Tile(g, p)[3]
             u == Tile(g, q)[1]  v == Tile(g, q)[2]  w == Tile(g, q)[3]
  <2>1. /\ a \in Nat \ {0} /\ b \in Nat \ {0} /\ c \in Nat \ {0}
        /\ x \in 0..(a - 1) /\ y \in 0..(b - 1) /\ z \in 0..(c - 1)
        /\ u \in 0..(a - 1) /\ v \in 0..(b - 1) /\ w \in 0..(c - 1)
        /\ WorkgroupFlatId(g, p) = Flat(x, y, z, a, b)
        /\ WorkgroupFlatId(g, q) = Flat(u, v, w, a, b)
    BY <1>1
  <2>2. (x = u /\ y = v /\ z = w) <=> Tile(g, p) = Tile(g, q)
    BY DEF Tile
  <2> HIDE DEF a, b, c, x, y, z, u, v, w
  <2>3. z \in Nat /\ w \in Nat
    BY <2>1
  <2>4. Flat(x, y, z, a, b) = Flat(u, v, w, a, b) <=> x = u /\ y = v /\ z = w
    BY <2>1, <2>3, FlatOrder
  <2> QED BY <2>1, <2>2, <2>4
<1> QED BY <1>3, <1>4

(* Numbers in a group are below its whole size.                             *)
LEMMA NumberBelow ==
    ASSUME NEW g \in Geometries, NEW p \in Items(g)
    PROVE  /\ CurrentWorkitemFlatId(g, p) \in Nat /\ WorkgroupSize(g) \in Nat
           /\ CurrentWorkitemFlatId(g, p) < WorkgroupSize(g)
<1> DEFINE a == CurrentWorkgroupSizeOf(g, p, 1)  b == CurrentWorkgroupSizeOf(g, p, 2)
           c == CurrentWorkgroupSizeOf(g, p, 3)
           u == g.group[1]  v == g.group[2]  w == g.group[3]  n == CurrentWorkitemFlatId(g, p)
<1>1. a \in 1..u /\ b \in 1..v /\ c \in 1..w /\ u \in Nat /\ v \in Nat /\ w \in Nat
  BY PlaceInGroup, GeometryIs
<1>2. n \in Numbers(a, b, c)
  <2>1. p \in GroupItems(g, Tile(g, p))
    BY GroupHasAll
  <2> QED BY <2>1, NumbersInOrder DEF NumbersOfGroup
<1>3. WorkgroupSize(g) = u * v * w
  BY DEF WorkgroupSize, Volume, X, Y, Z
<1> HIDE DEF a, b, c, u, v, w, n
<1>4. a * b \in Nat /\ u * v \in Nat /\ a * b <= u * v
  <2>1. a * b <= u * b /\ u * b <= u * v
    BY <1>1
  <2> DEFINE ab == a * b  ub == u * b  uv == u * v
  <2>2. ab \in Nat /\ ub \in Nat /\ uv \in Nat
    BY <1>1
  <2> HIDE DEF ab, ub, uv
  <2>3. ab <= uv
    BY <2>1, <2>2 DEF ab, ub, uv
  <2> QED BY <2>2, <2>3 DEF ab, uv
<1> DEFINE k == a * b  l == u * v
<1> HIDE DEF k, l
<1>5. k * c \in Nat /\ l * w \in Nat /\ k * c <= l * w
  <2>0. k \in Nat /\ l \in Nat /\ k <= l
    BY <1>4 DEF k, l
  <2>1. k * c <= l * c /\ l * c <= l * w
    BY <1>1, <2>0
  <2> DEFINE kc == k * c  lc == l * c  lw == l * w
  <2>2. kc \in Nat /\ lc \in Nat /\ lw \in Nat
    BY <1>1, <2>0
  <2> HIDE DEF kc, lc, lw
  <2>3. kc <= lw
    BY <2>1, <2>2 DEF kc, lc, lw
  <2> QED BY <2>2, <2>3 DEF kc, lw
<1> DEFINE e == k * c  f == l * w
<1>6. n \in 0..(e - 1) /\ WorkgroupSize(g) = f
  BY <1>2, <1>3 DEF Numbers, k, l
<1> HIDE DEF e, f
<1>7. n \in Nat /\ f \in Nat /\ n < f
  <2>1. e \in Nat /\ f \in Nat /\ e <= f
    BY <1>5 DEF e, f
  <2> QED BY <1>6, <2>1
<1> QED BY <1>6, <1>7 DEF n

(* Waves have numbers of their own, in partial groups too, below the number *)
(* of elements of the arrays that are indexed by them, and the lane of a    *)
(* work-item is that of the agent: WavesDistinctOn, for every geometry and  *)
(* size of wavefronts.                                                      *)
THEOREM WavesDistinctHolds ==
    ASSUME NEW g \in Geometries, NEW wavesize \in Nat \ {0}
    PROVE  WavesDistinctOn(g, wavesize)
<1> DEFINE M == MaxWaveNumInWorkgroup(g, wavesize)
<1>1. ASSUME NEW p \in Items(g)
      PROVE  /\ WaveNumInWorkgroup(g, p, wavesize) \in Nat /\ M \in Nat
             /\ WaveNumInWorkgroup(g, p, wavesize) < M
             /\ p \in GroupItems(g, Tile(g, p))
  <2> DEFINE n == CurrentWorkitemFlatId(g, p)  k == WorkgroupSize(g)
  <2>1. n \in Nat /\ k \in Nat /\ n < k
    BY NumberBelow
  <2> HIDE DEF n, k
  <2>2. (k + wavesize - 1) \div wavesize \in Nat /\ n \div wavesize < (k + wavesize - 1) \div wavesize
    BY <2>1, RoundedUp
  <2>3. n \div wavesize \in Nat
    BY <2>1, Quotient
  <2>4. p \in GroupItems(g, Tile(g, p))
    BY GroupHasAll
  <2> QED BY <2>2, <2>3, <2>4 DEF n, k, WaveNumInWorkgroup, MaxWaveNumInWorkgroup
<1>2. ASSUME NEW p \in Items(g), NEW q \in Items(g)
      PROVE  /\ WaveIndex(g, p, wavesize) < MaxWaveIndex(g, wavesize)
             /\ WaveIndex(g, p, wavesize) = WaveIndex(g, q, wavesize) <=>
                    /\ Tile(g, p) = Tile(g, q)
                    /\ WaveNumInWorkgroup(g, p, wavesize) = WaveNumInWorkgroup(g, q, wavesize)
  <2> DEFINE x == WorkgroupFlatId(g, p)  y == WaveNumInWorkgroup(g, p, wavesize)
             u == WorkgroupFlatId(g, q)  v == WaveNumInWorkgroup(g, q, wavesize)  k == GridGroups(g)
  <2>1. /\ x \in Nat /\ y \in Nat /\ u \in Nat /\ v \in Nat /\ k \in Nat /\ M \in Nat
        /\ x < k /\ y < M /\ v < M
        /\ x = u <=> Tile(g, p) = Tile(g, q)
    BY <1>1, GroupNumber
  <2>2. /\ WaveIndex(g, p, wavesize) = x * M + y
        /\ WaveIndex(g, q, wavesize) = u * M + v
        /\ MaxWaveIndex(g, wavesize) = k * M
    BY DEF WaveIndex, MaxWaveIndex
  <2> HIDE DEF x, y, u, v, k, M
  <2>3. x * M + y < k * M /\ (x * M + y = u * M + v <=> x = u /\ y = v)
    BY <2>1, TwoDigits
  <2> QED BY <2>1, <2>2, <2>3 DEF y, v
<1>3. ASSUME NEW p \in Items(g)
      PROVE  LaneId(g, p, wavesize) = Lane(g, p, wavesize)
  BY <1>1, <1>3, RankIs DEF LaneId, Lane
<1>4. ASSUME NEW p \in Items(g), NEW q \in Items(g)
      PROVE  q \in Wave(g, p, wavesize) <=>
                /\ Tile(g, p) = Tile(g, q)
                /\ WaveNumInWorkgroup(g, p, wavesize) = WaveNumInWorkgroup(g, q, wavesize)
  <2>1. q \in GroupItems(g, Tile(g, p)) <=> Tile(g, p) = Tile(g, q)
    BY GroupHas, GroupHasAll
  <2>2. /\ Rank(GroupItems(g, Tile(g, p)), p) = CurrentWorkitemFlatId(g, p)
        /\ q \in GroupItems(g, Tile(g, p)) =>
              Rank(GroupItems(g, Tile(g, p)), q) = CurrentWorkitemFlatId(g, q)
    BY <1>1, RankIs
  <2> QED BY <2>1, <2>2 DEF Wave, WaveNumInWorkgroup
<1>5. ASSUME NEW p \in Items(g), NEW q \in Items(g)
      PROVE  /\ WorkgroupFlatId(g, p) < GridGroups(g)
             /\ (WorkgroupFlatId(g, p) = WorkgroupFlatId(g, q)) <=> (Tile(g, p) = Tile(g, q))
  BY GroupNumber
<1> HIDE DEF M
<1> QED BY <1>2, <1>3, <1>4, <1>5 DEF WavesDistinctOn
-----------------------------------------------------------------------------
(* Arrays of the test generator.                                           *)

(* The instructions that the generator has: loads and stores of elements of *)
(* any type, up to vectors of 4, with every alignment that BRIG has; and    *)
(* atomics.                                                                 *)
LoadsAndStores ==
    {i \in [ldst : {TRUE}, region : {"private", "group", "global"}, elem : {8, 16, 32, 64, 128},
            f16 : BOOLEAN, dim : 1..4, align : {1, 2, 4, 8, 16, 32, 64, 128, 256}] :
        i.f16 => i.elem = 16}
AtomicAccesses ==
    [ldst : {FALSE}, region : {"private", "group", "global"}, elem : {32, 64}, f16 : {FALSE}, dim : {1}, align : {1}]
Groups == [groupSize : Nat \ {0}, groupsNum : Nat \ {0}]

(* Bundles in bytes: how far apart they are, and what is left in front and  *)
(* behind them.                                                             *)
Stride(i) == getMemTestArrayBundleSize(i) \div 8
Data(i) == i.dim * (i.elem \div 8)
Footer(i) == getFooterSize(i) \div 8
Header(i) == getMemTestArrayBundleOffset(i) \div 8

LEMMA LoadIs ==
    ASSUME NEW i \in LoadsAndStores
    PROVE  /\ Header(i) = i.align /\ getMemTestArrayBundleOffset(i) = 8 * i.align
           /\ Data(i) \in 1..64 /\ Footer(i) \in 0..512 /\ Stride(i) \in Nat \ {0}
           /\ getMemTestArrayBundleSize(i) = 8 * Stride(i) /\ getFooterSize(i) = 8 * Footer(i)
           /\ Stride(i) = Data(i) + Footer(i)
           /\ i.align \in 1..256
           /\ \E k \in Nat : Stride(i) = 2 * i.align * k
           /\ AlignedUp(i.align + Data(i)) <= Stride(i) + 256
<1> DEFINE e == i.elem  d == i.dim  a == i.align
<1>1. e \in {8, 16, 32, 64, 128} /\ d \in {1, 2, 3, 4} /\ a \in {1, 2, 4, 8, 16, 32, 64, 128, 256}
  BY DEF LoadsAndStores
<1>8. i.ldst
  <2>1. i.ldst \in {TRUE}
    BY DEF LoadsAndStores
  <2> QED BY <2>1
<1>2. /\ getMemTestArrayBundleDataSize(i) = e * d
      /\ getFooterSize(i) = IF a * 8 * 2 > e * d THEN a * 8 * 2 - e * d ELSE IF d = 3 THEN e ELSE 0
      /\ getMemTestArrayBundleOffset(i) = a * 8
      /\ getMemTestArrayBundleSize(i) = e * d + getFooterSize(i)
  BY <1>8 DEF getMemTestArrayBundleDataSize, getFooterSize, getMemTestArrayBundleOffset,
              getMemTestArrayBundleDataAlignSize, getMemTestArrayBundleSize
<1> HIDE DEF e, d, a
<1> DEFINE c == e \div 8  D == d * c  F == IF a * 2 > D THEN a * 2 - D ELSE IF d = 3 THEN c ELSE 0
           B == D + F
<1>3. c \in {1, 2, 4, 8, 16} /\ e = 8 * c
  BY <1>1
<1> HIDE DEF c
<1>4. D \in 1..64 /\ e * d = 8 * D /\ F \in 0..512
  <2>1. D \in 1..64 /\ e * d = 8 * D
    BY <1>1, <1>3
  <2> HIDE DEF D
  <2> QED BY <1>1, <1>3, <2>1
<1>5. getFooterSize(i) = 8 * F
  <2> HIDE DEF D
  <2>1. a * 8 * 2 > 8 * D <=> a * 2 > D
    BY <1>1, <1>4
  <2> QED BY <1>1, <1>2, <1>3, <1>4, <2>1
<1>6. \E k \in Nat : B = 2 * a * k
  <2>1. CASE a * 2 > D
    <3> HIDE DEF D
    <3>1. B = 2 * a * 1 /\ 1 \in Nat
      BY <1>1, <1>4, <2>1
    <3> QED BY <3>1
  <2>2. CASE ~ (a * 2 > D)
    <3>1. B \in {1, 2, 4, 8, 16, 32, 64}
      BY <1>1, <1>3, <2>2
    <3>2. 2 * a <= B
      <4> HIDE DEF D
      <4> QED BY <1>1, <1>3, <1>4, <2>2
    <3> HIDE DEF B
    <3>3. \E k \in {1, 2, 4, 8, 16, 32} : B = 2 * a * k
      BY <1>1, <3>1, <3>2
    <3> QED BY <3>3
  <2> QED BY <2>1, <2>2
<1>7. AlignedUp(a + D) <= B + 256
  <2> HIDE DEF D
  <2>1. a + D \in 1..320 /\ (a + D > 256 => B = 512)
    BY <1>1, <1>4
  <2>2. B \in 1..600
    <3> HIDE DEF F
    <3> QED BY <1>4
  <2> DEFINE x == a + D
  <2> HIDE DEF B, x
  <2>3. x \in 1..320 /\ (x > 256 => B = 512)
    BY <2>1 DEF x
  <2>4. (x + 255) \div 256 <= (IF x > 256 THEN 2 ELSE 1)
    BY <2>3
  <2>5. (x + 255) \div 256 \in Int
    BY <2>3
  <2> QED BY <2>2, <2>3, <2>4, <2>5 DEF AlignedUp, x
<1>9. /\ Header(i) = a /\ Data(i) = D /\ Footer(i) = F /\ Stride(i) = B
      /\ getMemTestArrayBundleSize(i) = 8 * B
  <2> HIDE DEF D, F
  <2>1. Header(i) = a
    BY <1>1, <1>2 DEF Header
  <2>2. Data(i) = D
    BY DEF Data, D, c, d, e
  <2>3. Footer(i) = F
    BY <1>4, <1>5 DEF Footer
  <2>4. getMemTestArrayBundleSize(i) = 8 * B
    BY <1>2, <1>4, <1>5
  <2>5. Stride(i) = B
    BY <1>4, <2>4 DEF Stride
  <2> QED BY <2>1, <2>2, <2>3, <2>4, <2>5
<1> HIDE DEF D, F
<1>10. B \in Nat \ {0} /\ a \in 1..256 /\ a * 8 = 8 * a
  BY <1>1, <1>4
<1> QED BY <1>2, <1>4, <1>5, <1>6, <1>7, <1>9, <1>10 DEF a

LEMMA AtomicIs ==
    ASSUME NEW i \in AtomicAccesses
    PROVE  /\ ~ i.ldst /\ Header(i) = 0 /\ getMemTestArrayBundleOffset(i) = 0
           /\ Footer(i) = 0 /\ getFooterSize(i) = 0
           /\ Data(i) = Stride(i) /\ Stride(i) = i.elem \div 8 /\ Stride(i) \in {4, 8}
           /\ getMemTestArrayBundleSize(i) = 8 * Stride(i)
<1>1. i.elem \in {32, 64} /\ i.dim = 1
  BY DEF AtomicAccesses
<1>2. ~ i.ldst
  <2>1. i.ldst \in {FALSE}
    BY DEF AtomicAccesses
  <2> QED BY <2>1
<1>3. /\ getFooterSize(i) = 0 /\ getMemTestArrayBundleOffset(i) = 0
      /\ getMemTestArrayBundleSize(i) = i.elem * 1 + 0
  BY <1>1, <1>2 DEF getMemTestArrayBundleDataSize, getFooterSize, getMemTestArrayBundleOffset,
              getMemTestArrayBundleDataAlignSize, getMemTestArrayBundleSize
<1>4. i.elem \in Int /\ i.elem = 8 * (i.elem \div 8) /\ i.elem \div 8 \in {4, 8} /\ i.dim * (i.elem \div 8) = i.elem \div 8
  BY <1>1
<1>5. 0 \div 8 = 0 /\ i.elem * 1 + 0 = i.elem
  BY <1>4
<1> QED BY <1>2, <1>3, <1>4, <1>5 DEF Header, Footer, Data, Stride

(* What both have, and the size of the array.                               *)
Bundles(i, g) == IF i.region = "private" THEN g.groupSize ELSE g.groupSize * g.groupsNum
ArraySize(i, g) == Header(i) - Footer(i) + Stride(i) * Bundles(i, g)
DeclSize(i, g) == getMemTestArrayDeclDim(i, g) * (IF i.ldst THEN 1 ELSE i.elem \div 8)

LEMMA SizeIs ==
    ASSUME NEW i \in LoadsAndStores \cup AtomicAccesses, NEW g \in Groups
    PROVE  /\ Bundles(i, g) \in Nat \ {0} /\ Stride(i) \in Nat \ {0} /\ Header(i) \in Nat /\ Footer(i) \in Nat
           /\ Data(i) \in Nat \ {0} /\ Stride(i) = Data(i) + Footer(i)
           /\ getMemTestArraySizeInBytes(i, g) = ArraySize(i, g)
           /\ DeclSize(i, g) = ArraySize(i, g)
           /\ ArraySize(i, g) \in Nat
<1>1. /\ Stride(i) \in Nat \ {0} /\ Header(i) \in Nat /\ Footer(i) \in Nat /\ Data(i) \in Nat \ {0}
      /\ Stride(i) = Data(i) + Footer(i)
      /\ getMemTestArrayBundleOffset(i) = 8 * Header(i) /\ getFooterSize(i) = 8 * Footer(i)
      /\ getMemTestArrayBundleSize(i) = 8 * Stride(i)
  <2>1. CASE i \in LoadsAndStores
    <3>1. /\ Stride(i) \in Nat \ {0} /\ Footer(i) \in 0..512 /\ Data(i) \in 1..64 /\ i.align \in 1..256
          /\ Header(i) = i.align /\ Stride(i) = Data(i) + Footer(i)
          /\ getMemTestArrayBundleOffset(i) = 8 * i.align /\ getFooterSize(i) = 8 * Footer(i)
          /\ getMemTestArrayBundleSize(i) = 8 * Stride(i)
      BY <2>1, LoadIs
    <3> QED BY <3>1
  <2>2. CASE i \in AtomicAccesses
    <3>1. /\ Stride(i) \in {4, 8} /\ Footer(i) = 0 /\ Header(i) = 0 /\ Data(i) = Stride(i)
          /\ getMemTestArrayBundleOffset(i) = 0 /\ getFooterSize(i) = 0
          /\ getMemTestArrayBundleSize(i) = 8 * Stride(i)
      BY <2>2, AtomicIs
    <3> QED BY <3>1
  <2> QED BY <2>1, <2>2
<1>2. Bundles(i, g) \in Nat \ {0} /\ getMemTestArrayBundlesNum(i, g) = Bundles(i, g)
  <2>1. g.groupSize \in Nat \ {0} /\ g.groupsNum \in Nat \ {0}
    BY DEF Groups
  <2>2. g.groupSize * g.groupsNum \in Nat \ {0}
    BY <2>1
  <2> QED BY <2>1, <2>2 DEF Bundles, getMemTestArrayBundlesNum, FlatSize
<1>3. ArraySize(i, g) \in Nat
  <2> DEFINE b == Stride(i)  n == Bundles(i, g)
  <2>1. b \in Nat /\ n \in Nat /\ n >= 1
    BY <1>1, <1>2
  <2> HIDE DEF b, n
  <2>2. b * n >= b /\ b * n \in Nat
    BY <2>1
  <2> DEFINE bn == b * n
  <2> HIDE DEF bn
  <2>3. Header(i) - Footer(i) + bn \in Nat
    BY <1>1, <2>1, <2>2 DEF bn, b
  <2> QED BY <2>3 DEF ArraySize, bn, b, n
<1>4. getMemTestArraySizeInBytes(i, g) = ArraySize(i, g)
  <2> DEFINE b == Stride(i)  n == Bundles(i, g)  s == ArraySize(i, g)
  <2>1. getMemTestArraySizeInBytes(i, g) = (8 * Header(i) - 8 * Footer(i) + (8 * b) * n) \div 8
    BY <1>1, <1>2 DEF getMemTestArraySizeInBytes
  <2>2. (8 * b) * n = 8 * (b * n) /\ b * n \in Nat
    BY <1>1, <1>2
  <2> DEFINE bn == b * n
  <2>3. s = Header(i) - Footer(i) + bn
    BY DEF ArraySize
  <2> HIDE DEF bn, s
  <2>4. 8 * Header(i) - 8 * Footer(i) + 8 * bn = 8 * s /\ s \in Nat
    BY <1>1, <1>3, <2>2, <2>3 DEF bn, s
  <2>5. (8 * s) \div 8 = s
    BY <2>4
  <2> QED BY <2>1, <2>2, <2>4, <2>5 DEF bn, s
<1>5. DeclSize(i, g) = ArraySize(i, g)
  <2>1. CASE i \in LoadsAndStores
    <3>1. i.ldst
      <4>1. i.ldst \in {TRUE}
        BY <2>1 DEF LoadsAndStores
      <4> QED BY <4>1
    <3> QED BY <1>3, <1>4, <3>1 DEF DeclSize, getMemTestArrayDeclDim
  <2>2. CASE i \in AtomicAccesses
    <3> DEFINE b == Stride(i)  n == Bundles(i, g)
    <3>1. ~ i.ldst /\ i.elem \div 8 = b /\ Header(i) = 0 /\ Footer(i) = 0 /\ b \in {4, 8}
      BY <2>2, AtomicIs
    <3>2. ArraySize(i, g) = b * n
      BY <1>1, <1>2, <3>1 DEF ArraySize
    <3>3. DeclSize(i, g) = ((b * n) \div b) * b
      BY <1>4, <3>1, <3>2 DEF DeclSize, getMemTestArrayDeclDim
    <3> HIDE DEF b, n
    <3>4. (b * n) \div b = n
      <4>1. CASE b = 4
        BY <1>2, <4>1 DEF n
      <4>2. CASE b = 8
        BY <1>2, <4>2 DEF n
      <4> QED BY <3>1, <4>1, <4>2
    <3>5. n * b = b * n
      BY <1>1, <1>2 DEF b, n
    <3> QED BY <3>2, <3>3, <3>4, <3>5
  <2> QED BY <2>1, <2>2
<1> QED BY <1>1, <1>2, <1>3, <1>4, <1>5

(* The bundle of a test of a work-item: work-items share the array, unless  *)
(* it is private.                                                           *)
BundleOf(i, g, p) == IF i.region = "private" THEN p[2] ELSE p[1] * g.groupSize + p[2]

LEMMA BundleIs ==
    ASSUME NEW i \in LoadsAndStores \cup AtomicAccesses, NEW g \in Groups, NEW p \in ItemsAndTests(g)
    PROVE  /\ BundleOf(i, g, p) \in Nat /\ BundleOf(i, g, p) < Bundles(i, g)
           /\ p[1] \in Nat /\ p[2] \in Nat
           /\ getMemTestArrayAddr(i, g, p[1], p[2]) = Header(i) + BundleOf(i, g, p) * Stride(i)
           /\ \A q \in ItemsAndTests(g) :
                p # q /\ (i.region = "private" => p[1] = q[1]) => BundleOf(i, g, p) # BundleOf(i, g, q)
<1>1. g.groupSize \in Nat \ {0} /\ g.groupsNum \in Nat \ {0}
  BY DEF Groups
<1>2. ASSUME NEW q \in ItemsAndTests(g)
      PROVE  /\ q[1] \in 0..(g.groupsNum - 1) /\ q[2] \in 0..(g.groupSize - 1) /\ q = <<q[1], q[2]>>
             /\ q[1] \in Nat /\ q[1] < g.groupsNum /\ q[2] \in Nat /\ q[2] < g.groupSize
  <2>1. q[1] \in 0..(g.groupsNum - 1) /\ q[2] \in 0..(g.groupSize - 1) /\ q = <<q[1], q[2]>>
    BY DEF ItemsAndTests
  <2> QED BY <1>1, <2>1
<1> DEFINE m == g.groupSize  k == g.groupsNum
<1>3. ASSUME NEW q \in ItemsAndTests(g)
      PROVE  /\ q[1] * m + q[2] < m * k
             /\ \A r \in ItemsAndTests(g) : q[1] * m + q[2] = r[1] * m + r[2] => q = r
  <2>1. ASSUME NEW r \in ItemsAndTests(g)
        PROVE  q[1] * m + q[2] < m * k /\ (q[1] * m + q[2] = r[1] * m + r[2] => q = r)
    <3> DEFINE x == q[1]  y == q[2]  u == r[1]  v == r[2]
    <3>1. /\ m \in Nat /\ k \in Nat /\ x \in Nat /\ y \in Nat /\ x < k /\ y < m
          /\ u \in Nat /\ v \in Nat /\ v < m
      BY <1>1, <1>2
    <3>2. x = u /\ y = v => q = r
      BY <1>2
    <3> HIDE DEF m, k, x, y, u, v
    <3>3. x * m + y < k * m /\ (x * m + y = u * m + v <=> x = u /\ y = v)
      BY <3>1, TwoDigits
    <3>4. k * m = m * k
      BY <3>1
    <3> QED BY <3>2, <3>3, <3>4 DEF x, y, u, v
  <2> QED BY <2>1
<1>4. BundleOf(i, g, p) \in Nat /\ BundleOf(i, g, p) < Bundles(i, g)
  <2>1. p[1] * m \in Nat
    BY <1>1, <1>2
  <2> QED BY <1>1, <1>2, <1>3, <2>1 DEF BundleOf, Bundles
<1>5. getMemTestArrayAddr(i, g, p[1], p[2]) = Header(i) + BundleOf(i, g, p) * Stride(i)
  <2>1. getMemTestArrayAddr(i, g, p[1], p[2]) = BundleOf(i, g, p) * Stride(i) + Header(i)
    BY DEF getMemTestArrayAddr, loadMemIndexReg, initIdReg, BundleOf, Stride, Header
  <2>2. BundleOf(i, g, p) * Stride(i) \in Nat /\ Header(i) \in Nat
    BY <1>4, SizeIs
  <2> QED BY <2>1, <2>2
<1>6. ASSUME NEW q \in ItemsAndTests(g), p # q, i.region = "private" => p[1] = q[1]
      PROVE  BundleOf(i, g, p) # BundleOf(i, g, q)
  <2>1. CASE i.region = "private"
    BY <1>2, <1>6, <2>1 DEF BundleOf
  <2>2. CASE i.region # "private"
    BY <1>3, <1>6, <2>2 DEF BundleOf
  <2> QED BY <2>1, <2>2
<1> QED BY <1>2, <1>4, <1>5, <1>6

(* Strides keep apart what is no longer than they are.                      *)
LEMMA StridesApart ==
    ASSUME NEW s \in Nat, NEW b \in Nat, NEW c \in Nat, b < c
    PROVE  b * s + s <= c * s
<1>1. (b + 1) * s <= c * s /\ (b + 1) * s = b * s + s
  OBVIOUS
<1> QED BY <1>1

LEMMA AccessIs ==
    ASSUME NEW i \in LoadsAndStores \cup AtomicAccesses, NEW g \in Groups, NEW p \in ItemsAndTests(g)
    PROVE  /\ Accessed(i, g, p[1], p[2]) \subseteq 0..(DeclSize(i, g) - 1)
           /\ \A q \in ItemsAndTests(g) :
                p # q /\ (i.region = "private" => p[1] = q[1]) =>
                    Accessed(i, g, p[1], p[2]) \cap Accessed(i, g, q[1], q[2]) = {}
<1> DEFINE s == Stride(i)  f == Header(i)  d == Data(i)  n == Bundles(i, g)
           At(q) == f + BundleOf(i, g, q) * s
<1>1. /\ s \in Nat /\ f \in Nat /\ d \in Nat /\ n \in Nat /\ Footer(i) \in Nat /\ s = d + Footer(i)
      /\ DeclSize(i, g) = f - Footer(i) + s * n
  BY SizeIs DEF ArraySize
<1>2. ASSUME NEW q \in ItemsAndTests(g)
      PROVE  Accessed(i, g, q[1], q[2]) = At(q)..(At(q) + d - 1)
  BY BundleIs DEF Accessed, Data
<1>3. ASSUME NEW q \in ItemsAndTests(g)
      PROVE  BundleOf(i, g, q) \in Nat /\ BundleOf(i, g, q) < n
  BY BundleIs
<1>4. Accessed(i, g, p[1], p[2]) \subseteq 0..(DeclSize(i, g) - 1)
  <2> DEFINE b == BundleOf(i, g, p)
  <2>1. b \in Nat /\ b < n
    BY <1>3
  <2> HIDE DEF s, f, d, n, b
  <2>2. b * s + s <= n * s /\ n * s = s * n
    BY <1>1, <2>1, StridesApart
  <2> DEFINE bs == b * s  sn == s * n
  <2>3. bs \in Nat /\ sn \in Nat
    BY <1>1, <2>1
  <2>4. bs + s <= sn
    BY <2>2
  <2>5. Accessed(i, g, p[1], p[2]) = (f + bs)..(f + bs + d - 1)
    BY <1>2 DEF b
  <2>6. DeclSize(i, g) = f - Footer(i) + sn
    BY <1>1
  <2> HIDE DEF bs, sn
  <2>7. f + bs \in Nat /\ f + bs + d <= f - Footer(i) + sn
    BY <1>1, <2>3, <2>4
  <2> DEFINE at == f + bs  size == f - Footer(i) + sn
  <2>8. at \in Nat /\ size \in Int /\ at + d <= size
    BY <1>1, <2>3, <2>7
  <2> HIDE DEF at, size
  <2>9. at..(at + d - 1) \subseteq 0..(size - 1)
    BY <1>1, <2>8
  <2> QED BY <2>5, <2>6, <2>9 DEF at, size
<1>5. ASSUME NEW q \in ItemsAndTests(g), p # q, i.region = "private" => p[1] = q[1]
      PROVE  Accessed(i, g, p[1], p[2]) \cap Accessed(i, g, q[1], q[2]) = {}
  <2> DEFINE b == BundleOf(i, g, p)  c == BundleOf(i, g, q)
  <2>1. b \in Nat /\ c \in Nat
    BY <1>3
  <2>2. b # c
    BY <1>5, BundleIs
  <2> DEFINE bs == b * s  cs == c * s
  <2>3. /\ Accessed(i, g, p[1], p[2]) = (f + bs)..(f + bs + d - 1)
        /\ Accessed(i, g, q[1], q[2]) = (f + cs)..(f + cs + d - 1)
    BY <1>2
  <2> HIDE DEF s, f, d, b, c
  <2>4. b < c => bs + s <= cs
    BY <1>1, <2>1, StridesApart
  <2>5. c < b => cs + s <= bs
    BY <1>1, <2>1, StridesApart
  <2>6. bs \in Nat /\ cs \in Nat
    BY <1>1, <2>1
  <2> HIDE DEF bs, cs
  <2>7. bs + s <= cs \/ cs + s <= bs
    BY <2>1, <2>2, <2>4, <2>5
  <2> DEFINE at == f + bs  other == f + cs
  <2>8. at \in Nat /\ other \in Nat /\ (at + d <= other \/ other + d <= at)
    BY <1>1, <2>6, <2>7
  <2> HIDE DEF at, other
  <2>9. at..(at + d - 1) \cap other..(other + d - 1) = {}
    BY <1>1, <2>8
  <2> QED BY <2>3, <2>9 DEF at, other
<1> QED BY <1>4, <1>5

(* Loads and stores are aligned as their instruction asks, and not better.  *)
LEMMA AlignedNotBetter ==
    ASSUME NEW i \in LoadsAndStores, NEW b \in Nat
    PROVE  LET at == Header(i) + b * Stride(i) IN at % i.align = 0 /\ at % (2 * i.align) # 0
<1> DEFINE a == i.align  s == Stride(i)
<1>1. a \in Nat \ {0} /\ Header(i) = a
  <2>1. i.align \in 1..256 /\ Header(i) = i.align
    BY LoadIs
  <2> QED BY <2>1
<1>2. PICK k \in Nat : s = 2 * a * k
  BY LoadIs
<1> DEFINE at == a + b * s
<1> HIDE DEF a, s
<1>3. b * s = (2 * a) * (b * k) /\ b * k \in Nat /\ 2 * a \in Nat \ {0}
  BY <1>1, <1>2
<1> DEFINE n == b * k  w == 2 * a
<1>4. at = w * n + a /\ at \in Int
  BY <1>1, <1>3
<1>5. n \in Int /\ w \in Nat \ {0} /\ a \in Int /\ 0 <= a /\ a < w
  BY <1>1, <1>3
<1>6. at % w = a
  <2> HIDE DEF at, w, n
  <2> QED BY <1>4, <1>5, RemainderIs
<1>7. at % a = 0
  <2>1. w * n = a * (2 * n)
    BY <1>1, <1>3
  <2> DEFINE m == 2 * n
  <2>2. m \in Int
    BY <1>3
  <2> HIDE DEF n, m
  <2>3. a * m + a = a * (m + 1)
    BY <1>1, <2>2
  <2> DEFINE l == m + 1
  <2>4. at = a * l + 0
    BY <1>1, <1>4, <2>1, <2>2, <2>3 DEF m
  <2>5. l \in Int /\ 0 < a
    BY <1>1, <2>2
  <2>6. at \in Int /\ 0 \in Int /\ 0 <= 0
    BY <1>4
  <2> HIDE DEF at, l
  <2> QED BY <1>1, <2>4, <2>5, <2>6, RemainderIs
<1> QED BY <1>1, <1>6, <1>7 DEF a, s

(* The arrays that kernels access memory in: every test of every work-item  *)
(* has memory of its own inside the array, aligned as its instruction asks  *)
(* and not better, where the host puts its values: BundlesFit, for any      *)
(* number of tests and work-items.                                          *)
THEOREM BundlesFitHolds ==
    ASSUME NEW i \in LoadsAndStores \cup AtomicAccesses, NEW g \in Groups
    PROVE  BundlesFit(i, g, DeclSize(i, g))
<1>1. ASSUME NEW p \in ItemsAndTests(g)
      PROVE  LET at == getMemTestArrayAddr(i, g, p[1], p[2])
             IN  /\ Accessed(i, g, p[1], p[2]) \subseteq 0..(DeclSize(i, g) - 1)
                 /\ i.ldst => at % i.align = 0 /\ at % (2 * i.align) # 0
                 /\ ~i.ldst => at % (i.elem \div 8) = 0
  <2> DEFINE at == getMemTestArrayAddr(i, g, p[1], p[2])  b == BundleOf(i, g, p)
  <2>1. b \in Nat /\ at = Header(i) + b * Stride(i)
    BY BundleIs
  <2> HIDE DEF at, b
  <2>2. ASSUME i.ldst PROVE at % i.align = 0 /\ at % (2 * i.align) # 0
    <3>1. i \in LoadsAndStores
      BY <2>2, AtomicIs
    <3> QED BY <2>1, <3>1, AlignedNotBetter
  <2>3. ASSUME ~ i.ldst PROVE at % (i.elem \div 8) = 0
    <3>1. i \in AtomicAccesses
      <4>1. i \in LoadsAndStores => i.ldst \in {TRUE}
        BY DEF LoadsAndStores
      <4> QED BY <2>3, <4>1
    <3> DEFINE s == Stride(i)
    <3>2. Header(i) = 0 /\ s = i.elem \div 8 /\ s \in {4, 8}
      BY <3>1, AtomicIs
    <3>3. s \in Nat \ {0} /\ 0 < s /\ at = 0 + b * s
      BY <2>1, <3>2
    <3> HIDE DEF s
    <3>4. at = s * b + 0 /\ at \in Int
      BY <2>1, <3>3
    <3>5. at % s = 0
      BY <2>1, <3>3, <3>4, RemainderIs
    <3> QED BY <3>2, <3>5
  <2>4. Accessed(i, g, p[1], p[2]) \subseteq 0..(DeclSize(i, g) - 1)
    BY AccessIs
  <2> QED BY <2>2, <2>3, <2>4 DEF at
<1>2. ASSUME NEW p \in ItemsAndTests(g), NEW q \in ItemsAndTests(g),
             p # q, i.region = "private" => p[1] = q[1]
      PROVE  Accessed(i, g, p[1], p[2]) \cap Accessed(i, g, q[1], q[2]) = {}
  BY <1>2, AccessIs
<1>3. ASSUME i.region = "global"
      PROVE  /\ InitializerSize(i, g) = DeclSize(i, g)
             /\ \A p \in ItemsAndTests(g), k \in 0..(i.dim - 1) :
                  InitializerPos(i, initIdReg(g, p[1], p[2]), k)
                     = getMemTestArrayAddr(i, g, p[1], p[2]) + k * (i.elem \div 8)
  <2> DEFINE f == Header(i)  s == Stride(i)  n == Bundles(i, g)
  <2>1. /\ f \in Nat /\ s \in Nat /\ n \in Nat /\ Data(i) \in Nat /\ Footer(i) \in Nat
        /\ s = Data(i) + Footer(i) /\ DeclSize(i, g) = f - Footer(i) + s * n
    BY SizeIs DEF ArraySize
  <2>2. ASSUME NEW b, NEW k PROVE InitializerPos(i, b, k) = f + b * s + k * (i.elem \div 8)
    BY DEF InitializerPos, Header, Stride
  <2>3. InitializerSize(i, g) = DeclSize(i, g)
    <3>1. FlatSize(g) = n /\ i.dim * (i.elem \div 8) = Data(i)
      BY <1>3 DEF Bundles, FlatSize, Data
    <3>2. InitializerSize(i, g) = f + (n - 1) * s + Data(i)
      BY <2>2, <3>1 DEF InitializerSize
    <3> HIDE DEF f, s, n
    <3>3. (n - 1) * s = s * n - s /\ s * n \in Nat
      BY <2>1
    <3> DEFINE sn == s * n
    <3> HIDE DEF sn
    <3>4. f + (sn - s) + Data(i) = f - Footer(i) + sn
      BY <2>1, <3>3 DEF sn
    <3> QED BY <2>1, <3>2, <3>3, <3>4 DEF sn
  <2>4. ASSUME NEW p \in ItemsAndTests(g), NEW k \in 0..(i.dim - 1)
        PROVE  InitializerPos(i, initIdReg(g, p[1], p[2]), k)
                  = getMemTestArrayAddr(i, g, p[1], p[2]) + k * (i.elem \div 8)
    <3>1. initIdReg(g, p[1], p[2]) = BundleOf(i, g, p)
      BY <1>3 DEF initIdReg, BundleOf
    <3>2. getMemTestArrayAddr(i, g, p[1], p[2]) = f + BundleOf(i, g, p) * s
      BY BundleIs
    <3> QED BY <2>2, <3>1, <3>2
  <2> QED BY <2>3, <2>4
<1> QED BY <1>1, <1>2, <1>3 DEF BundlesFit

(* As many tests as getMaxTotalTestNum allows fit into the segment of any   *)
(* agent, for any number of tests per work-item.                            *)
THEOREM LimitHolds ==
    ASSUME NEW i \in LoadsAndStores, NEW groupSize \in Nat \ {0}
    PROVE  LimitHoldsOn(i, groupSize)
<1> DEFINE max == getMaxTotalTestNum(i)  num == max \div groupSize
           g == [groupSize |-> groupSize, groupsNum |-> num]
           s == Stride(i)  f == Header(i)  d == Data(i)
<1>1. SUFFICES ASSUME i.region # "global", num > 0
               PROVE  SegmentHolds(i, g, getMemTestArraySizeInBytes(i, g))
  BY DEF LimitHoldsOn
<1>2. /\ f \in 1..256 /\ d \in 1..64 /\ Footer(i) \in Nat /\ s \in Nat \ {0} /\ s = d + Footer(i)
      /\ AlignedUp(f + d) <= s + 256
  <2>1. /\ i.align \in 1..256 /\ f = i.align /\ d \in 1..64 /\ Footer(i) \in 0..512 /\ s \in Nat \ {0}
        /\ s = d + Footer(i) /\ AlignedUp(i.align + d) <= s + 256
    BY LoadIs
  <2> QED BY <2>1
<1>3. i.ldst /\ i.region \in {"private", "group"}
  <2>1. i.ldst \in {TRUE} /\ i.region \in {"private", "group", "global"}
    BY DEF LoadsAndStores
  <2> QED BY <1>1, <2>1
<1>4. max = IF i.region = "group" THEN 32512 \div s ELSE 65536 \div (s + 256)
  BY <1>3 DEF getMaxTotalTestNum, Stride, MIN_GROUP_SEGMENT_SIZE, MIN_PRIVATE_REGION_SIZE, getMaxSegmentOverhead
<1> HIDE DEF s, f, d, max
<1>5. max \in Nat /\ (i.region = "group" => s * max <= 32512) /\ (i.region = "private" => (s + 256) * max <= 65536)
  <2>1. CASE i.region = "group"
    <3>0. s \in Nat \ {0} /\ 32512 \in Nat
      BY <1>2
    <3>1. 32512 \div s \in Nat /\ s * (32512 \div s) <= 32512
      BY <3>0, Quotient
    <3> QED BY <1>4, <2>1, <3>1
  <2>2. CASE i.region = "private"
    <3> DEFINE w == s + 256
    <3>1. w \in Nat \ {0}
      BY <1>2
    <3> HIDE DEF w
    <3>2. 65536 \div w \in Nat /\ w * (65536 \div w) <= 65536
      BY <3>1, Quotient
    <3>3. max = 65536 \div w
      BY <1>4, <2>2 DEF w
    <3>4. max \in Nat /\ w * max <= 65536
      BY <3>2, <3>3
    <3> QED BY <2>2, <3>4 DEF w
  <2> QED BY <1>3, <2>1, <2>2
<1>6. num \in Nat \ {0} /\ groupSize * num <= max
  <2>1. num \in Nat /\ groupSize * num <= max
    BY <1>5, Quotient
  <2> HIDE DEF num
  <2> QED BY <1>1, <2>1
<1> HIDE DEF num
<1>7. g \in Groups /\ g.groupSize = groupSize /\ g.groupsNum = num
  BY <1>6 DEF Groups
<1>8. /\ getMemTestArraySizeInBytes(i, g) = ArraySize(i, g) /\ ArraySize(i, g) \in Nat
      /\ ArraySize(i, g) = f - Footer(i) + s * Bundles(i, g)
  BY <1>7, SizeIs DEF ArraySize, f, s
<1>9. CASE i.region = "group"
  <2> DEFINE t == groupSize * num
  <2>1. Bundles(i, g) = t /\ t \in Nat /\ t <= max
    BY <1>6, <1>7, <1>9 DEF Bundles
  <2> HIDE DEF t
  <2>2. s * t <= s * max
    BY <1>2, <1>5, <2>1
  <2> DEFINE st == s * t  sm == s * max
  <2>3. st \in Nat /\ sm \in Nat /\ st <= sm /\ sm <= 32512
    BY <1>2, <1>5, <1>9, <2>1, <2>2
  <2> HIDE DEF st, sm
  <2>4. ArraySize(i, g) = f - Footer(i) + st
    BY <1>8, <2>1 DEF st
  <2>5. ArraySize(i, g) <= 32768
    BY <1>2, <2>3, <2>4
  <2> QED BY <1>8, <1>9, <2>5 DEF SegmentHolds, MIN_GROUP_SEGMENT_SIZE
<1>10. CASE i.region = "private"
  <2> DEFINE x == ArraySize(i, g)  up == AlignedUp(x)  w == s + 256
  <2>1. Bundles(i, g) = groupSize
    BY <1>7, <1>10 DEF Bundles
  <2>2. x = f - Footer(i) + s * groupSize /\ x \in Nat
    BY <1>8, <2>1
  <2>3. up <= w * groupSize /\ up \in Nat
    <3>1. CASE groupSize = 1
      <4>1. s * groupSize = s /\ w * groupSize = w
        BY <1>2, <3>1
      <4>2. x = f + d
        BY <1>2, <2>2, <4>1
      <4> HIDE DEF x
      <4>3. (x + 255) \div 256 \in Nat
        BY <2>2
      <4> QED BY <1>2, <4>1, <4>2, <4>3 DEF AlignedUp
    <3>2. CASE groupSize # 1
      <4> HIDE DEF x
      <4>1. up <= x + 255 /\ up \in Nat
        <5> DEFINE n == (x + 255) \div 256
        <5>1. n \in Nat /\ 256 * n <= x + 255
          BY <2>2
        <5> HIDE DEF n
        <5>2. n * 256 <= x + 255 /\ n * 256 \in Nat
          BY <5>1
        <5> QED BY <5>2 DEF n, AlignedUp
      <4> DEFINE sg == s * groupSize
      <4>2. sg \in Nat /\ w * groupSize = sg + 256 * groupSize
        BY <1>2
      <4>3. x = f - Footer(i) + sg
        BY <2>2
      <4> HIDE DEF sg, up, w
      <4>4. 256 * groupSize >= 512
        BY <3>2
      <4> QED BY <1>2, <4>1, <4>2, <4>3, <4>4
    <3> QED BY <3>1, <3>2
  <2> HIDE DEF x, up
  <2>4. num * up <= 65536
    <3>1. num * up <= num * (w * groupSize)
      <4> DEFINE y == w * groupSize
      <4>1. y \in Nat /\ up <= y
        BY <1>2, <2>3
      <4> HIDE DEF y
      <4>2. num * up <= num * y
        BY <1>6, <2>3, <4>1
      <4> QED BY <4>2 DEF y
    <3>2. num * (w * groupSize) = w * (groupSize * num)
      BY <1>2, <1>6
    <3>3. w * (groupSize * num) <= w * max
      <4> DEFINE t == groupSize * num
      <4>1. t \in Nat /\ t <= max
        BY <1>6
      <4> HIDE DEF t
      <4>2. w \in Nat
        BY <1>2
      <4> HIDE DEF w
      <4>3. w * t <= w * max
        BY <1>5, <4>1, <4>2
      <4> QED BY <4>3 DEF t
    <3> DEFINE u == num * up  v == w * max  y == num * (w * groupSize)  z == w * (groupSize * num)
    <3>4. u \in Int /\ v \in Int /\ y \in Int /\ z \in Int
      <4>1. w \in Int /\ num \in Int /\ up \in Int /\ max \in Int
        BY <1>2, <1>5, <1>6, <2>3
      <4> HIDE DEF w
      <4> QED BY <4>1
    <3>5. v <= 65536
      BY <1>5, <1>10
    <3>6. u <= y /\ y = z /\ z <= v
      BY <3>1, <3>2, <3>3
    <3> HIDE DEF u, v, y, z
    <3>7. u <= 65536
      BY <3>4, <3>5, <3>6
    <3> QED BY <3>7 DEF u
  <2> QED BY <1>7, <1>8, <1>10, <2>4 DEF SegmentHolds, MIN_PRIVATE_REGION_SIZE, up, x
<1> QED BY <1>3, <1>9, <1>10

(* Where a byte of a value is: in an array of values, an element has        *)
(* HostSize bytes, of which the first are its own, and the rest, if any,    *)
(* extend it.                                                               *)
Own(i) == i.elem \div 8
Whole(i) == HostSize(i.elem, i.f16)
ByteAt(i, id, e, m) == (id * i.dim + e) * Whole(i) + m

LEMMA BytesAre ==
    ASSUME NEW i \in LoadsAndStores \cup AtomicAccesses
    PROVE  /\ i.dim \in 1..4 /\ Own(i) \in {1, 2, 4, 8, 16} /\ Whole(i) \in {2, 4, 8, 16} /\ Own(i) <= Whole(i)
           /\ RegisterSize(i.elem, i.f16) \div 8 = Whole(i)
           /\ dataSlotSize(i) \div 8 = Whole(i) /\ (dataSlotSize(i) * i.dim) \div 8 = Whole(i) * i.dim
           /\ (i.elem + 7) \div 8 = Own(i)
           /\ (i.elem >= 32 \/ i.f16) => Whole(i) = Own(i)
           /\ ~ (i.elem >= 32 \/ i.f16) => Whole(i) = 4 /\ memDim(i) = Own(i)
           /\ memDim(i) \in Nat /\ getMemDataAtomSize(i) \div 8 \in Nat
           /\ \/ memDim(i) = Own(i) /\ getMemDataAtomSize(i) \div 8 = 1
              \/ memDim(i) = 1 /\ getMemDataAtomSize(i) \div 8 = Own(i)
<1> DEFINE e == i.elem  d == i.dim  h == i.f16
<1>1. /\ e \in {8, 16, 32, 64, 128} /\ d \in {1, 2, 3, 4} /\ (h => e = 16)
      /\ i.ldst \/ (~ i.ldst /\ e \in {32, 64})
  <2>1. CASE i \in LoadsAndStores
    <3>1. i.ldst \in {TRUE} /\ e \in {8, 16, 32, 64, 128} /\ d \in 1..4 /\ (h => e = 16)
      BY <2>1 DEF LoadsAndStores
    <3>2. i.ldst
      BY <3>1
    <3>3. d \in {1, 2, 3, 4}
      BY <3>1
    <3> QED BY <3>1, <3>2, <3>3, Zenon
  <2>2. CASE i \in AtomicAccesses
    <3>1. i.ldst \in {FALSE} /\ e \in {32, 64} /\ d \in {1} /\ h \in {FALSE}
      BY <2>2 DEF AtomicAccesses
    <3> QED BY <3>1
  <2> QED BY <2>1, <2>2
<1>2. /\ Own(i) = e \div 8
      /\ Whole(i) = IF h THEN e \div 8 ELSE (IF e <= 32 THEN 32 ELSE e) \div 8
      /\ RegisterSize(e, h) = IF h THEN 16 ELSE IF e <= 32 THEN 32 ELSE e
      /\ dataSlotSize(i) = IF h THEN 16 ELSE IF e <= 32 THEN 32 ELSE e
  BY DEF Own, Whole, HostSize, RegisterSize, dataSlotSize, getSlotSize
<1> DEFINE a == getMemDataAtomSize(i)
<1>3. /\ a = IF i.ldst THEN 8 ELSE IF e <= 32 THEN 32 ELSE e
      /\ memDim(i) = IF e \div a < 1 THEN 1 ELSE e \div a
  BY DEF getMemDataAtomSize, memDim, getSlotSize
<1> HIDE DEF e, d, h, a
<1>4. /\ i.ldst => a \div 8 = 1 /\ memDim(i) = e \div 8
      /\ ~ i.ldst => a \div 8 = e \div 8 /\ memDim(i) = 1
  <2>1. CASE i.ldst
    <3>1. a = 8
      BY <1>3, <2>1
    <3> QED BY <1>1, <1>3, <2>1, <3>1
  <2>2. CASE ~ i.ldst
    <3>1. a = e /\ e \in {32, 64}
      BY <1>1, <1>3, <2>2
    <3>2. e \div a = 1
      BY <3>1
    <3> QED BY <1>3, <2>2, <3>1, <3>2
  <2> QED BY <2>1, <2>2
<1> DEFINE w == dataSlotSize(i)
<1>5. /\ w \in {16, 32, 64, 128} /\ w \div 8 \in {2, 4, 8, 16} /\ w = 8 * (w \div 8)
      /\ w \div 8 = Whole(i) /\ RegisterSize(e, h) \div 8 = Whole(i)
  BY <1>1, <1>2
<1>6. (w * d) \div 8 = Whole(i) * d
  <2> HIDE DEF w
  <2> QED BY <1>1, <1>5
<1>7. /\ Own(i) \in {1, 2, 4, 8, 16} /\ Whole(i) \in {2, 4, 8, 16} /\ Own(i) <= Whole(i)
      /\ (e + 7) \div 8 = Own(i)
      /\ (e >= 32 \/ h) => Whole(i) = Own(i)
      /\ ~ (e >= 32 \/ h) => Whole(i) = 4
  BY <1>1, <1>2
<1>8. /\ i.ldst => memDim(i) = Own(i) /\ a \div 8 = 1
      /\ ~ i.ldst => memDim(i) = 1 /\ a \div 8 = Own(i)
  BY <1>2, <1>4
<1>9. ~ (e >= 32 \/ h) => memDim(i) = Own(i)
  BY <1>1, <1>8
<1>10. memDim(i) \in Nat /\ a \div 8 \in Nat /\ d \in 1..4
  BY <1>1, <1>7, <1>8
<1> HIDE DEF w
<1>11. /\ (w * d) \div 8 = Whole(i) * d /\ w \div 8 = Whole(i) /\ RegisterSize(e, h) \div 8 = Whole(i)
       /\ (memDim(i) = Own(i) /\ a \div 8 = 1) \/ (memDim(i) = 1 /\ a \div 8 = Own(i))
  BY <1>5, <1>6, <1>8
<1> QED BY <1>7, <1>9, <1>10, <1>11 DEF e, d, h, a, w

\* The atoms are the bytes that an element has of its own.
LEMMA AtomsAre ==
    ASSUME NEW i \in LoadsAndStores \cup AtomicAccesses
    PROVE  /\ \A a \in Atoms(i) : /\ a[1] \in 0..(i.dim - 1) /\ a[2] \in Nat /\ a[3] \in Nat
                                  /\ a[2] + a[3] \in 0..(Own(i) - 1)
           /\ \A e \in 0..(i.dim - 1), m \in 0..(Own(i) - 1) :
                \E a \in Atoms(i) : a[1] = e /\ a[2] + a[3] = m
<1> DEFINE c == Own(i)  k == memDim(i)  n == getMemDataAtomSize(i) \div 8  D == 0..(i.dim - 1)
<1>1. c \in Nat /\ k \in Nat /\ n \in Nat /\ ((k = c /\ n = 1) \/ (k = 1 /\ n = c))
  BY BytesAre
<1>2. Atoms(i) = D \X (0..(k - 1)) \X (0..(n - 1))
  BY DEF Atoms
<1> HIDE DEF c, k, n, D
<1>3. ASSUME NEW a \in Atoms(i)
      PROVE  a[1] \in D /\ a[2] \in Nat /\ a[3] \in Nat /\ a[2] + a[3] \in 0..(c - 1)
  <2>1. a[1] \in D /\ a[2] \in 0..(k - 1) /\ a[3] \in 0..(n - 1)
    BY <1>2
  <2> QED BY <1>1, <2>1
<1>4. ASSUME NEW e \in D, NEW m \in 0..(c - 1)
      PROVE  \E a \in Atoms(i) : a[1] = e /\ a[2] + a[3] = m
  <2>1. CASE k = c /\ n = 1
    <3>1. <<e, m, 0>> \in Atoms(i)
      BY <1>2, <2>1
    <3> QED BY <1>1, <3>1
  <2>2. CASE k = 1 /\ n = c
    <3>1. <<e, 0, m>> \in Atoms(i)
      BY <1>2, <2>2
    <3> QED BY <1>1, <3>1
  <2> QED BY <1>1, <2>1, <2>2
<1> QED BY <1>3, <1>4 DEF c, D

LEMMA PlacesAre ==
    ASSUME NEW i \in LoadsAndStores \cup AtomicAccesses, NEW g \in Groups, NEW p \in ItemsAndTests(g)
    PROVE  LET id == initIdReg(g, p[1], p[2])
               at == getMemTestArrayAddr(i, g, p[1], p[2])
           IN  /\ id \in Nat /\ at \in Nat
               /\ \A e \in 0..(i.dim - 1), m \in Nat : DataAddr(i, id, e, m) = ByteAt(i, id, e, m)
               /\ \A a \in Atoms(i) :
                    /\ DataAddr(i, id, a[1], a[2]) + a[3] = ByteAt(i, id, a[1], a[2] + a[3])
                    /\ MemAddr(i, g, p[1], p[2], a[1], a[2]) + a[3] = a[1] * Own(i) + (a[2] + a[3]) + at
<1> DEFINE id == initIdReg(g, p[1], p[2])  at == getMemTestArrayAddr(i, g, p[1], p[2])
           load == loadMemIndexReg(i, g, p[1], p[2])  c == Own(i)  h == Whole(i)  d == i.dim
<1>1. id \in Nat
  <2>1. g.groupSize \in Nat /\ p[1] \in Nat /\ p[2] \in Nat
    BY BundleIs DEF Groups
  <2>2. p[1] * g.groupSize \in Nat
    BY <2>1
  <2> QED BY <2>1, <2>2 DEF initIdReg
<1>2. load \in Nat /\ at = load + Header(i) /\ Header(i) \in Nat
  <2>1. load = BundleOf(i, g, p) * Stride(i)
    BY DEF loadMemIndexReg, initIdReg, BundleOf, Stride
  <2>2. BundleOf(i, g, p) \in Nat /\ Stride(i) \in Nat /\ Header(i) \in Nat
    BY BundleIs, SizeIs
  <2>3. BundleOf(i, g, p) * Stride(i) \in Nat
    BY <2>2
  <2> QED BY <2>1, <2>2, <2>3 DEF getMemTestArrayAddr, Header
<1>3. /\ d \in Nat /\ c \in Nat /\ h \in Nat
      /\ dataSlotSize(i) \div 8 = h /\ (dataSlotSize(i) * d) \div 8 = h * d /\ (i.elem + 7) \div 8 = c
  <2>1. /\ d \in 1..4 /\ c \in {1, 2, 4, 8, 16} /\ h \in {2, 4, 8, 16}
        /\ dataSlotSize(i) \div 8 = h /\ (dataSlotSize(i) * d) \div 8 = h * d /\ (i.elem + 7) \div 8 = c
    BY BytesAre
  <2> QED BY <2>1
<1>4. ASSUME NEW e \in 0..(d - 1), NEW m \in Nat
      PROVE  DataAddr(i, id, e, m) = ByteAt(i, id, e, m)
  <2>1. DataAddr(i, id, e, m) = id * (h * d) + h * e + m
    BY <1>3 DEF DataAddr
  <2>2. ByteAt(i, id, e, m) = (id * d + e) * h + m
    BY DEF ByteAt
  <2> HIDE DEF id, h, d
  <2>3. e \in Nat
    BY <1>3
  <2>4. id * (h * d) + h * e = (id * d + e) * h
    BY <1>1, <1>3, <2>3
  <2> QED BY <2>1, <2>2, <2>4
<1>5. ASSUME NEW a \in Atoms(i)
      PROVE  /\ DataAddr(i, id, a[1], a[2]) + a[3] = ByteAt(i, id, a[1], a[2] + a[3])
             /\ MemAddr(i, g, p[1], p[2], a[1], a[2]) + a[3] = a[1] * c + (a[2] + a[3]) + at
  <2> DEFINE e == a[1]  m == a[2]  n == a[3]
  <2>1. e \in 0..(d - 1) /\ m \in Nat /\ n \in Nat
    BY AtomsAre
  <2>2. DataAddr(i, id, e, m) = ByteAt(i, id, e, m)
    BY <1>4, <2>1
  <2>3. ByteAt(i, id, e, m) + n = ByteAt(i, id, e, m + n)
    <3> DEFINE x == (id * d + e) * h
    <3>1. x \in Nat
      <4>1. e \in Nat
        BY <1>3, <2>1
      <4> HIDE DEF id, d, e, h
      <4> QED BY <1>1, <1>3, <4>1
    <3>2. ByteAt(i, id, e, m) = x + m /\ ByteAt(i, id, e, m + n) = x + (m + n)
      BY DEF ByteAt
    <3> HIDE DEF x
    <3> QED BY <2>1, <3>1, <3>2
  <2>4. MemAddr(i, g, p[1], p[2], e, m) = load + c * e + m + Header(i)
    BY <1>3 DEF MemAddr, Header
  <2>5. e \in Nat /\ c * e = e * c /\ e * c \in Nat
    <3>1. e \in Nat
      BY <1>3, <2>1
    <3> HIDE DEF c, e
    <3> QED BY <1>3, <3>1
  <2> DEFINE ec == e * c
  <2> HIDE DEF ec, load
  <2>6. load + ec + m + Header(i) + n = ec + (m + n) + at
    BY <1>2, <2>1, <2>5 DEF ec
  <2>7. MemAddr(i, g, p[1], p[2], e, m) + n = ec + (m + n) + at
    BY <2>4, <2>5, <2>6 DEF ec
  <2> QED BY <2>2, <2>3, <2>7 DEF ec
<1>6. at \in Nat
  BY <1>2
<1> QED BY <1>1, <1>4, <1>5, <1>6

(* What the kernel copies into the memory test array is what the host put   *)
(* into the array of values, and what it saves is what the host reads:      *)
(* every byte of every element of every test.                               *)
THEOREM ValuesFoundHolds ==
    ASSUME NEW i \in LoadsAndStores \cup AtomicAccesses, NEW g \in Groups
    PROVE  ValuesFound(i, g)
<1> SUFFICES ASSUME NEW p \in ItemsAndTests(g)
             PROVE  LET id == initIdReg(g, p[1], p[2])
                        at == getMemTestArrayAddr(i, g, p[1], p[2])
                        host == HostBytes(i.elem, i.f16, i.dim, id)
                    IN  /\ RegisterBytes(i.elem, i.f16, i.dim, id) = host
                        /\ saveMemTestArray(i, g, p[1], p[2]) = host
                        /\ {<<b[2] * (i.elem \div 8) + b[3] + at, b[1]>> : b \in {h \in host : h[3] # Extension}}
                            = {<<c[2], c[1]>> : c \in initMemTestArray(i, g, p[1], p[2])}
  BY DEF ValuesFound
<1> DEFINE id == initIdReg(g, p[1], p[2])  at == getMemTestArrayAddr(i, g, p[1], p[2])
           host == HostBytes(i.elem, i.f16, i.dim, id)
           saved == saveMemTestArray(i, g, p[1], p[2])  D == 0..(i.dim - 1)  c == Own(i)  w == Whole(i)
           Small == ~ (i.elem >= 32 \/ i.f16)
           At(e, m) == ByteAt(i, id, e, m)
           Byte(m) == IF m < c THEN m ELSE Extension
           copied == initMemTestArray(i, g, p[1], p[2])
<1>1. /\ c \in Nat /\ w \in Nat /\ c <= 16 /\ c <= w /\ (~Small => w = c) /\ (Small => w = 4 /\ memDim(i) = c)
  BY BytesAre
<1>2. host = {<<At(e, m), e, Byte(m)>> : e \in D, m \in 0..(w - 1)}
  BY DEF HostBytes, ByteAt, Whole, ByteOf, Own
<1>3. RegisterBytes(i.elem, i.f16, i.dim, id) = host
  <2>1. RegisterBytes(i.elem, i.f16, i.dim, id) = {<<At(e, m), e, Byte(m)>> : e \in D, m \in 0..(w - 1)}
    BY BytesAre DEF RegisterBytes, ByteAt, ByteOf, Own
  <2> QED BY <1>2, <2>1
\* The bytes that are saved.
<1>4. \A a \in Atoms(i) : /\ DataAddr(i, id, a[1], a[2]) + a[3] = At(a[1], a[2] + a[3])
                          /\ MemAddr(i, g, p[1], p[2], a[1], a[2]) + a[3] = a[1] * c + (a[2] + a[3]) + at
  BY PlacesAre
<1>5. \A e \in D, m \in Nat : DataAddr(i, id, e, m) = At(e, m)
  BY PlacesAre
<1>6. /\ \A a \in Atoms(i) : a[1] \in D /\ a[2] + a[3] \in 0..(c - 1)
      /\ \A e \in D, m \in 0..(c - 1) : \E a \in Atoms(i) : a[1] = e /\ a[2] + a[3] = m
  BY AtomsAre
<1>7. saved = {<<DataAddr(i, id, a[1], a[2]) + a[3], a[1], a[2] + a[3]>> : a \in Atoms(i)}
              \cup (IF Small THEN {<<DataAddr(i, id, e, m), e, Extension>> : e \in D, m \in c..3} ELSE {})
  BY <1>1 DEF saveMemTestArray
<1>8. copied = {<<DataAddr(i, id, a[1], a[2]) + a[3], MemAddr(i, g, p[1], p[2], a[1], a[2]) + a[3]>> : a \in Atoms(i)}
  BY DEF initMemTestArray
<1>9. at \in Nat /\ i.elem \div 8 = c
  BY PlacesAre DEF Own
<1> HIDE DEF id, host, saved, D, c, w, Small, At, copied, at
<1>10. saved \subseteq host
  <2> SUFFICES ASSUME NEW x \in saved PROVE \E e \in D, m \in 0..(w - 1) : x = <<At(e, m), e, Byte(m)>>
    BY <1>2
  <2>1. CASE \E a \in Atoms(i) : x = <<DataAddr(i, id, a[1], a[2]) + a[3], a[1], a[2] + a[3]>>
    <3>1. PICK a \in Atoms(i) : x = <<DataAddr(i, id, a[1], a[2]) + a[3], a[1], a[2] + a[3]>>
      BY <2>1
    <3>2. x = <<At(a[1], a[2] + a[3]), a[1], a[2] + a[3]>> /\ a[1] \in D /\ a[2] + a[3] \in 0..(c - 1)
      BY <1>4, <1>6, <3>1
    <3> DEFINE e == a[1]  m == a[2] + a[3]
    <3> HIDE DEF e, m
    <3>3. x = <<At(e, m), e, m>> /\ e \in D /\ m \in 0..(c - 1)
      BY <3>2 DEF e, m
    <3>4. m \in 0..(w - 1) /\ Byte(m) = m
      BY <1>1, <3>3
    <3> QED BY <3>3, <3>4
  <2>2. CASE Small /\ \E e \in D, m \in c..3 : x = <<DataAddr(i, id, e, m), e, Extension>>
    <3>1. PICK e \in D, m \in c..3 : x = <<DataAddr(i, id, e, m), e, Extension>>
      BY <2>2
    <3>2. m \in Nat /\ m \in 0..(w - 1) /\ Byte(m) = Extension
      BY <1>1, <2>2
    <3>3. x = <<At(e, m), e, Extension>>
      BY <1>5, <3>1, <3>2
    <3> QED BY <3>2, <3>3
  <2> QED BY <1>7, <2>1, <2>2
<1>11. host \subseteq saved
  <2> SUFFICES ASSUME NEW e \in D, NEW m \in 0..(w - 1) PROVE <<At(e, m), e, Byte(m)>> \in saved
    BY <1>2
  <2>1. CASE m < c
    <3>1. m \in 0..(c - 1) /\ Byte(m) = m
      BY <1>1, <2>1
    <3>2. PICK a \in Atoms(i) : a[1] = e /\ a[2] + a[3] = m
      BY <1>6, <3>1
    <3>3. <<DataAddr(i, id, a[1], a[2]) + a[3], a[1], a[2] + a[3]>> = <<At(e, m), e, Byte(m)>>
      BY <1>4, <3>1, <3>2
    <3>4. <<DataAddr(i, id, a[1], a[2]) + a[3], a[1], a[2] + a[3]>> \in saved
      BY <1>7
    <3> QED BY <3>3, <3>4
  <2>2. CASE ~ (m < c)
    <3>1. Small /\ m \in c..3 /\ m \in Nat /\ Byte(m) = Extension
      BY <1>1, <2>2
    <3>2. <<DataAddr(i, id, e, m), e, Extension>> \in saved
      BY <1>7, <3>1
    <3> QED BY <1>5, <3>1, <3>2
  <2> QED BY <2>1, <2>2
\* The bytes that are copied.
<1>12. {<<b[2] * c + b[3] + at, b[1]>> : b \in {h \in host : h[3] # Extension}}
         = {<<e * c + m + at, At(e, m)>> : e \in D, m \in 0..(c - 1)}
  <2>1. ASSUME NEW b \in host, b[3] # Extension
        PROVE  \E e \in D, m \in 0..(c - 1) : <<b[2] * c + b[3] + at, b[1]>> = <<e * c + m + at, At(e, m)>>
    <3>1. PICK e \in D, m \in 0..(w - 1) : b = <<At(e, m), e, Byte(m)>>
      BY <1>2
    <3>2. m < c /\ Byte(m) = m
      BY <2>1, <3>1
    <3>3. m \in 0..(c - 1)
      BY <1>1, <3>2
    <3> QED BY <3>1, <3>2, <3>3
  <2>2. ASSUME NEW e \in D, NEW m \in 0..(c - 1)
        PROVE  \E b \in host : b[3] # Extension /\ <<b[2] * c + b[3] + at, b[1]>> = <<e * c + m + at, At(e, m)>>
    <3> DEFINE b == <<At(e, m), e, m>>
    <3>1. m \in 0..(w - 1) /\ Byte(m) = m /\ m # Extension
      BY <1>1 DEF Extension
    <3>2. b \in host
      BY <1>2, <3>1
    <3> QED BY <3>1, <3>2
  <2> DEFINE L == {<<b[2] * c + b[3] + at, b[1]>> : b \in {h \in host : h[3] # Extension}}
             R == {<<e * c + m + at, At(e, m)>> : e \in D, m \in 0..(c - 1)}
  <2>3. L \subseteq R
    <3> SUFFICES ASSUME NEW b \in host, b[3] # Extension PROVE <<b[2] * c + b[3] + at, b[1]>> \in R
      OBVIOUS
    <3> QED BY <2>1
  <2>4. R \subseteq L
    <3> SUFFICES ASSUME NEW e \in D, NEW m \in 0..(c - 1) PROVE <<e * c + m + at, At(e, m)>> \in L
      OBVIOUS
    <3>1. PICK b \in host : b[3] # Extension /\ <<b[2] * c + b[3] + at, b[1]>> = <<e * c + m + at, At(e, m)>>
      BY <2>2
    <3>2. b \in {h \in host : h[3] # Extension}
      BY <3>1
    <3> QED BY <3>1, <3>2
  <2> QED BY <2>3, <2>4
<1>13. {<<b[2], b[1]>> : b \in copied} = {<<e * c + m + at, At(e, m)>> : e \in D, m \in 0..(c - 1)}
  <2>1. ASSUME NEW a \in Atoms(i)
        PROVE  \E e \in D, m \in 0..(c - 1) :
                  /\ DataAddr(i, id, a[1], a[2]) + a[3] = At(e, m)
                  /\ MemAddr(i, g, p[1], p[2], a[1], a[2]) + a[3] = e * c + m + at
    BY <1>4, <1>6
  <2>2. ASSUME NEW e \in D, NEW m \in 0..(c - 1)
        PROVE  \E a \in Atoms(i) :
                  /\ DataAddr(i, id, a[1], a[2]) + a[3] = At(e, m)
                  /\ MemAddr(i, g, p[1], p[2], a[1], a[2]) + a[3] = e * c + m + at
    <3>1. PICK a \in Atoms(i) : a[1] = e /\ a[2] + a[3] = m
      BY <1>6
    <3> QED BY <1>4, <3>1
  <2> DEFINE L == {<<b[2], b[1]>> : b \in copied}
             R == {<<e * c + m + at, At(e, m)>> : e \in D, m \in 0..(c - 1)}
  <2>3. L \subseteq R
    <3> SUFFICES ASSUME NEW a \in Atoms(i)
                 PROVE  <<MemAddr(i, g, p[1], p[2], a[1], a[2]) + a[3], DataAddr(i, id, a[1], a[2]) + a[3]>> \in R
      BY <1>8
    <3> QED BY <2>1
  <2>4. R \subseteq L
    <3> SUFFICES ASSUME NEW e \in D, NEW m \in 0..(c - 1) PROVE <<e * c + m + at, At(e, m)>> \in L
      OBVIOUS
    <3>1. PICK a \in Atoms(i) : /\ DataAddr(i, id, a[1], a[2]) + a[3] = At(e, m)
                               /\ MemAddr(i, g, p[1], p[2], a[1], a[2]) + a[3] = e * c + m + at
      BY <2>2
    <3>2. <<At(e, m), e * c + m + at>> \in copied
      BY <1>8, <3>1
    <3> QED BY <3>2
  <2> QED BY <2>3, <2>4
<1>14. saved = host
  BY <1>10, <1>11
<1> QED BY <1>3, <1>9, <1>12, <1>13, <1>14 DEF saved, host, at, copied, id

(* So tests find their memory and their values.                             *)
THEOREM ArraysFitHolds ==
    ASSUME NEW i \in LoadsAndStores \cup AtomicAccesses, NEW g \in Groups
    PROVE  ArraysFitOn(i, g)
  BY BundlesFitHolds, ValuesFoundHolds DEF ArraysFitOn, DeclSize
-----------------------------------------------------------------------------
(* The arena hands out no byte twice, for every size of chunks and sequence *)
(* of requests.                                                             *)

(* An arena without chunks, as the constructor and Release leave it.        *)
THEOREM StartsApart ==
    /\ NoChunks \in Arenas /\ BlocksApart(NoChunks)
    /\ \A a \in Arenas : Release(a) \in Arenas /\ BlocksApart(Release(a))
<1>1. NoChunks \in Arenas /\ BlocksApart(NoChunks)
  <2>1. <<>> \in Seq(Nat)
    OBVIOUS
  <2> QED BY <2>1 DEF NoChunks, Arenas, BlocksApart
<1>2. ASSUME NEW a \in Arenas PROVE Release(a) \in Arenas /\ BlocksApart(Release(a))
  <2>1. Release(a) = [chunks |-> <<>>, allocPos |-> a.allocPos, blocks |-> {}]
    BY DEF Release, Arenas
  <2>2. a.allocPos \in Nat /\ <<>> \in Seq(Nat)
    BY DEF Arenas
  <2> QED BY <2>1, <2>2 DEF Arenas, BlocksApart
<1> QED BY <1>1, <1>2

(* After EnsureSpace the request fits behind allocPos in the last chunk.    *)
LEMMA SpaceEnsured ==
    ASSUME NEW a \in Arenas, NEW size \in Nat, Fits(size), BlocksApart(a)
    PROVE  LET b == EnsureSpace(a, size)
               last == Len(b.chunks)
           IN  /\ b \in Arenas /\ BlocksApart(b)
               /\ last \in 1..last
               /\ chunkReserved + b.allocPos + size <= b.chunks[last]
<1> DEFINE larger == IF size < chunkSize THEN chunkSize ELSE size
           grown == Grow(a, size)
<1>1. CASE a.chunks = <<>> \/ chunkReserved + a.allocPos + size > a.chunks[Len(a.chunks)]
  <2>1. EnsureSpace(a, size) = grown
    BY <1>1 DEF EnsureSpace
  <2>2. /\ grown.chunks = Append(a.chunks, larger) /\ grown.allocPos = 0 /\ grown.blocks = a.blocks
        /\ grown \in Arenas
    <3>1. grown = [chunks |-> Append(a.chunks, larger), allocPos |-> 0, blocks |-> a.blocks]
      BY DEF Grow, Arenas
    <3>2. a.chunks \in Seq(Nat) /\ larger \in Nat
      BY ArenaAssumption DEF Arenas
    <3>3. Append(a.chunks, larger) \in Seq(Nat)
      BY <3>2
    <3> QED BY <3>1, <3>3 DEF Arenas
  <2>3. /\ Len(grown.chunks) = Len(a.chunks) + 1 /\ grown.chunks[Len(grown.chunks)] = larger
        /\ Len(a.chunks) \in Nat
        /\ \A i \in 1..Len(a.chunks) : grown.chunks[i] = a.chunks[i]
    BY <2>2, ArenaAssumption DEF Arenas
  <2>4. chunkReserved + size <= larger
    BY ArenaAssumption DEF Fits
  <2>5. BlocksApart(grown)
    BY <2>2, <2>3 DEF BlocksApart, InsideChunk
  <2> QED BY <2>1, <2>2, <2>3, <2>4, <2>5, ArenaAssumption
<1>2. CASE ~(a.chunks = <<>> \/ chunkReserved + a.allocPos + size > a.chunks[Len(a.chunks)])
  <2>1. EnsureSpace(a, size) = a
    BY <1>2 DEF EnsureSpace
  <2>2. /\ Len(a.chunks) \in 1..Len(a.chunks)
        /\ a.chunks[Len(a.chunks)] \in Nat /\ a.allocPos \in Nat
    BY <1>2 DEF Arenas
  <2> QED BY <1>2, <2>1, <2>2, ArenaAssumption
<1> QED BY <1>1, <1>2

(* Malloc: blocks lie inside their chunks and apart from each other.        *)
THEOREM MallocKeepsApart ==
    ASSUME NEW a \in Arenas, NEW size \in Nat, Fits(size), BlocksApart(a)
    PROVE  Malloc(a, size) \in Arenas /\ BlocksApart(Malloc(a, size))
<1> DEFINE b == EnsureSpace(a, size)
           last == Len(b.chunks)
           new == [chunk |-> last, at |-> b.allocPos, size |-> size]
           m == Taken(b, size)
<1>1. /\ b \in Arenas /\ BlocksApart(b) /\ last \in 1..last
      /\ chunkReserved + b.allocPos + size <= b.chunks[last]
  BY SpaceEnsured
<1> HIDE DEF b
<1>2. /\ b.allocPos \in Nat /\ last \in Nat
      /\ \A c \in b.blocks : c \in [chunk : Nat, at : Nat, size : Nat]
  BY <1>1 DEF Arenas
<1>3. /\ m.chunks = b.chunks /\ m.allocPos = b.allocPos + size /\ m.blocks = b.blocks \cup {new}
      /\ m \in Arenas
  <2>1. new \in [chunk : Nat, at : Nat, size : Nat]
    BY <1>2
  <2>2. b.blocks \subseteq [chunk : Nat, at : Nat, size : Nat] /\ b.chunks \in Seq(Nat)
    BY <1>1 DEF Arenas
  <2>3. m = [chunks |-> b.chunks, allocPos |-> b.allocPos + size, blocks |-> b.blocks \cup {new}]
    BY DEF Taken
  <2> QED BY <2>1, <2>2, <2>3, <1>2 DEF Arenas
<1>4. \A c \in m.blocks : InsideChunk(m, c)
  <2> SUFFICES ASSUME NEW c \in m.blocks PROVE InsideChunk(m, c)
    OBVIOUS
  <2>1. CASE c = new
    BY <1>1, <1>2, <1>3, <2>1 DEF InsideChunk
  <2>2. CASE c \in b.blocks
    BY <1>1, <1>2, <1>3, <2>2 DEF InsideChunk, BlocksApart
  <2> QED BY <1>3, <2>1, <2>2
<1>5. \A c \in b.blocks : Apart(c, new) /\ Apart(new, c)
  BY <1>1, <1>2 DEF Apart, BlocksApart, InsideChunk
<1>6. BlocksApart(m)
  BY <1>1, <1>3, <1>4, <1>5 DEF BlocksApart
<1> QED BY <1>3, <1>6 DEF Malloc, b

(* What Grow forgets: a request that does not fit in a chunk of the usual   *)
(* size gets a block that ends chunkReserved bytes behind its chunk.        *)
THEOREM LargeRequestsOverrun ==
    ASSUME NEW size \in Nat, size >= chunkSize
    PROVE  \E b \in Malloc(NoChunks, size).blocks :
              chunkReserved + b.at + b.size = Malloc(NoChunks, size).chunks[b.chunk] + chunkReserved
<1> DEFINE b == [chunk |-> 1, at |-> 0, size |-> size]
<1>1. EnsureSpace(NoChunks, size) = Grow(NoChunks, size)
  BY DEF EnsureSpace, NoChunks
<1>2. Grow(NoChunks, size) = [chunks |-> <<size>>, allocPos |-> 0, blocks |-> {}]
  BY ArenaAssumption DEF Grow, NoChunks
<1>3. /\ Malloc(NoChunks, size).chunks = <<size>> /\ Malloc(NoChunks, size).blocks = {b}
  BY <1>1, <1>2 DEF Malloc, Taken
<1>4. chunkReserved + b.at + b.size = <<size>>[b.chunk] + chunkReserved
  BY ArenaAssumption
<1> QED BY <1>3, <1>4
-----------------------------------------------------------------------------
(* The powers of two: as many as a set of n elements has subsets.  Of those *)
(* with one element more, half have it.                                     *)
LEMMA TwoDoubles ==
    ASSUME NEW n \in Nat
    PROVE  Two(n) \in Nat \ {0} /\ Two(n + 1) = 2 * Two(n)
<1> DEFINE S == 1..n
           T == 1..(n + 1)
           half == SUBSET S
           f == [p \in half \X {0, 1} |-> IF p[2] = 1 THEN p[1] \cup {n + 1} ELSE p[1]]
<1>1. IsFiniteSet(S) /\ Cardinality(S) = n /\ IsFiniteSet(T) /\ Cardinality(T) = n + 1
  BY FS_Interval
<1>2. /\ IsFiniteSet(half) /\ Cardinality(half) = Two(n)
      /\ IsFiniteSet(SUBSET T) /\ Cardinality(SUBSET T) = Two(n + 1)
  BY <1>1, FS_SUBSET DEF Two
<1>3. Cardinality({0, 1}) = 2 /\ IsFiniteSet({0, 1})
  <2>1. {0, 1} = {0} \cup {1}
    OBVIOUS
  <2>2. IsFiniteSet({0}) /\ Cardinality({0}) = 1
    BY FS_Singleton
  <2>3. /\ IsFiniteSet({0} \cup {1})
        /\ Cardinality({0} \cup {1}) = IF 1 \in {0} THEN Cardinality({0}) ELSE Cardinality({0}) + 1
    BY <2>2, FS_AddElement
  <2> QED BY <2>1, <2>2, <2>3
<1>4. IsFiniteSet(half \X {0, 1}) /\ Cardinality(half \X {0, 1}) = Two(n) * 2
  <2> HIDE DEF half
  <2> QED BY <1>2, <1>3, FS_Product
<1>5. T = S \cup {n + 1} /\ n + 1 \notin S
  OBVIOUS
<1>6. f \in Bijection(half \X {0, 1}, SUBSET T)
  <2>1. f \in [half \X {0, 1} -> SUBSET T]
    BY <1>5
  <2>2. ASSUME NEW p \in half \X {0, 1}, NEW q \in half \X {0, 1}, f[p] = f[q]
        PROVE  p = q
    <3>1. /\ n + 1 \in f[p] <=> p[2] = 1
          /\ n + 1 \in f[q] <=> q[2] = 1
      BY <1>5
    <3>2. p[1] = f[p] \ {n + 1} /\ q[1] = f[q] \ {n + 1}
      BY <1>5
    <3> QED BY <2>2, <3>1, <3>2
  <2>3. ASSUME NEW A \in SUBSET T
        PROVE  \E p \in half \X {0, 1} : f[p] = A
    <3>1. CASE n + 1 \in A
      <4>1. A \ {n + 1} \in half /\ (A \ {n + 1}) \cup {n + 1} = A
        BY <1>5, <3>1
      <4>2. <<A \ {n + 1}, 1>> \in half \X {0, 1} /\ f[<<A \ {n + 1}, 1>>] = (A \ {n + 1}) \cup {n + 1}
        <5> HIDE DEF half
        <5> QED BY <4>1
      <4> QED BY <4>1, <4>2
    <3>2. CASE n + 1 \notin A
      <4>1. A \in half
        BY <1>5, <3>2
      <4>2. <<A, 0>> \in half \X {0, 1} /\ f[<<A, 0>>] = A
        <5> HIDE DEF half
        <5> QED BY <4>1
      <4> QED BY <4>2
    <3> QED BY <3>1, <3>2
  <2> HIDE DEF f
  <2> QED BY <2>1, <2>2, <2>3 DEF Bijection, Injection, Surjection, IsInjective
<1>7. Two(n + 1) = Two(n) * 2
  <2> HIDE DEF f, half, T
  <2>1. ExistsBijection(half \X {0, 1}, SUBSET T)
    BY <1>6 DEF ExistsBijection
  <2> QED BY <1>2, <1>4, <2>1, FS_Bijection
<1>8. Two(n) \in Nat /\ Two(n) # 0
  <2> HIDE DEF half
  <2>1. half # {}
    BY DEF half
  <2>2. Cardinality(half) \in Nat /\ Cardinality(half) # 0
    BY <1>2, <2>1, FS_CardinalityType, FS_EmptySet
  <2> QED BY <1>2, <2>2
<1> QED BY <1>7, <1>8

(* The types of the emulator, of any width.  Half(t) is the weight of the   *)
(* highest bit.                                                             *)
Types == [bits : Nat \ {0}, signed : BOOLEAN, rank : {"narrow", "int", "long"}]
Half(t) == Two(t.bits - 1)

LEMMA Widths ==
    ASSUME NEW t \in Types
    PROVE  /\ Half(t) \in Nat \ {0} /\ Two(t.bits) = 2 * Half(t)
           /\ Values(t) = IF t.signed THEN (-Half(t))..(Half(t) - 1) ELSE 0..(2 * Half(t) - 1)
           /\ IntBoundary(t, TRUE) = IF t.signed THEN -Half(t) ELSE 0
           /\ IntBoundary(t, FALSE) = IF t.signed THEN Half(t) - 1 ELSE 2 * Half(t) - 1
           /\ \A v \in Values(t) : v \in Int
<1>1. t.bits - 1 \in Nat /\ (t.bits - 1) + 1 = t.bits
  BY DEF Types
<1>2. Half(t) \in Nat \ {0} /\ Two(t.bits) = 2 * Half(t)
  BY <1>1, TwoDoubles DEF Half
<1>3. /\ IntBoundary(t, TRUE) = IF t.signed THEN -Half(t) ELSE 0
      /\ IntBoundary(t, FALSE) = IF t.signed THEN Half(t) - 1 ELSE 2 * Half(t) - 1
  BY <1>2 DEF IntBoundary, Half
<1>4. ASSUME NEW v \in Values(t) PROVE v \in Int
  BY <1>2, <1>3 DEF Values
<1> QED BY <1>2, <1>3, <1>4 DEF Values

(* Val keeps the value modulo 2^bits and puts it into the range of the type.*)
LEMMA ValWraps ==
    ASSUME NEW t \in Types, NEW x \in Int
    PROVE  /\ Val(t, x) \in Values(t)
           /\ \E k \in Int : Val(t, x) = x + k * Two(t.bits)
           /\ x \in Values(t) => Val(t, x) = x
           /\ AsB64(t, Val(t, x)) = x % Two(t.bits)
<1> DEFINE W == Two(t.bits)
           H == Half(t)
           low == x % W
<1>1. H \in Nat \ {0} /\ W = 2 * H /\ t.signed \in BOOLEAN
  BY Widths DEF Types
<1>2. Values(t) = IF t.signed THEN (-H)..(H - 1) ELSE 0..(2 * H - 1)
  BY Widths
<1>3. Val(t, x) = IF t.signed /\ low >= H THEN low - W ELSE low
  BY DEF Val, Half
<1>4. AsB64(t, Val(t, x)) = Val(t, x) % W
  BY DEF AsB64
<1> HIDE DEF W, H
<1> DEFINE q == x \div W
<1>5. W \in Nat \ {0}
  BY <1>1
<1>6. low \in Int /\ q \in Int /\ 0 <= low /\ low < W /\ x = W * q + low
  BY <1>5, DivMod
<1> HIDE DEF low, q
<1>7. Val(t, x) \in Values(t)
  BY <1>1, <1>2, <1>3, <1>6
<1>8. Val(t, x) = x + (-q) * W \/ Val(t, x) = x + (-q - 1) * W
  BY <1>1, <1>3, <1>6
<1>9. \E k \in Int : Val(t, x) = x + k * W
  BY <1>6, <1>8
<1>10. ASSUME NEW y \in Int, NEW k \in Int, y = x + k * W
       PROVE  y % W = low
  <2>1. y = W * (q + k) + low /\ q + k \in Int
    BY <1>1, <1>6, <1>10
  <2> QED BY <1>5, <1>6, <2>1, RemainderIs
<1>11. ASSUME x \in Values(t) PROVE Val(t, x) = x
  <2>1. CASE x >= 0
    <3>1. x < W /\ x = W * 0 + x
      BY <1>1, <1>2, <1>11, <2>1
    <3>2. low = x
      BY <1>5, <2>1, <3>1, RemainderIs DEF low
    <3> QED BY <1>1, <1>2, <1>3, <1>11, <3>2
  <2>2. CASE x < 0
    <3>1. t.signed /\ 0 <= x + W /\ x + W < W /\ x + W >= H /\ x = W * (-1) + (x + W)
      BY <1>1, <1>2, <1>11, <2>2
    <3>2. low = x + W
      BY <1>5, <3>1, RemainderIs DEF low
    <3> QED BY <1>3, <1>5, <3>1, <3>2
  <2> QED BY <2>1, <2>2
<1>12. Val(t, x) % W = low
  <2>1. PICK k \in Int : Val(t, x) = x + k * W
    BY <1>9
  <2>2. Val(t, x) \in Int
    BY <1>5, <2>1
  <2> QED BY <1>10, <2>1, <2>2
<1> QED BY <1>4, <1>7, <1>9, <1>11, <1>12 DEF W, low

(* Sum and difference modulo w, by the remainders of the two.               *)
LEMMA SumsWrap ==
    ASSUME NEW a \in Int, NEW b \in Int, NEW w \in Nat \ {0}
    PROVE  LET x == a % w  y == b % w
           IN  /\ (a + b) % w = IF x + y < w THEN x + y ELSE x + y - w
               /\ (a - b) % w = IF x >= y THEN x - y ELSE x - y + w
<1> DEFINE x == a % w  y == b % w  p == a \div w  q == b \div w
           s == a + b  d == a - b
<1>1. x \in Int /\ p \in Int /\ 0 <= x /\ x < w /\ a = w * p + x
  BY DivMod
<1>2. y \in Int /\ q \in Int /\ 0 <= y /\ y < w /\ b = w * q + y
  BY DivMod
<1> HIDE DEF x, y, p, q
<1>3. /\ s \in Int /\ s = w * (p + q) + (x + y) /\ s = w * (p + q + 1) + (x + y - w)
      /\ d \in Int /\ d = w * (p - q) + (x - y) /\ d = w * (p - q - 1) + (x - y + w)
  BY <1>1, <1>2
<1> HIDE DEF s, d
<1>4. ASSUME NEW z \in Int, NEW k \in Int, NEW r \in Int, z = w * k + r, 0 <= r, r < w
      PROVE  z % w = r
  BY <1>4, RemainderIs
<1>5. s % w = IF x + y < w THEN x + y ELSE x + y - w
  <2>1. CASE x + y < w
    BY <1>1, <1>2, <1>3, <1>4, <2>1
  <2>2. CASE ~ (x + y < w)
    <3> DEFINE k == p + q + 1  r == x + y - w
    <3>1. k \in Int /\ r \in Int /\ s = w * k + r /\ 0 <= r /\ r < w
      BY <1>1, <1>2, <1>3, <2>2
    <3> HIDE DEF k
    <3>2. s % w = r
      <4> HIDE DEF r
      <4> QED BY <1>3, <1>4, <3>1
    <3> QED BY <2>2, <3>2
  <2> QED BY <2>1, <2>2
<1>6. d % w = IF x >= y THEN x - y ELSE x - y + w
  <2>1. CASE x >= y
    BY <1>1, <1>2, <1>3, <1>4, <2>1
  <2>2. CASE ~ (x >= y)
    <3> DEFINE k == p - q - 1  r == x - y + w
    <3>1. k \in Int /\ r \in Int /\ d = w * k + r /\ 0 <= r /\ r < w
      BY <1>1, <1>2, <1>3, <2>2
    <3> HIDE DEF k
    <3>2. d % w = r
      <4> HIDE DEF r
      <4> QED BY <1>3, <1>4, <3>1
    <3> QED BY <2>2, <3>2
  <2> QED BY <2>1, <2>2
<1> QED BY <1>5, <1>6 DEF x, y, s, d

(* The sum and the carry of op_add and op_carry are the whole sum, the      *)
(* difference and the borrow the whole difference, in types of any width.   *)
THEOREM FlagsCompleteHolds ==
    ASSUME NEW t \in Types, NEW a \in Values(t), NEW b \in Values(t)
    PROVE  FlagsComplete(t, a, b)
<1> DEFINE W == Two(t.bits)
           x == a % W  y == b % W
           ut == Unsigned(t)
           carry == op_carry(ut, x, y)
           borrow == op_borrow(ut, x, y)
<1>1. /\ W \in Nat \ {0} /\ W >= 2
      /\ a \in Int /\ b \in Int
  <2>1. Half(t) \in Nat \ {0} /\ W = 2 * Half(t)
    BY Widths
  <2>2. W \in Nat \ {0} /\ W >= 2
    <3> HIDE DEF W
    <3> QED BY <2>1
  <2>3. a \in Int /\ b \in Int
    BY Widths
  <2> QED BY <2>2, <2>3
<1>2. ut \in Types /\ ut.bits = t.bits /\ ~ut.signed
  BY DEF Types, Unsigned
<1>3. x \in Int /\ 0 <= x /\ x < W /\ y \in Int /\ 0 <= y /\ y < W
  <2> HIDE DEF W
  <2> QED BY <1>1, DivMod
<1>4. /\ AsB64(t, a) = x /\ AsB64(t, b) = y
      /\ AsB64(t, op_add(t, a, b)) = (a + b) % W
      /\ AsB64(t, op_sub(t, a, b)) = (a - b) % W
  <2>1. AsB64(t, a) = x /\ AsB64(t, b) = y
    BY DEF AsB64
  <2>2. a + b \in Int /\ a - b \in Int
    BY <1>1
  <2> QED BY <2>1, <2>2, ValWraps DEF op_add, op_sub
<1>5. Val(ut, x + y) = (x + y) % W
  BY <1>2 DEF Val
<1>6. AluFlag(t, a, b, op_carry) = Val(t, carry) /\ AluFlag(t, a, b, op_borrow) = Val(t, borrow)
  BY <1>4 DEF AluFlag
<1>7. /\ carry = IF (x + y) % W < x THEN 1 ELSE 0
      /\ borrow = IF x < y THEN 1 ELSE 0
  BY <1>5 DEF op_carry, op_borrow, op_add
<1>8. carry \in {0, 1} /\ borrow \in {0, 1}
  BY <1>7
<1> HIDE DEF ut, carry, borrow
<1>9. AsB64(t, Val(t, carry)) = carry /\ AsB64(t, Val(t, borrow)) = borrow
  <2>1. ASSUME NEW f \in {0, 1} PROVE AsB64(t, Val(t, f)) = f
    <3>1. AsB64(t, Val(t, f)) = f % W
      BY <2>1, ValWraps
    <3> HIDE DEF W
    <3>2. f \in Int /\ 0 <= f /\ f < W /\ f = W * 0 + f
      BY <1>1, <2>1
    <3>3. f % W = f
      BY <1>1, <3>2, RemainderIs
    <3> QED BY <3>1, <3>3
  <2> QED BY <1>8, <2>1
<1>10. /\ (a + b) % W = IF x + y < W THEN x + y ELSE x + y - W
       /\ (a - b) % W = IF x >= y THEN x - y ELSE x - y + W
  <2> HIDE DEF W
  <2> QED BY <1>1, SumsWrap
<1>11. (x + y) % W = IF x + y < W THEN x + y ELSE x + y - W
  <2>1. x % W = x /\ y % W = y
    <3> HIDE DEF W, x, y
    <3>1. x = W * 0 + x /\ y = W * 0 + y
      BY <1>1, <1>3
    <3> QED BY <1>1, <1>3, <3>1, RemainderIs
  <2> HIDE DEF W, x, y
  <2>2. x \in Int /\ y \in Int
    BY <1>3
  <2>3. (x + y) % W = IF (x % W) + (y % W) < W THEN (x % W) + (y % W) ELSE (x % W) + (y % W) - W
    BY <1>1, <2>2, SumsWrap
  <2> QED BY <2>1, <2>3
<1> HIDE DEF W, x, y
<1>12. ((a + b) % W) + W * carry = x + y
  BY <1>1, <1>3, <1>7, <1>10, <1>11
<1>13. ((a - b) % W) - W * borrow = x - y
  BY <1>1, <1>3, <1>7, <1>10
<1> QED BY <1>4, <1>6, <1>9, <1>12, <1>13 DEF FlagsComplete, W

(* Where the result of an operation of C++ is defined, the saturating       *)
(* operations give the nearest value when they tell rightly that and in     *)
(* which direction the exact result x does not fit.                         *)
HasNoOverflow(t) == ~t.signed \/ t.rank = "narrow"

LEMMA Saturates ==
    ASSUME NEW t \in Types, HasNoOverflow(t), NEW x \in Int, NEW s \in {-1, 0, 1},
           s = 0 <=> x \in Values(t),
           s = 1 => x > IntBoundary(t, FALSE),
           s = -1 => x < IntBoundary(t, TRUE)
    PROVE  Saturated(t, x, s) = {Clamp(t, x)}
<1> DEFINE lo == IntBoundary(t, TRUE)  hi == IntBoundary(t, FALSE)
<1>1. Saturated(t, x, s) = {IF s = 0 THEN Val(t, x) ELSE IntBoundary(t, s = -1)}
  BY DEF Saturated, Overflows, HasNoOverflow
<1>2. Values(t) = lo..hi /\ Clamp(t, x) = IF x < lo THEN lo ELSE IF x > hi THEN hi ELSE x
  BY DEF Values, Clamp
<1>3. lo \in Int /\ hi \in Int /\ lo < hi
  <2>1. Half(t) \in Nat \ {0} /\ t.signed \in BOOLEAN
    BY Widths DEF Types
  <2>2. lo = (IF t.signed THEN -Half(t) ELSE 0) /\ hi = (IF t.signed THEN Half(t) - 1 ELSE 2 * Half(t) - 1)
    BY Widths
  <2> HIDE DEF lo, hi
  <2>3. CASE t.signed
    BY <2>1, <2>2, <2>3
  <2>4. CASE ~t.signed
    BY <2>1, <2>2, <2>4
  <2> QED BY <2>1, <2>3, <2>4
<1>4. CASE s = 0
  <2>1. Val(t, x) = x
    BY <1>4, ValWraps
  <2>2. Clamp(t, x) = x
    <3> HIDE DEF lo, hi
    <3> QED BY <1>2, <1>3, <1>4
  <2> QED BY <1>1, <1>4, <2>1, <2>2
<1>5. CASE s = 1
  <2>1. x > hi
    BY <1>5
  <2>2. Clamp(t, x) = hi
    <3> HIDE DEF lo, hi
    <3> QED BY <1>2, <1>3, <2>1
  <2>3. IntBoundary(t, s = -1) = hi
    <3>1. (s = -1) <=> FALSE
      BY <1>5
    <3> QED BY <3>1 DEF IntBoundary
  <2>4. (IF s = 0 THEN Val(t, x) ELSE IntBoundary(t, s = -1)) = hi
    <3>1. s # 0
      BY <1>5
    <3> HIDE DEF lo, hi
    <3> QED BY <2>3, <3>1
  <2> HIDE DEF lo, hi
  <2> QED BY <1>1, <2>2, <2>4
<1>6. CASE s = -1
  <2>1. x < lo
    BY <1>6
  <2>2. Clamp(t, x) = lo
    <3> HIDE DEF lo, hi
    <3> QED BY <1>2, <1>3, <2>1
  <2>3. IntBoundary(t, s = -1) = lo
    BY <1>6 DEF IntBoundary
  <2>4. (IF s = 0 THEN Val(t, x) ELSE IntBoundary(t, s = -1)) = lo
    <3>1. s # 0
      BY <1>6
    <3> HIDE DEF lo, hi
    <3> QED BY <2>3, <3>1
  <2> HIDE DEF lo, hi
  <2> QED BY <1>1, <2>2, <2>4
<1> QED BY <1>4, <1>5, <1>6

(* Sums and differences are off by one turn at most.                        *)
LEMMA ValNear ==
    ASSUME NEW t \in Types, NEW x \in Int, -Two(t.bits) <= x, x < IF t.signed THEN Two(t.bits) ELSE 2 * Two(t.bits)
    PROVE  Val(t, x) \in {x, x - Two(t.bits), x + Two(t.bits)}
<1> DEFINE W == Two(t.bits)  H == Half(t)
<1>1. H \in Nat \ {0} /\ W = 2 * H /\ t.signed \in BOOLEAN
  BY Widths DEF Types
<1>2. Values(t) = IF t.signed THEN (-H)..(H - 1) ELSE 0..(2 * H - 1)
  BY Widths
<1>3. Val(t, x) \in Values(t)
  BY ValWraps
<1>4. PICK k \in Int : Val(t, x) = x + k * W
  BY ValWraps
<1> HIDE DEF W, H
<1>5. -2 * W < k * W /\ k * W < 2 * W
  <2>1. CASE t.signed
    <3>1. Val(t, x) \in Int /\ -H <= Val(t, x) /\ Val(t, x) < H /\ -W <= x /\ x < W
      BY <1>1, <1>2, <1>3, <2>1 DEF W
    <3> QED BY <1>1, <1>4, <3>1
  <2>2. CASE ~t.signed
    <3>1. Val(t, x) \in Int /\ 0 <= Val(t, x) /\ Val(t, x) < W /\ -W <= x /\ x < 2 * W
      BY <1>1, <1>2, <1>3, <2>2 DEF W
    <3> QED BY <1>1, <1>4, <3>1
  <2> QED BY <1>1, <2>1, <2>2
<1>6. k \in {-1, 0, 1}
  <2>1. ~ (k >= 2) /\ ~ (k <= -2)
    BY <1>1, <1>5
  <2> QED BY <2>1
<1> QED BY <1>1, <1>4, <1>6 DEF W

(* Quotients truncate: their size is the quotient of the sizes, their sign  *)
(* the product of the signs.                                                *)
LEMMA Quotients ==
    ASSUME NEW x \in Int, NEW y \in Int, y # 0
    PROVE  LET m == AbsOf(x) \div AbsOf(y)
           IN  /\ m \in Nat /\ Quot(x, y) \in Int
               /\ Quot(x, y) = IF (x < 0) = (y < 0) THEN m ELSE -m
               /\ m * AbsOf(y) <= AbsOf(x) /\ AbsOf(x) < (m + 1) * AbsOf(y)
<1> DEFINE u == AbsOf(x)  v == AbsOf(y)  m == u \div v
<1>1. u \in Nat /\ v \in Nat \ {0}
  BY DEF AbsOf
<1>2. u \in Int /\ v \in Int
  BY <1>1
<1> HIDE DEF u, v
<1>3. m \in Int /\ 0 <= u - v * m /\ u - v * m < v
  BY <1>1, <1>2, DivMod
<1> HIDE DEF m
<1>4. m \in Nat
  <2>1. ~ (m <= -1)
    BY <1>1, <1>3
  <2> QED BY <1>3, <2>1
<1>5. Quot(x, y) = SignOf(x) * SignOf(y) * m
  BY DEF Quot, u, v, m
<1>6. Quot(x, y) = IF (x < 0) = (y < 0) THEN m ELSE -m
  <2>1. CASE x < 0 /\ y < 0
    BY <1>4, <1>5, <2>1 DEF SignOf
  <2>2. CASE x < 0 /\ ~ (y < 0)
    BY <1>4, <1>5, <2>2 DEF SignOf
  <2>3. CASE ~ (x < 0) /\ y < 0
    BY <1>4, <1>5, <2>3 DEF SignOf
  <2>4. CASE ~ (x < 0) /\ ~ (y < 0)
    BY <1>4, <1>5, <2>4 DEF SignOf
  <2> QED BY <2>1, <2>2, <2>3, <2>4
<1>7. m * v <= u /\ u < (m + 1) * v
  BY <1>1, <1>3
<1>8. Quot(x, y) \in Int
  BY <1>4, <1>6
<1> QED BY <1>4, <1>6, <1>7, <1>8 DEF m, u, v

LEMMA AbsOfProduct ==
    ASSUME NEW a \in Int, NEW b \in Int
    PROVE  AbsOf(a * b) = AbsOf(a) * AbsOf(b)
<1>1. CASE a < 0 /\ b < 0
  BY <1>1 DEF AbsOf
<1>2. CASE a < 0 /\ b >= 0
  <2>1. a * b <= 0
    BY <1>2
  <2> QED BY <1>2, <2>1 DEF AbsOf
<1>3. CASE a >= 0 /\ b < 0
  <2>1. a * b <= 0
    BY <1>3
  <2> QED BY <1>3, <2>1 DEF AbsOf
<1>4. CASE a >= 0 /\ b >= 0
  <2>1. a * b >= 0
    BY <1>4
  <2> QED BY <1>4, <2>1 DEF AbsOf
<1> QED BY <1>1, <1>2, <1>3, <1>4

LEMMA QuotientOfProduct ==
    ASSUME NEW a \in Int, NEW b \in Int, a # 0
    PROVE  Quot(a * b, a) = b
<1> DEFINE p == a * b
           m == AbsOf(p) \div AbsOf(a)
<1>1. p \in Int /\ AbsOf(p) = AbsOf(a) * AbsOf(b)
  BY AbsOfProduct
<1>2. AbsOf(a) \in Nat \ {0} /\ AbsOf(b) \in Nat
  BY DEF AbsOf
<1>3. m = AbsOf(b)
  <2> DEFINE u == AbsOf(p)  v == AbsOf(a)  n == AbsOf(b)
  <2>1. u \in Int /\ v \in Nat \ {0} /\ n \in Int /\ u = v * n + 0
    BY <1>1, <1>2
  <2> HIDE DEF u, v, n
  <2>2. u \div v = n
    BY <2>1, RemainderIs
  <2> QED BY <2>2 DEF u, v, n
<1>4. Quot(p, a) = IF (p < 0) = (a < 0) THEN AbsOf(b) ELSE -AbsOf(b)
  <2> HIDE DEF p
  <2>1. Quot(p, a) = IF (p < 0) = (a < 0) THEN m ELSE -m
    BY <1>1, Quotients
  <2> QED BY <1>3, <2>1
<1>5. CASE b = 0
  BY <1>2, <1>4, <1>5 DEF AbsOf
<1>6. CASE b > 0
  <2>1. (p < 0) <=> (a < 0)
    BY <1>6
  <2> QED BY <1>4, <1>6, <2>1 DEF AbsOf
<1>7. CASE b < 0
  <2>1. (p < 0) <=> ~ (a < 0)
    BY <1>7
  <2> QED BY <1>4, <1>7, <2>1 DEF AbsOf
<1> QED BY <1>5, <1>6, <1>7

(* The test of op_mul_sat by dividing back is exact: it fails for the       *)
(* products that fit and for no others.                                     *)
LEMMA DividesBackExactly ==
    ASSUME NEW t \in Types, NEW a \in Values(t), NEW b \in Values(t)
    PROVE  LosesBits(t, a, b) <=> a * b \notin Values(t)
<1> DEFINE H == Half(t)  p == a * b  w == Val(t, p)
<1>1. H \in Nat \ {0} /\ t.signed \in BOOLEAN /\ a \in Int /\ b \in Int
  BY Widths DEF Types
<1>2. Values(t) = (IF t.signed THEN (-H)..(H - 1) ELSE 0..(2 * H - 1)) /\ IntBoundary(t, TRUE) = IF t.signed THEN -H ELSE 0
  BY Widths
<1>3. p \in Int
  BY <1>1
<1>4. w \in Values(t) /\ (p \in Values(t) => w = p)
  BY <1>3, ValWraps
<1>5. w \in Int
  BY <1>4, Widths
<1>6. LosesBits(t, a, b) <=>
        \/ t.signed /\ a < 0 /\ b = IntBoundary(t, TRUE)
        \/ a # 0 /\ Val(t, Quot(w, a)) # b
  BY DEF LosesBits
<1> HIDE DEF w, H
<1>7. ASSUME p \in Values(t) PROVE ~LosesBits(t, a, b)
  <2>1. a # 0 => Val(t, Quot(w, a)) = b
    <3>1. a # 0 => Quot(w, a) = b
      BY <1>1, <1>4, <1>7, QuotientOfProduct
    <3> QED BY <1>1, <3>1, ValWraps
  <2>2. ~ (t.signed /\ a < 0 /\ b = IntBoundary(t, TRUE))
    <3>1. ASSUME t.signed, a < 0, b = -H PROVE FALSE
      <4>1. p >= H
        BY <1>1, <3>1
      <4> QED BY <1>1, <1>2, <1>3, <1>7, <3>1, <4>1
    <3> QED BY <1>2, <3>1
  <2> QED BY <1>6, <2>1, <2>2
<1>8. ASSUME p \notin Values(t), ~LosesBits(t, a, b) PROVE FALSE
  <2> DEFINE q == Quot(w, a)  m == AbsOf(w) \div AbsOf(a)
  <2>1. a # 0 /\ b # 0
    <3>1. 0 \in Values(t)
      BY <1>1, <1>2
    <3>2. a * 0 = 0 /\ 0 * b = 0
      BY <1>1
    <3> QED BY <1>8, <3>1, <3>2
  <2>2. Val(t, q) = b /\ ~ (t.signed /\ a < 0 /\ b = IntBoundary(t, TRUE))
    BY <1>6, <1>8, <2>1
  <2>3. /\ m \in Nat /\ q \in Int /\ q = (IF (w < 0) = (a < 0) THEN m ELSE -m)
        /\ m * AbsOf(a) <= AbsOf(w) /\ AbsOf(w) < (m + 1) * AbsOf(a)
    BY <1>1, <1>5, <2>1, Quotients
  <2> HIDE DEF q, m
  <2>4. AbsOf(a) \in Nat \ {0} /\ AbsOf(w) \in Nat /\ AbsOf(p) = AbsOf(a) * AbsOf(b)
    BY <1>1, <1>5, <2>1, AbsOfProduct DEF AbsOf
  <2>5. CASE q \in Values(t)
    <3>1. q = b
      BY <2>2, <2>3, <2>5, ValWraps
    <3>2. AbsOf(b) = m
      BY <2>3, <3>1 DEF AbsOf
    <3>3. AbsOf(p) <= AbsOf(w)
      BY <2>3, <2>4, <3>2
    <3>4. CASE ~t.signed
      <4>1. a >= 0 /\ b >= 0 /\ w >= 0 /\ w <= 2 * H - 1
        BY <1>1, <1>2, <1>4, <3>4
      <4>2. p >= 0
        BY <1>1, <4>1
      <4>3. p <= w
        BY <1>3, <1>5, <3>3, <4>1, <4>2 DEF AbsOf
      <4>4. p \in 0..(2 * H - 1)
        <5> HIDE DEF p
        <5> QED BY <1>1, <1>3, <1>5, <4>1, <4>2, <4>3
      <4> QED BY <1>2, <1>8, <3>4, <4>4
    <3>5. CASE t.signed
      <4>1. -H <= w /\ w <= H - 1 /\ (p >= H \/ p <= -H - 1)
        BY <1>1, <1>2, <1>3, <1>4, <1>5, <1>8, <3>5
      <4>2. w = -H /\ p = H
        BY <1>1, <1>3, <1>5, <3>3, <4>1 DEF AbsOf
      <4>3. w < 0 /\ m # 0
        BY <1>1, <2>1, <2>3, <3>2, <4>2 DEF AbsOf
      <4>4. CASE a < 0
        <5>1. b > 0
          BY <1>1, <2>3, <3>1, <4>3, <4>4
        <5>2. a * b < 0
          BY <1>1, <4>4, <5>1
        <5> QED BY <1>1, <4>2, <5>2
      <4>5. CASE a > 0
        <5>1. b < 0
          BY <1>1, <2>3, <3>1, <4>3, <4>5
        <5>2. a * b < 0
          BY <1>1, <4>5, <5>1
        <5> QED BY <1>1, <4>2, <5>2
      <4> QED BY <1>1, <2>1, <4>4, <4>5
    <3> QED BY <1>1, <3>4, <3>5
  <2>6. CASE q \notin Values(t)
    <3>1. m <= AbsOf(w)
      BY <2>3, <2>4
    <3>2. CASE ~t.signed
      <4>1. w >= 0 /\ w <= 2 * H - 1 /\ a >= 0
        BY <1>1, <1>2, <1>4, <3>2
      <4>2. q = m /\ m <= w
        BY <1>1, <1>5, <2>3, <3>1, <4>1 DEF AbsOf
      <4>3. q \in 0..(2 * H - 1)
        BY <1>1, <1>5, <2>3, <4>1, <4>2
      <4> QED BY <1>2, <2>6, <3>2, <4>3
    <3>3. CASE t.signed
      <4>1. -H <= w /\ w <= H - 1
        BY <1>1, <1>2, <1>4, <1>5, <3>3
      <4>2. AbsOf(w) <= H
        BY <1>1, <1>5, <4>1 DEF AbsOf
      <4>3. q = H /\ m = H /\ w = -H
        <5>1. q < -H \/ q >= H
          BY <1>1, <1>2, <2>3, <2>6, <3>3
        <5>2. q = H /\ m = H
          BY <1>1, <2>3, <2>4, <3>1, <4>2, <5>1
        <5> QED BY <1>1, <1>5, <3>1, <4>1, <5>2 DEF AbsOf
      <4>4. a < 0
        BY <1>1, <2>3, <4>3
      <4>5. b = -H
        <5>1. Val(t, H) \in Values(t)
          BY <1>1, ValWraps
        <5>2. Val(t, H) \in {H, H - Two(t.bits), H + Two(t.bits)}
          <6>1. Two(t.bits) = 2 * H
            BY Widths DEF H
          <6>2. H \in Int /\ -Two(t.bits) <= H /\ H < (IF t.signed THEN Two(t.bits) ELSE 2 * Two(t.bits))
            BY <1>1, <3>3, <6>1
          <6> QED BY <6>2, ValNear
        <5>3. Two(t.bits) = 2 * H
          BY Widths DEF H
        <5> QED BY <1>1, <1>2, <2>2, <3>3, <4>3, <5>1, <5>2, <5>3
      <4> QED BY <1>2, <2>2, <3>3, <4>4, <4>5
    <3> QED BY <1>1, <3>2, <3>3
  <2> QED BY <2>5, <2>6
<1> QED BY <1>7, <1>8

(* op_add_sat, op_sub_sat and op_mul_sat look at the wrapped result only,   *)
(* and give the value of the type that is nearest to the exact result, in   *)
(* every type whose overflow C++ defines.                                   *)
THEOREM SaturatesHolds ==
    ASSUME NEW t \in Types, HasNoOverflow(t), NEW a \in Values(t), NEW b \in Values(t)
    PROVE  SaturatesOn(t, a, b)
<1> DEFINE W == Two(t.bits)  H == Half(t)
           lo == IntBoundary(t, TRUE)  hi == IntBoundary(t, FALSE)
<1>1. H \in Nat \ {0} /\ W = 2 * H /\ t.signed \in BOOLEAN /\ a \in Int /\ b \in Int
  BY Widths DEF Types
<1>2. /\ Values(t) = IF t.signed THEN (-H)..(H - 1) ELSE 0..(2 * H - 1)
      /\ lo = IF t.signed THEN -H ELSE 0
      /\ hi = IF t.signed THEN H - 1 ELSE 2 * H - 1
  BY Widths
<1> HIDE DEF W, H, lo, hi
<1>3. ASSUME NEW x \in Int, -W <= x, x < IF t.signed THEN W ELSE 2 * W
      PROVE  Val(t, x) \in Values(t) /\ Val(t, x) \in {x, x - W, x + W}
  BY <1>3, ValWraps, ValNear DEF W
<1>4. ASSUME NEW x \in Int, NEW s \in {-1, 0, 1}, s = 0 <=> x \in Values(t), s = 1 => x > hi, s = -1 => x < lo
      PROVE  Saturated(t, x, s) = {Clamp(t, x)}
  BY <1>4, Saturates DEF hi, lo
<1>5. op_add_sat(t, a, b) = {Clamp(t, a + b)}
  <2> DEFINE x == a + b  res == Val(t, x)
             s == IF ~t.signed /\ res < a THEN 1
                  ELSE IF t.signed /\ a >= 0 /\ b >= 0 /\ res < 0 THEN 1
                  ELSE IF t.signed /\ a < 0 /\ b < 0 /\ res >= 0 THEN -1 ELSE 0
  <2>1. x \in Int /\ -W <= x /\ x < IF t.signed THEN W ELSE 2 * W
    BY <1>1, <1>2
  <2>2. res \in Values(t) /\ res \in {x, x - W, x + W}
    BY <1>3, <2>1
  <2>3. op_add_sat(t, a, b) = Saturated(t, x, s)
    BY DEF op_add_sat
  <2> HIDE DEF res
  <2>4. s \in {-1, 0, 1} /\ (s = 0 <=> x \in Values(t)) /\ (s = 1 => x > hi) /\ (s = -1 => x < lo)
    <3>1. CASE t.signed
      BY <1>1, <1>2, <2>2, <3>1
    <3>2. CASE ~t.signed
      BY <1>1, <1>2, <2>2, <3>2
    <3> QED BY <1>1, <3>1, <3>2
  <2> HIDE DEF s
  <2> QED BY <1>4, <2>1, <2>3, <2>4
<1>6. op_sub_sat(t, a, b) = {Clamp(t, a - b)}
  <2> DEFINE x == a - b  res == Val(t, x)
             s == IF ~t.signed /\ res > a THEN -1
                  ELSE IF t.signed /\ a >= 0 /\ b < 0 /\ res < 0 THEN 1
                  ELSE IF t.signed /\ a < 0 /\ b >= 0 /\ res >= 0 THEN -1 ELSE 0
  <2>1. x \in Int /\ -W <= x /\ x < IF t.signed THEN W ELSE 2 * W
    BY <1>1, <1>2
  <2>2. res \in Values(t) /\ res \in {x, x - W, x + W}
    BY <1>3, <2>1
  <2>3. op_sub_sat(t, a, b) = Saturated(t, x, s)
    BY DEF op_sub_sat
  <2> HIDE DEF res
  <2>4. s \in {-1, 0, 1} /\ (s = 0 <=> x \in Values(t)) /\ (s = 1 => x > hi) /\ (s = -1 => x < lo)
    <3>1. CASE t.signed
      BY <1>1, <1>2, <2>2, <3>1
    <3>2. CASE ~t.signed
      BY <1>1, <1>2, <2>2, <3>2
    <3> QED BY <1>1, <3>1, <3>2
  <2> HIDE DEF s
  <2> QED BY <1>4, <2>1, <2>3, <2>4
<1>7. op_mul_sat(t, a, b) = {Clamp(t, a * b)}
  <2> DEFINE x == a * b
             s == IF ~LosesBits(t, a, b) THEN 0 ELSE IF t.signed /\ (a < 0) # (b < 0) THEN -1 ELSE 1
  <2>1. x \in Int
    BY <1>1
  <2>2. op_mul_sat(t, a, b) = Saturated(t, x, s)
    BY DEF op_mul_sat
  <2>3. LosesBits(t, a, b) <=> x \notin Values(t)
    BY DividesBackExactly
  <2>4. /\ (t.signed /\ (a < 0) # (b < 0)) => x <= 0
        /\ ~ (t.signed /\ (a < 0) # (b < 0)) => x >= 0
    <3>1. CASE a < 0 /\ b < 0
      <4>1. x >= 0
        BY <1>1, <3>1
      <4> QED BY <3>1, <4>1
    <3>2. CASE a < 0 /\ ~ (b < 0)
      <4>1. x <= 0 /\ t.signed
        BY <1>1, <1>2, <3>2
      <4> QED BY <3>2, <4>1
    <3>3. CASE ~ (a < 0) /\ b < 0
      <4>1. x <= 0 /\ t.signed
        BY <1>1, <1>2, <3>3
      <4> QED BY <3>3, <4>1
    <3>4. CASE ~ (a < 0) /\ ~ (b < 0)
      <4>1. x >= 0
        BY <1>1, <3>4
      <4> QED BY <3>4, <4>1
    <3> QED BY <3>1, <3>2, <3>3, <3>4
  <2> HIDE DEF x
  <2>5. s \in {-1, 0, 1} /\ (s = 0 <=> x \in Values(t)) /\ (s = 1 => x > hi) /\ (s = -1 => x < lo)
    <3>1. CASE x \in Values(t)
      BY <2>3, <3>1
    <3>2. CASE x \notin Values(t) /\ t.signed /\ (a < 0) # (b < 0)
      <4>1. s = -1
        BY <2>3, <3>2
      <4>2. x < lo
        BY <1>1, <1>2, <2>1, <2>4, <3>2
      <4> HIDE DEF s
      <4> QED BY <3>2, <4>1, <4>2
    <3>3. CASE x \notin Values(t) /\ ~ (t.signed /\ (a < 0) # (b < 0))
      <4>1. s = 1
        BY <2>3, <3>3
      <4>2. x > hi
        BY <1>1, <1>2, <2>1, <2>4, <3>3
      <4> HIDE DEF s
      <4> QED BY <3>3, <4>1, <4>2
    <3> QED BY <3>1, <3>2, <3>3
  <2> HIDE DEF s
  <2>6. Saturated(t, x, s) = {Clamp(t, x)}
    BY <1>4, <2>1, <2>5
  <2> QED BY <2>2, <2>6 DEF x
<1> QED BY <1>5, <1>6, <1>7 DEF SaturatesOn

LEMMA TwoOfSum ==
    ASSUME NEW m \in Nat, NEW n \in Nat
    PROVE  Two(m + n) = Two(m) * Two(n)
<1> DEFINE S == {i \in Nat : Two(m + i) = Two(m) * Two(i)}
<1>1. 0 \in S
  <2>1. Two(0) = 1 /\ m + 0 = m /\ Two(m) \in Nat
    BY TwoDoubles DEF Two
  <2> QED BY <2>1
<1>2. ASSUME NEW i \in Nat, i \in S PROVE i + 1 \in S
  <2>1. Two(m + i) = Two(m) * Two(i)
    BY <1>2
  <2>2. m + i \in Nat /\ m + (i + 1) = (m + i) + 1
    OBVIOUS
  <2>3. Two((m + i) + 1) = 2 * Two(m + i) /\ Two(i + 1) = 2 * Two(i) /\ Two(m) \in Nat /\ Two(i) \in Nat
    BY <2>2, TwoDoubles
  <2> QED BY <2>1, <2>2, <2>3
<1> HIDE DEF S
<1>3. Nat \subseteq S
  BY <1>1, <1>2, ByInduction
<1> QED BY <1>3 DEF S

(* The 128 bit product of mul64hi: what it takes for carries of the sums of *)
(* halves never happens, so that nothing is lost.                           *)
LEMMA ProductOfHalves ==
    ASSUME NEW t \in Types, t.bits % 2 = 0,
           NEW x \in 0..(Two(t.bits) - 1), NEW y \in 0..(Two(t.bits) - 1)
    PROVE  LET product == mul64hi(t, x, y)
           IN  /\ product.low \in 0..(Two(t.bits) - 1)
               /\ product.high \in 0..(Two(t.bits) - 1)
               /\ Two(t.bits) * product.high + product.low = x * y
<1> DEFINE D == Two(t.bits)  H == Two(t.bits \div 2)
           ly == y % H   hy == y \div H   lx == x % H   hx == x \div H
           low == (lx * ly) % D
           c1 == (hx * ly + (low \div H)) % D
           hasCarry == IF c1 = 0 THEN 2 ELSE 0
           c2 == (c1 + ((lx * hy) % H)) % D
           c3 == (IF (c2 = 0 /\ hasCarry # 2) \/ hasCarry = 1 THEN H ELSE 0)
                 + (c2 \div H) + ((lx * hy) \div H) + hx * hy
<1>1. H \in Nat \ {0} /\ D = H * H
  <2> DEFINE n == t.bits \div 2
  <2>1. n \in Nat /\ t.bits = n + n
    BY DEF Types
  <2> HIDE DEF n
  <2>2. Two(n) \in Nat \ {0} /\ Two(n + n) = Two(n) * Two(n)
    BY <2>1, TwoDoubles, TwoOfSum
  <2> QED BY <2>1, <2>2 DEF n
<1>2. mul64hi(t, x, y) = IF x = 0 \/ y = 0 THEN [low |-> 0, high |-> 0]
                         ELSE [low |-> ((c2 * H) % D) + (low % H), high |-> c3 % D]
  BY DEF mul64hi
<1>3. x \in Int /\ y \in Int /\ 0 <= x /\ x <= D - 1 /\ 0 <= y /\ y <= D - 1 /\ D \in Nat \ {0}
  <2>1. D \in Nat \ {0}
    BY <1>1
  <2> QED BY <2>1
<1>4. /\ lx \in Nat /\ lx < H /\ hx \in Int /\ x = H * hx + lx
      /\ ly \in Nat /\ ly < H /\ hy \in Int /\ y = H * hy + ly
  <2> HIDE DEF H, D
  <2> QED BY <1>1, <1>3, DivMod
<1> DEFINE A == lx * ly  A1 == A \div H  A0 == A % H
           B == lx * hy  B1 == B \div H  B0 == B % H
<1> HIDE DEF H, D, lx, hx, ly, hy
<1>5. hx \in Nat /\ hx < H /\ hy \in Nat /\ hy < H
  <2>1. ASSUME NEW z \in Int, NEW h \in Int, NEW l \in Nat, z = H * h + l, l < H, 0 <= z, z <= D - 1
        PROVE  h \in Nat /\ h < H
    <3>1. ~ (h <= -1)
      BY <1>1, <2>1
    <3>2. ~ (h >= H)
      BY <1>1, <2>1
    <3> QED BY <1>1, <2>1, <3>1, <3>2
  <2> QED BY <1>3, <1>4, <2>1
<1>6. A \in Nat /\ A <= (H - 1) * (H - 1) /\ B \in Nat /\ B <= (H - 1) * (H - 1)
      /\ hx * ly \in Nat /\ hx * ly <= (H - 1) * (H - 1)
  <2>1. ASSUME NEW m \in Nat, NEW n \in Nat, m < H, n < H
        PROVE  m * n \in Nat /\ m * n <= (H - 1) * (H - 1)
    <3>1. m * n <= (H - 1) * n /\ (H - 1) * n <= (H - 1) * (H - 1)
      BY <1>1, <2>1
    <3> QED BY <1>1, <2>1, <3>1
  <2> QED BY <1>4, <1>5, <2>1
<1> HIDE DEF A, B
<1>7. /\ A1 \in Int /\ A0 \in Nat /\ A0 < H /\ A = H * A1 + A0
      /\ B1 \in Int /\ B0 \in Nat /\ B0 < H /\ B = H * B1 + B0
  <2>1. A \in Int /\ B \in Int
    BY <1>6
  <2> QED BY <1>1, <2>1, DivMod
<1> HIDE DEF A1, A0, B1, B0
<1>8. A1 \in Nat /\ A1 <= H - 1 /\ B1 \in Nat
  <2>1. ~ (A1 <= -1) /\ ~ (B1 <= -1)
    BY <1>1, <1>6, <1>7
  <2>2. ~ (A1 >= H)
    BY <1>1, <1>6, <1>7
  <2> QED BY <1>1, <1>7, <2>1, <2>2
<1>9. low = A
  <2>1. A = D * 0 + A /\ A < D /\ 0 <= A /\ A \in Int
    BY <1>1, <1>3, <1>6
  <2>2. A % D = A
    BY <1>3, <2>1, RemainderIs
  <2> QED BY <2>2 DEF A
<1>10. c1 = hx * ly + A1 /\ c1 \in Nat /\ c1 <= (H - 1) * H
  <2> DEFINE u == hx * ly + A1
  <2>1. u \in Nat /\ u <= (H - 1) * H
    BY <1>1, <1>6, <1>8
  <2>2. c1 = u % D
    BY <1>9 DEF A1
  <2> HIDE DEF u, c1
  <2>3. u < D /\ u = D * 0 + u /\ u \in Int /\ 0 <= u
    BY <1>1, <1>3, <2>1
  <2>4. u % D = u
    BY <1>3, <2>3, RemainderIs
  <2> QED BY <2>1, <2>2, <2>4 DEF u
<1> HIDE DEF c1
<1>11. c2 = c1 + B0 /\ c2 \in Nat /\ c2 < D
  <2> DEFINE u == c1 + B0
  <2>1. c2 = u % D
    BY DEF B0, B
  <2> HIDE DEF c2
  <2>2. u < D /\ u = D * 0 + u /\ u \in Int /\ 0 <= u
    BY <1>1, <1>3, <1>7, <1>10
  <2> HIDE DEF u
  <2>3. u % D = u
    BY <1>3, <2>2, RemainderIs
  <2>4. u \in Nat
    BY <2>2
  <2> QED BY <2>1, <2>2, <2>3, <2>4 DEF u
<1>12. c3 = (c2 \div H) + B1 + hx * hy
  <2>1. ~ ((c2 = 0 /\ hasCarry # 2) \/ hasCarry = 1)
    <3>1. hasCarry # 1
      BY DEF hasCarry
    <3>2. c2 = 0 => c1 = 0
      BY <1>7, <1>10, <1>11
    <3>3. c1 = 0 => hasCarry = 2
      BY DEF hasCarry
    <3> QED BY <3>1, <3>2, <3>3
  <2>2. c3 = 0 + (c2 \div H) + ((lx * hy) \div H) + hx * hy
    <3> HIDE DEF c2, hasCarry
    <3> QED BY <2>1
  <2>3. c2 \div H \in Int
    <3> HIDE DEF c2
    <3>1. c2 \in Int
      BY <1>11
    <3> QED BY <1>1, <3>1, DivMod
  <2> HIDE DEF c2
  <2>4. (lx * hy) \div H = B1
    BY DEF B1, B
  <2> HIDE DEF c3
  <2> QED BY <1>5, <1>8, <2>2, <2>3, <2>4
<1> DEFINE C1 == c2 \div H  C0 == c2 % H
<1> HIDE DEF c2, c3
<1>13. C1 \in Int /\ C0 \in Nat /\ C0 < H /\ c2 = H * C1 + C0
  <2>1. c2 \in Int
    BY <1>11
  <2> QED BY <1>1, <2>1, DivMod
<1>14. c3 = C1 + B1 + hx * hy
  BY <1>12
<1> HIDE DEF C1, C0
<1>15. C1 \in Nat
  <2>1. ~ (C1 <= -1)
    BY <1>1, <1>11, <1>13
  <2> QED BY <1>13, <2>1
<1>16. (c2 * H) % D = H * C0
  <2> DEFINE u == c2 * H  r == H * C0
  <2>1. u = D * C1 + r /\ u \in Int /\ r \in Int /\ 0 <= r
    BY <1>1, <1>13
  <2>2. r < D
    BY <1>1, <1>13
  <2> HIDE DEF u, r
  <2>3. u % D = r
    BY <1>3, <1>13, <2>1, <2>2, RemainderIs
  <2> QED BY <2>3 DEF u, r
<1>17. x * y = D * c3 + (H * C0 + A0)
  <2>1. x * y = D * (hx * hy) + H * (hx * ly + B) + A
    <3>1. x * y = (H * hx) * (H * hy) + (H * hx) * ly + lx * (H * hy) + lx * ly
      BY <1>1, <1>4, <1>5
    <3>2. (H * hx) * (H * hy) = (H * H) * (hx * hy)
      BY <1>1, <1>5
    <3>3. (H * hx) * ly + lx * (H * hy) = H * (hx * ly + lx * hy)
      BY <1>1, <1>4, <1>5
    <3>4. lx * hy \in Int /\ lx * ly \in Int /\ hx * ly \in Int /\ hx * hy \in Int
      BY <1>4, <1>5
    <3>5. A = lx * ly /\ B = lx * hy
      BY DEF A, B
    <3>6. (H * hx) * ly \in Int /\ lx * (H * hy) \in Int /\ (H * H) * (hx * hy) \in Int
      BY <1>1, <1>4, <1>5
    <3>7. x * y = (H * H) * (hx * hy) + ((H * hx) * ly + lx * (H * hy)) + lx * ly
      BY <3>1, <3>2, <3>4, <3>6
    <3>8. (H * H) * (hx * hy) = D * (hx * hy) /\ H * (hx * ly + lx * hy) = H * (hx * ly + B)
      BY <1>1, <3>5
    <3> QED BY <3>3, <3>5, <3>7, <3>8, Zenon
  <2>2. hx * ly + B = H * B1 + c2 - A1
    <3>1. H * B1 \in Int
      BY <1>1, <1>8
    <3> QED BY <1>6, <1>7, <1>8, <1>10, <1>11, <3>1
  <2>3. H * (hx * ly + B) + A = H * (H * B1 + c2) + A0
    BY <1>1, <1>6, <1>7, <1>8, <1>11, <2>2
  <2>4. H * (H * B1 + c2) = D * B1 + D * C1 + H * C0
    BY <1>1, <1>8, <1>13
  <2>5. hx * hy \in Int /\ H * (hx * ly + B) \in Int /\ D * (hx * hy) \in Int /\ H * C0 \in Int
        /\ D * B1 \in Int /\ D * C1 \in Int
    BY <1>1, <1>3, <1>5, <1>6, <1>8, <1>13
  <2>6. D * c3 = D * C1 + D * B1 + D * (hx * hy)
    BY <1>3, <1>8, <1>13, <1>14, <2>5
  <2>7. x * y = D * (hx * hy) + (D * B1 + D * C1 + H * C0 + A0)
    BY <1>6, <1>7, <2>1, <2>3, <2>4, <2>5
  <2> QED BY <1>7, <2>5, <2>6, <2>7
<1>18. c3 \in Int /\ H * C0 + A0 \in Nat /\ H * C0 + A0 < D
  <2>1. hx * hy \in Nat
    BY <1>5
  <2>2. H * C0 \in Nat /\ H * C0 <= H * (H - 1)
    BY <1>1, <1>13
  <2> QED BY <1>1, <1>7, <1>8, <1>13, <1>14, <2>1, <2>2
<1>19. 0 <= x * y /\ x * y < D * D /\ x * y \in Int
  <2>1. x * y <= (D - 1) * y /\ (D - 1) * y <= (D - 1) * (D - 1)
    BY <1>3
  <2> QED BY <1>3, <2>1
<1> DEFINE p == x * y  r == H * C0 + A0
<1> HIDE DEF p, r
<1>20. p = D * c3 + r /\ r \in Nat /\ r < D /\ 0 <= p /\ p < D * D /\ p \in Int
  BY <1>17, <1>18, <1>19 DEF p, r
<1>21. c3 \in 0..(D - 1)
  <2>1. ~ (c3 <= -1) /\ ~ (c3 >= D)
    BY <1>3, <1>18, <1>20
  <2> QED BY <1>3, <1>18, <2>1
<1>22. c3 % D = c3
  <2>1. c3 = D * 0 + c3
    BY <1>3, <1>21
  <2> QED BY <1>3, <1>21, <2>1, RemainderIs
<1>23. ((c2 * H) % D) + (low % H) = r
  BY <1>9, <1>16 DEF A0, r
<1>24. CASE x = 0 \/ y = 0
  <2>1. x * y = 0 /\ mul64hi(t, x, y) = [low |-> 0, high |-> 0] /\ 0 \in 0..(D - 1) /\ D * 0 + 0 = 0
    BY <1>2, <1>3, <1>24
  <2> QED BY <2>1 DEF D
<1>25. CASE ~ (x = 0 \/ y = 0)
  <2>1. mul64hi(t, x, y) = [low |-> r, high |-> c3]
    BY <1>2, <1>22, <1>23, <1>25
  <2>2. r \in 0..(D - 1)
    BY <1>3, <1>20
  <2> HIDE DEF low
  <2> QED BY <1>20, <1>21, <2>1, <2>2 DEF D, p
<1> QED BY <1>24, <1>25

LEMMA ProductsWrap ==
    ASSUME NEW a \in Int, NEW b \in Int, NEW w \in Nat \ {0}
    PROVE  ((a % w) * (b % w)) % w = (a * b) % w
<1> DEFINE x == a % w  y == b % w  i == a \div w  j == b \div w
           s == x * y  k == s \div w  r == s % w  p == a * b
<1>1. x \in Int /\ i \in Int /\ a = w * i + x /\ y \in Int /\ j \in Int /\ b = w * j + y
  BY DivMod
<1> HIDE DEF x, y, i, j
<1>2. s \in Int /\ p \in Int
  BY <1>1
<1>3. p = w * (w * (i * j) + i * y + x * j) + s
  <2>1. p = (w * i) * (w * j) + (w * i) * y + x * (w * j) + x * y
    BY <1>1
  <2>2. (w * i) * (w * j) = w * (w * (i * j)) /\ (w * i) * y = w * (i * y) /\ x * (w * j) = w * (x * j)
    BY <1>1
  <2>3. i * j \in Int /\ w * (i * j) \in Int /\ i * y \in Int /\ x * j \in Int
    BY <1>1
  <2> QED BY <1>2, <2>1, <2>2, <2>3
<1> HIDE DEF s, p
<1>4. k \in Int /\ r \in Int /\ 0 <= r /\ r < w /\ s = w * k + r
  BY <1>2, DivMod
<1> HIDE DEF k, r
<1> DEFINE n == w * (i * j) + i * y + x * j
<1>5. n \in Int /\ p = w * n + s
  BY <1>1, <1>3
<1> HIDE DEF n
<1>6. p = w * (n + k) + r /\ n + k \in Int
  BY <1>4, <1>5
<1>7. p % w = r
  BY <1>2, <1>4, <1>6, RemainderIs
<1> QED BY <1>7 DEF p, r, s, x, y

LEMMA HighOfRemainder ==
    ASSUME NEW p \in Int, NEW w \in Nat \ {0}
    PROVE  (p % (w * w)) \div w = (p \div w) % w
<1> DEFINE v == w * w  q == p \div v  r == p % v  m == r \div w  s == r % w
<1>1. v \in Nat \ {0} /\ v = w * w
  OBVIOUS
<1> HIDE DEF v
<1>2. q \in Int /\ r \in Int /\ 0 <= r /\ r < v /\ p = v * q + r
  BY <1>1, DivMod
<1> HIDE DEF q, r
<1>3. m \in Int /\ s \in Int /\ 0 <= s /\ s < w /\ r = w * m + s
  BY <1>2, DivMod
<1> HIDE DEF m, s
<1>4. 0 <= m /\ m < w
  <2>1. ~ (m <= -1) /\ ~ (m >= w)
    BY <1>1, <1>2, <1>3
  <2> QED BY <1>3, <2>1
<1> DEFINE n == w * q + m
<1>5. n \in Int /\ n = w * q + m /\ p = w * n + s
  BY <1>1, <1>2, <1>3
<1> HIDE DEF n
<1>6. p \div w = n
  BY <1>3, <1>5, RemainderIs
<1>7. n % w = m
  BY <1>2, <1>3, <1>4, <1>5, RemainderIs
<1> QED BY <1>6, <1>7 DEF m, r, v

LEMMA RemainderOfRemainder ==
    ASSUME NEW x \in Int, NEW w \in Nat \ {0}
    PROVE  (x % w) \in Int /\ (x % w) % w = x % w
<1> DEFINE r == x % w
<1>1. r \in Int /\ 0 <= r /\ r < w
  BY DivMod
<1> HIDE DEF r
<1>2. r = w * 0 + r
  BY <1>1
<1>3. r % w = r
  BY <1>1, <1>2, RemainderIs
<1> QED BY <1>1, <1>3 DEF r

(* Any number with the right low bits is the high half of a product, once   *)
(* it is read as a value of the type.                                       *)
LEMMA HighHalf ==
    ASSUME NEW t \in Types, NEW a \in Values(t), NEW b \in Values(t), NEW z \in Int,
           z % Two(t.bits) = ((a * b) \div Two(t.bits)) % Two(t.bits)
    PROVE  Val(t, z) = (a * b) \div Two(t.bits)
<1> DEFINE W == Two(t.bits)  H == Half(t)  p == a * b  q == p \div W
<1>1. H \in Nat \ {0} /\ W = 2 * H /\ t.signed \in BOOLEAN /\ a \in Int /\ b \in Int
  BY Widths DEF Types
<1>2. Values(t) = IF t.signed THEN (-H)..(H - 1) ELSE 0..(2 * H - 1)
  BY Widths
<1>3. p \in Int /\ W \in Nat \ {0}
  <2> HIDE DEF W
  <2> QED BY <1>1
<1>4. q \in Int /\ p % W \in Int /\ 0 <= p % W /\ p % W < W /\ p = W * q + (p % W)
  <2> HIDE DEF W, p
  <2> QED BY <1>3, DivMod
<1>5. Val(t, z) = Val(t, q)
  BY DEF Val
<1> HIDE DEF q, W, H
<1>6. q \in Values(t)
  <2>1. CASE t.signed
    <3>1. AbsOf(a) \in Nat /\ AbsOf(b) \in Nat /\ AbsOf(a) <= H /\ AbsOf(b) <= H
      BY <1>1, <1>2, <2>1 DEF AbsOf
    <3>2. AbsOf(p) <= H * H
      <4> DEFINE m == AbsOf(a)  n == AbsOf(b)
      <4> HIDE DEF m, n, p
      <4>1. m \in Nat /\ n \in Nat /\ m <= H /\ n <= H /\ AbsOf(p) = m * n
        BY <1>1, <3>1, AbsOfProduct DEF m, n, p
      <4>2. m * n <= H * n /\ H * n <= H * H
        BY <1>1, <4>1
      <4> QED BY <1>1, <4>1, <4>2
    <3> HIDE DEF p
    <3>3. p <= H * H /\ -(H * H) <= p
      BY <1>1, <1>3, <3>2 DEF AbsOf
    <3>4. ~ (q >= H) /\ ~ (q <= -H - 1)
      BY <1>1, <1>4, <3>3
    <3> QED BY <1>1, <1>2, <1>4, <2>1, <3>4
  <2>2. CASE ~t.signed
    <3>1. 0 <= a /\ a <= W - 1 /\ 0 <= b /\ b <= W - 1
      BY <1>1, <1>2, <2>2
    <3>2. 0 <= p /\ p <= (W - 1) * (W - 1)
      <4>1. a * b <= (W - 1) * b /\ (W - 1) * b <= (W - 1) * (W - 1) /\ 0 <= a * b
        BY <1>1, <3>1
      <4> QED BY <1>1, <4>1
    <3> HIDE DEF p
    <3>3. ~ (q >= W) /\ ~ (q <= -1)
      BY <1>1, <1>3, <1>4, <3>2
    <3> QED BY <1>1, <1>2, <1>4, <2>2, <3>3
  <2> QED BY <1>1, <2>1, <2>2
<1> QED BY <1>4, <1>5, <1>6, ValWraps DEF q, W

(* op_mul and op_mulhi together are the whole product: with the product of  *)
(* twice the width for the smaller types, with mul64hi for the largest.     *)
THEOREM HalvesHold ==
    ASSUME NEW t \in Types, t.rank = "long" => t.bits % 2 = 0,
           NEW a \in Values(t), NEW b \in Values(t)
    PROVE  HalvesMakeProduct(t, a, b)
<1> DEFINE W == Two(t.bits)  H == Half(t)  p == a * b
<1>1. H \in Nat \ {0} /\ W = 2 * H /\ t.signed \in BOOLEAN /\ a \in Int /\ b \in Int
  BY Widths DEF Types
<1>2. Values(t) = IF t.signed THEN (-H)..(H - 1) ELSE 0..(2 * H - 1)
  BY Widths
<1>3. p \in Int /\ W \in Nat \ {0} /\ W >= 2
  <2> HIDE DEF W
  <2> QED BY <1>1
<1>4. AsB64(t, op_mul(t, a, b)) = p % W
  BY <1>3, ValWraps DEF op_mul
<1>5. p = W * (p \div W) + (p % W) /\ p \div W \in Int /\ p % W \in Int /\ 0 <= p % W /\ p % W < W
  <2> HIDE DEF W, p
  <2> QED BY <1>3, DivMod
<1>6. ASSUME NEW z \in Int, z % W = (p \div W) % W
      PROVE  Val(t, z) = p \div W
  BY <1>6, HighHalf
<1>7. SUFFICES op_mulhi(t, a, b) = p \div W
  <2> HIDE DEF p, W
  <2>1. (p % W) + W * (p \div W) = p
    BY <1>3, <1>5
  <2> QED BY <1>4, <2>1 DEF HalvesMakeProduct, p, W
<1>8. CASE t.rank # "long"
  <2> DEFINE V == Two(2 * t.bits)  x == a % V  y == b % V
             h == ((x * y) % V) \div W
  <2>1. op_mulhi(t, a, b) = Val(t, h)
    BY <1>8 DEF op_mulhi
  <2>2. V = W * W /\ V \in Nat \ {0}
    <3>1. t.bits \in Nat /\ 2 * t.bits = t.bits + t.bits
      BY DEF Types
    <3>2. V = W * W
      BY <3>1, TwoOfSum
    <3> HIDE DEF V, W
    <3> QED BY <1>3, <3>2
  <2>3. (x * y) % V = p % V
    <3> HIDE DEF V
    <3> QED BY <1>1, <2>2, ProductsWrap
  <2>4. h = (p \div W) % W
    <3> HIDE DEF x, y, p, V, W
    <3> QED BY <1>3, <2>2, <2>3, HighOfRemainder
  <2>5. h \in Int /\ h % W = (p \div W) % W
    <3> HIDE DEF W, p
    <3> QED BY <1>3, <1>5, <2>4, RemainderOfRemainder
  <2> HIDE DEF h
  <2> QED BY <1>6, <2>1, <2>5
<1>9. CASE t.rank = "long"
  <2> DEFINE negative == t.signed /\ (a < 0) # (b < 0) /\ a # 0 /\ b # 0
             x == AsB64(t, AbsOf(a))  y == AsB64(t, AbsOf(b))
             product == mul64hi(t, x, y)
             high == product.high  low == product.low
  <2>1. op_mulhi(t, a, b) = Val(t, (IF negative THEN neg64(t, product) ELSE product).high)
    BY <1>9 DEF op_mulhi
  <2>2. x = AbsOf(a) /\ y = AbsOf(b) /\ x \in 0..(W - 1) /\ y \in 0..(W - 1)
    <3>1. ASSUME NEW v \in Values(t), v \in Int
          PROVE  AsB64(t, AbsOf(v)) = AbsOf(v) /\ AbsOf(v) \in 0..(W - 1)
      <4> DEFINE u == AbsOf(v)
      <4>1. u \in Int /\ 0 <= u /\ u < W
        BY <1>1, <1>2, <3>1 DEF AbsOf
      <4>2. AsB64(t, u) = u % W
        BY DEF AsB64
      <4> HIDE DEF u, W
      <4>3. u = W * 0 + u
        BY <1>3, <4>1
      <4>4. u % W = u
        BY <1>3, <4>1, <4>3, RemainderIs
      <4> QED BY <1>3, <4>1, <4>2, <4>4 DEF u
    <3> QED BY <1>1, <3>1
  <2> HIDE DEF x, y
  <2>3. low \in 0..(W - 1) /\ high \in 0..(W - 1) /\ W * high + low = x * y
    BY <1>9, <2>2, ProductOfHalves
  <2>4. AbsOf(p) = x * y
    BY <1>1, <2>2, AbsOfProduct
  <2> HIDE DEF product
  <2>5. /\ low \in Int /\ 0 <= low /\ low < W
        /\ high \in Int
    BY <1>3, <2>3
  <2>6. negative <=> p < 0
    <3>1. ~t.signed => a >= 0 /\ b >= 0
      BY <1>1, <1>2
    <3>2. CASE a < 0 /\ b < 0
      <4>1. p >= 0
        BY <1>1, <3>2
      <4> QED BY <1>3, <3>2, <4>1
    <3>3. CASE a < 0 /\ b > 0
      <4>1. p < 0 /\ a # 0 /\ b # 0 /\ (a < 0) # (b < 0)
        BY <1>1, <3>3
      <4> QED BY <1>1, <3>1, <3>3, <4>1
    <3>4. CASE a > 0 /\ b < 0
      <4>1. p < 0 /\ a # 0 /\ b # 0 /\ (a < 0) # (b < 0)
        BY <1>1, <3>4
      <4> QED BY <1>1, <3>1, <3>4, <4>1
    <3>5. CASE a = 0 \/ b = 0
      <4>1. p = 0
        BY <1>1, <3>5
      <4> QED BY <3>5, <4>1
    <3>6. CASE a > 0 /\ b > 0
      <4>1. p >= 0
        BY <1>1, <3>6
      <4> QED BY <1>1, <1>3, <3>6, <4>1
    <3> QED BY <1>1, <3>2, <3>3, <3>4, <3>5, <3>6
  <2>7. CASE ~negative
    <3>1. p = W * high + low
      <4>1. p >= 0
        BY <1>3, <2>6, <2>7
      <4> HIDE DEF p, W
      <4>2. AbsOf(p) = p
        BY <1>3, <4>1 DEF AbsOf
      <4> QED BY <1>3, <2>3, <2>4, <4>2
    <3>2. p \div W = high
      <4> HIDE DEF p, W, high, low
      <4> QED BY <1>3, <2>5, <3>1, RemainderIs
    <3>3. op_mulhi(t, a, b) = Val(t, high)
      BY <2>1, <2>7
    <3> HIDE DEF p, high
    <3> QED BY <1>6, <2>5, <3>2, <3>3
  <2>8. CASE negative
    <3> DEFINE k == (IF low > 0 THEN -1 ELSE 0) - high
    <3>1. op_mulhi(t, a, b) = Val(t, k % W)
      <4>1. neg64(t, product).high = k % W
        BY DEF neg64
      <4> QED BY <2>1, <2>8, <4>1
    <3>2. p = -(W * high + low)
      <4>1. p < 0
        BY <2>6, <2>8
      <4> HIDE DEF p, W
      <4>2. AbsOf(p) = -p
        BY <1>3, <4>1 DEF AbsOf
      <4>3. -p = W * high + low
        BY <2>3, <2>4, <4>2
      <4> QED BY <1>3, <4>3
    <3> HIDE DEF p, W, high, low
    <3>3. p \div W = k /\ k \in Int
      <4>1. CASE low > 0
        <5>1. p = W * (-1 - high) + (W - low) /\ k = -1 - high
          BY <1>3, <2>5, <3>2, <4>1
        <5>2. -1 - high \in Int /\ W - low \in Int /\ 0 <= W - low /\ W - low < W
          BY <1>3, <2>5, <4>1
        <5> DEFINE e == -1 - high  r == W - low
        <5> HIDE DEF e, r, k
        <5>3. p = W * e + r /\ e \in Int /\ r \in Int /\ 0 <= r /\ r < W /\ k = e
          BY <5>1, <5>2 DEF e, r
        <5> QED BY <1>3, <5>3, RemainderIs
      <4>2. CASE ~ (low > 0)
        <5>1. p = W * (-high) + 0 /\ k = -high /\ -high \in Int
          BY <1>3, <2>5, <3>2, <4>2
        <5> DEFINE e == -high
        <5> HIDE DEF e, k
        <5>2. p = W * e + 0 /\ e \in Int /\ k = e
          BY <5>1 DEF e
        <5> QED BY <1>3, <5>2, RemainderIs
      <4> QED BY <4>1, <4>2
    <3> HIDE DEF k
    <3>4. k % W \in Int /\ (k % W) % W = k % W
      BY <1>3, <3>3, RemainderOfRemainder
    <3> QED BY <1>6, <3>1, <3>3, <3>4
  <2> HIDE DEF negative
  <2> QED BY <2>7, <2>8
<1> QED BY <1>8, <1>9

(* op_div and op_rem: undef_div_rem finds every quotient that does not fit  *)
(* into the type, so that no division traps, and what remains is Euclid's   *)
(* division with the quotient truncated.                                    *)
THEOREM DivisionHolds ==
    ASSUME NEW t \in Types, NEW a \in Values(t), NEW b \in Values(t)
    PROVE  DivisionDefined(t, a, b)
<1> DEFINE H == Half(t)  q == Quot(a, b)  m == AbsOf(a) \div AbsOf(b)
<1>1. H \in Nat \ {0} /\ t.signed \in BOOLEAN /\ a \in Int /\ b \in Int
  BY Widths DEF Types
<1>2. Values(t) = (IF t.signed THEN (-H)..(H - 1) ELSE 0..(2 * H - 1)) /\ IntBoundary(t, TRUE) = IF t.signed THEN -H ELSE 0
  BY Widths
<1> HIDE DEF H
<1>3. Undef \notin Int /\ Trap \notin Int /\ Undef # Trap
  BY NoResultAssumption
<1>4. CASE b = 0
  <2>1. op_div(t, a, b) = Undef /\ op_rem(t, a, b) = Undef
    BY <1>4 DEF op_div, op_rem, undef_div_rem
  <2> QED BY <1>3, <1>4, <2>1 DEF DivisionDefined
<1>5. CASE b # 0
  <2>1. /\ m \in Nat /\ q \in Int /\ q = (IF (a < 0) = (b < 0) THEN m ELSE -m)
        /\ m * AbsOf(b) <= AbsOf(a) /\ AbsOf(a) < (m + 1) * AbsOf(b)
    BY <1>1, <1>5, Quotients
  <2>2. AbsOf(a) \in Nat /\ AbsOf(b) \in Nat \ {0}
    BY <1>1, <1>5 DEF AbsOf
  <2> HIDE DEF q, m
  <2>3. undef_div_rem(t, a, b) <=> q \notin Values(t)
    <3>1. m <= AbsOf(a)
      BY <2>1, <2>2
    <3>2. CASE ~t.signed
      <4>1. a >= 0 /\ b > 0 /\ a <= 2 * H - 1
        BY <1>1, <1>2, <1>5, <3>2
      <4>2. q = m /\ m <= a
        BY <1>1, <2>1, <3>1, <4>1 DEF AbsOf
      <4>3. q \in 0..(2 * H - 1)
        BY <1>1, <2>1, <4>1, <4>2
      <4> QED BY <1>2, <1>5, <3>2, <4>3 DEF undef_div_rem
    <3>3. CASE t.signed
      <4>1. -H <= a /\ a <= H - 1 /\ AbsOf(a) <= H
        BY <1>1, <1>2, <3>3 DEF AbsOf
      <4>2. ASSUME q \notin Values(t) PROVE a = -H /\ b = -1
        <5>1. q < -H \/ q >= H
          BY <1>1, <1>2, <2>1, <3>3, <4>2
        <5>2. q = H /\ m = H
          BY <1>1, <2>1, <2>2, <3>1, <4>1, <5>1
        <5>3. a = -H
          BY <1>1, <3>1, <4>1, <5>2 DEF AbsOf
        <5>4. b < 0
          BY <1>1, <2>1, <5>2, <5>3
        <5>5. AbsOf(b) = 1
          <6>1. ~ (AbsOf(b) >= 2)
            BY <1>1, <2>1, <2>2, <4>1, <5>2
          <6> QED BY <2>2, <6>1
        <5> QED BY <1>1, <5>3, <5>4, <5>5 DEF AbsOf
      <4>3. ASSUME a = -H, b = -1 PROVE q \notin Values(t)
        <5>1. AbsOf(a) = H /\ AbsOf(b) = 1
          <6>1. a + H = 0 /\ b + 1 = 0
            BY <1>1, <4>3
          <6>2. AbsOf(a) = H
            BY <1>1, <6>1 DEF AbsOf
          <6>3. AbsOf(b) = 1
            BY <1>1, <6>1 DEF AbsOf
          <6> QED BY <6>2, <6>3
        <5>2. m = H
          BY <1>1, <2>1, <5>1
        <5>3. q = H
          BY <1>1, <2>1, <4>3, <5>2
        <5> QED BY <1>1, <1>2, <3>3, <5>3
      <4> QED BY <1>2, <1>5, <3>3, <4>2, <4>3 DEF undef_div_rem
    <3> QED BY <1>1, <3>2, <3>3
  <2>4. op_div(t, a, b) = IF q \notin Values(t) THEN Undef ELSE q
    BY <2>3 DEF op_div, Divide, q
  <2>5. op_rem(t, a, b) = IF q \notin Values(t) THEN 0 ELSE a - b * q
    <3>1. q \in Values(t) => Divide(t, a, b) = q /\ q # Trap
      BY <1>3, <2>1 DEF Divide, q
    <3> QED BY <1>5, <2>3, <3>1 DEF op_rem, q
  <2>6. a - b * q \in Int /\ AbsOf(a - b * q) < AbsOf(b) /\ (a - b * q) * a >= 0
    <3> DEFINE u == AbsOf(a)  v == AbsOf(b)  e == u - m * v
    <3>1. u \in Nat /\ v \in Nat \ {0} /\ m \in Nat /\ m * v <= u /\ u < (m + 1) * v
      BY <2>1, <2>2
    <3>2. e \in Nat /\ e < v
      <4> HIDE DEF u, v
      <4> QED BY <3>1
    <3>3. CASE a >= 0
      <4>1. u = a
        BY <1>1, <3>3 DEF AbsOf
      <4>2. b * q = v * m
        <5>1. CASE b < 0
          <6>1. v = -b /\ q = -m
            BY <1>1, <2>1, <3>3, <5>1 DEF AbsOf
          <6> QED BY <1>1, <3>1, <6>1
        <5>2. CASE ~ (b < 0)
          <6>1. v = b /\ q = m
            BY <1>1, <2>1, <3>3, <5>2 DEF AbsOf
          <6> QED BY <1>1, <3>1, <6>1
        <5> QED BY <5>1, <5>2
      <4> HIDE DEF u, v
      <4>3. a - b * q = e
        BY <1>1, <3>1, <4>1, <4>2
      <4> HIDE DEF e
      <4>4. AbsOf(e) = e /\ e * a >= 0
        BY <1>1, <3>2, <3>3 DEF AbsOf
      <4> QED BY <3>2, <4>3, <4>4 DEF v
    <3>4. CASE a < 0
      <4>1. u = -a
        BY <1>1, <3>4 DEF AbsOf
      <4>2. b * q = -(v * m)
        <5>1. CASE b < 0
          <6>1. v = -b /\ q = m
            BY <1>1, <2>1, <3>4, <5>1 DEF AbsOf
          <6> QED BY <1>1, <3>1, <6>1
        <5>2. CASE ~ (b < 0)
          <6>1. v = b /\ q = -m
            BY <1>1, <2>1, <3>4, <5>2 DEF AbsOf
          <6> QED BY <1>1, <3>1, <6>1
        <5> QED BY <5>1, <5>2
      <4> HIDE DEF u, v
      <4>3. a - b * q = -e
        BY <1>1, <3>1, <4>1, <4>2
      <4> HIDE DEF e
      <4>4. -e \in Int /\ AbsOf(-e) = e /\ (-e) * a >= 0
        BY <1>1, <3>2, <3>4 DEF AbsOf
      <4> QED BY <3>2, <4>3, <4>4 DEF v
    <3> QED BY <1>1, <3>3, <3>4
  <2>7. AbsOf(0) < AbsOf(b) /\ 0 * a >= 0
    BY <1>1, <2>2 DEF AbsOf
  <2>8. CASE q \in Values(t)
    <3>1. op_div(t, a, b) = q /\ op_rem(t, a, b) = a - b * q
      BY <2>4, <2>5, <2>8
    <3>2. a = q * b + (a - b * q)
      BY <1>1, <2>1
    <3> HIDE DEF q
    <3>3. /\ Trap \notin {q, a - b * q} /\ q # Undef /\ a - b * q # Undef
      BY <1>3, <2>1, <2>6
    <3> QED BY <1>5, <2>6, <2>8, <3>1, <3>2, <3>3 DEF DivisionDefined, q
  <2>9. CASE q \notin Values(t)
    <3>1. op_div(t, a, b) = Undef /\ op_rem(t, a, b) = 0 /\ 0 # Undef /\ 0 # Trap
      BY <1>3, <2>4, <2>5, <2>9
    <3> QED BY <1>3, <1>5, <2>7, <2>9, <3>1 DEF DivisionDefined, q
  <2> QED BY <2>8, <2>9
<1> QED BY <1>4, <1>5

(* Shifts: what op_shl shifts out, op_shr brings back exactly when the      *)
(* shifted number fits into the type.                                       *)
LEMMA ShiftsBack ==
    ASSUME NEW t \in Types, NEW a \in Values(t), NEW n \in Nat
    PROVE  (op_shr(t, op_shl(t, a, n), n) = a) <=> (a * Two(n % t.bits) \in Values(t))
<1> DEFINE k == n % t.bits  K == Two(k)  R == Two(t.bits - k)  W == Two(t.bits)  p == a * K
<1>1. k \in Nat /\ t.bits - k \in Nat /\ k + (t.bits - k) = t.bits
  <2>1. t.bits \in Nat \ {0}
    BY DEF Types
  <2>2. k \in Int /\ 0 <= k /\ k < t.bits
    <3> DEFINE w == t.bits
    <3>1. w \in Nat \ {0} /\ n \in Int
      BY <2>1
    <3> HIDE DEF w
    <3>2. n % w \in Int /\ 0 <= n % w /\ n % w < w
      BY <3>1, DivMod
    <3> QED BY <3>2 DEF w
  <2> HIDE DEF k
  <2> QED BY <2>1, <2>2
<1>2. K \in Nat \ {0} /\ R \in Nat \ {0} /\ W \in Nat \ {0} /\ W = K * R /\ a \in Int
  <2> HIDE DEF k
  <2>1. Two(k + (t.bits - k)) = Two(k) * Two(t.bits - k)
    BY <1>1, TwoOfSum
  <2>2. K \in Nat \ {0} /\ R \in Nat \ {0}
    BY <1>1, TwoDoubles
  <2>3. W \in Nat \ {0} /\ a \in Int
    <3>1. Half(t) \in Nat \ {0} /\ W = 2 * Half(t)
      BY Widths
    <3>2. a \in Int
      BY Widths
    <3> QED BY <3>1, <3>2
  <2> QED BY <1>1, <2>1, <2>2, <2>3
<1>3. op_shr(t, op_shl(t, a, n), n) = Val(t, p) \div K
  BY DEF op_shr, op_shl, ShiftBy
<1> HIDE DEF k, K, R, W
<1>4. p \in Int
  BY <1>2
<1>5. /\ Val(t, p) \in Values(t) /\ Val(t, p) \in Int
      /\ p \in Values(t) => Val(t, p) = p
  BY <1>4, ValWraps, Widths
<1>6. PICK j \in Int : Val(t, p) = p + j * W
  BY <1>4, ValWraps DEF W
<1>7. Val(t, p) \div K = a + j * R
  <2> DEFINE v == Val(t, p)  e == a + j * R
  <2>1. v = K * e + 0 /\ e \in Int
    BY <1>2, <1>6
  <2> HIDE DEF e
  <2>2. v \in Int /\ 0 < K /\ 0 \in Int
    BY <1>2, <1>5
  <2> HIDE DEF v
  <2>3. v \div K = e
    BY <1>2, <2>1, <2>2, RemainderIs
  <2> QED BY <2>3 DEF v, e
<1>8. ASSUME p \in Values(t) PROVE Val(t, p) \div K = a
  <2>1. j * W = 0
    BY <1>2, <1>4, <1>5, <1>6, <1>8
  <2>2. j = 0
    BY <1>2, <1>6, <2>1
  <2>3. a + j * R = a
    BY <1>2, <2>2
  <2> QED BY <1>7, <2>3
<1>9. ASSUME Val(t, p) \div K = a PROVE p \in Values(t)
  <2>1. j * R = 0
    BY <1>2, <1>6, <1>7, <1>9
  <2>2. j = 0
    BY <1>2, <1>6, <2>1
  <2>3. Val(t, p) = p
    BY <1>2, <1>4, <1>6, <2>2
  <2> QED BY <1>5, <2>3
<1>10. op_shr(t, op_shl(t, a, n), n) = a <=> p \in Values(t)
  BY <1>3, <1>8, <1>9
<1> QED BY <1>10 DEF k, K

(* What the run `algorithms` tries of the integer operations with all       *)
(* values of types of four bits holds of types of every width.              *)
THEOREM ExactHolds ==
    ASSUME NEW t \in Types, t.rank = "long" => t.bits % 2 = 0,
           NEW a \in Values(t), NEW b \in Values(t)
    PROVE  ExactOn(t, a, b)
<1>1. FlagsComplete(t, a, b) /\ DivisionDefined(t, a, b)
  BY FlagsCompleteHolds, DivisionHolds
<1>2. HalvesMakeProduct(t, a, b)
  BY HalvesHold
<1>3. ASSUME NEW n \in 0..(2 * t.bits - 1)
      PROVE  /\ op_shl(t, a, n) = Val(t, a * Two(n % t.bits))
             /\ (op_shr(t, op_shl(t, a, n), n) = a) <=> (a * Two(n % t.bits) \in Values(t))
  <2>1. n \in Nat
    BY DEF Types
  <2> QED BY <2>1, ShiftsBack DEF op_shl, ShiftBy
<1> QED BY <1>1, <1>2, <1>3 DEF ExactOn

(* op_mad24 with and without a shift: of a product of two numbers that      *)
(* isSU24 lets through, one result is what lies above the lowest shift      *)
(* bits, the other has those bits, when the type has room for the first.    *)
(* In the code n is 24, shift is 32 and the types have 32 bits.             *)
THEOREM Mad24Holds ==
    ASSUME NEW t \in Types, NEW n \in Nat, n >= 2, NEW shift \in 0..t.bits,
           2 * (n - 1) <= t.bits + shift,
           NEW a \in Values(t), NEW b \in Values(t)
    PROVE  Mad24On(t, n, shift, a, b)
<1> DEFINE W == Two(t.bits)  H == Half(t)  S == Two(shift)  R == Two(t.bits - shift)
           N == Two(n - 2)  p == a * b  Fit == isSU24(t, n, a) /\ isSU24(t, n, b)
<1>1. H \in Nat \ {0} /\ W = 2 * H /\ t.signed \in BOOLEAN /\ a \in Int /\ b \in Int
  BY Widths DEF Types
<1>2. Values(t) = IF t.signed THEN (-H)..(H - 1) ELSE 0..(2 * H - 1)
  BY Widths
<1>3. t.bits \in Nat \ {0} /\ shift \in Nat /\ t.bits - shift \in Nat /\ n - 2 \in Nat
  <2>1. t.bits \in Nat \ {0}
    BY DEF Types
  <2> QED BY <2>1
<1>4. S \in Nat \ {0} /\ R \in Nat \ {0} /\ N \in Nat \ {0} /\ Two(n - 1) = 2 * N
  <2>1. Two((n - 2) + 1) = 2 * Two(n - 2) /\ (n - 2) + 1 = n - 1
    BY <1>3, TwoDoubles
  <2> QED BY <1>3, <2>1, TwoDoubles
<1>5. W = S * R
  <2>1. Two(shift + (t.bits - shift)) = Two(shift) * Two(t.bits - shift)
    BY <1>3, TwoOfSum
  <2>2. shift + (t.bits - shift) = t.bits
    BY <1>3
  <2> QED BY <2>1, <2>2
\* 2 * (n - 1) <= bits + shift: the product of the two bounds is at most W * S.
<1>6. 4 * (N * N) <= W * S
  <2> DEFINE d == (t.bits + shift) - 2 * (n - 1)  e == 2 * (n - 1)
  <2>1. d \in Nat /\ e \in Nat /\ e + d = t.bits + shift /\ n - 1 \in Nat /\ (n - 1) + (n - 1) = e
    BY <1>3
  <2> HIDE DEF d, e
  <2>2. Two(e + d) = Two(e) * Two(d) /\ Two(t.bits + shift) = W * S
    BY <1>3, <2>1, TwoOfSum
  <2>3. Two(e) = Two(n - 1) * Two(n - 1)
    <3> DEFINE k == n - 1
    <3>1. k \in Nat /\ k + k = e
      BY <2>1
    <3> HIDE DEF k
    <3>2. Two(k + k) = Two(k) * Two(k)
      BY <3>1, TwoOfSum
    <3> QED BY <3>1, <3>2 DEF k
  <2>4. Two(d) \in Nat \ {0} /\ Two(e) \in Nat \ {0}
    BY <2>1, TwoDoubles
  <2> DEFINE x == Two(d)  y == Two(e)
  <2>5. y = 4 * (N * N)
    <3> HIDE DEF N
    <3> QED BY <1>4, <2>3
  <2>6. W * S = y * x
    BY <2>1, <2>2
  <2>7. y <= y * x
    <3> HIDE DEF x, y
    <3>1. x \in Nat \ {0} /\ y \in Nat \ {0}
      BY <2>4 DEF x, y
    <3> QED BY <3>1
  <2> QED BY <2>5, <2>6, <2>7
<1> HIDE DEF W, H, S, R, N
<1>7. CASE ~Fit
  <2>1. op_mad24(t, n, 0, a, b, 0) = Undef /\ op_mad24(t, n, shift, a, b, 0) = Undef
    BY <1>7 DEF op_mad24
  <2> QED BY <1>7, <2>1 DEF Mad24On
<1>8. CASE Fit
  <2> DEFINE q == p \div S
  <2>1. p \in Int
    BY <1>1
  <2> HIDE DEF p
  <2>2. q \in Int /\ p % S \in Int /\ 0 <= p % S /\ p % S < S /\ p = S * q + (p % S)
    BY <1>4, <2>1, DivMod
  <2> HIDE DEF q
  <2>3. Two(0) = 1 /\ p \div 1 = p
    BY <2>1 DEF Two
  <2>4. isSU24(t, n, 0)
    BY <1>1, <1>4 DEF isSU24, N
  <2>5. /\ op_mad24(t, n, 0, a, b, 0) = Val(t, p + 0)
        /\ op_mad24(t, n, shift, a, b, 0) = Val(t, q + 0)
    BY <1>8, <2>3, <2>4 DEF op_mad24, p, q, S
  <2>6. q \in Values(t)
    <3>1. CASE t.signed
      <4>1. -N <= a /\ a <= N - 1 /\ -N <= b /\ b <= N - 1
        BY <1>8, <3>1 DEF isSU24, N
      <4>2. AbsOf(a) \in Nat /\ AbsOf(b) \in Nat /\ AbsOf(a) <= N /\ AbsOf(b) <= N
        BY <1>1, <1>4, <4>1 DEF AbsOf
      <4>3. AbsOf(p) <= N * N
        <5> DEFINE u == AbsOf(a)  v == AbsOf(b)
        <5>1. u \in Nat /\ v \in Nat /\ u <= N /\ v <= N /\ AbsOf(p) = u * v
          BY <1>1, <4>2, AbsOfProduct DEF p
        <5> HIDE DEF u, v
        <5>2. u * v <= N * v /\ N * v <= N * N
          BY <1>4, <5>1
        <5> QED BY <1>4, <5>1, <5>2
      <4>4. p <= N * N /\ -(N * N) <= p
        BY <1>4, <2>1, <4>3 DEF AbsOf
      <4>5. 2 * (N * N) <= H * S
        <5>1. W * S = 2 * (H * S)
          BY <1>1, <1>4
        <5> DEFINE nn == N * N  hs == H * S
        <5>2. nn \in Int /\ hs \in Int
          BY <1>1, <1>4
        <5>3. 4 * nn <= 2 * hs
          BY <1>6, <5>1
        <5> HIDE DEF nn, hs
        <5>4. 2 * nn <= hs
          BY <5>2, <5>3
        <5> QED BY <5>4 DEF nn, hs
      <4>6. N * N \in Nat /\ 0 < N * N /\ N * N < H * S
        <5> DEFINE nn == N * N  hs == H * S
        <5>1. nn \in Nat \ {0} /\ hs \in Nat
          BY <1>1, <1>4
        <5>2. 2 * nn <= hs
          BY <4>5
        <5> HIDE DEF nn, hs
        <5>3. 0 < nn /\ nn < hs
          BY <5>1, <5>2
        <5> QED BY <5>1, <5>3 DEF nn, hs
      <4>7. ~ (q >= H)
        BY <1>1, <1>4, <2>1, <2>2, <4>4, <4>6
      <4>8. ~ (q <= -H - 1)
        BY <1>1, <1>4, <2>1, <2>2, <4>4, <4>6
      <4> QED BY <1>1, <1>2, <2>2, <3>1, <4>7, <4>8
    <3>2. CASE ~t.signed
      <4>1. 0 <= a /\ a <= 2 * N - 1 /\ 0 <= b /\ b <= 2 * N - 1
        BY <1>1, <1>2, <1>4, <1>8, <3>2 DEF isSU24
      <4>2. 0 <= p /\ p < 4 * (N * N)
        <5>1. a * b <= (2 * N - 1) * b /\ (2 * N - 1) * b <= (2 * N - 1) * (2 * N - 1) /\ 0 <= a * b
          BY <1>1, <1>4, <4>1
        <5>2. (2 * N - 1) * (2 * N - 1) < 4 * (N * N)
          BY <1>4
        <5> QED BY <1>1, <1>4, <5>1, <5>2 DEF p
      <4>3. p < W * S
        BY <1>1, <1>4, <1>6, <2>1, <4>2
      <4>4. ~ (q >= W)
        BY <1>1, <1>4, <2>1, <2>2, <4>3
      <4>5. ~ (q <= -1)
        BY <1>4, <2>1, <2>2, <4>2
      <4> QED BY <1>1, <1>2, <2>2, <3>2, <4>4, <4>5
    <3> QED BY <1>1, <3>1, <3>2
  <2>7. Val(t, q + 0) = q /\ AsB64(t, Val(t, p + 0)) = p % W
    BY <2>1, <2>2, <2>6, ValWraps DEF W
  <2>8. (p % W) % S = p % S
    <3> DEFINE k == p \div W  m == p % W
    <3>1. W \in Nat \ {0}
      BY <1>1
    <3>2. k \in Int /\ m \in Int /\ p = W * k + m
      BY <2>1, <3>1, DivMod
    <3> HIDE DEF k, m
    <3> DEFINE l == m \div S  r == m % S
    <3>3. l \in Int /\ r \in Int /\ 0 <= r /\ r < S /\ m = S * l + r
      BY <1>4, <3>2, DivMod
    <3> HIDE DEF l, r
    <3>4. p = S * (R * k + l) + r
      <4>1. W * k = S * (R * k)
        BY <1>4, <1>5, <3>2
      <4>2. R * k \in Int
        BY <1>4, <3>2
      <4> DEFINE z == R * k
      <4> HIDE DEF z
      <4>3. p = S * z + m /\ z \in Int
        BY <3>2, <4>1, <4>2 DEF z
      <4>4. p = S * (z + l) + r
        BY <1>4, <3>3, <4>3
      <4> QED BY <4>4 DEF z
    <3>5. R * k + l \in Int
      BY <1>4, <3>2, <3>3
    <3> DEFINE e == R * k + l
    <3> HIDE DEF e
    <3>6. p = S * e + r /\ e \in Int
      BY <3>4, <3>5 DEF e
    <3>7. p % S = r
      BY <1>4, <2>1, <3>3, <3>6, RemainderIs
    <3> QED BY <3>7 DEF r, m
  <2>9. q * S + (p % S) = p
    BY <1>4, <2>2
  <2> QED BY <1>8, <2>5, <2>7, <2>8, <2>9 DEF Mad24On, S, p
<1> QED BY <1>7, <1>8
=============================================================================
