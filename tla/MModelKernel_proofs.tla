------------------------- MODULE MModelKernel_proofs -------------------------
(***************************************************************************)
(* HappensBefore, SyncedAfterWrite and GroupPasses for every test that     *)
(* IsValid accepts, whatever its grid, and every length of the loop.  Inv  *)
(* follows an element from the write to the reader: what is in memory is   *)
(* settled by how far its writer is and whether the write is delayed, and  *)
(* what a reader sees is the one or the other of two values.               *)
(***************************************************************************)
EXTENDS MModelKernel, FiniteSetTheorems, TLAPS

Data == {"hb", "sync"}
NotBegun == {"off", "init", "initBarrier"}
BeforeHbWrite == NotBegun \cup {"hbW"}
InLoop == {"syncR", "hbR", "endLoop"}
Last == {"lastSyncR", "lastHbR", "done"}

Written(a, v) == pc[v] \notin IF a = "hb" THEN BeforeHbWrite ELSE BeforeSyncWrite
Uninitialised(a, v) == Segment(a) = "group" /\ pc[v] \in {"off", "init"}

\* Writes of v that may still be delayed.
MayPend(v) ==
    CASE pc[v] = "syncW" -> {"hb"}
      [] pc[v] \in InLoop \cup {"barrier"} -> IF WriteReleases THEN {} ELSE {"sync"}
      [] pc[v] \in Last /\ Kind = "agent" -> IF WriteReleases THEN {"fin"} ELSE {"sync", "fin"}
      [] OTHER -> {}

Shape ==
    /\ TypeOK /\ IsValid
    /\ DOMAIN mem = Arrays /\ \A a \in Data : DOMAIN mem[a] = Items
    /\ DOMAIN cache = Items /\ \A w \in Items : DOMAIN cache[w] = Arrays
    /\ \A w \in Items : pc[w] \notin {"barrier", "atBarrier"} \cup Last => loopIdx[w] # 0

GroupsBegin ==
    /\ \A w \in Items : started <= Group(w) => pc[w] = "off"
    /\ \A w \in Items : pc[w] \in {"init", "initBarrier"} => UsesGroupSegment
    /\ UsesGroupSegment =>
          \A v, w \in Items : Group(v) = Group(w) /\ pc[v] \in NotBegun => pc[w] \in NotBegun

PendingInv == \A v \in Items : pending[v] \subseteq MayPend(v)

MemInv ==
    \A a \in Data, v \in Items :
        IF Written(a, v) /\ a \notin pending[v] THEN mem[a][v] = Expected(a, v)
        ELSE ~Uninitialised(a, v) => mem[a][v] = Initial(a, v)

CacheInv ==
    \A a \in Data, w \in Items :
        Segment(a) = "global" \/ pc[w] \notin NotBegun =>
            \/ cache[w][a] = Initial(a, ReadItem(w))
            \/ cache[w][a] = Expected(a, ReadItem(w)) /\ Written(a, ReadItem(w))

SyncInv ==
    \A w \in Items :
        pc[w] \in {"hbR", "lastHbR"} /\ sync[w] =>
            \/ Unchanged("sync", ReadItem(w))
            \/ /\ Written("sync", ReadItem(w))
               /\ ReadAcquires => cache[w]["hb"] = Expected("hb", ReadItem(w))

LastInv ==
    Kind # "agent" =>
        \A w \in Items : pc[w] \in Last =>
            /\ \A v \in Items : Group(v) = Group(w) => pc[v] \in Last
            /\ pc[w] # "done" /\ ~ReadAcquires =>
                  cache[w]["sync"] = Expected("sync", ReadItem(w))
            /\ pc[w] = "lastHbR" => sync[w]

Inv ==
    /\ Shape /\ GroupsBegin /\ PendingInv /\ MemInv /\ CacheInv /\ SyncInv /\ LastInv
    /\ HappensBefore /\ SyncedAfterWrite /\ GroupPasses
-----------------------------------------------------------------------------
(* Work-items, groups and who reads from whom.                              *)

LEMMA Quotient ==
    ASSUME NEW a \in Nat, NEW g \in Nat \ {0}
    PROVE  /\ a \div g \in Nat /\ a % g \in Nat /\ a % g < g
           /\ a = (a \div g) * g + (a % g)
  OBVIOUS

LEMMA GroupOf ==
    ASSUME TypeOK, NEW w \in Items
    PROVE  /\ test.group \in Nat \ {0} /\ test.grid \in Nat /\ w \in Nat
           /\ Group(w) \in Groups /\ Group(w) \in Nat
           /\ w % test.group \in Nat /\ w % test.group < test.group
           /\ w = Group(w) * test.group + (w % test.group)
<1> DEFINE g == test.group  n == test.grid \div g  q == w \div g  m == w % g
<1>1. g \in Nat \ {0} /\ test.grid \in Nat \ {0} /\ test.grid % g = 0
  BY TestsAssumption DEF TypeOK
<1>2. w \in Nat /\ w < test.grid
  BY <1>1 DEF Items
<1>3. n \in Nat /\ test.grid = n * g
  BY <1>1
<1>4. q \in Nat /\ m \in Nat /\ m < g /\ w = q * g + m
  BY <1>1, <1>2, Quotient
<1>5. q < n
  <2>1. q * g < n * g
    BY <1>1, <1>2, <1>3, <1>4
  <2> HIDE DEF g, n, q
  <2>2. SUFFICES ASSUME q >= n PROVE FALSE
    BY <1>3, <1>4
  <2>3. q * g >= n * g
    BY <2>2, <1>1, <1>3, <1>4
  <2> QED BY <2>1, <2>3, <1>1, <1>3, <1>4
<1>6. Group(w) = q /\ q \in Groups
  BY <1>3, <1>4, <1>5 DEF Group, Groups
<1> QED BY <1>1, <1>2, <1>4, <1>6 DEF Group

(* w is the element m of the group q: so are those it is moved to.          *)
LEMMA SameGroup ==
    ASSUME TypeOK, NEW w \in Items, NEW d \in Int,
           0 <= (w % test.group) + d, (w % test.group) + d < test.group
    PROVE  w + d \in Items /\ Group(w + d) = Group(w)
<1> DEFINE g == test.group  q == Group(w)  m == w % g  n == test.grid \div g
<1>1. /\ g \in Nat \ {0} /\ q \in Nat /\ m \in Nat /\ w = q * g + m
      /\ q \in Groups /\ w \in Nat /\ test.grid \in Nat
  BY GroupOf
<1>2. test.grid % g = 0 /\ test.grid = n * g /\ n \in Nat
  <2>1. test.grid % g = 0
    BY TestsAssumption DEF TypeOK
  <2>2. n \in Nat /\ test.grid = n * g + (test.grid % g)
    BY <1>1, Quotient
  <2>3. n * g + 0 = n * g
    BY <2>2, <1>1
  <2> QED BY <2>1, <2>2, <2>3
<1>3. q <= n - 1
  BY <1>1, <1>2 DEF Groups
<1> HIDE DEF g, q, m, n
<1>4. w + d = q * g + (m + d) /\ m + d \in Int
  BY <1>1
<1>5. (w + d) \div g = q
  <2>1. 0 <= m + d /\ m + d < g
    BY DEF m, g
  <2> DEFINE r == m + d
  <2>2. r \in Int /\ 0 <= r /\ r < g
    BY <2>1, <1>4
  <2> HIDE DEF r
  <2>3. (q * g + r) \div g = q
    BY <1>1, <2>2
  <2>4. q * g + r = w + d
    BY <1>4 DEF r
  <2> QED BY <2>3, <2>4
<1>6. q * g <= (n - 1) * g
  BY <1>1, <1>2, <1>3
<1>7. w + d \in 0..(test.grid - 1)
  <2>1. (n - 1) * g = n * g - g
    BY <1>1, <1>2
  <2>2. 0 <= q * g /\ q * g \in Int
    BY <1>1
  <2>3. 0 <= m + d /\ m + d < g
    BY DEF m, g
  <2> QED BY <1>1, <1>2, <1>4, <1>6, <2>1, <2>2, <2>3
<1> QED BY <1>5, <1>7 DEF Items, Group, g, q

LEMMA ReadItemType ==
    ASSUME TypeOK, NEW w \in Items
    PROVE  /\ ReadItem(w) \in Items
           /\ Kind # "agent" => Group(ReadItem(w)) = Group(w)
<1> DEFINE g == test.group  m == w % g
<1>1. g \in Nat \ {0} /\ w \in Nat /\ m \in Nat /\ m < g /\ w < test.grid /\ test.grid \in Nat
  BY GroupOf DEF Items
<1>2. CASE Kind = "agent"
  BY <1>1, <1>2 DEF ReadItem, Delta, Items
<1>3. CASE Kind # "agent"
  <2> USE <1>1
  <2>1. /\ TestSize = g /\ Delta \in Nat \ {0} /\ Delta <= g
    <3>1. test.wave \in Nat \ {0} /\ WavesPerGroup \in Nat \ {0}
      BY TestsAssumption, LoopAssumption DEF TypeOK
    <3>2. CASE Kind = "wave"
      BY <3>1, <3>2, <1>1 DEF Kind, TestSize, Delta
    <3>3. CASE Kind = "wgroup"
      <4>1. g = test.wave * WavesPerGroup
        BY <3>3 DEF Kind
      <4>2. test.wave <= test.wave * WavesPerGroup
        BY <3>1
      <4> QED BY <3>1, <3>3, <4>1, <4>2, <1>1 DEF TestSize, Delta
    <3> QED BY <1>3, <3>2, <3>3 DEF Kind
  <2>2. CASE m < Delta
    <3>1. ReadItem(w) = w + (g - Delta)
      BY <1>1, <1>3, <2>1, <2>2 DEF ReadItem
    <3> QED BY <1>1, <2>1, <2>2, <3>1, SameGroup
  <2>3. CASE ~(m < Delta)
    <3>1. ReadItem(w) = w + (-Delta)
      BY <1>1, <1>3, <2>1, <2>3 DEF ReadItem
    <3>2. m - Delta \in Nat /\ m - Delta < g /\ -Delta \in Int
      BY <2>1, <2>3
    <3>3. w + (-Delta) \in Items /\ Group(w + (-Delta)) = Group(w)
      <4> DEFINE d == -Delta
      <4>1. d \in Int /\ 0 <= m + d /\ m + d < g
        BY <2>1, <3>2
      <4> HIDE DEF d
      <4> QED BY <4>1, SameGroup DEF d
    <3> QED BY <3>1, <3>3
  <2> QED BY <2>2, <2>3
<1> QED BY <1>2, <1>3

(* What an operation of the test makes of the initial value.                *)
LEMMA WriteOps ==
    ASSUME TypeOK, NEW a \in Data
    PROVE  /\ WriteOp(a) \in {"add", "and", "st", "max", "wrapinc", "sub", "xor", "or", "cas", "min", "wrapdec"}
           /\ WriteOp(a) = "and" => test.op = "and"
           /\ WriteOp(a) \in {"wrapinc", "wrapdec"} => test.op = "wrapinc"
  BY TestsAssumption DEF TypeOK, Data, WriteOp, ShuffleOp, Operations

LEMMA NewValues ==
    ASSUME TypeOK, NEW a \in Data, NEW i \in Items
    PROVE  NewValue(a, i, Initial(a, i)) = Expected(a, i)
<1> DEFINE x == ElementIndex(a, i)  op == WriteOp(a)
<1>1. x \in Nat /\ x \in 0..(test.grid - 1)
  <2>1. i \in Nat /\ i % test.group \in Nat /\ i < test.grid /\ test.grid \in Nat /\ Group(i) \in Nat
        /\ test.group \in Nat /\ i = Group(i) * test.group + (i % test.group)
    BY GroupOf DEF Items
  <2>2. Group(i) * test.group \in Nat
    BY <2>1
  <2>3. i % test.group <= i
    BY <2>1, <2>2
  <2> QED BY <2>1, <2>3 DEF ElementIndex
<1>2. AtomicResult(op, InitialVal(op, x), x) = ExpectedVal(op, x)
  <2> HIDE DEF x, op
  <2>1. CASE op = "and"
    BY <1>1, <2>1, WriteOps, IndexAssumption DEF AtomicResult, InitialVal, ExpectedVal, HighBits, TypeOK, op
  <2>2. CASE op \in {"wrapinc", "wrapdec"}
    <3>1. MaxValue \in Nat /\ x + 1 <= MaxValue
      BY <1>1, <2>2, WriteOps, IndexAssumption DEF MaxValue, TypeOK, op
    <3> HIDE DEF MaxValue
    <3> QED BY <1>1, <2>2, <3>1 DEF AtomicResult, InitialVal, ExpectedVal
  <2>3. CASE op \in {"add", "st", "max", "sub", "xor", "or", "cas", "min"}
    BY <1>1, <2>3 DEF AtomicResult, InitialVal, ExpectedVal
  <2> QED BY <2>1, <2>2, <2>3, WriteOps DEF op
<1>3. a # "fin"
  BY DEF Data
<1> QED BY <1>2, <1>3 DEF NewValue, Initial, Expected
-----------------------------------------------------------------------------
(* What depends on the parameters of the test alone stays as it is.         *)
LEMMA Frame ==
    ASSUME test' = test
    PROVE  /\ Items' = Items /\ Groups' = Groups /\ Kind' = Kind /\ IsValid' = IsValid
           /\ WriteReleases' = WriteReleases /\ ReadAcquires' = ReadAcquires
           /\ UsesGroupSegment' = UsesGroupSegment
           /\ \A w : Group(w)' = Group(w) /\ ReadItem(w)' = ReadItem(w)
           /\ \A a : Segment(a)' = Segment(a)
           /\ \A a, i : Initial(a, i)' = Initial(a, i) /\ Expected(a, i)' = Expected(a, i)
           /\ \A a, i : Unchanged(a, i)' = Unchanged(a, i)
           /\ \A w : EmptyFlag(w)' = EmptyFlag(w)
<1>1. Items' = Items /\ Groups' = Groups /\ Kind' = Kind
  BY DEF Items, Groups, Kind
<1>2. WriteReleases' = WriteReleases /\ ReadAcquires' = ReadAcquires /\ UsesGroupSegment' = UsesGroupSegment
  BY DEF WriteReleases, ReadAcquires, LdOrder, UsesGroupSegment
<1>3. \A w : Group(w)' = Group(w) /\ ReadItem(w)' = ReadItem(w)
  BY <1>1 DEF Group, ReadItem, Delta, TestSize
<1>4. \A a : Segment(a)' = Segment(a) /\ WriteOp(a)' = WriteOp(a)
  BY DEF Segment, WriteOp
<1>5. \A a, i : ElementIndex(a, i)' = ElementIndex(a, i)
  BY <1>4 DEF ElementIndex
<1>6. \A o, x : InitialVal(o, x)' = InitialVal(o, x) /\ ExpectedVal(o, x)' = ExpectedVal(o, x)
  BY DEF InitialVal, HighBits, ExpectedVal
<1>7. \A a, i : Initial(a, i)' = Initial(a, i) /\ Expected(a, i)' = Expected(a, i)
  BY <1>4, <1>5, <1>6 DEF Initial, Expected
<1>8. \A a, i : Unchanged(a, i)' = Unchanged(a, i)
  BY <1>7 DEF Unchanged
<1>9. \A w : EmptyFlag(w)' = EmptyFlag(w)
  BY <1>3, <1>8 DEF EmptyFlag
<1>10. IsValid' = IsValid
  BY <1>1, <1>4 DEF IsValid, ValidScope, TestSize
<1> QED BY <1>1, <1>2, <1>3, <1>4, <1>7, <1>8, <1>9, <1>10

(* What the invariant says of a reader and the work-item it reads from.     *)
LEMMA Readers ==
    ASSUME Inv
    PROVE  /\ \A w \in Items : ReadItem(w) \in Items
           /\ UsesGroupSegment => Kind # "agent"
           /\ Kind # "agent" => \A w \in Items : Group(ReadItem(w)) = Group(w)
           /\ \A a \in Data : Segment(a) \in {"global", "group"} /\ (Segment(a) = "group" => UsesGroupSegment)
           /\ Reaches
<1> USE DEF Inv, Shape
<1>1. test \in Tests /\ IsValid /\ TypeOK
  BY DEF TypeOK
<1>2. UsesGroupSegment => Kind # "agent"
  BY <1>1 DEF IsValid, UsesGroupSegment
<1>3. \A a \in Data : Segment(a) \in {"global", "group"} /\ (Segment(a) = "group" => UsesGroupSegment)
  BY <1>1, TestsAssumption DEF Data, Segment, UsesGroupSegment
<1>4. Reaches
  BY <1>1, TestsAssumption DEF Reaches, IsValid, ValidScope
<1> QED BY <1>1, <1>2, <1>3, <1>4, ReadItemType

(* An element a running work-item reads is initialised.                     *)
LEMMA ReadInitialised ==
    ASSUME Inv, NEW a \in Data, NEW w \in Items, Segment(a) = "global" \/ pc[w] \notin NotBegun
    PROVE  ~Uninitialised(a, ReadItem(w))
  BY Readers DEF Inv, GroupsBegin, Uninitialised, NotBegun

(* What a running work-item would see now.                                  *)
LEMMA CurrentValue ==
    ASSUME Inv, NEW a \in Data, NEW w \in Items, Segment(a) = "global" \/ pc[w] \notin NotBegun
    PROVE  /\ \/ Current(w, a) = Initial(a, ReadItem(w))
              \/ Current(w, a) = Expected(a, ReadItem(w)) /\ Written(a, ReadItem(w))
           /\ Written(a, ReadItem(w)) /\ a \notin pending[ReadItem(w)]
                 => Current(w, a) = Expected(a, ReadItem(w))
<1> DEFINE r == ReadItem(w)
<1>1. r \in Items /\ ReadIndex(w, a) = r /\ ~Uninitialised(a, r)
  BY Readers, ReadInitialised DEF ReadIndex, Data
<1>2. CASE ReadsOwn(w, a) /\ a \in pending[w]
  <2>1. r = w
    BY <1>1, <1>2 DEF ReadsOwn, WriteIndex, Data
  <2> QED BY <1>2, <2>1 DEF Inv, CacheInv, Current
<1>3. CASE ~(ReadsOwn(w, a) /\ a \in pending[w])
  BY <1>1, <1>3 DEF Inv, MemInv, Current
<1> QED BY <1>2, <1>3

\* Behind SYNC-W the data is in memory.
LEMMA DataPerformed ==
    ASSUME Inv, NEW v \in Items, Written("sync", v)
    PROVE  Written("hb", v) /\ "hb" \notin pending[v]
  BY DEF Inv, PendingInv, MayPend, Written, BeforeSyncWrite, BeforeHbWrite, NotBegun, InLoop, Last
-----------------------------------------------------------------------------
(* The invariant is kept by every step.                                     *)

LEMMA HbWriteKeeps ==
    ASSUME Inv, NEW w \in Items, HbWrite(w)
    PROVE  Inv'
<1> USE DEF Inv, Data
<1>0. /\ test' = test /\ pc' = [pc EXCEPT ![w] = "syncW"] /\ pc[w] = "hbW"
      /\ UNCHANGED <<started, loopIdx, sync, testComplete, resultFlag, mem>>
      /\ pending' = [pending EXCEPT ![w] = @ \cup {"hb"}]
  BY DEF HbWrite, Goto, registers, Delay
<1> USE Frame, Readers, <1>0
<1>1. Shape'
  BY DEF Last, Shape, TypeOK, HbWrite, Delay, Arrays
<1>2. GroupsBegin'
  BY DEF GroupsBegin, NotBegun, TypeOK, Shape
<1>3. PendingInv'
  BY DEF PendingInv, MayPend, InLoop, Last, TypeOK, Shape
<1>4. MemInv'
  BY DEF MemInv, Written, Uninitialised, BeforeHbWrite, BeforeSyncWrite, NotBegun, Shape, TypeOK
<1>5. CacheInv'
  <2>1. mem["hb"][w] = Initial("hb", w)
    BY DEF MemInv, Written, Uninitialised, BeforeHbWrite, NotBegun
  <2>2. \A a \in Data, x \in Items : cache'[x][a] = cache[x][a] \/ (x = w /\ a = "hb" /\ ReadItem(w) = w /\ cache'[w]["hb"] = Expected("hb", w))
    BY <2>1, NewValues DEF HbWrite, Delay, Shape, Arrays, ReadsOwn, ReadIndex, WriteIndex
  <2> QED BY <2>2 DEF CacheInv, Written, BeforeHbWrite, BeforeSyncWrite, NotBegun, Shape, TypeOK
<1>6. SyncInv'
  BY DEF SyncInv, HbWrite, Delay, Shape, TypeOK, Written, BeforeHbWrite, BeforeSyncWrite, NotBegun
<1>7. LastInv'
  BY DEF LastInv, Last, HbWrite, Delay, Shape, TypeOK
<1>8. HappensBefore'
  BY DEF HappensBefore
<1>9. SyncedAfterWrite'
  BY DEF SyncedAfterWrite, BeforeSyncWrite, Shape, TypeOK
<1>10. GroupPasses'
  BY DEF GroupPasses, Shape, TypeOK
<1> QED BY <1>1, <1>2, <1>3, <1>4, <1>5, <1>6, <1>7, <1>8, <1>9, <1>10

LEMMA SyncWriteKeeps ==
    ASSUME Inv, NEW w \in Items, SyncWrite(w)
    PROVE  Inv'
<1> USE DEF Inv, Data
<1>0. /\ test' = test /\ pc' = [pc EXCEPT ![w] = "syncR"] /\ pc[w] = "syncW" /\ pending[w] = {}
      /\ UNCHANGED <<started, loopIdx, sync, testComplete, resultFlag>>
  BY Readers DEF SyncWrite, Goto, registers, WriteFence
<1> USE Frame, Readers, <1>0
<1>a. mem["sync"][w] = Initial("sync", w)
  BY DEF MemInv, Written, Uninitialised, BeforeSyncWrite
<1>b. /\ \/ pending' = [pending EXCEPT ![w] = {"sync"}] /\ ~WriteReleases /\ mem' = mem
         \/ pending' = pending /\ mem' = [mem EXCEPT !["sync"][w] = Expected("sync", w)]
      /\ \/ cache' = cache
         \/ ReadItem(w) = w /\ cache' = [cache EXCEPT ![w]["sync"] = Expected("sync", w)]
  BY <1>a, NewValues DEF SyncWrite, Delay, Write, Performed, Shape, Arrays, ReadsOwn, ReadIndex, WriteIndex, TypeOK
<1>1. Shape'
  BY <1>b DEF Last, Shape, TypeOK, Arrays
<1>2. GroupsBegin'
  BY DEF GroupsBegin, NotBegun, TypeOK, Shape
<1>3. PendingInv'
  BY <1>b DEF PendingInv, MayPend, InLoop, Last, TypeOK, Shape
<1>4. MemInv'
  BY <1>b DEF MemInv, Written, Uninitialised, BeforeHbWrite, BeforeSyncWrite, NotBegun, Shape, TypeOK, Arrays
<1>5. CacheInv'
  BY <1>b DEF CacheInv, Written, BeforeHbWrite, BeforeSyncWrite, NotBegun, Shape, TypeOK, Arrays
<1>6. SyncInv'
  BY <1>b DEF SyncInv, Shape, TypeOK, Written, BeforeHbWrite, BeforeSyncWrite, NotBegun
<1>7. LastInv'
  BY <1>b DEF LastInv, Last, Shape, TypeOK
<1>8. HappensBefore'
  BY DEF HappensBefore
<1>9. SyncedAfterWrite'
  BY DEF SyncedAfterWrite, BeforeSyncWrite, Shape, TypeOK
<1>10. GroupPasses'
  BY DEF GroupPasses, Shape, TypeOK
<1> QED BY <1>1, <1>2, <1>3, <1>4, <1>5, <1>6, <1>7, <1>8, <1>9, <1>10

LEMMA SyncReadKeeps ==
    ASSUME Inv, NEW w \in Items, NEW from, NEW to,
           \/ from = "syncR" /\ to = "hbR"
           \/ from = "lastSyncR" /\ to = "lastHbR",
           SyncRead(w, from, to)
    PROVE  Inv'
<1> USE DEF Inv, Data
<1>0. /\ test' = test /\ pc' = [pc EXCEPT ![w] = to] /\ pc[w] = from
      /\ UNCHANGED <<started, loopIdx, testComplete, resultFlag, mem, pending>>
      /\ cache' = IF ReadAcquires THEN [cache EXCEPT ![w] = Renewed(w)] ELSE cache
  BY Readers DEF SyncRead, Goto
<1>s. /\ sync' \in [Items -> BOOLEAN] /\ \A x \in Items : x # w => sync'[x] = sync[x]
      /\ sync'[w] <=> cache'[w].sync = Expected("sync", ReadItem(w))
  BY DEF SyncRead, Shape, TypeOK
<1> USE Frame, Readers, <1>0, <1>s
<1>a. ReadAcquires => \A a \in Data : cache'[w][a] = Current(w, a)
  BY DEF Renewed, Arrays, Shape
<1>1. Shape'
  BY DEF Last, Shape, TypeOK, Renewed
<1>2. GroupsBegin'
  BY DEF GroupsBegin, NotBegun, TypeOK, Shape
<1>3. PendingInv'
  BY DEF PendingInv, MayPend, InLoop, Last, TypeOK, Shape
<1>w. \A a \in Data, v \in Items : Written(a, v)' = Written(a, v)
  BY DEF Written, BeforeHbWrite, BeforeSyncWrite, NotBegun, Shape, TypeOK
<1>4. MemInv'
  BY <1>w DEF MemInv, Uninitialised, Shape, TypeOK
<1>5. CacheInv'
  <2>1. \A a \in Data, x \in Items : x # w => cache'[x][a] = cache[x][a]
    BY DEF Shape
  <2>2. pc[w] \notin NotBegun
    BY DEF NotBegun
  <2> QED BY <1>a, <1>w, <2>1, <2>2, CurrentValue DEF CacheInv, Shape, TypeOK, NotBegun
<1>6. SyncInv'
  <2>1. \A x \in Items : x # w => cache'[x] = cache[x] /\ sync'[x] = sync[x] /\ pc'[x] = pc[x]
    BY DEF Shape, TypeOK
  <2>2. sync'[w] /\ ~Unchanged("sync", ReadItem(w)) => Written("sync", ReadItem(w))
    BY <1>5, <1>w DEF CacheInv, NotBegun, Shape, TypeOK, Unchanged
  <2>3. ReadAcquires /\ Written("sync", ReadItem(w)) => cache'[w]["hb"] = Expected("hb", ReadItem(w))
    BY <1>a, CurrentValue, DataPerformed DEF NotBegun
  <2> QED BY <1>w, <2>1, <2>2, <2>3 DEF SyncInv
<1>7. LastInv'
  <2> SUFFICES ASSUME Kind # "agent" PROVE LastInv'
    BY DEF LastInv
  <2>1. ASSUME from = "lastSyncR" PROVE sync'[w]
    <3>1. pc[ReadItem(w)] \in Last
      BY <2>1 DEF LastInv, Last
    <3>2. Written("sync", ReadItem(w)) /\ pending[ReadItem(w)] = {}
      BY <3>1 DEF Written, Last, BeforeSyncWrite, PendingInv, MayPend, InLoop
    <3>3. ReadAcquires => cache'[w]["sync"] = Expected("sync", ReadItem(w))
      BY <1>a, <3>2, CurrentValue DEF NotBegun
    <3>4. ~ReadAcquires => cache'[w]["sync"] = Expected("sync", ReadItem(w))
      BY <2>1 DEF LastInv, Last
    <3> QED BY <3>3, <3>4 DEF Shape, TypeOK
  <2> QED BY <2>1 DEF LastInv, Last, Shape, TypeOK
<1>8. HappensBefore'
  BY DEF HappensBefore
<1>9. SyncedAfterWrite'
  BY DEF SyncedAfterWrite, BeforeSyncWrite, Shape, TypeOK
<1>10. GroupPasses'
  BY DEF GroupPasses, Shape, TypeOK
<1> QED BY <1>1, <1>2, <1>3, <1>4, <1>5, <1>6, <1>7, <1>8, <1>9, <1>10

LEMMA HbReadKeeps ==
    ASSUME Inv, NEW w \in Items, NEW from, NEW to, NEW complete \in BOOLEAN,
           \/ from = "hbR" /\ to = "endLoop" /\ complete = (testComplete[w] \/ sync[w])
           \/ from = "lastHbR" /\ to = "done" /\ complete = testComplete[w],
           HbRead(w, from, to, complete)
    PROVE  Inv'
<1> USE DEF Inv, Data
<1>0. /\ test' = test /\ pc' = [pc EXCEPT ![w] = to] /\ pc[w] = from
      /\ UNCHANGED <<started, loopIdx, sync, mem, pending>>
      /\ cache' = IF ReadFence THEN [cache EXCEPT ![w] = Renewed(w)] ELSE cache
  BY Readers DEF HbRead, Goto
<1>r. /\ resultFlag' \in [Items -> BOOLEAN]
      /\ \A x \in Items : x # w => resultFlag'[x] = resultFlag[x]
      /\ resultFlag'[w] <=> resultFlag[w] \/ ( ~testComplete[w] /\ sync[w]
                                              /\ cache'[w].hb = Expected("hb", ReadItem(w)))
  BY DEF HbRead, Shape, TypeOK
<1>t. /\ testComplete' \in [Items -> BOOLEAN]
      /\ \A x \in Items : x # w => testComplete'[x] = testComplete[x]
      /\ testComplete'[w] = complete
  BY DEF HbRead, Shape, TypeOK
<1> USE Frame, Readers, <1>0, <1>r, <1>t
<1>a. ReadFence => \A a \in Data : cache'[w][a] = Current(w, a)
  BY DEF Renewed, Arrays, Shape
<1>w. \A a \in Data, v \in Items : Written(a, v)' = Written(a, v)
  BY DEF Written, BeforeHbWrite, BeforeSyncWrite, NotBegun, Shape, TypeOK
<1>1. Shape'
  BY DEF Last, Shape, TypeOK, Renewed
<1>2. GroupsBegin'
  BY DEF GroupsBegin, NotBegun, TypeOK, Shape
<1>3. PendingInv'
  <2>1. MayPend(w)' = MayPend(w)
    BY DEF MayPend, InLoop, Last, TypeOK, Shape
  <2>2. \A v \in Items : MayPend(v)' = MayPend(v)
    BY <2>1 DEF MayPend, TypeOK, Shape
  <2> QED BY <2>2 DEF PendingInv
<1>4. MemInv'
  BY <1>w DEF MemInv, Uninitialised, Shape, TypeOK
<1>5. CacheInv'
  <2>1. \A a \in Data, x \in Items : x # w => cache'[x][a] = cache[x][a]
    BY DEF Shape
  <2>2. pc[w] \notin NotBegun
    BY DEF NotBegun
  <2> QED BY <1>a, <1>w, <2>1, <2>2, CurrentValue DEF CacheInv, Shape, TypeOK, NotBegun
<1>6. SyncInv'
  BY <1>w DEF SyncInv, Shape, TypeOK
<1>7. LastInv'
  BY DEF LastInv, Last, Shape, TypeOK
\* A flag that was found is not empty, or stands for data that is there.
<1>h. sync[w] => EmptyFlag(w) \/ cache'[w].hb = Expected("hb", ReadItem(w))
  <2> SUFFICES ASSUME sync[w], ~EmptyFlag(w)
               PROVE  cache'[w]["hb"] = Expected("hb", ReadItem(w))
    OBVIOUS
  <2>1. CASE Unchanged("hb", ReadItem(w))
    BY <1>5, <2>1 DEF CacheInv, Unchanged, NotBegun, Shape, TypeOK
  <2>2. CASE ~Unchanged("sync", ReadItem(w))
    <3>1. /\ Written("sync", ReadItem(w))
          /\ ReadAcquires => cache[w]["hb"] = Expected("hb", ReadItem(w))
      BY <2>2 DEF SyncInv
    <3>2. Current(w, "hb") = Expected("hb", ReadItem(w))
      BY <3>1, CurrentValue, DataPerformed DEF NotBegun
    <3> QED BY <1>a, <3>1, <3>2 DEF ReadFence
  <2> QED BY <2>1, <2>2 DEF EmptyFlag
<1>8. HappensBefore'
  BY <1>h DEF HappensBefore
<1>9. SyncedAfterWrite'
  <2>1. sync[w] => Unchanged("sync", ReadItem(w)) \/ pc[ReadItem(w)] \notin BeforeSyncWrite
    BY DEF SyncInv, Written
  <2>2. \A v \in Items : pc[v] \notin BeforeSyncWrite => pc'[v] \notin BeforeSyncWrite
    BY DEF BeforeSyncWrite, Shape, TypeOK
  <2> QED BY <2>1, <2>2 DEF SyncedAfterWrite
<1>10. GroupPasses'
  <2>1. Kind # "agent" /\ to = "done" => resultFlag'[w] \/ EmptyFlag(w)
    BY <1>h DEF LastInv, Last, HappensBefore
  <2> QED BY <2>1 DEF GroupPasses, Shape, TypeOK
<1> QED BY <1>1, <1>2, <1>3, <1>4, <1>5, <1>6, <1>7, <1>8, <1>9, <1>10

LEMMA EndLoopKeeps ==
    ASSUME Inv, NEW w \in Items, EndLoop(w)
    PROVE  Inv'
<1> USE DEF Inv, Data
<1>0. /\ test' = test /\ pc[w] = "endLoop" /\ Kind # "agent"
      /\ loopIdx' = [loopIdx EXCEPT ![w] = loopIdx[w] - 1]
      /\ \/ pc' = [pc EXCEPT ![w] = "syncR"] /\ loopIdx[w] - 1 # 0
         \/ pc' = [pc EXCEPT ![w] = "barrier"]
      /\ UNCHANGED <<started, sync, testComplete, resultFlag, mem, pending, cache>>
  BY DEF EndLoop, BoundedLoop, Goto, memory
<1> USE Frame, Readers, <1>0
<1>w. \A a \in Data, v \in Items : Written(a, v)' = Written(a, v)
  BY DEF Written, BeforeHbWrite, BeforeSyncWrite, NotBegun, Shape, TypeOK
<1>1. Shape'
  <2>1. loopIdx[w] \in 0..MaxLoop /\ loopIdx[w] # 0
    BY DEF Shape, Last, TypeOK
  <2>2. loopIdx[w] - 1 \in 0..MaxLoop
    BY <2>1, LoopAssumption
  <2> QED BY <2>2 DEF Last, Shape, TypeOK
<1>2. GroupsBegin'
  BY DEF GroupsBegin, NotBegun, TypeOK, Shape
<1>3. PendingInv'
  BY DEF PendingInv, MayPend, InLoop, Last, TypeOK, Shape
<1>4. MemInv'
  BY <1>w DEF MemInv, Uninitialised, Shape, TypeOK
<1>5. CacheInv'
  BY <1>w DEF CacheInv, NotBegun, Shape, TypeOK
<1>6. SyncInv'
  BY <1>w DEF SyncInv, Shape, TypeOK
<1>7. LastInv'
  BY DEF LastInv, Last, Shape, TypeOK
<1>8. HappensBefore'
  BY DEF HappensBefore
<1>9. SyncedAfterWrite'
  BY DEF SyncedAfterWrite, BeforeSyncWrite, Shape, TypeOK
<1>10. GroupPasses'
  BY DEF GroupPasses, Shape, TypeOK
<1> QED BY <1>1, <1>2, <1>3, <1>4, <1>5, <1>6, <1>7, <1>8, <1>9, <1>10

LEMMA CheckPrevWgKeeps ==
    ASSUME Inv, NEW w \in Items, CheckPrevWg(w)
    PROVE  Inv'
<1> USE DEF Inv, Data
<1>0. /\ test' = test /\ pc[w] = "endLoop" /\ Kind = "agent"
      /\ \/ pc' = [pc EXCEPT ![w] = "syncR"] /\ UNCHANGED <<pending, cache>>
         \/ pc' = [pc EXCEPT ![w] = "lastSyncR"] /\ pending' = [pending EXCEPT ![w] = @ \cup {"fin"}]
      /\ UNCHANGED <<started, loopIdx, sync, testComplete, resultFlag, mem>>
  BY DEF CheckPrevWg, Goto, memory, registers, Delay
<1> USE Frame, Readers, <1>0
<1>c. /\ DOMAIN cache' = Items /\ \A x \in Items : DOMAIN cache'[x] = Arrays
      /\ \A x \in Items, a \in Data : cache'[x][a] = cache[x][a]
  BY DEF CheckPrevWg, Delay, memory, Shape, Arrays
<1>w. \A a \in Data, v \in Items : Written(a, v)' = Written(a, v)
  BY DEF Written, BeforeHbWrite, BeforeSyncWrite, NotBegun, Shape, TypeOK
<1>1. Shape'
  BY <1>c DEF Last, Shape, TypeOK, Arrays
<1>2. GroupsBegin'
  BY DEF GroupsBegin, NotBegun, TypeOK, Shape
<1>3. PendingInv'
  BY DEF PendingInv, MayPend, InLoop, Last, TypeOK, Shape
<1>4. MemInv'
  BY <1>w DEF MemInv, Uninitialised, Shape, TypeOK
<1>5. CacheInv'
  BY <1>c, <1>w DEF CacheInv, NotBegun, Shape, TypeOK
<1>6. SyncInv'
  BY <1>c, <1>w DEF SyncInv, Shape, TypeOK
<1>7. LastInv'
  BY DEF LastInv
<1>8. HappensBefore'
  BY DEF HappensBefore
<1>9. SyncedAfterWrite'
  BY DEF SyncedAfterWrite, BeforeSyncWrite, Shape, TypeOK
<1>10. GroupPasses'
  BY DEF GroupPasses
<1> QED BY <1>1, <1>2, <1>3, <1>4, <1>5, <1>6, <1>7, <1>8, <1>9, <1>10

LEMMA FenceBeforeBarrierKeeps ==
    ASSUME Inv, NEW w \in Items, FenceBeforeBarrier(w)
    PROVE  Inv'
<1> USE DEF Inv, Data
<1>0. /\ test' = test /\ pc[w] = "barrier" /\ pc' = [pc EXCEPT ![w] = "atBarrier"]
      /\ ~WriteReleases => pending[w] = {}
      /\ UNCHANGED <<started, loopIdx, sync, testComplete, resultFlag, mem, pending, cache>>
  BY DEF FenceBeforeBarrier, Goto, memory, registers
<1> USE Frame, Readers, <1>0
<1>w. \A a \in Data, v \in Items : Written(a, v)' = Written(a, v)
  BY DEF Written, BeforeHbWrite, BeforeSyncWrite, NotBegun, Shape, TypeOK
<1>1. Shape'
  BY DEF Last, Shape, TypeOK
<1>2. GroupsBegin'
  BY DEF GroupsBegin, NotBegun, TypeOK, Shape
<1>3. PendingInv'
  BY DEF PendingInv, MayPend, InLoop, Last, TypeOK, Shape
<1>4. MemInv'
  BY <1>w DEF MemInv, Uninitialised, Shape, TypeOK
<1>5. CacheInv'
  BY <1>w DEF CacheInv, NotBegun, Shape, TypeOK
<1>6. SyncInv'
  BY <1>w DEF SyncInv, Shape, TypeOK
<1>7. LastInv'
  BY DEF LastInv, Last, Shape, TypeOK
<1>8. HappensBefore'
  BY DEF HappensBefore
<1>9. SyncedAfterWrite'
  BY DEF SyncedAfterWrite, BeforeSyncWrite, Shape, TypeOK
<1>10. GroupPasses'
  BY DEF GroupPasses, Shape, TypeOK
<1> QED BY <1>1, <1>2, <1>3, <1>4, <1>5, <1>6, <1>7, <1>8, <1>9, <1>10

LEMMA DrainKeeps ==
    ASSUME Inv, NEW w \in Items, NEW b \in Arrays, Drain(w, b)
    PROVE  Inv'
<1> USE DEF Inv, Data
<1>0. /\ test' = test /\ b \in pending[w] /\ pending' = [pending EXCEPT ![w] = @ \ {b}]
      /\ UNCHANGED <<started, pc, loopIdx, sync, testComplete, resultFlag, cache>>
  BY DEF Drain, registers
<1> USE Frame, Readers, <1>0
<1>m. /\ DOMAIN mem' = Arrays /\ \A a \in Data : DOMAIN mem'[a] = Items
      /\ \A a \in Data, v \in Items : <<a, v>> # <<b, w>> => mem'[a][v] = mem[a][v]
      /\ b \in Data => mem'[b][w] = NewValue(b, w, mem[b][w])
  BY DEF Drain, Performed, WriteIndex, Shape, Arrays
<1>w. \A a \in Data, v \in Items : Written(a, v)' = Written(a, v)
  BY DEF Written
<1>1. Shape'
  BY <1>m DEF Shape, TypeOK
<1>2. GroupsBegin'
  BY DEF GroupsBegin
<1>3. PendingInv'
  BY DEF PendingInv, MayPend, TypeOK, Shape
<1>4. MemInv'
  <2>1. b \in Data => mem'[b][w] = Expected(b, w) /\ Written(b, w)
    <3> SUFFICES ASSUME b \in Data PROVE mem'[b][w] = Expected(b, w) /\ Written(b, w)
      OBVIOUS
    <3>1. Written(b, w) /\ ~Uninitialised(b, w)
      BY DEF PendingInv, MayPend, Written, Uninitialised, InLoop, Last, BeforeHbWrite, BeforeSyncWrite, NotBegun
    <3> QED BY <1>m, <3>1, NewValues DEF MemInv, Shape
  <2> QED BY <1>m, <1>w, <2>1 DEF MemInv, Uninitialised, Shape, TypeOK
<1>5. CacheInv'
  BY <1>w DEF CacheInv
<1>6. SyncInv'
  BY <1>w DEF SyncInv
<1>7. LastInv'
  BY DEF LastInv
<1>8. HappensBefore'
  BY DEF HappensBefore
<1>9. SyncedAfterWrite'
  BY DEF SyncedAfterWrite
<1>10. GroupPasses'
  BY DEF GroupPasses
<1> QED BY <1>1, <1>2, <1>3, <1>4, <1>5, <1>6, <1>7, <1>8, <1>9, <1>10

LEMMA RefreshKeeps ==
    ASSUME Inv, NEW w \in Items, NEW b \in Arrays, Refresh(w, b)
    PROVE  Inv'
<1> USE DEF Inv, Data
<1>0. /\ test' = test
      /\ UNCHANGED <<started, pc, loopIdx, sync, testComplete, resultFlag, mem, pending>>
  BY DEF Refresh, registers
<1> USE Frame, Readers, <1>0
<1>c. /\ DOMAIN cache' = Items /\ \A x \in Items : DOMAIN cache'[x] = Arrays
      /\ \A x \in Items, a \in Data : cache'[x][a] = cache[x][a] \/ cache'[x][a] = Current(x, a)
  BY DEF Refresh, Shape
<1>w. \A a \in Data, v \in Items : Written(a, v)' = Written(a, v)
  BY DEF Written
<1>1. Shape'
  BY <1>c DEF Shape, TypeOK
<1>2. GroupsBegin'
  BY DEF GroupsBegin
<1>3. PendingInv'
  BY DEF PendingInv, MayPend
<1>4. MemInv'
  BY <1>w DEF MemInv, Uninitialised
<1>5. CacheInv'
  BY <1>c, <1>w, CurrentValue DEF CacheInv
<1>6. SyncInv'
  <2> SUFFICES ASSUME NEW x \in Items, pc[x] \in {"hbR", "lastHbR"}, ReadAcquires,
                      Written("sync", ReadItem(x)), cache[x]["hb"] = Expected("hb", ReadItem(x))
               PROVE  cache'[x]["hb"] = Expected("hb", ReadItem(x))
    BY <1>w DEF SyncInv
  <2>1. Current(x, "hb") = Expected("hb", ReadItem(x))
    BY CurrentValue, DataPerformed DEF NotBegun
  <2> QED BY <1>c, <2>1
<1>7. LastInv'
  <2> SUFFICES ASSUME Kind # "agent", NEW x \in Items, pc[x] \in Last,
                      cache[x]["sync"] = Expected("sync", ReadItem(x))
               PROVE  cache'[x]["sync"] = Expected("sync", ReadItem(x))
    BY DEF LastInv
  <2>1. pc[ReadItem(x)] \in Last
    BY DEF LastInv
  <2>2. Written("sync", ReadItem(x)) /\ pending[ReadItem(x)] = {}
    BY <2>1 DEF Written, Last, BeforeSyncWrite, PendingInv, MayPend, InLoop
  <2>3. Current(x, "sync") = Expected("sync", ReadItem(x))
    BY <2>2, CurrentValue DEF NotBegun, Last
  <2> QED BY <1>c, <2>3
<1>8. HappensBefore'
  BY DEF HappensBefore
<1>9. SyncedAfterWrite'
  BY DEF SyncedAfterWrite
<1>10. GroupPasses'
  BY DEF GroupPasses
<1> QED BY <1>1, <1>2, <1>3, <1>4, <1>5, <1>6, <1>7, <1>8, <1>9, <1>10

LEMMA StartGroupKeeps ==
    ASSUME Inv, StartGroup
    PROVE  Inv'
<1> USE DEF Inv, Data
<1>0. /\ test' = test /\ started \in Groups /\ started' = started + 1
      /\ UNCHANGED <<loopIdx, sync, testComplete, resultFlag, mem, pending, cache>>
  BY DEF StartGroup, registers, memory
<1> USE Frame, Readers, <1>0
<1>p. /\ pc' \in [Items -> {"off", "init", "initBarrier", "hbW", "syncW", "syncR", "hbR",
                            "endLoop", "barrier", "atBarrier", "lastSyncR", "lastHbR", "done"}]
      /\ \A w \in Items :
            \/ Group(w) # started /\ pc'[w] = pc[w]
            \/ Group(w) = started /\ pc[w] = "off" /\ UsesGroupSegment /\ pc'[w] = "init"
            \/ Group(w) = started /\ pc[w] = "off" /\ ~UsesGroupSegment /\ pc'[w] = "hbW"
  <2>1. \A w \in Items : Group(w) = started => pc[w] = "off"
    BY GroupOf DEF GroupsBegin, Shape, TypeOK
  <2> QED BY <2>1 DEF StartGroup, Shape, TypeOK
<1>w. \A a \in Data, v \in Items : Written(a, v)' = Written(a, v)
  BY <1>p DEF Written, BeforeHbWrite, BeforeSyncWrite, NotBegun
<1>1. Shape'
  <2>1. started + 1 \in 0..Cardinality(Groups)
    <3> DEFINE n == test.grid \div test.group
    <3>1. n \in Nat
      BY TestsAssumption, Quotient DEF Shape, TypeOK
    <3>2. Cardinality(0..(n - 1)) = n
      BY <3>1, FS_Interval
    <3> HIDE DEF n
    <3>3. Groups = 0..(n - 1)
      BY DEF n, Groups
    <3> QED BY <3>1, <3>2, <3>3
  <2> QED BY <1>p, <2>1 DEF Last, Shape, TypeOK
<1>2. GroupsBegin'
  <2>1. \A w \in Items : Group(w) \in Int
    BY GroupOf DEF Shape
  <2> QED BY <1>p, <2>1 DEF GroupsBegin, NotBegun, Groups, Shape, TypeOK
<1>3. PendingInv'
  BY <1>p DEF PendingInv, MayPend, InLoop, Last, TypeOK, Shape
<1>4. MemInv'
  BY <1>p, <1>w DEF MemInv, Uninitialised
<1>5. CacheInv'
  BY <1>p, <1>w DEF CacheInv, NotBegun
<1>6. SyncInv'
  BY <1>p, <1>w DEF SyncInv
<1>7. LastInv'
  BY <1>p DEF LastInv, Last
<1>8. HappensBefore'
  BY DEF HappensBefore
<1>9. SyncedAfterWrite'
  BY <1>p DEF SyncedAfterWrite, BeforeSyncWrite
<1>10. GroupPasses'
  BY <1>p DEF GroupPasses
<1> QED BY <1>1, <1>2, <1>3, <1>4, <1>5, <1>6, <1>7, <1>8, <1>9, <1>10

LEMMA InitArraysKeeps ==
    ASSUME Inv, NEW w \in Items, InitArrays(w)
    PROVE  Inv'
<1> USE DEF Inv, Data
<1>0. /\ test' = test /\ pc[w] = "init" /\ pc' = [pc EXCEPT ![w] = "initBarrier"]
      /\ UNCHANGED <<started, loopIdx, sync, testComplete, resultFlag, pending, cache>>
  BY DEF InitArrays, registers, Goto
<1> USE Frame, Readers, <1>0
<1>m. /\ DOMAIN mem' = Arrays /\ \A a \in Data : DOMAIN mem'[a] = Items
      /\ \A a \in Data, v \in Items :
            mem'[a][v] = IF Segment(a) = "group" /\ v = w THEN Initial(a, v) ELSE mem[a][v]
  BY DEF InitArrays, Shape, Arrays
<1>w. \A a \in Data, v \in Items : Written(a, v)' = Written(a, v)
  BY DEF Written, BeforeHbWrite, BeforeSyncWrite, NotBegun, Shape, TypeOK
<1>1. Shape'
  BY <1>m DEF Last, Shape, TypeOK
<1>2. GroupsBegin'
  BY DEF GroupsBegin, NotBegun, TypeOK, Shape
<1>3. PendingInv'
  BY DEF PendingInv, MayPend, InLoop, Last, TypeOK, Shape
<1>4. MemInv'
  <2>1. \A a \in Data : ~Written(a, w)
    BY DEF Written, BeforeHbWrite, BeforeSyncWrite, NotBegun
  <2> QED BY <1>m, <1>w, <2>1 DEF MemInv, Uninitialised, Shape, TypeOK
<1>5. CacheInv'
  BY <1>w DEF CacheInv, NotBegun, Shape, TypeOK
<1>6. SyncInv'
  BY <1>w DEF SyncInv, Shape, TypeOK
<1>7. LastInv'
  BY DEF LastInv, Last, Shape, TypeOK
<1>8. HappensBefore'
  BY DEF HappensBefore
<1>9. SyncedAfterWrite'
  BY DEF SyncedAfterWrite, BeforeSyncWrite, Shape, TypeOK
<1>10. GroupPasses'
  BY DEF GroupPasses, Shape, TypeOK
<1> QED BY <1>1, <1>2, <1>3, <1>4, <1>5, <1>6, <1>7, <1>8, <1>9, <1>10

LEMMA InitBarrierKeeps ==
    ASSUME Inv, NEW g \in Groups, InitBarrier(g)
    PROVE  Inv'
<1> USE DEF Inv, Data
<1>0. /\ test' = test
      /\ UNCHANGED <<started, loopIdx, sync, testComplete, resultFlag, mem, pending>>
  BY DEF InitBarrier, OpenBarrier, registers
<1> USE Frame, Readers, <1>0
<1>p. \A w \in Items : IF Group(w) = g THEN pc[w] = "initBarrier" /\ pc'[w] = "hbW" ELSE pc'[w] = pc[w]
  BY DEF InitBarrier, OpenBarrier, ItemsOf
<1>t. pc' \in [Items -> {"off", "init", "initBarrier", "hbW", "syncW", "syncR", "hbR",
                        "endLoop", "barrier", "atBarrier", "lastSyncR", "lastHbR", "done"}]
  BY DEF InitBarrier, OpenBarrier, Shape, TypeOK
<1>c. /\ DOMAIN cache' = Items /\ \A x \in Items : DOMAIN cache'[x] = Arrays
      /\ \A x \in Items, a \in Data :
            cache'[x][a] = IF Group(x) = g THEN Current(x, a) ELSE cache[x][a]
  BY DEF InitBarrier, OpenBarrier, ItemsOf, Shape, Renewed, Arrays
<1>w. \A a \in Data, v \in Items : Written(a, v)' = Written(a, v)
  BY <1>p DEF Written, BeforeHbWrite, BeforeSyncWrite, NotBegun
<1>1. Shape'
  BY <1>p, <1>t, <1>c DEF Last, Shape, TypeOK
<1>2. GroupsBegin'
  BY <1>p DEF GroupsBegin, NotBegun
<1>3. PendingInv'
  BY <1>p DEF PendingInv, MayPend, InLoop, Last, TypeOK, Shape
<1>4. MemInv'
  BY <1>p, <1>w DEF MemInv, Uninitialised
<1>5. CacheInv'
  <2>1. ASSUME NEW x \in Items, Group(x) = g, NEW a \in Data
        PROVE  Current(x, a) = Initial(a, ReadItem(x))
    <3>1. UsesGroupSegment /\ Group(ReadItem(x)) = g
      BY <1>p, <2>1 DEF GroupsBegin
    <3>2. pc[x] = "initBarrier" /\ pc[ReadItem(x)] = "initBarrier"
      BY <1>p, <2>1, <3>1
    <3>3. pending[x] = {} /\ ~Written(a, ReadItem(x)) /\ ~Uninitialised(a, ReadItem(x))
      BY <3>2 DEF PendingInv, MayPend, InLoop, Last, Written, Uninitialised, BeforeHbWrite, BeforeSyncWrite, NotBegun
    <3> QED BY <3>3 DEF Current, MemInv, ReadIndex
  <2> QED BY <1>c, <1>p, <1>w, <2>1 DEF CacheInv
<1>6. SyncInv'
  BY <1>p, <1>c, <1>w DEF SyncInv
<1>7. LastInv'
  BY <1>p, <1>c DEF LastInv, Last
<1>8. HappensBefore'
  BY DEF HappensBefore
<1>9. SyncedAfterWrite'
  BY <1>p DEF SyncedAfterWrite, BeforeSyncWrite
<1>10. GroupPasses'
  BY <1>p DEF GroupPasses
<1> QED BY <1>1, <1>2, <1>3, <1>4, <1>5, <1>6, <1>7, <1>8, <1>9, <1>10

LEMMA BarrierKeeps ==
    ASSUME Inv, NEW g \in Groups, Barrier(g)
    PROVE  Inv'
<1> USE DEF Inv, Data
<1>0. /\ test' = test
      /\ UNCHANGED <<started, loopIdx, sync, testComplete, resultFlag, mem, pending>>
  BY DEF Barrier, OpenBarrier, registers
<1> USE Frame, Readers, <1>0
<1>p. \A w \in Items : IF Group(w) = g THEN pc[w] = "atBarrier" /\ pc'[w] = "lastSyncR" ELSE pc'[w] = pc[w]
  BY DEF Barrier, OpenBarrier, ItemsOf
<1>t. pc' \in [Items -> {"off", "init", "initBarrier", "hbW", "syncW", "syncR", "hbR",
                        "endLoop", "barrier", "atBarrier", "lastSyncR", "lastHbR", "done"}]
  BY DEF Barrier, OpenBarrier, Shape, TypeOK
<1>c. /\ DOMAIN cache' = Items /\ \A x \in Items : DOMAIN cache'[x] = Arrays
      /\ \A x \in Items, a \in Data :
            cache'[x][a] = IF Group(x) = g /\ ~ReadAcquires THEN Current(x, a) ELSE cache[x][a]
  BY DEF Barrier, OpenBarrier, ItemsOf, Shape, Renewed, Arrays
<1>w. \A a \in Data, v \in Items : Written(a, v)' = Written(a, v)
  BY <1>p DEF Written, BeforeHbWrite, BeforeSyncWrite, NotBegun
<1>1. Shape'
  BY <1>p, <1>t, <1>c DEF Last, Shape, TypeOK
<1>2. GroupsBegin'
  BY <1>p DEF GroupsBegin, NotBegun
<1>n. \A w \in Items : Group(w) = g => pending[w] = {}
  BY <1>p DEF PendingInv, MayPend, InLoop, Last
<1>3. PendingInv'
  BY <1>p, <1>n DEF PendingInv, MayPend, InLoop, Last, TypeOK, Shape
<1>4. MemInv'
  BY <1>p, <1>w DEF MemInv, Uninitialised
<1>5. CacheInv'
  BY <1>c, <1>p, <1>w, CurrentValue DEF CacheInv, NotBegun
<1>6. SyncInv'
  BY <1>p, <1>c, <1>w DEF SyncInv
<1>7. LastInv'
  <2> SUFFICES ASSUME Kind # "agent" PROVE LastInv'
    BY DEF LastInv
  <2>1. ASSUME NEW x \in Items, Group(x) = g, ~ReadAcquires
        PROVE  cache'[x]["sync"] = Expected("sync", ReadItem(x))
    <3>1. Written("sync", ReadItem(x)) /\ pending[ReadItem(x)] = {}
      BY <1>p, <1>n, <2>1 DEF Written, BeforeSyncWrite
    <3> QED BY <1>c, <1>p, <2>1, <3>1, CurrentValue DEF NotBegun
  <2> QED BY <1>p, <1>c, <2>1 DEF LastInv, Last
<1>8. HappensBefore'
  BY DEF HappensBefore
<1>9. SyncedAfterWrite'
  BY <1>p DEF SyncedAfterWrite, BeforeSyncWrite
<1>10. GroupPasses'
  BY <1>p DEF GroupPasses
<1> QED BY <1>1, <1>2, <1>3, <1>4, <1>5, <1>6, <1>7, <1>8, <1>9, <1>10
-----------------------------------------------------------------------------
LEMMA InitInv == Init => Inv
<1> SUFFICES ASSUME Init PROVE Inv
  OBVIOUS
<1> USE DEF Init, Data
<1>1. TypeOK
  <2>1. 0 \in 0..Cardinality(Groups)
    <3> DEFINE n == test.grid \div test.group
    <3>1. n \in Nat
      BY TestsAssumption, Quotient
    <3>2. Cardinality(0..(n - 1)) = n
      BY <3>1, FS_Interval
    <3> HIDE DEF n
    <3> QED BY <3>1, <3>2 DEF n, Groups
  <2> QED BY <2>1, LoopAssumption DEF TypeOK, InitLoop
<1>2. Shape
  BY <1>1, LoopAssumption DEF Shape, InitLoop, Arrays, InitialElements
<1>3. GroupsBegin
  BY DEF GroupsBegin, NotBegun
<1>4. PendingInv
  BY DEF PendingInv
<1>5. MemInv
  BY TestsAssumption DEF MemInv, Written, Uninitialised, BeforeHbWrite, BeforeSyncWrite, NotBegun, InitialElements, Segment
<1>6. CacheInv
  <2>1. ASSUME NEW a \in Data, NEW w \in Items, Segment(a) = "global"
        PROVE  cache[w][a] = Initial(a, ReadItem(w))
    <3>1. ReadItem(w) \in Items
      BY <1>1, ReadItemType
    <3> QED BY <2>1, <3>1 DEF InitialElements, ReadIndex, Arrays
  <2> QED BY <2>1 DEF CacheInv, NotBegun
<1>7. SyncInv /\ LastInv
  BY DEF SyncInv, LastInv, Last
<1>8. HappensBefore /\ SyncedAfterWrite /\ GroupPasses
  BY DEF HappensBefore, SyncedAfterWrite, GroupPasses
<1> QED BY <1>2, <1>3, <1>4, <1>5, <1>6, <1>7, <1>8 DEF Inv

LEMMA StutterKeeps == Inv /\ UNCHANGED vars => Inv'
<1> SUFFICES ASSUME Inv, UNCHANGED vars PROVE Inv'
  OBVIOUS
<1>1. UNCHANGED <<test, started, pc, loopIdx, sync, testComplete, resultFlag, mem, pending, cache>>
  BY DEF vars, registers, memory
<1> USE <1>1, Frame DEF Inv
<1>2. Shape' /\ GroupsBegin'
  BY DEF Shape, TypeOK, GroupsBegin
<1>3. \A a, v : Written(a, v)' = Written(a, v) /\ Uninitialised(a, v)' = Uninitialised(a, v)
  BY DEF Written, Uninitialised
<1>4. PendingInv' /\ MemInv' /\ CacheInv'
  BY <1>3 DEF PendingInv, MayPend, MemInv, CacheInv
<1>5. SyncInv' /\ LastInv'
  BY <1>3 DEF SyncInv, LastInv
<1>6. HappensBefore' /\ SyncedAfterWrite' /\ GroupPasses'
  BY DEF HappensBefore, SyncedAfterWrite, GroupPasses
<1> QED BY <1>2, <1>4, <1>5, <1>6

LEMMA StepKeeps ==
    ASSUME Inv, NEW w \in Items, Step(w)
    PROVE  Inv'
<1> DEFINE complete == testComplete[w] \/ sync[w]
<1>1. testComplete[w] \in BOOLEAN /\ complete \in BOOLEAN
  BY DEF Inv, Shape, TypeOK
<1>2. CASE SyncRead(w, "syncR", "hbR")
  BY <1>2, SyncReadKeeps
<1>3. CASE HbRead(w, "hbR", "endLoop", complete)
  <2> HIDE DEF complete
  <2>1. complete = (testComplete[w] \/ sync[w])
    BY DEF complete
  <2> QED BY <1>1, <1>3, <2>1, HbReadKeeps
<1>4. CASE SyncRead(w, "lastSyncR", "lastHbR")
  BY <1>4, SyncReadKeeps
<1>5. CASE HbRead(w, "lastHbR", "done", testComplete[w])
  BY <1>1, <1>5, HbReadKeeps
<1>6. CASE ~ (Attempt(w) \/ LastAttempt(w))
  BY <1>6, InitArraysKeeps, HbWriteKeeps, SyncWriteKeeps, EndLoopKeeps,
     CheckPrevWgKeeps, FenceBeforeBarrierKeeps DEF Step
<1> QED BY <1>2, <1>3, <1>4, <1>5, <1>6 DEF Attempt, LastAttempt

(* The invariant is inductive.                                              *)
LEMMA InductiveInv == Spec => []Inv
<1>1. Inv /\ [Next]_vars => Inv'
  <2> SUFFICES ASSUME Inv, [Next]_vars PROVE Inv'
    OBVIOUS
  <2>1. CASE StartGroup
    BY <2>1, StartGroupKeeps
  <2>2. ASSUME NEW g \in Groups, GroupStep(g) PROVE Inv'
    BY <2>2, InitBarrierKeeps, BarrierKeeps, StepKeeps DEF GroupStep, ItemsOf
  <2>3. CASE MemoryStep
    BY <2>3, DrainKeeps, RefreshKeeps DEF MemoryStep
  <2>4. CASE UNCHANGED vars
    BY <2>4, StutterKeeps
  <2> QED BY <2>1, <2>2, <2>3, <2>4 DEF Next, Terminated
<1> QED BY <1>1, InitInv, PTL DEF Spec

(* Registers, program counters and delayed writes have their types.         *)
THEOREM TypeCorrect == Spec => []TypeOK
<1>1. Inv => TypeOK
  BY DEF Inv, Shape
<1> QED BY <1>1, InductiveInv, PTL

(* Who synchronised in the loop saw the data, empty flags apart.            *)
THEOREM DataHappensBefore == Spec => []HappensBefore
<1>1. Inv => HappensBefore
  BY DEF Inv
<1> QED BY <1>1, InductiveInv, PTL

(* A flag is found when it was written, or cannot be told from one that was. *)
THEOREM FlagsAreWritten == Spec => []SyncedAfterWrite
<1>1. Inv => SyncedAfterWrite
  BY DEF Inv
<1> QED BY <1>1, InductiveInv, PTL

(* Tests within a wave or a work-group pass, empty flags apart.             *)
THEOREM GroupsPass == Spec => []GroupPasses
<1>1. Inv => GroupPasses
  BY DEF Inv
<1> QED BY <1>1, InductiveInv, PTL
=============================================================================
