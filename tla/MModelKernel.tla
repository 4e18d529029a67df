----------------------------- MODULE MModelKernel -----------------------------
(***************************************************************************)
(* The kernel of the memory model tests (hsail_conformance/core/           *)
(* MModelTests.cpp) as its work-items execute it.  Every work-item writes  *)
(* data (HB-W), then a flag (SYNC-W); another one reads the flag (SYNC-R)  *)
(* and, if it is there, the data (HB-R).  What is left to the memory is    *)
(* what the orders, scopes, fences and barriers of the test leave to it.   *)
(*                                                                         *)
(* The agent is external: it starts work-groups in order, a few at a time, *)
(* runs the work-items of a group in any way, delays writes (pending) and  *)
(* serves reads from old values (cache).  A release waits for the earlier  *)
(* writes of its work-item and is seen at once; an acquire renews what its *)
(* work-item sees; relaxed operations do neither.  An operation whose      *)
(* scope does not cover both work-items orders nothing between them.       *)
(***************************************************************************)
EXTENDS Integers, FiniteSets, FiniteSetsExt

CONSTANTS
    Tests,           \* parameters of the tests considered
    MaxLoop,         \* MAX_LOOP
    WavesPerGroup    \* waves in a work-group of a test of work-groups: 4

BitAnd(x, y, bits) ==
    MapThenSumSet(LAMBDA k : 2^k * ((x \div 2^k) % 2) * ((y \div 2^k) % 2), 0..(bits - 1))

\* The operations ShuffleOp has a case for.
Operations == {"add", "and", "cas", "exch", "max", "st", "wrapinc"}

ASSUME LoopAssumption == MaxLoop \in Nat \ {0} /\ WavesPerGroup \in Nat \ {0}

\* Parameters the test generator enumerates; grids are whole work-groups.
ASSUME TestsAssumption ==
    \A t \in Tests :
        /\ {t.wave, t.group, t.grid, t.bits, t.resident} \subseteq Nat \ {0}
        /\ t.grid % t.group = 0
        /\ t.op \in Operations
        /\ {t.syncOrder, t.hbOrder} \subseteq {"rlx", "acq", "rel", "ar"}
        /\ t.scope \in {"wave", "group", "agent", "system"}
        /\ {t.hbSeg, t.syncSeg} \subseteq {"global", "group"} /\ t.plain \in BOOLEAN

\* Indices stay below the bits that "and" clears (0xFF000000), and below the
\* operand -1 of wrapinc and wrapdec.
ASSUME IndexAssumption ==
    \A t \in Tests : \A i \in 0..(t.grid - 1) :
        /\ t.op = "and" => BitAnd(i + 2^(t.bits - 1), i, t.bits) = i
        /\ t.op = "wrapinc" => 2^t.bits - 1 \in Nat /\ i + 1 <= 2^t.bits - 1

VARIABLES
    test,        \* the parameters of this test
    started,     \* number of work-groups the agent has started
    pc,          \* of each work-item
    loopIdx,     \* registers of the kernel: loop counter,
    sync,        \*   synchronizedWith of the current attempt,
    testComplete, resultFlag,
    mem,         \* hb_array, sync_array, and group_complete
    pending,     \* arrays each work-item has a delayed write to
    cache        \* what each work-item sees of the elements it reads

registers == <<loopIdx, sync, testComplete, resultFlag>>
memory == <<mem, pending, cache>>
vars == <<test, started, pc, registers, memory>>
-----------------------------------------------------------------------------
(* Attributes of a test, derived as its constructor does.                   *)

Kind == CASE test.group = test.wave                 -> "wave"
          [] test.group = test.wave * WavesPerGroup -> "wgroup"
          [] OTHER                                  -> "agent"

Delta == CASE Kind = "wave" -> 1 [] Kind = "wgroup" -> test.wave [] OTHER -> test.group
TestSize == CASE Kind = "wave" -> test.wave [] Kind = "wgroup" -> test.group [] OTHER -> test.grid

ShuffleOp(op) ==
    CASE op = "add" -> "sub" [] op = "and" -> "xor" [] op = "cas" -> "or"
      [] op = "exch" -> "cas" [] op = "max" -> "min" [] op = "st" -> "st"
      [] op = "wrapinc" -> "wrapdec"

\* EnsureValid: a plain write is a store, and so is an operation that would
\* have to return its result.
WriteOp(array) ==
    IF array = "sync" THEN ShuffleOp(test.op)
    ELSE IF test.plain \/ test.op \in {"cas", "exch"} THEN "st" ELSE test.op

IsRelease(order) == order \in {"rel", "ar"}
IsAcquire(order) == order \in {"acq", "ar"}
ShuffleLdOrder(order) == IF order \in {"rlx", "rel"} THEN "acq" ELSE "rlx"
LdOrder == ShuffleLdOrder(test.hbOrder)

WriteReleases == IsRelease(test.syncOrder)
ReadAcquires == IsAcquire(LdOrder)

\* Fences of the synchronizes-with pair: where the operation is not one itself.
NoFence == FALSE    \* a variation
WriteFence == ~WriteReleases
ReadFence == ~ReadAcquires

(* isValidTestScope: the scope of the flag reaches the other work-item.     *)
AnyScope == TRUE    \* a variation
ValidScope ==
    CASE Kind = "wave" -> TRUE
      [] Kind = "wgroup" -> test.scope # "wave"
      [] OTHER -> test.scope \notin {"wave", "group"}

\* IsValid: a store is the synchronising write of no test, because that one is
\* required to return its result.
IsValid ==
    /\ ValidScope
    /\ ShuffleOp(test.op) # "st"
    /\ test.syncSeg = "group" => test.scope \in {"wave", "group"}
    /\ Kind = "agent" => test.hbSeg = "global" /\ test.syncSeg = "global"
    /\ test.plain => test.hbOrder = "rlx"
    /\ WriteOp("hb") = "st" => test.hbOrder \in {"rlx", "rel"}
    /\ {WriteOp("hb"), WriteOp("sync")} \cap {"and", "or", "xor"} # {} => test.bits = TestSize

(* Whether an operation of the test's scope reaches the other work-item.    *)
Reaches ==
    CASE Kind = "wave" -> TRUE
      [] Kind = "wgroup" -> test.scope \in {"group", "agent", "system"}
      [] OTHER -> test.scope \in {"agent", "system"}
-----------------------------------------------------------------------------
(* Work-items and the elements of the arrays they write and read.           *)
Items == 0..(test.grid - 1)
Group(w) == w \div test.group
Groups == 0..((test.grid \div test.group) - 1)
ItemsOf(g) == {w \in Items : Group(w) = g}

ReadItem(w) ==
    IF Kind = "agent" THEN IF w < Delta THEN w ELSE w - Delta
    ELSE IF w % TestSize < Delta THEN w + TestSize - Delta ELSE w - Delta

Arrays == {"hb", "sync", "fin"}
WriteIndex(w, array) == IF array = "fin" THEN Group(w) + 1 ELSE w
ReadIndex(w, array) == IF array = "fin" THEN Group(w) ELSE ReadItem(w)

Segment(array) == IF array = "hb" THEN test.hbSeg ELSE test.syncSeg
UsesGroupSegment == "group" \in {test.hbSeg, test.syncSeg}

\* Index of an element in its array, on which its values are based.
ElementIndex(array, i) == IF Segment(array) = "group" THEN i % test.group ELSE i

MaxValue == 2^test.bits - 1
HighBits == 2^(test.bits - 1)      \* 0xFF000000: bits above all indices

(* The properties of the operations (MModelTestProp...).                    *)
InitialVal(op, idx) ==
    CASE op \in {"add", "wrapinc", "max", "exch", "cas", "st"} -> idx
      [] op \in {"sub", "or", "xor"} -> idx * 2
      [] op = "and" -> idx + HighBits
      [] op \in {"wrapdec", "min"} -> idx + 1

ExpectedVal(op, idx) ==
    CASE op \in {"add", "exch", "cas", "st"} -> idx * 2
      [] op \in {"sub", "and", "wrapdec", "min"} -> idx
      [] op \in {"or", "xor"} -> idx * 2 + 1
      [] op \in {"wrapinc", "max"} -> idx + 1

\* An atomic operation with the operands of the test: idx, 1, or the greatest.
AtomicResult(op, old, idx) ==
    CASE op = "add" -> old + idx
      [] op = "sub" -> old - idx
      [] op = "or"  -> old + 1 - (old % 2)
      [] op = "xor" -> old + 1 - 2 * (old % 2)
      [] op = "and" -> BitAnd(old, idx, test.bits)
      [] op = "wrapinc" -> IF old >= MaxValue THEN 0 ELSE old + 1
      [] op = "wrapdec" -> IF old = 0 \/ old > MaxValue THEN MaxValue ELSE old - 1
      [] op = "max" -> IF old > idx + 1 THEN old ELSE idx + 1
      [] op = "min" -> IF old < idx THEN old ELSE idx
      [] op = "cas" -> IF old = InitialVal(op, idx) THEN idx * 2 ELSE old
      [] op \in {"exch", "st"} -> idx * 2

Initial(array, i) == InitialVal(WriteOp(array), ElementIndex(array, i))
Expected(array, i) == ExpectedVal(WriteOp(array), ElementIndex(array, i))
NewValue(array, i, old) ==
    IF array = "fin" THEN old + 1 ELSE AtomicResult(WriteOp(array), old, ElementIndex(array, i))

\* Arrays in the global segment are initialised with the program; those in the
\* group segment contain anything, also what would look like a result.
InitialElements(array) ==
    IF Segment(array) = "group" THEN [i \in Items |-> Expected(array, i)]
    ELSE [i \in Items |-> Initial(array, i)]

\* group_complete: the first element stands for the group before the first.
NoneComplete == [g \in 0..Cardinality(Groups) |-> 0]    \* a variation
GroupComplete == [g \in 0..Cardinality(Groups) |-> IF g = 0 THEN test.group ELSE 0]
-----------------------------------------------------------------------------
(* The memory of the agent.                                                 *)

Performed(array, i) == [mem EXCEPT ![array][i] = NewValue(array, i, @)]
ReadsOwn(w, array) == ReadIndex(w, array) = WriteIndex(w, array)

\* What w sees: its own delayed writes, and of the rest what is in memory.
Current(w, array) ==
    IF ReadsOwn(w, array) /\ array \in pending[w]
      THEN cache[w][array] ELSE mem[array][ReadIndex(w, array)]
Renewed(w) == [array \in Arrays |-> Current(w, array)]

\* A write that is delayed, and one that is seen by all at once.
Delay(w, array) ==
    /\ pending' = [pending EXCEPT ![w] = @ \cup {array}]
    /\ cache' = IF ReadsOwn(w, array)
                  THEN [cache EXCEPT ![w][array] =
                           NewValue(array, WriteIndex(w, array), mem[array][WriteIndex(w, array)])]
                  ELSE cache
    /\ UNCHANGED mem
Write(w, array) ==
    /\ mem' = Performed(array, WriteIndex(w, array))
    /\ cache' = IF ReadsOwn(w, array)
                  THEN [cache EXCEPT ![w][array] = mem'[array][WriteIndex(w, array)]] ELSE cache
    /\ UNCHANGED pending

Drain(w, array) ==
    /\ array \in pending[w]
    /\ mem' = Performed(array, WriteIndex(w, array))
    /\ pending' = [pending EXCEPT ![w] = @ \ {array}]
    /\ UNCHANGED <<test, started, pc, registers, cache>>

Refresh(w, array) ==
    /\ pc[w] \notin {"off", "done"}
    /\ cache[w][array] # Current(w, array)
    /\ cache' = [cache EXCEPT ![w][array] = Current(w, array)]
    /\ UNCHANGED <<test, started, pc, registers, mem, pending>>
-----------------------------------------------------------------------------
(* The kernel (KernelCode).                                                 *)
Goto(w, label) == pc' = [pc EXCEPT ![w] = label]

InitLoop == [w \in Items |-> MaxLoop]

Init ==
    /\ test \in Tests /\ IsValid
    /\ started = 0
    /\ pc = [w \in Items |-> "off"]
    /\ loopIdx = InitLoop
    /\ sync = [w \in Items |-> FALSE]
    /\ testComplete = [w \in Items |-> FALSE]
    /\ resultFlag = [w \in Items |-> FALSE]
    /\ mem = [hb |-> InitialElements("hb"), sync |-> InitialElements("sync"),
              fin |-> GroupComplete]
    /\ pending = [w \in Items |-> {}]
    /\ cache = [w \in Items |-> [array \in Arrays |-> mem[array][ReadIndex(w, array)]]]

(* The agent starts the next work-group; resident of them run at a time.    *)
StartGroup ==
    /\ started \in Groups
    /\ Cardinality({g \in Groups : g < started /\ \E w \in ItemsOf(g) : pc[w] # "done"})
          < test.resident
    /\ started' = started + 1
    /\ pc' = [w \in Items |-> IF Group(w) = started
                 THEN IF UsesGroupSegment THEN "init" ELSE "hbW" ELSE pc[w]]
    /\ UNCHANGED <<test, registers, memory>>

(* InitArray: arrays in the group segment, each element by its work-item,   *)
(* then a barrier with fences.                                              *)
InitArrays(w) ==
    /\ pc[w] = "init"
    /\ mem' = [array \in Arrays |->
                 IF array # "fin" /\ Segment(array) = "group"
                   THEN [mem[array] EXCEPT ![w] = Initial(array, w)] ELSE mem[array]]
    /\ Goto(w, "initBarrier")
    /\ UNCHANGED <<test, started, registers, pending, cache>>

\* All work-items of a group have reached a barrier; a fence behind it renews
\* what they see.
OpenBarrier(g, from, to, fence) ==
    /\ \A w \in ItemsOf(g) : pc[w] = from
    /\ pc' = [w \in Items |-> IF w \in ItemsOf(g) THEN to ELSE pc[w]]
    /\ cache' = [w \in Items |->
                   IF w \in ItemsOf(g) /\ fence THEN Renewed(w) ELSE cache[w]]
    /\ UNCHANGED <<test, started, registers, mem, pending>>

PassBarrier(w, from, to) ==    \* a variation: no barrier
    /\ pc[w] = from
    /\ Goto(w, to)
    /\ UNCHANGED <<test, started, registers, memory>>
NoInitBarrier(g) == \E w \in ItemsOf(g) : PassBarrier(w, "initBarrier", "hbW")    \* a variation
InitBarrier(g) == OpenBarrier(g, "initBarrier", "hbW", TRUE)

HbWrite(w) ==
    /\ pc[w] = "hbW"
    /\ Delay(w, "hb")
    /\ Goto(w, "syncW")
    /\ UNCHANGED <<test, started, registers>>

(* F-W and SYNC-W.                                                          *)
SyncWrite(w) ==
    /\ pc[w] = "syncW"
    /\ (WriteFence \/ WriteReleases) /\ Reaches => pending[w] = {}
    /\ IF WriteReleases /\ Reaches THEN Write(w, "sync") ELSE Delay(w, "sync")
    /\ Goto(w, "syncR")
    /\ UNCHANGED <<test, started, registers>>

(* CheckResult, in the loop and once more after it: SYNC-R ...              *)
SyncRead(w, from, to) ==
    /\ pc[w] = from
    /\ cache' = IF ReadAcquires /\ Reaches THEN [cache EXCEPT ![w] = Renewed(w)] ELSE cache
    /\ sync' = [sync EXCEPT ![w] = cache'[w].sync = Expected("sync", ReadItem(w))]
    /\ Goto(w, to)
    /\ UNCHANGED <<test, started, loopIdx, testComplete, resultFlag, mem, pending>>

(* ... F-R and HB-R, whose result counts if synchronisation succeeded, for  *)
(* the first time.  The loop then updates testComplete.                     *)
HbRead(w, from, to, complete) ==
    /\ pc[w] = from
    /\ cache' = IF ReadFence /\ Reaches THEN [cache EXCEPT ![w] = Renewed(w)] ELSE cache
    /\ resultFlag' = [resultFlag EXCEPT ![w] =
          @ \/ /\ ~testComplete[w] /\ sync[w]
               /\ cache'[w].hb = Expected("hb", ReadItem(w))]
    /\ testComplete' = [testComplete EXCEPT ![w] = complete]
    /\ Goto(w, to)
    /\ UNCHANGED <<test, started, loopIdx, sync, mem, pending>>

Attempt(w) ==
    \/ SyncRead(w, "syncR", "hbR")
    \/ HbRead(w, "hbR", "endLoop", testComplete[w] \/ sync[w])
LastAttempt(w) ==
    \/ SyncRead(w, "lastSyncR", "lastHbR")
    \/ HbRead(w, "lastHbR", "done", testComplete[w])

(* EndLoop: a bounded loop within a work-group; between work-groups the     *)
(* loop waits for the previous group, and tells the next one of its end.    *)
BoundedLoop(w, idx) ==
    /\ pc[w] = "endLoop" /\ Kind # "agent"
    /\ loopIdx' = [loopIdx EXCEPT ![w] = idx]
    /\ Goto(w, IF idx # 0 THEN "syncR" ELSE "barrier")
    /\ UNCHANGED <<test, started, sync, testComplete, resultFlag, memory>>

Unbounded(w) == BoundedLoop(w, MaxLoop)    \* a variation
EndLoop(w) == BoundedLoop(w, loopIdx[w] - 1)

CheckPrevWg(w) ==
    /\ pc[w] = "endLoop" /\ Kind = "agent"
    /\ IF cache[w].fin < test.group
         THEN Goto(w, "syncR") /\ UNCHANGED memory
         ELSE Goto(w, "lastSyncR") /\ Delay(w, "fin")
    /\ UNCHANGED <<test, started, registers>>

(* The barrier before the last attempt, with the fences that the writes     *)
(* and reads of the flag are not themselves.                                *)
NoFenceBeforeBarrier(w) == PassBarrier(w, "barrier", "atBarrier")    \* a variation
FenceBeforeBarrier(w) ==
    /\ pc[w] = "barrier"
    /\ ~WriteReleases => pending[w] = {}
    /\ Goto(w, "atBarrier")
    /\ UNCHANGED <<test, started, registers, memory>>
Barrier(g) == OpenBarrier(g, "atBarrier", "lastSyncR", ~ReadAcquires)

Step(w) ==
    \/ InitArrays(w) \/ HbWrite(w) \/ SyncWrite(w) \/ Attempt(w) \/ EndLoop(w)
    \/ CheckPrevWg(w) \/ FenceBeforeBarrier(w) \/ LastAttempt(w)
GroupStep(g) == InitBarrier(g) \/ Barrier(g) \/ \E w \in ItemsOf(g) : Step(w)
MemoryStep == \E w \in Items, array \in Arrays : Drain(w, array) \/ Refresh(w, array)

Terminated == (\A w \in Items : pc[w] = "done") /\ UNCHANGED vars

Next == StartGroup \/ (\E g \in Groups : GroupStep(g)) \/ MemoryStep \/ Terminated

Spec == Init /\ [][Next]_vars

(* The agent starts a group when there is room, each group makes progress,  *)
(* and memory comes to agree.  Within a group nothing is asked: any one     *)
(* work-item may run and keep the others waiting.                           *)
FairSpec ==
    /\ Spec
    /\ WF_vars(StartGroup) /\ WF_vars(MemoryStep)
    /\ \A g \in UNION {0..t.grid : t \in Tests} : WF_vars(g \in Groups /\ GroupStep(g))
-----------------------------------------------------------------------------
TypeOK ==
    /\ test \in Tests /\ started \in 0..Cardinality(Groups)
    /\ pc \in [Items -> {"off", "init", "initBarrier", "hbW", "syncW", "syncR", "hbR",
                         "endLoop", "barrier", "atBarrier", "lastSyncR", "lastHbR", "done"}]
    /\ loopIdx \in [Items -> 0..MaxLoop]
    /\ sync \in [Items -> BOOLEAN]
    /\ testComplete \in [Items -> BOOLEAN] /\ resultFlag \in [Items -> BOOLEAN]
    /\ pending \in [Items -> SUBSET Arrays]

(* An element that the write of its array does not change: element 0, where *)
(* the operation is sub, cas, or, in the data, add or st.                   *)
Unchanged(array, i) == Initial(array, i) = Expected(array, i)

(* A flag that says nothing of the data it stands for: element 0 of a group *)
(* after the first, when only the flags are in the group segment.           *)
EmptyFlag(w) == Unchanged("sync", ReadItem(w)) /\ ~Unchanged("hb", ReadItem(w))

(* A work-item that synchronised in the loop saw the data: what is written  *)
(* before SYNC-W happens before what is read after SYNC-R, for every choice *)
(* of orders, fences and scopes the test generator accepts.  An agent with  *)
(* the weakest memory the test allows does not fail it (CheckResult), empty *)
(* flags apart.                                                             *)
HappensBefore == \A w \in Items : testComplete[w] => resultFlag[w] \/ EmptyFlag(w)

(* The value a work-item synchronises with was written by SYNC-W of the     *)
(* other one, not left in the array by InitArray or by an earlier kernel,   *)
(* unless it is one that SYNC-W does not change.                            *)
BeforeSyncWrite == {"off", "init", "initBarrier", "hbW", "syncW"}
SyncedAfterWrite ==
    \A w \in Items :
        testComplete[w] => pc[ReadItem(w)] \notin BeforeSyncWrite \/ Unchanged("sync", ReadItem(w))

(* Within a wave or a work-group every work-item passes, whatever it saw in *)
(* the loop: the barrier makes the last attempt succeed (KernelCode), again *)
(* empty flags apart.                                                       *)
GroupPasses ==
    Kind # "agent" => \A w \in Items : pc[w] = "done" => resultFlag[w] \/ EmptyFlag(w)

(* The kernel ends although work-items of a group may starve each other and *)
(* groups wait for the group before them.                                   *)
KernelEnds == <>(\A w \in Items : pc[w] = "done")
-----------------------------------------------------------------------------
(* MModelTests.cpp: "Last attempt to synchronize (should always succeed)".  *)
LastAttemptSucceeds == \A w \in Items : pc[w] = "done" => resultFlag[w]

(* MModelTests.cpp: "this instruction should 'happen-before' HB-R".         *)
DataSeen == \A w \in Items : testComplete[w] => resultFlag[w]
=============================================================================
