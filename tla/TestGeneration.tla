---------------------------- MODULE TestGeneration ----------------------------
(***************************************************************************)
(* How the test generator makes tests of an instruction (libTestGen):      *)
(* TestGen searches the valid forms of the instruction, TestDataProvider    *)
(* gives every combination of test values of its operands, TestDataFactory  *)
(* bundles the combinations into groups that one kernel runs.  A kernel     *)
(* has the immediate values of a group in its code and reads the others     *)
(* from arrays, an element for each work-item and test.                     *)
(***************************************************************************)
EXTENDS Naturals, Sequences, SequencesExt, FiniteSets, TLC

Product(sizes) == FoldLeft(LAMBDA acc, n : acc * n, 1, sizes)
-----------------------------------------------------------------------------
(* The forms of an instruction.  A form is a value for every property; pos  *)
(* is the place of a property's current value, 0 before the first one.      *)
(* allowed holds the tuples of values of the first properties that are      *)
(* valid together.                                                          *)
Skipping(sizes, allowed, pos, i) ==    \* a variation: the next value, valid or not
    IF pos[i] < sizes[i] THEN [pos |-> [pos EXCEPT ![i] = @ + 1], found |-> TRUE]
    ELSE [pos |-> [pos EXCEPT ![i] = sizes[i] + 1], found |-> FALSE]
NextPositive(sizes, allowed, pos, i) ==
    LET later == {p \in (pos[i] + 1)..sizes[i] : Append(SubSeq(pos, 1, i - 1), p) \in allowed}
    IN  IF later = {} THEN [pos |-> [pos EXCEPT ![i] = sizes[i] + 1], found |-> FALSE]
        ELSE [pos |-> [pos EXCEPT ![i] = CHOOSE p \in later : \A q \in later : p <= q],
              found |-> TRUE]

RECURSIVE Search(_, _, _, _, _), setAllPrimary(_, _, _, _, _), nextPrimarySet(_, _, _, _),
          Forms(_, _, _, _)
Search(sizes, allowed, pos, i, found) ==
    IF found /\ i = Len(sizes) THEN [pos |-> pos, found |-> TRUE]
    ELSE IF found THEN
        LET r == NextPositive(sizes, allowed, [pos EXCEPT ![i + 1] = 0], i + 1)
        IN  Search(sizes, allowed, r.pos, i + 1, r.found)
    ELSE IF i = 1 THEN [pos |-> pos, found |-> FALSE]
    ELSE LET r == NextPositive(sizes, allowed, pos, i - 1)
         IN  Search(sizes, allowed, r.pos, i - 1, r.found)

setExplicitPrimary(sizes, allowed, pos, start) ==
    LET i == IF start THEN 1 ELSE Len(sizes)
        r == NextPositive(sizes, allowed, pos, i)
    IN  Search(sizes, allowed, r.pos, i, r.found)

\* The InstBasic form of an instruction has implicit properties that may be invalid.
setAllPrimary(sizes, allowed, basic, pos, start) ==
    LET r == setExplicitPrimary(sizes, allowed, IF start THEN [pos EXCEPT ![1] = 0] ELSE pos, start)
    IN  IF r.found /\ r.pos \notin basic THEN setAllPrimary(sizes, allowed, basic, r.pos, FALSE) ELSE r

\* Of a secondary property, its values that are valid in a form, in order.
setAllSecondary(valid, pos) == \A i \in DOMAIN valid[pos] : valid[pos][i] # <<>>

(* A first form without values for its secondary properties is looked for   *)
(* again from the start: the search does not end.                           *)
Endless == "endless"
nextPrimarySet(prm, valid, pos, start) ==
    LET r == setAllPrimary(prm.sizes, prm.allowed, prm.basic, pos, start)
    IN  IF ~r.found THEN [pos |-> r.pos, found |-> FALSE]
        ELSE IF setAllSecondary(valid, r.pos) THEN r
        ELSE IF start THEN [pos |-> Endless, found |-> TRUE]
        ELSE nextPrimarySet(prm, valid, r.pos, FALSE)

\* Every secondary property takes its other values while the rest have their first.
Firsts(values) == [i \in DOMAIN values |-> Head(values[i])]
nextSecondarySet(values) ==
    FlattenSeq([i \in DOMAIN values |->
        [k \in 1..(Len(values[i]) - 1) |-> [Firsts(values) EXCEPT ![i] = values[i][k + 1]]]])

\* genPositiveTests, from a form on: all forms that are generated.
Forms(prm, valid, pos, start) ==
    LET r == nextPrimarySet(prm, valid, pos, start)
        values == valid[r.pos]
        of(sec) == [k \in DOMAIN sec |-> [primary |-> r.pos, secondary |-> sec[k]]]
    IN  IF ~r.found THEN <<>>
        ELSE of(<<Firsts(values)>> \o nextSecondarySet(values)) \o Forms(prm, valid, r.pos, FALSE)
Start(sizes) == FoldLeft(LAMBDA pos, n : Append(pos, 0), <<>>, sizes)
genPositiveTests(prm, valid) ==
    LET start == Start(prm.sizes) IN Forms(prm, valid, start, TRUE)

ValidForms(prm, valid) ==
    {p \in prm.basic : /\ \A i \in DOMAIN p : SubSeq(p, 1, i) \in prm.allowed
                       /\ setAllSecondary(valid, p)}
\* The forms before which the search gives up are valid; the first has secondary values.
FirstServes(prm, valid) ==
    LET start == Start(prm.sizes)
        r == setAllPrimary(prm.sizes, prm.allowed, prm.basic, start, TRUE)
    IN  r.found => setAllSecondary(valid, r.pos)

\* Each valid form comes once, each valid value of a secondary property in one of its forms.
FormsOnce(prm, valid, forms) ==
    /\ {forms[k].primary : k \in DOMAIN forms} = ValidForms(prm, valid)
    /\ Cardinality(ToSet(forms)) = Len(forms)
    /\ \A p \in ValidForms(prm, valid) : \A i \in DOMAIN valid[p] : \A v \in ToSet(valid[p][i]) :
          [primary |-> p, secondary |-> [Firsts(valid[p]) EXCEPT ![i] = v]] \in ToSet(forms)
FormsOnceOn(prm, valid) ==
    FirstServes(prm, valid) => FormsOnce(prm, valid, genPositiveTests(prm, valid))
-----------------------------------------------------------------------------
(* Combinations of test values.  A generator gives the combinations of its  *)
(* operands' values, the last operand first; at its end all but the first   *)
(* operand are reset.  A vector operand counts as many operands.            *)
ResetGenerator(sizes) == [idx |-> [i \in DOMAIN sizes |-> 0], pos |-> Len(sizes)]
NextValues(sizes, g) ==
    LET can == {i \in 1..g.pos : g.idx[i] + 1 < sizes[i]}
        k == CHOOSE i \in can : \A j \in can : j <= i
        kept(n) == [i \in DOMAIN sizes |-> IF i > n /\ i <= g.pos THEN 0 ELSE g.idx[i]]
    IN  IF sizes = <<>> THEN [g |-> g, found |-> FALSE]
        ELSE IF can = {} THEN [g |-> [idx |-> [kept(1) EXCEPT ![1] = sizes[1]], pos |-> 1], found |-> FALSE]
        ELSE [g |-> [idx |-> [kept(k) EXCEPT ![k] = @ + 1], pos |-> Len(sizes)], found |-> TRUE]
getDataSetSize(sizes) == IF sizes = <<>> THEN 0 ELSE Product(sizes)

(* The provider has a generator for immediate operands, one for registers,  *)
(* and one for immediates that have to stay the same in a test because it   *)
(* has no room for all of them.                                             *)
registerOperand(isConst, groupImms, lockConst) ==
    IF ~isConst THEN "mutable" ELSE IF groupImms /\ ~lockConst THEN "const" ELSE "locked"
Sizes(operands, kind) ==
    LET of == SelectSeq(operands, LAMBDA o : o.kind = kind) IN [i \in DOMAIN of |-> of[i].size]
ResetProvider(operands) ==
    [kind \in {"const", "mutable", "locked"} |-> ResetGenerator(Sizes(operands, kind))]

KeepsConst(operands, p, mutable) == [p EXCEPT !["mutable"] = mutable]    \* a variation
NextMutable(operands, p, mutable) ==
    [p EXCEPT !["mutable"] = mutable, !["const"] = ResetGenerator(Sizes(operands, "const"))]
NextTest(operands, p) ==
    LET const == NextValues(Sizes(operands, "const"), p["const"])
        mutable == NextValues(Sizes(operands, "mutable"), p["mutable"])
    IN  IF const.found THEN [p |-> [p EXCEPT !["const"] = const.g], found |-> TRUE]
        ELSE IF mutable.found THEN [p |-> NextMutable(operands, p, mutable.g), found |-> TRUE]
        ELSE [p |-> [p EXCEPT !["const"] = const.g, !["mutable"] = mutable.g], found |-> FALSE]
nextGroup(operands, p) ==
    LET locked == NextValues(Sizes(operands, "locked"), p["locked"])
    IN  [p |-> [ResetProvider(operands) EXCEPT !["locked"] = locked.g], found |-> locked.found]

\* The values of all operands, in their order.
getSrcValue(operands, p) ==
    LET nth(i) == Len(SelectSeq(SubSeq(operands, 1, i), LAMBDA o : o.kind = operands[i].kind))
    IN  [i \in DOMAIN operands |-> p[operands[i].kind].idx[nth(i)]]
-----------------------------------------------------------------------------
(* Groups of tests.  A sample is a run of maxGroupSize combinations, one    *)
(* for each value of the immediates; the ones the instruction is not        *)
(* defined for are empty.  Samples that are empty at the same places make   *)
(* an array of groups, which becomes a kernel.                              *)
NoTest == <<>>
Signature(sample) == [i \in DOMAIN sample |-> sample[i] = NoTest]
Actual(sample) == SelectSeq(sample, LAMBDA td : td # NoTest)

TestGroupArray(sample, limits) ==
    LET size == Len(Actual(sample))
        byTests == limits.tests \div size
    IN  [data |-> Actual(sample), signature |-> Signature(sample), groupSize |-> size,
         maxGroupsNum |-> IF byTests < limits.groups THEN byTests ELSE limits.groups]
getGroupsNum(array) == Len(array.data) \div array.groupSize
getData(array, grpIdx, tstIdx) == array.data[grpIdx * array.groupSize + tstIdx + 1]
addGroup(array, sample) == [array EXCEPT !.data = @ \o Actual(sample)]
AnySignature(array, sample) ==    \* a variation
    getGroupsNum(array) # array.maxGroupsNum /\ Len(Actual(sample)) = array.groupSize
Takes(array, sample) ==
    getGroupsNum(array) # array.maxGroupsNum /\ array.signature = Signature(sample)

Factory == [sample |-> <<>>, arrays |-> <<>>, pos |-> 1]
appendGroup(f, sample, limits) ==
    LET open == {i \in f.pos..Len(f.arrays) : Takes(f.arrays[i], sample)}
        i == CHOOSE i \in open : \A j \in open : i <= j
    IN  IF open = {} THEN [f EXCEPT !.arrays = Append(@, TestGroupArray(sample, limits))]
        ELSE [f EXCEPT !.arrays[i] = addGroup(@, sample)]
AppendData(f, td, maxGroupSize, limits) ==
    LET sample == Append(f.sample, td)
    IN  IF Len(sample) # maxGroupSize THEN [f EXCEPT !.sample = sample]
        ELSE [IF Actual(sample) = <<>> THEN f ELSE appendGroup(f, sample, limits) EXCEPT !.sample = <<>>]
KeepsOpen(f) == f    \* a variation
finishGroup(f) == [f EXCEPT !.pos = Len(f.arrays) + 1]

\* An operand that is the wave size has one value it may be tested with, the first here.
WAVESIZE == 0
validateSrcData(operands, src) ==
    \A i \in DOMAIN operands : operands[i].of = "wavesize" => src[i] = WAVESIZE

RECURSIVE Filled(_, _, _, _, _)
Filled(operands, p, f, rejected, limits) ==
    LET size == getDataSetSize(Sizes(operands, "const"))
        src == getSrcValue(operands, p)
        valid == src \notin rejected /\ validateSrcData(operands, src)
        g == AppendData(f, IF valid THEN src ELSE NoTest, IF size = 0 THEN 1 ELSE size, limits)
        test == NextTest(operands, p)
        group == nextGroup(operands, test.p)
    IN  IF test.found THEN Filled(operands, test.p, g, rejected, limits)
        ELSE IF group.found THEN Filled(operands, group.p, finishGroup(g), rejected, limits)
        ELSE finishGroup(g)

\* Immediates are locked when a group of all their values has no room.
isConst(operand) == operand.of # "register"
getProvider(operands, groupImms, limits) ==
    LET as(lock) == [i \in DOMAIN operands |-> operands[i] @@
            [kind |-> registerOperand(isConst(operands[i]), groupImms, lock)]]
    IN  IF limits.tests < getDataSetSize(Sizes(as(FALSE), "const")) THEN as(TRUE) ELSE as(FALSE)
setupFactory(operands, groupImms, rejected, limits) ==
    LET provided == getProvider(operands, groupImms, limits)
    IN  Filled(provided, ResetProvider(provided), Factory, rejected, limits).arrays

\* What the tested instruction has for an operand: a register is loaded from the array of the
\* operand, an immediate is in the code, which is made from the first group.
OperandSeen(operands, array, grpIdx, tstIdx, o) ==
    CASE operands[o].of = "register" -> getData(array, grpIdx, tstIdx)[o]
      [] operands[o].of = "immediate" -> getData(array, 0, tstIdx)[o]
      [] operands[o].of = "wavesize" -> WAVESIZE

Combinations(operands) ==
    {src \in [DOMAIN operands -> 0..7] : \A i \in DOMAIN operands : src[i] < operands[i].size}

\* Every combination is tested once, and each test of a kernel has its operands.
AllOnce(tests, all) == ToSet(all) = tests /\ Len(all) = Cardinality(tests)
OperandsSeen(operands, limits, a) ==
    /\ Len(a.data) = a.groupSize * getGroupsNum(a)
    /\ Len(a.data) <= limits.tests /\ getGroupsNum(a) <= limits.groups
    /\ \A g \in 0..(getGroupsNum(a) - 1), t \in 0..(a.groupSize - 1), o \in DOMAIN operands :
          OperandSeen(operands, a, g, t, o) = getData(a, g, t)[o]
TestsOnce(operands, rejected, limits, arrays) ==
    /\ AllOnce({src \in Combinations(operands) \ rejected : validateSrcData(operands, src)},
               FlattenSeq([i \in DOMAIN arrays |-> arrays[i].data]))
    /\ \A i \in DOMAIN arrays : OperandsSeen(operands, limits, arrays[i])
TestsOnceOn(operands, groupImms, rejected, limits) ==
    TestsOnce(operands, rejected, limits, setupFactory(operands, groupImms, rejected, limits))
-----------------------------------------------------------------------------
=============================================================================
