---------------------------- MODULE MCAlgorithms ----------------------------
(***************************************************************************)
(* The parts of the program that compute something and keep no state: the   *)
(* filters of the test tree, the emulator of HSAIL instructions and the     *)
(* generator of tests; memory, typed values and their comparison, images,   *)
(* grids, and the kernels, arguments and expected results of the tests that *)
(* are written with the emitter, with the configurations they are made in. A*)
(* behaviour takes one input of one of them; the invariants compare what    *)
(* the program computes with what the result means.  Words, formats, trees  *)
(* and tables are small enough for TLC to take every input.                 *)
(***************************************************************************)
EXTENDS TestSelection, Emulator, TestGeneration, TestArrays, Values, Arena, ImageLimits, FunctionTests, LimitsTests, LinkageTests, AddressTests, UserModeQueueTests, DirectiveTests, TLC

VARIABLE input

\* An input is of what the generator computes, or of what tests expect.
Computing == [kind |-> "computing"]
Expecting == [kind |-> "expecting"]
Init == input \in {Computing, Expecting}

-----------------------------------------------------------------------------
(* A tree of the shape of HSATests: suites of chapters of sections,         *)
(* sections whose names start alike (m, mh), and one in two suites.  "q"    *)
(* stands for a character that is in no name.                               *)
Suite == Union(<<"p", "r">>,
    << Union(<<"c">>, << Basic(<< <<"m", "/", "t">>, <<"m", "/", "u">> >>),
                         Basic(<< <<"m", "h", "/", "t">> >>) >>),
       Basic(<< <<"i", "/", "t">> >>) >>)
OtherSuite == Union(<<"s">>, << Basic(<< <<"m", "/", "t">> >>) >>)
Tree == Union(<<>>, << Suite, OtherSuite >>)

Names == ToSet(Iterate(Tree))
Stems == UNION {{SubSeq(n, 1, k) : k \in 0..Len(n)} : n \in Names}
\* Stems as a user may mistype them: a character added, lost or doubled.
Mistyped ==
    UNION {{SubSeq(p, 1, k) \o <<c>> \o SubSeq(p, k + 1, Len(p)) :
            k \in 0..Len(p), c \in {"/", "r", "m", "q"}} : p \in Stems}
    \cup UNION {{SubSeq(p, 1, k - 1) \o SubSeq(p, k + 1, Len(p)) : k \in 1..Len(p)} : p \in Stems}
Patterns == Stems \cup Mistyped \cup {<<"all">>}
Lines == Names \cup {<<"p", "r", "/">>, <<"p", "r", "/", "c", "/">>, <<"s">>,
                     <<"/">>, <<"p", "r", "c">>, <<"p", "r", "/", "/", "c", "/">>}
Excludes == {<<>>} \cup {<<p, q>> : p, q \in Lines}

Select ==
    /\ input = Computing
    /\ \E p \in Patterns, e \in Excludes : input' = [kind |-> "selection", tests |-> p, exclude |-> e]
-----------------------------------------------------------------------------
(* Integers: types of 4 bits, held in a register that is wider ("narrow"), *)
(* just as wide ("int"), or of which two make a product ("long"); packed    *)
(* words of four elements of 3 bits.                                        *)
IntTypes == {IntType(4, sg, rank) : sg \in BOOLEAN, rank \in {"narrow", "int", "long"}}
Element == {IntType(3, sg, "narrow") : sg \in BOOLEAN}
Wider(elem) == IntType(6, elem.signed, "int")
Corners(t) == {IntBoundary(t, TRUE), IntBoundary(t, FALSE), 0, 1}
Packs(t) == {v \in [0..3 -> Corners(t)] : v[3] = v[0] \/ v[2] = v[1]}

\* C++ leaves the overflow of an int undefined; unsigned and narrow types have none.
HasNoOverflow(t) == ~t.signed \/ t.rank = "narrow"

Integers ==
    /\ input = Computing
    /\ \E t \in IntTypes : \E a, b \in Values(t) :
            input' = [kind |-> "integers", type |-> t, a |-> a, b |-> b]
Bits ==
    /\ input = Computing
    /\ \E sg \in BOOLEAN, c \in 0..4 : \E t \in {IntType(4, sg, "int")} : \E a, b \in Values(t) :
            input' = [kind |-> "bits", type |-> t, a |-> a, b |-> b % 16, c |-> c]
Packed ==
    /\ input = Computing
    /\ \E t \in Element : \E a, b \in Packs(t) :
            input' = [kind |-> "packed", type |-> t, a |-> a, b |-> b]
-----------------------------------------------------------------------------
(* Floats of 2 bits of exponent and 3 of mantissa, calculated in a carrier *)
(* of 9 bits, which has the room that the code's 128 bits have for doubles; *)
(* and the wider format that stands for floats when these are halves.       *)
F == Format(2, 3)
W == Format(7, 4)
carrier == 9
wideCarrier == 30
word == 8
IntegerTypes == {IntType(n, sg, "narrow") : n \in 2..6, sg \in BOOLEAN}
Modes == {"near", "zero", "up", "down"}

FloatPairs ==
    /\ input = Computing
    /\ \E x, y \in Floats(F) : input' = [kind |-> "floats", x |-> x, y |-> y]
FloatTriples ==
    /\ input = Computing
    /\ \E x, y, z \in Floats(F) :
            /\ ~x.neg /\ ~y.neg /\ Index(F, x) <= Index(F, y)
            /\ input' = [kind |-> "fma", x |-> x, y |-> y, z |-> z]
FloatsToIntegers ==
    /\ input = Computing
    /\ \E x \in Floats(F), t \in IntegerTypes :
            input' = [kind |-> "to integer", x |-> x, type |-> t]
IntegersToFloats ==
    /\ input = Computing
    /\ \E t \in IntegerTypes : \E i \in Values(t) :
            input' = [kind |-> "to float", type |-> t, i |-> i]
\* What the test generator converts: the values around the ends of the type.
RoundingTests ==
    /\ input = Computing
    /\ \E t \in IntegerTypes, mode \in Modes :
          \E x \in ToSet(makeRoundingTestsData(F, carrier, t, mode)) :
            input' = [kind |-> "rounding test", x |-> x, type |-> t, mode |-> mode]
-----------------------------------------------------------------------------
(* The generator: the forms of an instruction with two or three properties  *)
(* of which any combinations may be valid, and operands of one or two test  *)
(* values, with any of the combinations rejected.                           *)
Tuples(sizes) == {p \in [DOMAIN sizes -> 1..3] : \A i \in DOMAIN sizes : p[i] <= sizes[i]}
Beginnings(sizes) == UNION {Tuples(SubSeq(sizes, 1, n)) : n \in 1..Len(sizes)}
Shapes == {<<2, 2>>, <<2, 3>>, <<2, 2, 2>>}
Allowed(sizes) ==
    IF Len(sizes) = 2 THEN SUBSET Beginnings(sizes)
    ELSE {Beginnings(SubSeq(sizes, 1, 2)) \cup s : s \in SUBSET Tuples(sizes)}
BasicForms(sizes) == {Tuples(sizes), {p \in Tuples(sizes) : p[1] # p[Len(p)]}}
SecondaryValues == {<<>>, <<1>>, <<2, 3>>}

InstructionForms ==
    /\ input = Computing
    /\ \E sizes \in Shapes : \E allowed \in Allowed(sizes), basic \in BasicForms(sizes) :
       \E x, y \in SecondaryValues :
            input' = [kind |-> "forms",
                prm |-> [sizes |-> sizes, allowed |-> allowed, basic |-> basic],
                valid |-> [p \in Tuples(sizes) |-> IF Last(p) = 1 THEN <<x>> ELSE <<y, <<1, 2>> >>]]
TestOperands == [of : {"register", "immediate"}, size : 1..2] \cup {[of |-> "wavesize", size |-> 2]}
LastOperands == {[of |-> "register", size |-> 1], [of |-> "immediate", size |-> 2], [of |-> "wavesize", size |-> 2]}
Limits == {[tests |-> 2, groups |-> 9], [tests |-> 3, groups |-> 1],
           [tests |-> 9, groups |-> 2], [tests |-> 9, groups |-> 9]}
TestData ==
    /\ input = Computing
    /\ \E r, s \in TestOperands, t \in LastOperands, groupImms \in BOOLEAN, limits \in Limits :
       \E rejected \in SUBSET Combinations(<<r, s, t>>) :
            input' = [kind |-> "data", operands |-> <<r, s, t>>, groupImms |-> groupImms,
                      rejected |-> rejected, limits |-> limits]
-----------------------------------------------------------------------------
(* Instructions that access memory, with groups of a few tests.             *)
Regions == {"private", "group", "global"}
LoadsAndStores ==
    {[ldst |-> TRUE, region |-> r, elem |-> e, f16 |-> f, dim |-> d, align |-> a] :
        r \in Regions, e \in {8, 16, 32, 64}, f \in {FALSE}, d \in 1..4, a \in {1, 2, 4, 8, 64, 256}}
    \cup {[ldst |-> TRUE, region |-> r, elem |-> 16, f16 |-> TRUE, dim |-> d, align |-> a] :
        r \in Regions, d \in 1..4, a \in {1, 2, 4}}
    \cup {[ldst |-> TRUE, region |-> r, elem |-> 128, f16 |-> FALSE, dim |-> 1, align |-> a] :
        r \in Regions, a \in {1, 16, 256}}
Atomics == {[ldst |-> FALSE, region |-> r, elem |-> e, f16 |-> FALSE, dim |-> 1, align |-> 1] :
        r \in Regions, e \in {32, 64}}
TestMemory ==
    /\ input = Computing
    /\ \/ \E i \in LoadsAndStores \cup Atomics, size, num \in 1..3 :
            input' = [kind |-> "memory", inst |-> i, group |-> [groupSize |-> size, groupsNum |-> num]]
       \/ \E i \in LoadsAndStores, size \in 1..8 :
            input' = [kind |-> "limit", inst |-> i, groupSize |-> size]
       \/ \E first \in 0..1, last \in 1..4, mem \in BOOLEAN :
            input' = [kind |-> "arguments", first |-> first, last |-> last, mem |-> mem]
-----------------------------------------------------------------------------
(* Comparisons of results: a format of 2 bits of exponent and of mantissa,  *)
(* the curve of sRGB at the quarters of one, in hundredths; arrays of       *)
(* values of the types that C++ and the runtime share; and the verdicts of  *)
(* up to four comparisons.  An arena takes a few requests, 0 for its        *)
(* release, with chunks of 8 bytes of which 2 are the header.               *)
C == Format(2, 2)
Curve == [u \in 0..UnitsInOne(C) |-> <<0, 54, 74, 88, 100>>[u + 1]]
Precisions == {Frac(0, 1), Frac(1, 2), Frac(2, 1)}
ValueTypes ==
    {VType("integer", n, c) : n \in {1, 2, 4}, c \in {1, 2}} \cup {VType("half", 2, 1), VType("integer", 1, 8)}
DataOf(t) == [1..t.count -> {0, 1, BYTE^t.bytes - 2}]
Requests == {0, 1, 2, 3, 5, 6, 7, 9}
Verdicts == {Verdict(TRUE, Frac(0, 1))} \cup {Verdict(FALSE, Frac(n, 2)) : n \in 1..4}

Comparisons ==
    /\ input = Expecting
    /\ \/ \E x, y \in Floats(C) : input' = [kind |-> "comparison", x |-> x, y |-> y]
       \/ \E n \in 1..4 : \E v \in [1..n -> Verdicts] : input' = [kind |-> "verdicts", verdicts |-> v]
ValuesInMemory ==
    /\ input = Expecting
    /\ \/ \E n \in 0..4 : \E s \in [1..n -> Requests] : input' = [kind |-> "arena", requests |-> s]
       \/ \E t \in ValueTypes : \E v \in [1..(IF t.count = 8 THEN 1 ELSE 2) -> DataOf(t)] :
            input' = [kind |-> "values", type |-> t, values |-> v]
-----------------------------------------------------------------------------
(* Images: texels with any value in one channel, or with a few values in    *)
(* several; words that a test may store, small numbers and large ones; and  *)
(* images of up to three texels a side, with every sampler.                 *)
Geometries == {"1D", "1DA", "1DB", "2D", "2DA", "2DDEPTH", "2DADEPTH", "3D"}
Orders == {"A", "R", "RX", "RG", "RGX", "RA", "RGB", "RGBX", "RGBA", "BGRA", "ARGB", "ABGR",
           "INTENSITY", "LUMINANCE", "DEPTH", "DEPTH_STENCIL"}
ImageFormats == {<<o, t>> \in Orders \X ChannelTypes : \E g \in Geometries : IsImageLegal(g, o, t)}
ChannelValues(t, several) ==
    LET n == Width(t.bits) IN
    {c \in IF several THEN {0, 1, 2^(n - 1), 2^n - 1} ELSE 0..(2^n - 1) : IsNumber(t, c)}
TexelsOf(o, t) ==
    IF t.kind = "packed" THEN 0..(2^(Packing(t)[1] + Packing(t)[2] + Packing(t)[3]) - 1)
    ELSE LET channels == Len(ChannelsStored(o))
             values == [1..channels -> ChannelValues(t, channels > 1)]
             n == Width(t.bits)
         IN  IF IsPair(o, t) THEN {[l |-> Joined(<<v[3], v[4]>>, n), h |-> Joined(<<v[1], v[2]>>, n)] : v \in values}
             ELSE {Joined(v, n) : v \in values}
ImageSides == 1..3

Texels ==
    /\ input = Expecting
    /\ \/ \E f \in ImageFormats : \E v \in TexelsOf(f[1], f[2]) :
            input' = [kind |-> "texel", order |-> f[1], type |-> f[2], texel |-> v]
       \/ \E f \in ImageFormats, w \in {v \in 0..(2^Width(32) - 1) : v % 31 = 1 /\ IsNumber(Type("float", 32), v)} :
            input' = [kind |-> "store", order |-> f[1], type |-> f[2], word |-> w]
       \/ \E g \in Geometries, o \in Orders, t \in ChannelTypes, access \in {"ro", "wo", "rw"} :
            input' = [kind |-> "format", geometry |-> g, order |-> o, type |-> t, access |-> access]
ImageReads ==
    /\ input = Expecting
    /\ \/ \E m \in {"undefined", "edge", "border", "repeat", "mirrored"}, size \in ImageSides :
          \E q \in -(12 * size)..(12 * size) :
            input' = [kind |-> "address", addressing |-> m, q |-> q, size |-> size]
       \/ \E m \in {"undefined", "edge", "border", "repeat", "mirrored"}, c \in {"normalized", "unnormalized"},
             f \in {"nearest", "linear"}, g \in Geometries, x \in ImageSides, y, z, a \in 1..2,
             access \in {"f32", "s32"}, coordType \in {"f32", "s32"} :
            input' = [kind |-> "read", sampler |-> [addressing |-> m, coord |-> c, filter |-> f],
                      geometry |-> g, size |-> <<x, y, z, a>>, access |-> access, coordType |-> coordType]
-----------------------------------------------------------------------------
(* Work-items: grids of up to twelve points, in one, two and three          *)
(* dimensions, with whole groups, partial ones, groups larger than the      *)
(* grid, and dimensions of size one; waves of two and four lanes; and every *)
(* combination of conditions in the tests of branches.                      *)
LineGrids(grids, groups) == {Geometry(1, <<x, 1, 1>>, <<a, 1, 1>>) : x \in grids, a \in groups}
PlaneGrids(grids, groups) ==
    {Geometry(2, <<x, y, 1>>, <<a, b, 1>>) : x, y \in grids, a, b \in groups}
SpaceGrids(grids, groups) ==
    {Geometry(3, <<x, y, z>>, <<a, b, c>>) : x, y, z \in grids, a, b, c \in groups}
SmallGrids == LineGrids(1..8, 1..5) \cup PlaneGrids(1..3, 1..3) \cup {Geometry(3, <<3, 2, 1>>, <<2, 3, 1>>)}
    \cup {g \in SpaceGrids(1..3, 1..2) : GridSize(g) \in 6..12}
LaneGrids == LineGrids({6, 8}, {2, 3, 5, 8}) \cup PlaneGrids({2, 3}, {2, 3}) \cup SpaceGrids({2}, {1, 2})
WavesizesTested == {2, 4}
BinaryConditions(widths) ==
    {Condition("binary", "host", w) : w \in widths} \cup {Condition("binary", i, 1) : i \in {"path0", "path1", "wavesize"}}
SwitchConditions(widths) ==
    {Condition("switch", i, w) : i \in {"host", "path0", "path1", "wavesize"}, w \in widths}
WorkgroupWidths == {1, 2, 4, 8, WIDTH_WAVESIZE, WIDTH_ALL}
BranchTests ==
    [test : {"cbr", "ifthenelse"}, conds : [1..1 -> BinaryConditions(WorkgroupWidths)]]
    \cup [test : {"nested", "inthen", "inelse", "sand", "sor"}, conds : [1..2 -> BinaryConditions({1, WIDTH_WAVESIZE, WIDTH_ALL})]]
    \cup [test : {"inboth"}, conds : [1..3 -> BinaryConditions({1, WIDTH_ALL})]]
    \cup [test : {"sbr"}, conds : [1..1 -> SwitchConditions(WorkgroupWidths)]]
    \cup {[test |-> "sbr nested", conds |-> <<c, c2>>] :
            c, c2 \in {c \in SwitchConditions({1, WIDTH_WAVESIZE}) : c.input = "host" => c.width # 1}}

PlacesInGrid ==
    /\ input = Expecting
    /\ \E g \in SmallGrids, w \in WavesizesTested :
            input' = [kind |-> "grid", grid |-> g, wavesize |-> w]
Lanes ==
    /\ input = Expecting
    /\ \E g \in LaneGrids, w \in WavesizesTested, c, c2 \in BinaryConditions({1, 2, WIDTH_ALL}) :
            input' = [kind |-> "lanes", grid |-> g, wavesize |-> w, src |-> c, cond |-> c2]
TestBranches ==
    /\ input = Expecting
    /\ \E t \in BranchTests, w \in WavesizesTested :
            /\ t.test = "sbr nested" => IsValidNested(t.conds[1], t.conds[2])
            /\ input' = [kind |-> "branch", test |-> t.test, conds |-> t.conds, wavesize |-> w]
-----------------------------------------------------------------------------
(* Tests that are written with the emitter: kernels with a buffer of        *)
(* results and up to three more things; variables of every segment; calls   *)
(* of a few work-items, and of up to four functions; initializers; every    *)
(* test of linkage; and the tests of limits.                                *)
Kernargs ==
    {EVariable(<<"v", n, d>>, "kernarg", l, n, d, ElementsIn(d)) : n \in {1, 2, 8}, d \in {0, 3}, l \in {"auto"}}
Things(id) ==
    {[e EXCEPT !.id = id] : e \in Kernargs} \cup
    {EVariable(id, s, "auto", 4, 2, 0) : s \in {"group", "global"}} \cup
    {EBuffer(id, t) : t \in {"host input", "host result"}} \cup
    {[EImage(id, t, "kernarg") EXCEPT !.data = n] : t \in {"host input", "host output"}, n \in 0..1} \cup
    {ESampler(id, s) : s \in {"kernarg", "readonly"}} \cup
    {ESignal(id), EUserModeQueue(id, "separate"), EUserModeQueue(id, "user")}
Output == EBuffer("output", "host result")

Containers ==
    /\ input = Expecting
    /\ \/ \E x \in Things("x") : input' = [kind |-> "container", es |-> <<Output, x>>]
       \/ \E x \in Things("x"), y \in Things("y"), z \in Things("z") :
            input' = [kind |-> "container", es |-> <<Output, x, y, z>>]
       \/ \E s \in {"private", "spill", "group", "kernarg", "arg", "global", "readonly"},
             l \in {"auto", "kernel", "function", "module"}, output \in BOOLEAN :
            /\ output => s = "arg"
            /\ input' = [kind |-> "variable",
                         variable |-> [EVariable("v", s, l, 4, 0, 0) EXCEPT !.output = output]]
FunctionCalls ==
    /\ input = Expecting
    /\ \/ \E wi \in 0..11, bits \in {8, 16}, functions \in 1..4 :
            input' = [kind |-> "call", wi |-> wi, bits |-> bits, functions |-> functions]
       \/ \E grid \in 1..4, dim \in 0..9 : input' = [kind |-> "formals", grid |-> grid, dim |-> dim]
       \/ \E grid \in 1..3, dim \in 0..3, size \in {1, 2, 4, 8, 16} :
            input' = [kind |-> "initializer", grid |-> grid, dim |-> dim, size |-> size]
       \/ \E t \in LinkageTests : input' = [kind |-> "linkage", test |-> t]
ImageLimitTests ==
    [of : {"ro", "rw", "wo"}, geometry : Geometries, order : Orders, type : ChannelTypes, numberRW : {0}]
    \cup [of : {"combine"}, geometry : Geometries, order : Orders, type : ChannelTypes, numberRW : 0..4]
LimitsOfAgents ==
    /\ input = Expecting
    /\ \/ \E g \in Geometries : input' = [kind |-> "image size", geometry |-> g]
       \/ \E t \in ImageLimitTests : IsValidHandles(t) /\ input' = [kind |-> "handles", test |-> t]
       \/ \E m \in {"undefined", "edge", "border", "repeat", "mirrored"}, c \in {"normalized", "unnormalized"},
             f \in {"nearest", "linear"} :
            input' = [kind |-> "samplers", sampler |-> [addressing |-> m, coord |-> c, filter |-> f]]
       \/ \E s \in {"group", "private", "kernarg", "arg"}, wi \in 0..1 :
            input' = [kind |-> "segment", segment |-> s, wi |-> wi]
       \/ \E r \in {"s", "d", "q", "sdq", "c"} : input' = [kind |-> "registers", registers |-> r]
       \/ \E w \in 1..520 : input' = [kind |-> "wavesize", wavesize |-> w]
Configurations ==
    /\ input = Expecting
    /\ \E k \in 0..8, n \in {1, 2, 4, 8} :
          \/ input' = [kind |-> "geometries", wavesize |-> 2^k, wavesPerGroup |-> n]
          \/ n = 1 /\ \E op \in Atomicity!AtomicOps : input' = [kind |-> "atomics", wavesize |-> 2^k, op |-> op]
AddressesQueuesDirectives ==
    /\ input = Expecting
    /\ \/ \E t \in AddressTests : input' = [kind |-> "address test", test |-> t]
       \/ \E t \in DirectiveTests : input' = [kind |-> "directive", test |-> t]
       \/ \E t \in QueueTests, n \in 1..6 : input' = [kind |-> "queue", test |-> t, items |-> n]
-----------------------------------------------------------------------------
Next ==
    \/ Select \/ Integers \/ Bits \/ Packed
    \/ FloatPairs \/ FloatTriples \/ FloatsToIntegers \/ IntegersToFloats \/ RoundingTests
    \/ InstructionForms \/ TestData \/ TestMemory
    \/ Comparisons \/ ValuesInMemory
    \/ Texels \/ ImageReads
    \/ PlacesInGrid \/ Lanes \/ TestBranches
    \/ Containers \/ FunctionCalls \/ LimitsOfAgents \/ Configurations \/ AddressesQueuesDirectives
Spec == Init /\ [][Next]_input

Is(kind) == input.kind = kind
-----------------------------------------------------------------------------
(* The command line's filters select what their patterns denote: a suite or *)
(* a chapter as a whole, a test by the end of its name; -exclude leaves out *)
(* exactly what a filter of its lines would select; and filters compose.    *)
TestsSelected == Is("selection") =>
    /\ CategoriesSelectOn(Tree, input.tests, input.exclude)
    /\ input.exclude = <<>> => ComplementaryOn(Tree, input.tests)
    /\ FiltersComposeOn(Tree, input.tests, input.exclude)

(* The emulator's integer operations give the low bits of the exact result, *)
(* division rounds to zero and is refused where it is undefined, mulhi and  *)
(* carry are the rest of the product and of the sum; the operations that    *)
(* saturate give the nearest value, where C++ defines their overflow; what  *)
(* an atomic operation does to memory can be undone or told from it; and    *)
(* bit fields, shifts, reversals, counts and packed operations give what    *)
(* they mean bit by bit and element by element, combine undoing expand.     *)
IntegersExact ==
    /\ Is("integers") =>
        /\ ExactOn(input.type, input.a, input.b)
        /\ Mad24On(input.type, 3, 2, input.a, input.b)
        /\ OrderedOn(input.a, input.b) /\ AtomicsUndoneOn(input.type, input.a, input.b)
        /\ input.b # input.a => MemoryHandedOnOn(input.type, input.a, input.b)
        /\ HasNoOverflow(input.type) => SaturatesOn(input.type, input.a, input.b)
    /\ Is("bits") => BitsExactOn(input.type, input.a, input.b, input.c)
    /\ Is("packed") =>
        /\ PackedExactOn(input.type, Wider(input.type), input.a, input.b, 27)
        /\ PackedAgreesOn(input.type, Wider(input.type), input.a, input.b)

(* add, mul and fma of the emulator's own floating point are the exact      *)
(* result rounded once, to nearest and ties to even; NaNs and infinities    *)
(* propagate, and a signaling NaN is quieted.                               *)
FloatsRounded ==
    /\ Is("floats") =>
        /\ AddRounds(F, carrier, input.x, input.y)
        /\ MulRounds(F, carrier, input.x, input.y)
        /\ SpecialsPropagate(F, carrier, input.x, input.y)
    /\ Is("fma") => FmaRounds(F, carrier, input.x, input.y, input.z)

(* Conversions: rounding to a whole number, what halves do that are worked  *)
(* out as floats, conversions of integers and to integers, as far as adding *)
(* the delta for rounding is exact, and the form of results that arrays     *)
(* hold.  Comparisons follow the order of numbers and their opposites are   *)
(* complementary with NaNs; every value is of one class; and packing floats *)
(* into bytes rounds each.                                                  *)
FloatsConverted ==
    /\ Is("floats") =>
        /\ WholesOn(F, input.x)
        /\ ComparedOn(F, input.x, input.y) /\ ClassedOn(F, input.x)
        /\ PacksOn(F, carrier, word, IntType(3, FALSE, "narrow"), input.x, input.y)
        /\ NarrowOn(F, W, wideCarrier, input.x, input.y)
        /\ ResultsNormalOn(F, carrier, input.x, input.y)
    /\ Is("to integer") => \A mode \in Modes, sat \in BOOLEAN :
        AddsExactly(F, word, input.x, mode) =>
            /\ ConvertsOn(F, carrier, word, input.x, input.type, mode, sat)
            /\ SignalsOn(F, carrier, word, input.x, input.type, mode, sat)
    /\ Is("to float") => FromIntegersOn(F, carrier, input.type, input.i)

(* The generator takes every valid form of an instruction once and every    *)
(* valid value of its secondary properties; every combination of test       *)
(* values is tested once; the tests of one kernel agree in the values that  *)
(* are part of its code, and access disjoint memory inside the array they   *)
(* have, aligned as their instruction asks and no better; what the kernel   *)
(* loads and saves is where the host put it and looks for it; and the array *)
(* fits into the segment of any agent.                                      *)
TestsGenerated ==
    /\ Is("forms") => FormsOnceOn(input.prm, input.valid)
    /\ Is("data") => TestsOnceOn(input.operands, input.groupImms, input.rejected, input.limits)
    /\ Is("memory") => ArraysFitOn(input.inst, input.group)
    /\ Is("limit") => LimitHoldsOn(input.inst, input.groupSize)
    /\ Is("arguments") => ArgumentsFoundOn(input.first, input.last, input.mem)

(* A result passes against itself by every method, and no NaN or infinity   *)
(* passes for a number; ulps are counted as the steps from number to        *)
(* number; the verdict on a buffer is that of its values, with the worst    *)
(* one named; halves round once; values are read as they were written, and  *)
(* the position of an element is that of its coordinates alone; and         *)
(* the arena hands out no byte twice or outside its chunks, unless it is    *)
(* asked for more than a chunk holds.                                       *)
ValuesCompared ==
    /\ Is("comparison") =>
        /\ UlpsCountedOn(C, input.x, input.y)
        /\ ComparesSoundlyOn(C, Curve, Precisions, input.x, input.y)
        /\ NoOptionsCompareBitsOn(C, input.x, input.y) /\ SameOfAllSizesOn(C, input.x, input.y)
    /\ Is("floats") => HalvesRoundOn(F, W, wideCarrier, input.x, input.y)
    /\ Is("to float") =>
        HalfOfInteger(input.type.bits, F, carrier, input.i) = NearestOf(F, input.i * UnitsInOne(F), 1, FALSE)
    /\ Is("verdicts") => ValidatesOn(input.verdicts)
    /\ Is("values") => ReadsBackOn(input.type, input.values)
    /\ Is("packed") => IntegersComparedOn(input.type.bits, input.a, input.b)
    /\ Is("grid") => DimsDistinctOn(input.grid.grid)
    /\ Is("arena") => \A i \in DOMAIN input.requests :
          (\A j \in 1..i : Fits(input.requests[j])) =>
              BlocksApart(FoldLeft(LAMBDA a, n : IF n = 0 THEN Release(a) ELSE Malloc(a, n),
                                   NoChunks, SubSeq(input.requests, 1, i)))

(* What tests of images expect: a color inside the limits they compare      *)
(* with; a border as opaque as a texel without alpha; a texel stored as it  *)
(* was loaded, in all formats but two, and in                               *)
(* all the one value that the tests store; the texel that a coordinate      *)
(* means; no valid test reads one that is undefined; and tests of sizes and *)
(* of numbers of handles reach what an agent must support, and no further.  *)
ImagesExpected ==
    /\ Is("texel") => TexelsKeptOn(input.order, input.type, input.texel)
    /\ Is("store") => StoresOn(input.order, input.type, input.word) /\ BorderOn(input.order, input.type)
    /\ Is("format") => MandatoryOn(input.geometry, input.order, input.type, input.access)
    /\ Is("address") => AddressesOn(input.addressing, input.q, input.size)
    /\ Is("read") => LoadsInRangeOn(input.geometry, input.size)
    /\ Is("read") => ReadsDefinedOn(input.sampler, input.geometry, input.size, input.access, input.coordType)
    /\ Is("image size") => SizeReachedOn(input.geometry)
    /\ Is("handles") => HandlesReachedOn(input.test, ColorsOf(input.test), CreatedInOrder(Members(input.test)).buffer)
    /\ Is("samplers") => SamplersReachedOn(input.sampler)

(* What tests expect of a work-item is what its place in the grid gives it: *)
(* identifiers are found where it stores them, counts and masks are those   *)
(* of the lanes on its path, and a value that it compares with was stored   *)
(* before.  A kernel of branches takes every work-item to the result that   *)
(* the host expects, on the paths that the values of its conditions name;   *)
(* its labels are placed once; and the work-items that a branch is told to  *)
(* take alike have the same value.                                          *)
WorkItemsFound ==
    /\ Is("grid") => GridHoldsOn(input.grid, GridPoints(input.grid), Looped(input.grid), input.wavesize)
    /\ Is("lanes") =>
        LanesFoundOn(input.grid, GridPoints(input.grid),
                     TruePoints(input.src, input.grid, input.wavesize),
                     TruePoints(input.cond, input.grid, input.wavesize), input.wavesize)
    /\ Is("branch") => BranchesOn(input.test, input.conds, input.wavesize)

(* A test's commands find what they need, its kernel finds its arguments    *)
(* where it declared them, and every buffer of results is compared.         *)
ArgumentsFound ==
    /\ Is("container") => ArgumentsPlacedOn(input.es,
            {Brig("module")} \cup UNION {InitialContext(e) : e \in ToSet(input.es)})
    /\ Is("variable") => DeclaredOnceOn(input.variable)

(* The kernels of tests return what the host expects: through calls that    *)
(* recurse or select their target, arguments of any size, initializers, and *)
(* names that are defined in many places; tests of limits tell an agent    *)
(* that has enough from one that lacks something; nulls and addresses       *)
(* survive their conversion; indices of a queue are where it began; and a   *)
(* directive leaves the module that it stands in valid and its result as it *)
(* was.                                                                     *)
KernelsReturn ==
    /\ Is("call") => CallsReturnOn(input.wi, input.bits, input.functions)
    /\ Is("formals") => ArgumentsReturnOn(
            FunctionArguments(input.grid, input.dim), ExpectedArguments(input.grid, input.dim))
    /\ Is("initializer") => InitializersFoundOn(input.grid, input.dim, input.size)
    /\ Is("linkage") => LinkageResolvedOn(EmittedCode(CallsOf(input.test)), DispatchesOf(input.test))
    /\ Is("segment") => MemoryReachedOn(input.segment, input.wi)
    /\ Is("registers") => RegistersReachedOn(CreateRegisters(input.registers),
            LoadRegisters(LiveRegisters(input.registers)), LiveBuffer(input.registers))
    /\ Is("wavesize") => WavesizeReachedOn(input.wavesize)
    /\ Is("address test") => ConvertedOn(input.test)
    /\ Is("directive") => ModuleEmittedOn(input.test)
    /\ Is("queue") => IndicesExpectedOn(input.test, input.items)

(* The sets of geometries suit the tests that are made over them, for every *)
(* size of wavefronts, and what the tests of limits ask of an agent; every  *)
(* atomic operation is tested, by instructions that have it.                *)
TestsConfigured ==
    /\ Is("geometries") =>
        LET grids == GridsConfig(input.wavesize, input.wavesPerGroup)
        IN  /\ GeometriesSuitOn(input.wavesize, grids)
            /\ \A g \in grids.workgroup256 :
                  GroupSizeReachedOn([workgroupSize |-> WorkgroupSize(g), isPartial |-> isPartial(g)], g.group)
            /\ \A g \in grids.boundary24 : DimsReachedOn(g.grid)
            /\ EquivalenceReachedOn(input.wavesize)
    /\ Is("atomics") =>
        LET tests == AtomicTests(input.wavesize, input.op)
        IN  /\ AtomicsTestedOn(tests, input.op)
            /\ \A noret \in BOOLEAN : (\E t \in tests : t.case.noret = noret) =>
                  LET opcode == IF noret THEN "atomicnoret" ELSE "atomic"
                  IN  IsValidEquivalence(opcode, input.op) /\ EmitEquivInstruction(opcode) = ~noret
-----------------------------------------------------------------------------
(* What comments of the emulator say, and its code does not do.             *)

(* HSAILTestGenFpEmulator.cpp:248: with the delta it returns, the    *)
(* value is rounded properly, for every value the generator tests.          *)
TestValuesConverted == Is("rounding test") => \A sat \in BOOLEAN :
    ConvertsOn(F, carrier, word, input.x, input.type, input.mode, sat)
=============================================================================
