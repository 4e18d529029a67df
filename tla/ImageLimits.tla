----------------------------- MODULE ImageLimits -----------------------------
(***************************************************************************)
(* Tests of the limits of images (ImageLimitsTests.cpp): the largest image *)
(* of each geometry, as many images or samplers as an agent must have at   *)
(* once.  A kernel returns what it read, or false where a query or a       *)
(* comparison went wrong.  LIMIT is 6, or 4 of images that are written,    *)
(* where the code has 128 and 64; a test of samplers has 4 for 16.  An     *)
(* agent may lack something: what, is a parameter.                         *)
(***************************************************************************)
EXTENDS Images

NoLack == [of |-> "none", at |-> 0]

\* The coordinates that a geometry has, of x, y, z and the index of an array.
CreateCoordList(geometry, c) ==
    CASE geometry \in {"1D", "1DB"} -> <<c.x>>
      [] geometry = "1DA" -> <<c.x, c.a>>
      [] geometry \in {"2D", "2DDEPTH"} -> <<c.x, c.y>>
      [] geometry = "3D" -> <<c.x, c.y, c.z>>
      [] geometry \in {"2DA", "2DADEPTH"} -> <<c.x, c.y, c.a>>
ImageGeometryDims(geometry) ==
    CASE geometry \in {"1D", "1DA", "1DB"} -> 1
      [] geometry \in {"2D", "2DA", "2DDEPTH", "2DADEPTH"} -> 2
      [] geometry = "3D" -> 3
IsImageGeometryArray(geometry) == geometry \in {"1DA", "2DA", "2DADEPTH"}
-----------------------------------------------------------------------------
(* The largest image.  Its only texels with a value are the first and the   *)
(* last, which the scenario writes before the kernel runs.                  *)
LimitWidth(geometry) ==
    CASE geometry \in {"1D", "2D", "2DDEPTH"} -> 16384
      [] geometry \in {"1DA", "2DA", "2DADEPTH"} -> 1
      [] geometry = "1DB" -> 65536
      [] geometry = "3D" -> 2048
LimitHeight(geometry) ==
    CASE geometry \in {"1D", "1DA", "1DB"} -> 0
      [] geometry \in {"2D", "2DDEPTH"} -> 16384
      [] geometry \in {"2DA", "2DADEPTH"} -> 1
      [] geometry = "3D" -> 2048
LimitDepth(geometry) == IF geometry = "3D" THEN 2048 ELSE 0
LimitArraySize(geometry) == IF IsImageGeometryArray(geometry) THEN 2048 ELSE 0

ImageSpec(geometry) ==
    [width |-> Larger(LimitWidth(geometry), 1), height |-> Larger(LimitHeight(geometry), 1),
     depth |-> Larger(LimitDepth(geometry), 1), array |-> Larger(LimitArraySize(geometry), 1)]
FirstRegion == <<0, 0, 0>>
\* Arrays have their index in the place of the first coordinate they lack.
LastRegion(geometry) ==
    LET spec == ImageSpec(geometry)
    IN  <<spec.width - 1,
          IF geometry = "1DA" THEN spec.array - 1 ELSE spec.height - 1,
          IF geometry \in {"2DA", "2DADEPTH"} THEN spec.array - 1 ELSE spec.depth - 1>>
INITIAL_VALUE == 5
ScenarioImageWrite(geometry) ==
    [region \in {FirstRegion, LastRegion(geometry)} |->
        PackChannelDataToMemoryFormat("A", Type("unsigned", 8), [i \in 1..4 |-> INITIAL_VALUE])]

QueriesOf(geometry) ==
    {<<"width", LimitWidth(geometry)>>}
    \cup (IF ImageGeometryDims(geometry) >= 2 THEN {<<"height", LimitHeight(geometry)>>} ELSE {})
    \cup (IF ImageGeometryDims(geometry) >= 3 THEN {<<"depth", LimitDepth(geometry)>>} ELSE {})
    \cup (IF IsImageGeometryArray(geometry) THEN {<<"array", LimitArraySize(geometry)>>} ELSE {})
Lasting(limit) == IF limit = 0 THEN 0 ELSE limit - 1
CoordsRead(geometry) ==
    {CreateCoordList(geometry, [x |-> 0, y |-> 0, z |-> 0, a |-> 0]),
     CreateCoordList(geometry, [x |-> Lasting(LimitWidth(geometry)), y |-> Lasting(LimitHeight(geometry)),
                                z |-> Lasting(LimitDepth(geometry)), a |-> Lasting(LimitArraySize(geometry))])}
\* A texel of the agent; the coordinates that it lacks are 0, and those beyond its reach read 0.
TexelAt(memory, coords, reach) ==
    LET p == [k \in 1..3 |-> IF k \in DOMAIN coords THEN coords[k] ELSE 0]
    IN  IF p \in DOMAIN memory /\ \A k \in 1..3 : p[k] < reach THEN memory[p] ELSE 0
ImageSizeLimitTest(geometry, memory, size, reach) ==
    /\ \A q \in QueriesOf(geometry) : size[q[1]] = q[2]
    /\ \A coords \in CoordsRead(geometry) :
          LoadColorData("A", Type("unsigned", 8), TexelAt(memory, coords, reach))[4] = INITIAL_VALUE
-----------------------------------------------------------------------------
(* Many images, of one texel each.  The kernel finds their handles in a     *)
(* buffer that the scenario fills when it creates it.                       *)
InitialValue == 3 * 2^6 + 3
StoreValue == 73
ImageLIMIT(test) == IF test.of = "ro" THEN 6 ELSE 4
Accesses(test) ==
    [i \in 1..ImageLIMIT(test) |-> IF test.of # "combine" THEN test.of ELSE IF i <= test.numberRW THEN "rw" ELSE "wo"]
IsValidHandles(test) == IsImageLegal(test.geometry, test.order, test.type) /\ (test.of = "combine" => test.numberRW <= ImageLIMIT(test))
\* The word, cut to the size of a texel.
InitialTexel(order, t) ==
    IF t.kind = "packed" THEN GenMemValue(order, t, InitialValue % 2^(Packing(t)[1] + Packing(t)[2] + Packing(t)[3]))
    ELSE IF IsPair(order, t) THEN [l |-> InitialValue, h |-> 0]
    ELSE GenMemValue(order, t, InitialValue % 2^(Width(t.bits) * Len(ChannelsStored(order))))

\* The members of the kernel in their order: the buffer comes after the images, whose handles it holds.
Members(test) == [i \in 1..ImageLIMIT(test) |-> [kind |-> "image", number |-> i]] \o <<[kind |-> "buffer"]>>
CreatedInOrder(members) ==
    FoldLeft(LAMBDA st, e :
                IF e.kind = "image" THEN [st EXCEPT !.handles = Append(@, e.number)] ELSE [st EXCEPT !.buffer = st.handles],
             [handles |-> <<>>, buffer |-> <<>>], members)

StoredColor(t) == [k \in 1..4 |-> ColorOf(t, StoreValue)]
Elements(geometry, colors) == IF IsImageDepth(geometry) THEN <<colors[1]>> ELSE colors
StoreElement(test) == Elements(test.geometry, [k \in 1..4 |-> StoreValue])
\* What an agent that stores and loads as the host's calculator does loads
\* from an image; and what the calculator expects of a store, the first
\* channel of which is the kernel's RegVal.
ColorsOf(test) ==
    [ro |-> LoadColorData(test.order, test.type, InitialTexel(test.order, test.type)),
     rw |-> LoadColorData(test.order, test.type,
                PackChannelDataToMemoryFormat(test.order, test.type, StoredColor(test.type))),
     stored |-> ExpectedOfStore(test.order, test.type, StoreValue)]
\* An agent that lacks this image has another color.
EmitImageLd(test, color, lack, i) ==
    IF lack = [of |-> "texel", at |-> i] THEN Elements(test.geometry, [k \in 1..4 |-> Undef]) ELSE color
\* The zeros that the kernel returns when it has left its loop.
FalseResult(test) ==
    IF test.of = "combine" THEN <<0>>
    ELSE Elements(test.geometry, [k \in 1..4 |-> IF test.of = "wo" THEN 0 ELSE color_zero(test.type)])
HandleStep(test, colors, handles, lack, st, i) ==
    IF st.left \/ i > Len(handles) \/ lack = [of |-> "query", at |-> handles[i]]
    THEN [left |-> TRUE, result |-> FalseResult(test)]
    ELSE CASE test.of = "ro" -> [st EXCEPT !.result = EmitImageLd(test, colors.ro, lack, handles[i])]
           [] test.of = "rw" -> [st EXCEPT !.result = EmitImageLd(test, colors.rw, lack, handles[i])]
           [] test.of = "wo" -> [st EXCEPT !.result = StoreElement(test)]
           [] test.of = "combine" /\ i > test.numberRW -> st
           [] OTHER -> IF EmitImageLd(test, colors.rw, lack, handles[i])[1] = colors.stored[1] THEN st
                       ELSE [left |-> TRUE, result |-> FalseResult(test)]
Result(test, colors, handles, lack) ==
    FoldLeft(LAMBDA st, i : HandleStep(test, colors, handles, lack, st, i),
             [left |-> FALSE, result |-> <<1>>], [i \in 1..ImageLIMIT(test) |-> i]).result
ExpectedOfHandles(test, colors) ==
    CASE test.of = "ro" -> colors.ro
      [] test.of = "rw" -> colors.stored
      [] test.of = "wo" -> StoreElement(test)
      [] test.of = "combine" -> <<1>>
-----------------------------------------------------------------------------
(* Many samplers of the same parameters, and an image of one texel, which   *)
(* is read at 0.  Colors are in 64ths of the texel.                         *)
SamplerLIMIT == 4
IsValidSamplers(s) ==
    /\ IsSamplerLegal(s.coord, s.addressing)
    /\ ~(s.filter = "linear" /\ s.addressing = "undefined")
OneTexel == <<1, 1, 1, 1>>
AtZero == [k \in 1..3 |-> Frac4(0, 1)]
ReadColor(s) ==
    MapThenSumSet(LAMBDA taps : IF OutOfRange(OneTexel, taps) THEN 0 ELSE (taps[1][2] * taps[2][2]) * taps[3][2],
                  EmulateImageRd(s, "1D", OneTexel, AtZero))
SamplerHandlesNumber(s, samplers) ==
    \A i \in 1..SamplerLIMIT : samplers[i].filter = s.filter /\ ReadColor(samplers[i]) = ReadColor(s)
-----------------------------------------------------------------------------

(* An agent that has what the limits ask passes their tests, and one that   *)
(* lacks it fails, where the kernel looks (ImageLimitsTests.cpp).           *)

(* The kernel's queries are those of the image that is created, and the     *)
(* texels that it reads are those that the scenario wrote; an agent that is *)
(* one short in any direction, as its queries or as its texels tell, fails. *)
ReachedIn(geometry, memory, spec) ==
    LET largest == CHOOSE n \in {spec[d] : d \in DOMAIN spec} : \A d \in DOMAIN spec : spec[d] <= n
        Passes(size, reach) == ImageSizeLimitTest(geometry, memory, size, reach)
    IN  /\ Passes(spec, largest) /\ ~Passes(spec, largest - 1)
        /\ \A d \in DOMAIN spec : spec[d] > 1 => ~Passes([spec EXCEPT ![d] = @ - 1], largest)
SizeReachedOn(geometry) == ReachedIn(geometry, ScenarioImageWrite(geometry), ImageSpec(geometry))

(* Every handle is in the buffer when the kernel loads it; and the result   *)
(* is what the host expects, unless a query fails or a texel that the       *)
(* kernel looks at: the last image's, or in a test of both kinds any that   *)
(* is loaded; none that is only stored.  The failure of a query is not told *)
(* where the zeros it returns are the color that is expected.               *)
Observed(test) ==
    CASE test.of \in {"ro", "rw"} -> {ImageLIMIT(test)} [] test.of = "wo" -> {} [] OTHER -> 1..test.numberRW
HandlesReachedOn(test, colors, handles) ==
    IsValidHandles(test) =>
        LET expected == ExpectedOfHandles(test, colors) IN
        /\ Result(test, colors, handles, NoLack) = expected
        /\ test.of = "combine" => Observed(test) = {i \in 1..ImageLIMIT(test) : Accesses(test)[i] = "rw"}
        /\ \A i \in 1..ImageLIMIT(test) :
              /\ Result(test, colors, handles, [of |-> "query", at |-> i]) = expected => expected = FalseResult(test)
              /\ Result(test, colors, handles, [of |-> "texel", at |-> i]) # expected <=> i \in Observed(test)

(* The color that a valid sampler reads is defined, and is that of the      *)
(* texel its addressing means; a sampler of another filter is told.         *)
SamplersReachedOn(s) ==
    IsValidSamplers(s) =>
        LET all == [i \in 1..SamplerLIMIT |-> s]
            other == [s EXCEPT !.filter = IF s.filter = "linear" THEN "nearest" ELSE "linear"]
        IN  /\ \A taps \in EmulateImageRd(s, "1D", OneTexel, AtZero) : LoadsDefined(s, "1D", OneTexel, taps)
            /\ ReadColor(s) = IF s.filter = "linear" /\ s.addressing = "border" THEN 32 ELSE 64
            /\ SamplerHandlesNumber(s, all)
            /\ \A i \in 1..SamplerLIMIT : ~SamplerHandlesNumber(s, [all EXCEPT ![i] = other])
=============================================================================
