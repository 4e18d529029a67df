------------------------------- MODULE Images -------------------------------
(***************************************************************************)
(* What a test expects of an image (EImageCalc and EImage in Emitter.cpp,  *)
(* the formats of Utils.cpp, the tests of image/): the layout of a texel,  *)
(* the conversion of its channels, the addressing and filtering of         *)
(* coordinates.  All texels of a test's image have one value.  Channels of *)
(* 8, 16, 24 and 32 bits are 3, 4, 6 and 10 wide here, so that TLC can     *)
(* take every value; 24 bits are as many as a float holds exactly, there   *)
(* and here.  The curve of the sRGB orders is left out, and they with it.  *)
(***************************************************************************)
EXTENDS FpEmulator, Sequences, SequencesExt, FiniteSetsExt

Type(kind, bits) == [kind |-> kind, bits |-> bits]
Width(bits) == CASE bits = 8 -> 3 [] bits = 16 -> 4 [] bits = 24 -> 6 [] bits = 32 -> 10
\* The widths of red, green and blue of a packed type.
Packing(t) == CASE t.bits = 555 -> <<2, 2, 2>> [] t.bits = 565 -> <<2, 3, 2>> [] t.bits = 101010 -> <<3, 3, 3>>
f32 == Format(5, 4)
f16 == Format(1, 2)
imageCarrier == 16

-----------------------------------------------------------------------------
(* The formats: what is legal (IsImageLegal), what an agent may refuse      *)
(* (IsImageOptional), and the type in which a kernel sees a channel.        *)
Normalized8And16 == {Type(k, b) : k \in {"snorm", "unorm"}, b \in {8, 16}}
Integers8To32 == {Type(k, b) : k \in {"signed", "unsigned"}, b \in {8, 16, 32}}
FloatingTypes == {Type("half", 16), Type("float", 32)}
PackedTypes == {Type("packed", b) : b \in {555, 565, 101010}}
ChannelTypes == Normalized8And16 \cup Integers8To32 \cup FloatingTypes \cup PackedTypes \cup {Type("unorm", 24)}

IsImageDepth(geometry) == geometry \in {"2DDEPTH", "2DADEPTH"}
IsImageLegal(geometry, order, t) ==
    IF IsImageDepth(geometry)
    THEN \/ order = "DEPTH" /\ t \in {Type("unorm", 16), Type("unorm", 24), Type("float", 32)}
         \/ order = "DEPTH_STENCIL" /\ t \in {Type("unorm", 24), Type("float", 32)}
    ELSE \/ order \in {"A", "R", "RX", "RG", "RGX", "RA", "RGBA"}
              /\ t \in Normalized8And16 \cup Integers8To32 \cup FloatingTypes
         \/ order \in {"RGB", "RGBX"} /\ t \in PackedTypes
         \/ order \in {"BGRA", "ARGB", "ABGR"} /\ t.bits = 8
         \/ order \in {"INTENSITY", "LUMINANCE"} /\ t \in Normalized8And16 \cup FloatingTypes
IsImageOptional(geometry, order, t, access) ==
    ~ IF IsImageDepth(geometry)
      THEN order = "DEPTH" /\ access # "rw" /\ t \in {Type("unorm", 16), Type("float", 32)}
      ELSE \/ /\ order \in {"R", "RGBA"} \/ (order = "RG" /\ access # "rw")
              /\ \/ t \in {Type("unorm", 8)} \cup Integers8To32 \cup FloatingTypes
                 \/ access # "rw" /\ t \in Normalized8And16
           \/ order = "BGRA" /\ access # "rw" /\ t = Type("unorm", 8)
ImageAccessType(t) ==
    CASE t.kind = "signed" -> "s32" [] t.kind = "unsigned" -> "u32" [] OTHER -> "f32"
-----------------------------------------------------------------------------
(* Conversions of one channel.  A color is a float, or the integer a word   *)
(* of 32 bits holds; word is the pattern of bits it has in a register.      *)
Field(texel, at, bits) == (texel \div 2^at) % 2^bits
FloatOf(F, word) == Float(word >= 2^(F.e + F.m), (word \div HIDDEN(F)) % Pow(F.e), word % HIDDEN(F))
WordOf(F, x) == (IF x.neg THEN 2^(F.e + F.m) ELSE 0) + Index(F, x)
FromInt(i) == NearestOf(f32, i * UnitsInOne(f32), 1, FALSE)
ToInt(x) == SignOf(Units(f32, x)) * (AbsOf(Units(f32, x)) \div UnitsInOne(f32))
AtLeastOne(x) == Units(f32, x) >= UnitsInOne(f32)
Clamped(i, least, greatest) == IF i < least THEN least ELSE IF i > greatest THEN greatest ELSE i

SignExtend(c, n) == IF c >= 2^(n - 1) THEN c - 2^n ELSE c
ToOne(f) == IF AtLeastOne(abs(f)) THEN FromInt(IF f.neg THEN -1 ELSE 1) ELSE f
LoadNormalized(i, scale) == ToOne(HostDivide(f32, FromInt(i), FromInt(scale)))
StoreNormalized(x, scale, least) ==
    IF isNan(f32, x) THEN 0
    ELSE IF AtLeastOne(x) THEN scale
    ELSE IF Units(f32, x) <= (IF least = 0 THEN 0 ELSE -UnitsInOne(f32)) THEN least
    ELSE Clamped(ToInt(mul(f32, imageCarrier, x, FromInt(scale), "near")), least, scale)

NormalizedScale(t) == 2^(Width(t.bits) - (IF t.kind = "snorm" THEN 1 ELSE 0)) - 1
ConvertRawData(t, c) ==
    LET n == Width(t.bits) IN
    CASE t.kind = "snorm" \/ t.kind = "unorm" ->
            LoadNormalized(IF t.kind = "snorm" THEN SignExtend(c, n) ELSE c, NormalizedScale(t))
      [] t.kind = "signed" -> SignExtend(c, n)
      [] t.kind = "unsigned" -> c
      [] t.kind = "half" -> convertProp2RawBits(f16, f32, imageCarrier, FloatOf(f16, c), "near")
      [] t.kind = "float" -> FloatOf(f32, c)
StoredSigned(i, n) == Clamped(i, -(2^(n - 1)), 2^(n - 1) - 1) % 2^n
ConvertionStore(t, color) ==
    LET n == Width(t.bits) IN
    CASE t.kind = "snorm" \/ t.kind = "unorm" ->
            StoreNormalized(color, NormalizedScale(t), IF t.kind = "snorm" THEN -(2^(n - 1)) ELSE 0) % 2^n
      [] t.kind = "signed" -> StoredSigned(color, n)
      [] t.kind = "unsigned" -> Clamped(color, 0, 2^n - 1)
      [] t.kind = "half" -> WordOf(f16, convertProp2RawBits(f32, f16, imageCarrier, color, "near"))
      [] t.kind = "float" -> WordOf(f32, color)

\* What a register's bits are as the color that a test stores.
ColorOf(t, word) ==
    CASE ImageAccessType(t) = "s32" -> SignExtend(word, Width(32))
      [] ImageAccessType(t) = "u32" -> word
      [] OTHER -> FloatOf(f32, word)
color_zero(t) == IF ImageAccessType(t) = "f32" THEN Zero(FALSE) ELSE 0
color_one(t) == IF ImageAccessType(t) = "f32" THEN FromInt(1) ELSE 1
-----------------------------------------------------------------------------
(* The layout of a texel: a word, but of RGBA with 32 bits a channel a pair *)
(* of words.                                                                *)
ChannelsStored(order) ==
    CASE order = "A" -> <<4>>
      [] order \in {"R", "RX", "INTENSITY", "LUMINANCE", "DEPTH", "DEPTH_STENCIL"} -> <<1>>
      [] order \in {"RG", "RGX"} -> <<1, 2>>
      [] order = "RA" -> <<1, 4>>
      [] order = "RGBA" -> <<1, 2, 3, 4>>
      [] order = "BGRA" -> <<3, 2, 1, 4>>
      [] order = "ARGB" -> <<4, 1, 2, 3>>
      [] order = "ABGR" -> <<4, 3, 2, 1>>
IsPair(order, t) == order = "RGBA" /\ t.bits = 32
Joined(s, n) == FoldLeft(LAMBDA texel, c : texel * 2^n + c, 0, Reverse(s))

\* c holds the words of red, green and blue.
PackedTexel(t, c) ==
    LET at == CASE t.bits = 555 -> <<4, 2>> [] t.bits = 565 -> <<5, 3>> [] t.bits = 101010 -> <<6, 3>>
        \* | of r and g, which share a bit where green is shifted too far
        shared == IF t.bits = 565 THEN Field(c[1], 0, 1) * Field(c[2], 2, 1) * 2^at[1] ELSE 0
    IN  (c[1] * 2^at[1] + c[2] * 2^at[2] - shared) + c[3]
TexelOf(order, t, raw) ==
    IF t.kind = "packed" THEN PackedTexel(t, raw)
    ELSE IF IsPair(order, t)
    THEN [l |-> Joined(SubSeq(raw, 1, 2), Width(32)), h |-> Joined(SubSeq(raw, 3, 4), Width(32))]
    ELSE Joined(raw, Width(t.bits))
PackChannelDataToMemoryFormat(order, t, color) ==
    TexelOf(order, t,
        IF t.kind = "packed" THEN [i \in 1..3 |-> StoreNormalized(color[i], 2^Packing(t)[i] - 1, 0)]
        ELSE [i \in DOMAIN ChannelsStored(order) |-> ConvertionStore(t, color[ChannelsStored(order)[i]])])

GetRawChannelData(order, t, texel, channel) ==
    LET n == Width(t.bits) IN
    IF IsPair(order, t) THEN Field(IF channel < 2 THEN texel.h ELSE texel.l, (channel % 2) * n, n)
    ELSE Field(texel, channel * n, n)
UnpackedTexel(t, texel) ==
    LET w == Packing(t)
    IN  [i \in 1..3 |-> LoadNormalized(Field(texel, <<w[2] + w[3], w[3], 0>>[i], w[i]), 2^w[i] - 1)]
\* What each component is loaded from: a channel, or the constants zero and one.
ZERO == -2
ONE == -1
ChannelsLoaded(order) ==
    CASE order = "A" -> <<ZERO, ZERO, ZERO, 0>>
      [] order \in {"R", "RX"} -> <<0, ZERO, ZERO, ONE>>
      [] order \in {"RG", "RGX"} -> <<0, 1, ZERO, ONE>>
      [] order = "RA" -> <<0, ZERO, ZERO, 1>>
      [] order = "RGBA" -> <<0, 1, 2, 3>>
      [] order = "BGRA" -> <<2, 1, 0, 3>>
      [] order = "ARGB" -> <<1, 2, 3, 0>>
      [] order = "ABGR" -> <<3, 2, 1, 0>>
      [] order = "INTENSITY" -> <<0, 0, 0, 0>>
      [] order = "LUMINANCE" -> <<0, 0, 0, ONE>>
      [] order \in {"DEPTH", "DEPTH_STENCIL"} -> <<0>>
LoadColorData(order, t, texel) ==
    IF t.kind = "packed" THEN Append(UnpackedTexel(t, texel), color_one(t))
    ELSE [i \in DOMAIN ChannelsLoaded(order) |->
            CASE ChannelsLoaded(order)[i] = ZERO -> color_zero(t)
              [] ChannelsLoaded(order)[i] = ONE -> color_one(t)
              [] OTHER -> ConvertRawData(t, GetRawChannelData(order, t, texel, ChannelsLoaded(order)[i]))]
LoadBorderData(order, t) ==
    LET zero == color_zero(t)
    IN  <<zero, zero, zero, IF order \in {"R", "RG", "RGB", "LUMINANCE"} THEN color_one(t) ELSE zero>>

\* The value that an image is made of: of four channels of 8 bits the upper half, twice.
GenMemValue(order, t, texel) ==
    IF order \in {"RGBA", "BGRA", "ARGB", "ABGR"} /\ t.bits = 8
    THEN Field(texel, 2 * Width(8), 2 * Width(8)) * (2^(2 * Width(8)) + 1)
    ELSE texel

\* ImageStTest: one word is stored in all channels, and loaded.
ExpectedOfStore(order, t, word) ==
    LoadColorData(order, t, GenMemValue(order, t,
        PackChannelDataToMemoryFormat(order, t, [i \in 1..4 |-> ColorOf(t, word)])))
-----------------------------------------------------------------------------
(* Addressing.  A coordinate is in quarters of a texel.                     *)
ASSERT == -1
IsSamplerLegal(coord, addressing) == addressing \in {"repeat", "mirrored"} => coord = "normalized"
GetTexelIndex(addressing, q, size) ==
    LET inside == 0 <= q /\ q < 4 * size
        mirrored == IF q < 0 THEN -q - 4 ELSE q
        Tile(r) == (r \div 4) - size * (r \div (4 * size))
    IN  IF inside THEN q \div 4
        ELSE CASE addressing = "undefined" -> ASSERT
               [] addressing = "edge" -> IF q < 0 THEN 0 ELSE size - 1
               [] addressing = "border" -> size
               [] addressing = "repeat" -> Clamped(Tile(q), 0, size - 1)
               [] addressing = "mirrored" ->
                    LET r == Clamped(Tile(mirrored), 0, size - 1)
                    IN  IF (mirrored \div (4 * size)) % 2 = 1 THEN (size - 1) - r ELSE r
GetTexelArrayIndex(q, size) == IF q < 0 THEN 0 ELSE IF q > 4 * (size - 1) THEN size - 1 ELSE q \div 4

Dims(geometry) ==
    CASE geometry \in {"1D", "1DB"} -> 1
      [] geometry \in {"1DA", "2D", "2DDEPTH"} -> 2
      [] geometry \in {"3D", "2DA", "2DADEPTH"} -> 3
ArrayCoord(geometry) == CASE geometry = "1DA" -> 2 [] geometry \in {"2DA", "2DADEPTH"} -> 3 [] OTHER -> 0
Frac4(num, den) == [num |-> num, den |-> den]
UnnormalizeCoord(s, c, size) ==
    (IF s.coord = "normalized" THEN ((4 * c.num) * size) \div c.den ELSE (4 * c.num) \div c.den)
        - (IF s.filter = "linear" THEN 2 ELSE 0)

\* EmulateImageRd: the one or two texels of a coordinate, with their weights in quarters.
Taps(s, geometry, size, coords, k) ==
    IF k > Dims(geometry) THEN {<<0, 4, 0>>}
    ELSE IF k = ArrayCoord(geometry) THEN {<<GetTexelArrayIndex((4 * coords[k].num) \div coords[k].den, size[k]), 4, 0>>}
    ELSE LET u == UnnormalizeCoord(s, coords[k], size[k])
         IN  IF s.filter = "nearest" THEN {<<GetTexelIndex(s.addressing, u, size[k]), 4, 0>>}
             ELSE {<<GetTexelIndex(s.addressing, u, size[k]), 4 - (u % 4), 0>>,
                   <<GetTexelIndex(s.addressing, u + 4, size[k]), u % 4, 1>>}
EmulateImageRd(s, geometry, size, coords) ==
    Taps(s, geometry, size, coords, 1) \X Taps(s, geometry, size, coords, 2)
        \X Taps(s, geometry, size, coords, 3)
OutOfRange(size, taps) == \E k \in 1..3 : taps[k][1] >= size[k]
\* LoadTexel's assertions.
LoadsDefined(s, geometry, size, taps) ==
    /\ \A k \in 1..3 : taps[k][1] # ASSERT
    /\ OutOfRange(size, taps) => s.addressing = "border" /\ ~IsImageDepth(geometry)
-----------------------------------------------------------------------------
(* ImageRdTest: an image as large as the grid, that each work-item reads at *)
(* its own coordinates; size[4] is that of the array.                       *)
IsImageGeometrySupported(geometry, size) ==
    CASE geometry \in {"1D", "1DB"} -> size[2] = 1 /\ size[3] = 1 /\ size[4] = 1
      [] geometry = "1DA" -> size[2] = 1 /\ size[3] = 1 /\ size[4] > 1
      [] geometry \in {"2D", "2DDEPTH"} -> size[2] > 1 /\ size[3] = 1 /\ size[4] = 1
      [] geometry = "2DA" -> size[2] > 1 /\ size[3] = 1 /\ size[4] > 1
      [] geometry = "2DADEPTH" -> size[3] = 1
      [] geometry = "3D" -> size[2] > 1 /\ size[3] > 1 /\ size[4] = 1
AvoidsBorder(s, geometry) ==
    s.filter = "linear" /\ (s.addressing = "undefined" \/ (s.addressing = "border" /\ IsImageDepth(geometry)))
IgnoresSlim(geometry, size) == TRUE    \* a variation
\* The depth of a 3D image is not looked at, but the size of its array, which is one.
WideEnough(geometry, size) ==
    CASE geometry \in {"1D", "1DA"} -> size[1] > 1
      [] geometry \in {"2D", "2DA", "2DDEPTH", "2DADEPTH"} -> size[1] > 1 /\ size[2] > 1
      [] geometry = "3D" -> size[1] > 1 /\ size[2] > 1 /\ size[4] > 1
IsValidRd(s, geometry, size, access, coordType) ==
    /\ s.filter = "linear" => access = "f32" /\ coordType = "f32"
    /\ s.coord = "normalized" => coordType = "f32"
    /\ geometry # "1DB"
    /\ AvoidsBorder(s, geometry) => WideEnough(geometry, size)
    /\ IsSamplerLegal(s.coord, s.addressing)
    /\ IsImageGeometrySupported(geometry, size)

\* ExpectedResults, and GetCoords of the kernel.
HostCoords(s, geometry, size, coordType, id) ==
    [k \in 1..3 |->
        LET free == coordType = "f32" /\ k # ArrayCoord(geometry)
        IN  Frac4(IF free /\ AvoidsBorder(s, geometry) THEN Larger(id[k], 1) ELSE id[k],
                  IF free /\ s.coord = "normalized" THEN size[k] ELSE 1)]
KernelCoords(s, geometry, size, coordType, id) ==
    LET dims == 1..Dims(geometry)
        gid == [k \in dims |-> IF coordType = "f32" /\ AvoidsBorder(s, geometry) /\ k # ArrayCoord(geometry)
                               THEN Larger(id[k], 1) ELSE id[k]]
    IN  [k \in dims |-> Frac4(gid[k], IF coordType = "f32" /\ s.coord = "normalized" /\ k # ArrayCoord(geometry)
                                      THEN size[k] ELSE 1)]

\* ImageLdTest and ImageStTest: no sampler, so the coordinates are a work-item's own.
LoadKernelCoords(geometry, id) == [k \in 1..Dims(geometry) |-> id[k]]
LoadHostCoords(id) == id
EmulateImageLd(size, coords) == \A k \in 1..3 : coords[k] < size[k]

\* The limits that the tests set for results, if any.
ResultLimits(t) ==
    CASE t.kind = "snorm" -> <<-UnitsInOne(f32), UnitsInOne(f32)>>
      [] t.kind \in {"unorm", "packed"} -> <<0, UnitsInOne(f32)>>
      [] OTHER -> <<>>
WithinLimits(t, colors) ==
    ResultLimits(t) # <<>> =>
        \A i \in DOMAIN colors : Units(f32, colors[i]) \in ResultLimits(t)[1]..ResultLimits(t)[2]
-----------------------------------------------------------------------------
(* What these must satisfy.                                                 *)

\* Which texel a coordinate means, by the tiles of the plane.
IndexMeant(addressing, q, size) ==
    LET i == q \div 4
        j == i % (2 * size)
    IN  IF i \in 0..(size - 1) THEN i
        ELSE CASE addressing = "undefined" -> ASSERT
               [] addressing = "edge" -> Clamped(i, 0, size - 1)
               [] addressing = "border" -> size
               [] addressing = "repeat" -> i % size
               [] addressing = "mirrored" -> IF j < size THEN j ELSE 2 * size - 1 - j
\* Left of -1, mirroring is right of whole coordinates only; no test reads there.
AddressesOn(addressing, q, size) ==
    (addressing = "mirrored" => q >= -4 \/ q % 4 = 0) =>
        GetTexelIndex(addressing, q, size) = IndexMeant(addressing, q, size)

\* A texel is stored as it is loaded, but in two formats, where the same value in all channels is.
IsNumber(t, c) ==
    /\ t.kind = "half" => Finite(f16, FloatOf(f16, c))
    /\ t.kind = "float" => Finite(f32, FloatOf(f32, c)) /\ ~isSubnormal(FloatOf(f32, c))
AsColors(order, s) == IF order \in {"DEPTH", "DEPTH_STENCIL"} THEN <<s[1]>> ELSE s
KeptAs(order, t, color) ==
    /\ WithinLimits(t, color)
    /\ ~IsPair(order, t) /\ t.bits # 565 =>
          AsColors(order, LoadColorData(order, t, PackChannelDataToMemoryFormat(order, t,
              color \o SubSeq(<<color_zero(t), color_zero(t), color_zero(t)>>, 1, 4 - Len(color))))) = color
TexelsKeptOn(order, t, texel) == KeptAs(order, t, LoadColorData(order, t, texel))
\* Integers are stored as the nearest the channel holds, normalized floats less than a step away.
LeastStep(t) == UnitsInOne(f32) \div (2^(Width(t.bits) - 1) - 1) + 1
StoresNear(t, color, shown) ==
    CASE t.kind \in {"signed", "unsigned"} /\ t.bits < 32 ->
            \A c \in 0..(2^Width(t.bits) - 1) : Distance(shown, color) <= Distance(ConvertRawData(t, c), color)
      [] t.kind \in {"snorm", "unorm"} ->
            Distance(Units(f32, shown), Clamped(Units(f32, color), ResultLimits(t)[1], ResultLimits(t)[2]))
                < LeastStep(t)
      [] OTHER -> t.kind # "half" => shown = color
\* What is shown of a color; and alone, of one channel that is stored and loaded.
StoredAs(t, color, shown, alone) ==
    /\ WithinLimits(t, shown)
    /\ \A i \in DOMAIN shown : shown[i] \in {alone, color_zero(t), color_one(t)}
    /\ alone \in ToSet(shown) /\ StoresNear(t, color, alone)
\* The three widths of a packed type are stored as colors of that width are; but of 565, only zero is.
PackedAs(t, color, shown) ==
    LET stored(n) == LoadNormalized(StoreNormalized(color, 2^n - 1, 0), 2^n - 1)
    IN  /\ WithinLimits(t, shown)
        /\ \A i \in 1..3 :
              t.bits # 565 \/ stored(3) = Zero(FALSE) => shown[i] = stored(Packing(t)[i])
StoresOn(order, t, word) ==
    IF t.kind = "packed" THEN PackedAs(t, ColorOf(t, word), ExpectedOfStore(order, t, word))
    ELSE StoredAs(t, ColorOf(t, word), ExpectedOfStore(order, t, word),
                  ConvertRawData(t, ConvertionStore(t, ColorOf(t, word))))
MandatoryOn(geometry, order, t, access) ==
    ~IsImageOptional(geometry, order, t, access) => IsImageLegal(geometry, order, t)

\* The array coordinate of a kernel stays in the array, and is the one the host takes.
LoadsInRangeOn(geometry, size) ==
    IsImageGeometrySupported(geometry, size) =>
        \A id \in (0..(size[1] - 1)) \X (0..(size[2] - 1)) \X (0..(size[3] - 1)) :
            LET kernel == LoadKernelCoords(geometry, id) IN
            /\ EmulateImageLd(size, LoadHostCoords(id))
            /\ \A k \in 1..3 : IF k \in DOMAIN kernel THEN kernel[k] = LoadHostCoords(id)[k] ELSE id[k] = 0
            /\ ArrayCoord(geometry) # 0 => kernel[ArrayCoord(geometry)] < size[4]

\* A valid test reads no texel that is not defined, at the coordinates its kernel uses.
Weight(taps) == (taps[1][2] * taps[2][2]) * taps[3][2]
ReadsDefinedOn(s, geometry, size, access, coordType) ==
    IsValidRd(s, geometry, size, access, coordType) =>
        \A id \in (0..(size[1] - 1)) \X (0..(size[2] - 1)) \X (0..(size[3] - 1)) :
            LET coords == HostCoords(s, geometry, size, coordType, id)
                kernel == KernelCoords(s, geometry, size, coordType, id)
                taps == EmulateImageRd(s, geometry, size, coords)
            IN  /\ \A k \in DOMAIN kernel : kernel[k] = coords[k]
                /\ \A tap \in taps : LoadsDefined(s, geometry, size, tap)
                /\ \E tap \in taps : ~OutOfRange(size, tap)
                /\ MapThenSumSet(Weight, taps) = 64
\* The border is opaque where texels have no alpha, but of the orders with padding.
BorderOn(order, t) ==
    ~(order \in {"DEPTH", "DEPTH_STENCIL"} \/ t.kind = "packed") =>
        (LoadBorderData(order, t)[4] = color_one(t) <=> ChannelsLoaded(order)[4] = ONE /\ order \notin {"RX", "RGX"})
=============================================================================
