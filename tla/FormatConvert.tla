----------------------------- MODULE FormatConvert -----------------------------
(***************************************************************************)
(* _mesa_format_convert (src/mesa/main/format_utils.c): converts an image *)
(* between two formats, each either an array format (the ARRAY_FORMAT bit *)
(* set) or a Mesa format.  In the order of the code it tries              *)
(*   - the direct unpack of a Mesa source into RGBA float/ubyte/uint      *)
(*     (lines 127-156),                                                    *)
(*   - the direct pack into a Mesa destination (lines 158-187),           *)
(*   - one _mesa_swizzle_and_convert per row when both sides have an      *)
(*     array format (lines 189-231),                                       *)
(*   - else a temporary RGBA image of uint, float or ubyte (233-406).     *)
(*                                                                         *)
(* A format is a record of the table Fmt: kind ("array" or "mesa"),       *)
(* whether it has an array format (arr) and that format's datatype,       *)
(* normalized flag, channel count and swizzle (RGBA component -> channel, *)
(* or ZERO/ONE), the Mesa datatype, the width of every channel (cbits)    *)
(* and their largest (maxBits), as Mesa's format table gives them.        *)
(* Mesa's generated pack/unpack functions are not in this tree; they are  *)
(* the exact per-channel conversions below.  A row is one pixel: the row  *)
(* loops repeat the same call per row, so wider rows add nothing.         *)
(***************************************************************************)
EXTENDS PixelConvert, Sequences, FiniteSets

CONSTANTS
    Pairs,                   \* (source, destination) format arguments
    Fmt,                     \* format -> its description (above)
    Values(_),               \* channel values to try, per channel kind
    MaxRows,                 \* most rows (height)
    StackBytes               \* bytes an out-of-bounds read may return

MESA_FORMAT_SWIZZLE_W == 3
NoSwizzle == [i \in 0..3 |-> MESA_FORMAT_SWIZZLE_NONE]
RGBA == [i \in 0..3 |-> i]

ASSUME /\ \A pr \in Pairs : \A f \in {pr[1], pr[2]} :
              Fmt[f].nch \in 1..4 /\ Fmt[f].normalized \in BOOLEAN
       /\ MaxRows \in Nat \ {0} /\ StackBytes \subseteq 0..255

(* The fields of a mesa_array_format the code compares and reads; as_uint *)
(* is 0 for a Mesa format without one (_mesa_format_to_array_format).     *)
ArrayFormat(t, n, nch, swz) ==
    [type |-> t, normalized |-> n, num_channels |-> nch, swizzle |-> swz]
NoArrayFormat == ArrayFormat("none", FALSE, 0, NoSwizzle)

(* Lines 30-53, as initialized there: RGBA8888_FLOAT is not normalized,  *)
(* and RGBA8888_UINT has the ubyte datatype and normalized set, so it is   *)
(* the same format as RGBA8888_UBYTE.                                      *)
RGBA8888_FLOAT == ArrayFormat("FLOAT", FALSE, 4, RGBA)
RGBA8888_UBYTE == ArrayFormat("UBYTE", TRUE, 4, RGBA)
RGBA8888_UINT  == ArrayFormat("UBYTE", TRUE, 4, RGBA)

(* Lines 113-125: the argument itself for an array format, else the      *)
(* Mesa format's array format.                                           *)
IsArrayFormat(f) == Fmt[f].kind = "array"
ArrayFormatOf(f) ==
    IF Fmt[f].arr
    THEN ArrayFormat(Fmt[f].type, Fmt[f].normalized, Fmt[f].nch, Fmt[f].swz)
    ELSE NoArrayFormat

(* Lines 70-94.                                                            *)
gl_type_for_array_format_datatype(t) ==
    CASE t = "UBYTE"  -> "GL_UNSIGNED_BYTE"
      [] t = "USHORT" -> "GL_UNSIGNED_SHORT"
      [] t = "UINT"   -> "GL_UNSIGNED_INT"
      [] t = "BYTE"   -> "GL_BYTE"
      [] t = "SHORT"  -> "GL_SHORT"
      [] t = "INT"    -> "GL_SHORT"
      [] t = "FLOAT"  -> "GL_FLOAT"

(* Fault-injected: the dst[i] == NONE test is dropped, the last match wins. *)
invert_swizzle_last(src) ==
    [i \in 0..3 |->
        LET js == {j \in 0..3 : src[j] = i}
        IN IF js = {} THEN MESA_FORMAT_SWIZZLE_NONE
           ELSE CHOOSE j \in js : \A k \in js : k <= j]

(* Lines 55-68: dst[i] is the first j with src[j] = i, or NONE.            *)
invert_swizzle(src) ==
    [i \in 0..3 |->
        LET js == {j \in 0..3 : src[j] = i}
        IN IF js = {} THEN MESA_FORMAT_SWIZZLE_NONE
           ELSE CHOOSE j \in js : \A k \in js : j <= k]

(* The GL type of each array datatype (the reference for the table above). *)
GLTypeOf(t) ==
    [UBYTE |-> "GL_UNSIGNED_BYTE", USHORT |-> "GL_UNSIGNED_SHORT",
     UINT |-> "GL_UNSIGNED_INT", BYTE |-> "GL_BYTE", SHORT |-> "GL_SHORT",
     INT |-> "GL_INT", FLOAT |-> "GL_FLOAT"][t]

(* The channel values swizzle_and_convert reads from a pixel of array     *)
(* datatype t when told it is of GL type g: the pixel itself, or, for an   *)
(* INT pixel read as GL_SHORT, its first n 16-bit halves (little endian).  *)
Low16(v) == v % 65536
ReadAs(t, g, n, p) ==
    IF g = GLTypeOf(t) THEN p
    ELSE [j \in 0..(n - 1) |->
            LET v == p[j \div 2]
                h == IF j % 2 = 0 THEN Low16(v) ELSE (v - Low16(v)) \div 65536
            IN IF h >= 32768 THEN h - 65536 ELSE h]

(* The pixel of array datatype t left in memory when n channels of GL type *)
(* g were written: for GL_SHORT into an INT buffer, pairs of halves make   *)
(* each int, the halves past n keeping the buffer's zero.                  *)
WriteAs(t, g, n, q) ==
    IF g = GLTypeOf(t) THEN q
    ELSE [k \in 0..(n - 1) |->
            LET lo == IF 2 * k < n THEN q[2 * k] ELSE 0
                hi == IF 2 * k + 1 < n THEN q[2 * k + 1] ELSE 0
            IN Low16(lo) + hi * 65536]

(* The datatype switches of lines 245-263 and 273-291.                   *)
IntegerDatatype(f) == Fmt[f].datatype \in {"UINT", "INT"}
SignedDatatype(f) == Fmt[f].datatype \in {"SNORM", "FLOAT", "INT"}

(* The value channel j of a pixel of format f holds, as a float.          *)
ChannelFloat(f, j, v) ==
    CASE Fmt[f].datatype = "UNORM" -> unorm_to_float(v, Fmt[f].cbits[j])
      [] Fmt[f].datatype = "SNORM" -> snorm_to_float(v, Fmt[f].cbits[j])
      [] Fmt[f].datatype = "FLOAT" -> v
      [] OTHER                     -> Rat(v, 1)

(* Channel j of value v, of Mesa format f, as a component of an RGBA     *)
(* pixel of GL type t.                                                    *)
UnpackChannel(t, f, j, v) ==
    CASE t = "GL_FLOAT"                  -> ChannelFloat(f, j, v)
      [] t = "GL_UNSIGNED_BYTE" /\ Fmt[f].datatype = "SNORM" ->
             snorm_to_unorm(v, Fmt[f].cbits[j], 8)
      [] t = "GL_UNSIGNED_BYTE"          -> unorm_to_unorm(v, Fmt[f].cbits[j], 8)
      [] OTHER                           -> v

(* _mesa_unpack_rgba_row (t = GL_FLOAT), _mesa_unpack_ubyte_rgba_row and *)
(* _mesa_unpack_uint_rgba_row on one pixel p of Mesa format f: component *)
(* c is channel swz[c], or zero, or one.                                  *)
UnpackRow(t, f, p) ==
    [c \in 0..3 |->
        LET w == Fmt[f].swz[c]
        IN CASE w <= MESA_FORMAT_SWIZZLE_W   -> UnpackChannel(t, f, w, p[w])
             [] w = MESA_FORMAT_SWIZZLE_ZERO -> IF t = "GL_FLOAT" THEN Rat(0, 1) ELSE 0
             [] OTHER -> CASE t = "GL_FLOAT"         -> Rat(1, 1)
                           [] t = "GL_UNSIGNED_BYTE" -> 255
                           [] OTHER                  -> 1]

(* The first RGBA component format f stores in channel j.                 *)
FirstComponent(f, j) ==
    CHOOSE c \in 0..3 : Fmt[f].swz[c] = j
                        /\ \A c2 \in 0..(c - 1) : Fmt[f].swz[c2] # j

(* Component x of an RGBA pixel of GL type t as channel j of Mesa format *)
(* f; integer channels are clamped.                                       *)
PackChannel(t, f, j, x) ==
    LET b == Fmt[f].cbits[j]
        dt == Fmt[f].datatype
    IN CASE t = "GL_FLOAT" /\ dt = "UNORM" -> float_to_unorm(x, b)
         [] t = "GL_FLOAT" /\ dt = "SNORM" -> float_to_snorm(x, b)
         [] t = "GL_FLOAT" /\ dt = "FLOAT" -> x
         [] t = "GL_FLOAT"                 -> Trunc(x)
         [] t = "GL_UNSIGNED_BYTE" /\ dt = "SNORM" -> unorm_to_snorm(x, 8, b)
         [] t = "GL_UNSIGNED_BYTE"         -> unorm_to_unorm(x, 8, b)
         [] OTHER ->
              LET top == IF dt = "INT" THEN MAX_INT(b) ELSE MAX_UINT(b)
              IN IF b < 32 /\ x > top THEN top ELSE x

(* _mesa_pack_float_rgba_row (t = GL_FLOAT), _mesa_pack_ubyte_rgba_row   *)
(* and _mesa_pack_uint_rgba_row on one RGBA pixel q: channel j of Mesa   *)
(* format f takes the first component stored there.                      *)
PackPixel(t, f, q) ==
    [j \in 0..(Fmt[f].nch - 1) |-> PackChannel(t, f, j, q[FirstComponent(f, j)])]

(* The pack functions switch on their format argument: the uint one has  *)
(* a case for every integer Mesa format, the float and ubyte ones for     *)
(* every other.  An array format, or a format of the other kind, matches  *)
(* no case and nothing is written: the rows stay as they were.            *)
PackRows(t, f, rows, old) ==
    IF IsArrayFormat(f) \/ IntegerDatatype(f) # (t = "GL_UNSIGNED_INT") THEN old
    ELSE [r \in DOMAIN rows |-> PackPixel(t, f, rows[r])]

VARIABLES
    srcFormat, dstFormat,   \* the arguments
    srcRows,                \* the source image: one pixel per row
    dstRows,                \* the destination rows written so far
    srcGlType, dstGlType, src2rgba, dst2rgba, rgba2dst, src2dst, normalized,
    tmpType,                \* the type of the temporary RGBA image
    tmpRows,                \* the temporary RGBA image
    path,                   \* "none" | "unpack" | "pack" | "array" | "general"
    pc                      \* where the function is (see Next)

vars == <<srcFormat, dstFormat, srcRows, dstRows, srcGlType, dstGlType,
          src2rgba, dst2rgba, rgba2dst, src2dst, normalized, tmpType, tmpRows,
          path, pc>>

arrayVars == <<srcGlType, dstGlType, src2rgba, dst2rgba, rgba2dst, src2dst,
               normalized>>

(* The unpack function lines 129-155 call for destination array format *)
(* a: _mesa_unpack_rgba_row, _ubyte_ or _uint_.                           *)
UnpackType(a) ==
    CASE a = RGBA8888_FLOAT -> "GL_FLOAT"
      [] a = RGBA8888_UBYTE -> "GL_UNSIGNED_BYTE"
      [] OTHER              -> "GL_UNSIGNED_INT"

DirectUnpackApplies ==
    /\ ~IsArrayFormat(srcFormat)
    /\ ArrayFormatOf(dstFormat) \in {RGBA8888_FLOAT, RGBA8888_UBYTE, RGBA8888_UINT}

DirectPackApplies ==
    /\ ~IsArrayFormat(dstFormat)
    /\ \/ ArrayFormatOf(srcFormat) \in {RGBA8888_FLOAT, RGBA8888_UINT}
       \/ ArrayFormatOf(dstFormat) = RGBA8888_UBYTE

(* Lines 127-187, the fast paths, each of which converts every row and   *)
(* returns.  Lines 127-156: a Mesa source and an RGBA8888 float, ubyte or *)
(* uint destination are unpacked (the uint test comes after the equal     *)
(* ubyte one).  Else lines 158-187: a Mesa destination and an RGBA8888    *)
(* float or uint source, or an RGBA8888 ubyte destination (line 168 tests *)
(* the destination's array format), are packed; the float and ubyte       *)
(* branches pass src_format to the pack function (lines 162 and 171), the *)
(* uint branch dst_format (line 180).                                     *)
DirectConvert ==
    /\ pc = "start"
    /\ DirectUnpackApplies \/ DirectPackApplies
    /\ dstRows' =
          CASE DirectUnpackApplies ->
                 [r \in DOMAIN srcRows |->
                    UnpackRow(UnpackType(ArrayFormatOf(dstFormat)),
                              srcFormat, srcRows[r])]
            [] ArrayFormatOf(srcFormat) = RGBA8888_FLOAT ->
                 PackRows("GL_FLOAT", srcFormat, srcRows, dstRows)
            [] ArrayFormatOf(dstFormat) = RGBA8888_UBYTE ->
                 PackRows("GL_UNSIGNED_BYTE", srcFormat, srcRows, dstRows)
            [] OTHER ->
                 PackRows("GL_UNSIGNED_INT", dstFormat, srcRows, dstRows)
    /\ path' = IF DirectUnpackApplies THEN "unpack" ELSE "pack"
    /\ pc' = "done"
    /\ UNCHANGED <<srcFormat, dstFormat, srcRows, tmpType, tmpRows>>
    /\ UNCHANGED arrayVars

(* Lines 189-211: each side with an array format sets its GL type and   *)
(* swizzle (the destination's inverted too) and normalized, the           *)
(* destination's last.  Both sides: the array path; else the general one. *)
ReadArrayFormats ==
    /\ pc = "start"
    /\ ~DirectUnpackApplies /\ ~DirectPackApplies
    /\ LET sa == ArrayFormatOf(srcFormat)
           da == ArrayFormatOf(dstFormat)
           both == sa # NoArrayFormat /\ da # NoArrayFormat
       IN /\ IF sa # NoArrayFormat
             THEN /\ srcGlType' = gl_type_for_array_format_datatype(sa.type)
                  /\ src2rgba' = sa.swizzle
             ELSE UNCHANGED <<srcGlType, src2rgba>>
          /\ IF da # NoArrayFormat
             THEN /\ dstGlType' = gl_type_for_array_format_datatype(da.type)
                  /\ dst2rgba' = da.swizzle
                  /\ rgba2dst' = invert_swizzle(da.swizzle)
             ELSE UNCHANGED <<dstGlType, dst2rgba, rgba2dst>>
          /\ normalized' = CASE da # NoArrayFormat -> da.normalized
                             [] sa # NoArrayFormat -> sa.normalized
                             [] OTHER              -> normalized
          /\ path' = IF both THEN "array" ELSE "general"
          /\ pc' = IF both THEN "compose" ELSE "classify"
    /\ UNCHANGED <<srcFormat, dstFormat, srcRows, dstRows, src2dst,
                   tmpType, tmpRows>>

(* Lines 213-222.  src2rgba[rgba2dst[i]] with rgba2dst[i] = NONE reads    *)
(* past the 4-byte array: any byte of the stack (StackBytes).             *)
Compose ==
    /\ pc = "compose"
    /\ LET oob == {i \in 0..3 : dst2rgba[i] <= MESA_FORMAT_SWIZZLE_W
                                /\ rgba2dst[i] > MESA_FORMAT_SWIZZLE_W}
       IN \E junk \in [oob -> StackBytes] :
            src2dst' = [i \in 0..3 |->
                          IF dst2rgba[i] > MESA_FORMAT_SWIZZLE_W THEN dst2rgba[i]
                          ELSE IF i \in oob THEN junk[i]
                          ELSE src2rgba[rgba2dst[i]]]
    /\ pc' = "rows"
    /\ UNCHANGED <<srcFormat, dstFormat, srcRows, dstRows, srcGlType,
                   dstGlType, src2rgba, dst2rgba, rgba2dst, normalized,
                   tmpType, tmpRows, path>>

(* Fault-injected: the source channel count passed for the destination's. *)
ConvertRow_swappedCounts ==
    /\ pc = "rows"
    /\ LET s  == Fmt[srcFormat]
           d  == Fmt[dstFormat]
           in == ReadAs(s.type, srcGlType, s.nch, srcRows[Len(dstRows) + 1])
       IN dstRows' = Append(dstRows,
                       WriteAs(d.type, dstGlType, s.nch,
                         swizzle_and_convert(dstGlType, s.nch, srcGlType, s.nch,
                                             src2dst, normalized, in)))
    /\ pc' = IF Len(dstRows) + 1 = Len(srcRows) THEN "done" ELSE "rows"
    /\ UNCHANGED <<srcFormat, dstFormat, srcRows, srcGlType, dstGlType,
                   src2rgba, dst2rgba, rgba2dst, src2dst, normalized,
                   tmpType, tmpRows, path>>

(* Lines 224-231: one row through _mesa_swizzle_and_convert.              *)
ConvertRow ==
    /\ pc = "rows"
    /\ LET s  == Fmt[srcFormat]
           d  == Fmt[dstFormat]
           in == ReadAs(s.type, srcGlType, s.nch, srcRows[Len(dstRows) + 1])
       IN dstRows' = Append(dstRows,
                       WriteAs(d.type, dstGlType, d.nch,
                         swizzle_and_convert(dstGlType, d.nch, srcGlType, s.nch,
                                             src2dst, normalized, in)))
    /\ pc' = IF Len(dstRows) + 1 = Len(srcRows) THEN "done" ELSE "rows"
    /\ UNCHANGED <<srcFormat, dstFormat, srcRows, srcGlType, dstGlType,
                   src2rgba, dst2rgba, rgba2dst, src2dst, normalized,
                   tmpType, tmpRows, path>>

(* An array format holds integers unless it is float or normalized       *)
(* (lines 240-242, 268-270); its bits are 8 times its datatype size.     *)
ArrayInteger(a) == a.type # "FLOAT" /\ ~a.normalized
DatatypeSize == [UBYTE |-> 1, BYTE |-> 1, USHORT |-> 2, SHORT |-> 2,
                 UINT |-> 4, INT |-> 4, FLOAT |-> 4]

(* Fault-injected: the bits > 8 test is dropped, wide unsigned data goes *)
(* through ubyte.                                                         *)
TempType_noBits(integer, isSigned, bits) ==
    IF integer THEN IF isSigned THEN "GL_INT" ELSE "GL_UNSIGNED_INT"
    ELSE IF isSigned THEN "GL_FLOAT" ELSE "GL_UNSIGNED_BYTE"

(* Lines 295-297, 332-333, 369: the type of the temporary RGBA image.    *)
TempType(integer, isSigned, bits) ==
    IF integer THEN IF isSigned THEN "GL_INT" ELSE "GL_UNSIGNED_INT"
    ELSE IF isSigned \/ bits > 8 THEN "GL_FLOAT" ELSE "GL_UNSIGNED_BYTE"

(* Lines 233-297.  integer is set by either side, is_signed by the       *)
(* destination's Mesa datatype, else the source's, and bits by the        *)
(* destination's array format, else by _mesa_get_format_max_bits of      *)
(* src_format (line 292): for an array-format source that indexes the    *)
(* format table with the ARRAY_FORMAT bit set, far past its end, and the *)
(* process dies.                                                         *)
ClassifyFormats ==
    /\ pc = "classify"
    /\ LET sa == ArrayFormatOf(srcFormat)
           da == ArrayFormatOf(dstFormat)
           integer == \/ IF sa # NoArrayFormat THEN ArrayInteger(sa)
                         ELSE IntegerDatatype(srcFormat)
                      \/ IF da # NoArrayFormat THEN ArrayInteger(da)
                         ELSE IntegerDatatype(dstFormat)
           isSigned == IF da = NoArrayFormat THEN SignedDatatype(dstFormat)
                       ELSE SignedDatatype(srcFormat)
           bits == IF da # NoArrayFormat THEN 8 * DatatypeSize[da.type]
                   ELSE Fmt[srcFormat].maxBits
           outOfBounds == da = NoArrayFormat /\ IsArrayFormat(srcFormat)
       IN /\ tmpType' = IF outOfBounds THEN tmpType
                        ELSE TempType(integer, isSigned, bits)
          /\ pc' = IF outOfBounds THEN "crashed" ELSE "to_tmp"
    /\ UNCHANGED <<srcFormat, dstFormat, srcRows, dstRows, tmpRows, path>>
    /\ UNCHANGED arrayVars

(* Lines 299-313, 337-351, 373-387: every source row into the temporary  *)
(* image, by _mesa_swizzle_and_convert through src2rgba for an array     *)
(* format, else by the Mesa format's unpack function.                    *)
ToTemp ==
    /\ pc = "to_tmp"
    /\ LET s == Fmt[srcFormat]
       IN tmpRows' =
            [r \in DOMAIN srcRows |->
               IF IsArrayFormat(srcFormat)
               THEN swizzle_and_convert(tmpType, 4, srcGlType, s.nch, src2rgba,
                      normalized, ReadAs(s.type, srcGlType, s.nch, srcRows[r]))
               ELSE UnpackRow(tmpType, srcFormat, srcRows[r])]
    /\ pc' = "from_tmp"
    /\ UNCHANGED <<srcFormat, dstFormat, srcRows, dstRows, tmpType, path>>
    /\ UNCHANGED arrayVars

(* Lines 315-329, 353-367, 389-403: every temporary row into the         *)
(* destination, through rgba2dst for an array format, else packed; then  *)
(* the temporary image is freed.                                         *)
FromTemp ==
    /\ pc = "from_tmp"
    /\ LET d == Fmt[dstFormat]
       IN dstRows' =
            IF IsArrayFormat(dstFormat)
            THEN [r \in DOMAIN tmpRows |->
                    WriteAs(d.type, dstGlType, d.nch,
                      swizzle_and_convert(dstGlType, d.nch, tmpType, 4,
                                          rgba2dst, normalized, tmpRows[r]))]
            ELSE PackRows(tmpType, dstFormat, tmpRows, dstRows)
    /\ tmpRows' = <<>>
    /\ pc' = "done"
    /\ UNCHANGED <<srcFormat, dstFormat, srcRows, tmpType, path>>
    /\ UNCHANGED arrayVars

(* The pixels of format f: channel j takes the values of its kind.       *)
PixelsOf(f) ==
    LET chans == 0..(Fmt[f].nch - 1)
    IN {p \in [chans -> UNION {Values(Fmt[f].ckind[j]) : j \in chans}] :
          \A j \in chans : p[j] \in Values(Fmt[f].ckind[j])}

(* Callers pass two integer formats or two non-integer ones (GL rejects  *)
(* the mix), and formats that keep the assert of line 214 when the array  *)
(* path is reached.  The locals start unset.                              *)
Init ==
    /\ \E pr \in Pairs : srcFormat = pr[1] /\ dstFormat = pr[2]
    /\ IntegerDatatype(srcFormat) = IntegerDatatype(dstFormat)
    /\ LET sa == ArrayFormatOf(srcFormat)
           da == ArrayFormatOf(dstFormat)
       IN (/\ ~DirectUnpackApplies /\ ~DirectPackApplies
           /\ sa # NoArrayFormat /\ da # NoArrayFormat) => sa.normalized = da.normalized
    /\ srcRows \in UNION {[1..h -> PixelsOf(srcFormat)] : h \in 1..MaxRows}
    /\ dstRows = <<>>
    /\ srcGlType = "none" /\ dstGlType = "none"
    /\ src2rgba = NoSwizzle /\ dst2rgba = NoSwizzle
    /\ rgba2dst = NoSwizzle /\ src2dst = NoSwizzle
    /\ normalized = FALSE
    /\ tmpType = "none" /\ tmpRows = <<>>
    /\ path = "none"
    /\ pc = "start"

(* pc: "start", then "done" by a fast path, or "compose" and "rows" on   *)
(* the array path, or "classify", "to_tmp", "from_tmp" on the general    *)
(* one, which may end in "crashed".                                       *)
Next ==
    \/ DirectConvert \/ ReadArrayFormats
    \/ Compose \/ ConvertRow
    \/ ClassifyFormats \/ ToTemp \/ FromTemp

Spec == Init /\ [][Next]_vars

-----------------------------------------------------------------------------
(* The destination pixel the conversion should give for source pixel p:   *)
(* channel i holds the RGBA component the destination stores first in    *)
(* channel i, taken from the source through its swizzle and converted     *)
(* between the GL types of the two datatypes; a component the source      *)
(* lacks is 0 or one.  This is what the code's general path does, through *)
(* src2rgba and then rgba2dst (lines 300-345).                            *)
RefPixel(p) ==
    LET s == Fmt[srcFormat]
        d == Fmt[dstFormat]
        sT == GLTypeOf(s.type)
        dT == GLTypeOf(d.type)
        n == s.normalized
        comp(i) == CHOOSE c \in 0..3 : d.swz[c] = i
                                      /\ \A c2 \in 0..(c - 1) : d.swz[c2] # i
    IN [i \in 0..(d.nch - 1) |->
          LET w == s.swz[comp(i)]
          IN CASE w <= MESA_FORMAT_SWIZZLE_W -> Store(dT, CONV(dT, sT, n, p[w]))
               [] w = MESA_FORMAT_SWIZZLE_ZERO ->
                      IF dT = "GL_FLOAT" THEN Rat(0, 1) ELSE 0
               [] OTHER -> RefOne(dT, n)]

(* On the array path every destination row written holds the reference  *)
(* conversion of its source row: the composed swizzle src2dst routes each *)
(* destination channel to the right source channel (or 0 / one) and the *)
(* array datatypes are converted as the GL types they are.               *)
FormatValuesConverted ==
    path = "array" =>
        \A r \in 1..Len(dstRows) : dstRows[r] = RefPixel(srcRows[r])

(* The value RGBA component c of source pixel p stands for.             *)
SourceComponent(p, c) ==
    LET w == Fmt[srcFormat].swz[c]
    IN CASE w <= MESA_FORMAT_SWIZZLE_W   -> ChannelFloat(srcFormat, w, p[w])
         [] w = MESA_FORMAT_SWIZZLE_ZERO -> Rat(0, 1)
         [] OTHER                        -> Rat(1, 1)

AbsVal(n) == IF n < 0 THEN -n ELSE n
Reduced(x) == LET g == GCD(AbsVal(x.num), x.den)
              IN Rat(x.num \div g, x.den \div g)

(* Channel value v, of Mesa datatype dt and b bits, stands for x: a float *)
(* exactly; an unsigned normalized channel within one step of x (clamped) *)
(* times full scale, a signed one within two (EXTEND_NORMALIZED_INT       *)
(* floors negative values when it widens); an integer channel exactly     *)
(* when x is an integer it can hold.                                      *)
CloseTo(dt, b, v, x) ==
    CASE dt = "FLOAT" -> IsRat(v) /\ v.den > 0 /\ Reduced(v) = Reduced(x)
      [] dt \in {"UNORM", "SNORM"} ->
           LET m  == IF dt = "UNORM" THEN MAX_UINT(b) ELSE MAX_INT(b)
               lo == IF dt = "UNORM" THEN 0 ELSE -x.den
               g  == GCD(m, x.den)
               n  == x.num * (m \div g)
               d  == x.den \div g
               tol == IF dt = "UNORM" THEN 1 ELSE 2
           IN /\ v \in Int
              /\ CASE x.num <= lo     -> v <= (IF dt = "UNORM" THEN tol ELSE tol - m)
                   [] x.num >= x.den  -> v >= m - tol
                   [] OTHER           -> -tol * d <= v * d - n /\ v * d - n <= tol * d
      [] OTHER ->
           LET fits == /\ x.num % x.den = 0
                       /\ IF dt = "UINT" THEN x.num >= 0 ELSE x.num >= -MAX_INT(b) - 1
                       /\ b = 32 \/ x.num <= (IF dt = "UINT" THEN MAX_UINT(b)
                                               ELSE MAX_INT(b))
           IN v \in Int /\ (fits => v = x.num \div x.den)

(* Whatever path the dispatcher takes (fast unpack, fast pack, one       *)
(* swizzle_and_convert per row, or a temporary image of the type chosen  *)
(* from integer, is_signed and bits), the conversion does not crash and, *)
(* once it returns, has written every row, each destination channel      *)
(* holding the first RGBA component the destination stores there, as     *)
(* the source gives it, as close as the destination's precision allows   *)
(* (CloseTo).                                                             *)
ConvertedCloseToSource ==
    /\ pc # "crashed"
    /\ pc = "done" =>
         /\ DOMAIN dstRows = DOMAIN srcRows
         /\ \A r \in DOMAIN srcRows :
              /\ DOMAIN dstRows[r] = 0..(Fmt[dstFormat].nch - 1)
              /\ \A j \in DOMAIN dstRows[r] :
                   CloseTo(Fmt[dstFormat].datatype, Fmt[dstFormat].cbits[j],
                                 dstRows[r][j],
                                 SourceComponent(srcRows[r],
                                                 FirstComponent(dstFormat, j)))

(* A destination channel value fits its channel.                         *)
ChannelInRange(f, j, v) ==
    IF Fmt[f].arr THEN InRange(GLTypeOf(Fmt[f].type), v)
    ELSE IF Fmt[f].datatype \in {"UNORM", "UINT"}
         THEN v \in 0..MAX_UINT(Fmt[f].cbits[j])
         ELSE v \in (-MAX_INT(Fmt[f].cbits[j]) - 1)..MAX_INT(Fmt[f].cbits[j])

TypeOK ==
    /\ pc \in {"start", "compose", "rows", "classify", "to_tmp", "from_tmp",
               "done", "crashed"}
    /\ path \in {"none", "unpack", "pack", "array", "general"}
    /\ tmpType \in {"none", "GL_FLOAT", "GL_UNSIGNED_BYTE", "GL_UNSIGNED_INT",
                    "GL_INT"}
    /\ Len(dstRows) <= Len(srcRows)
    /\ \A i \in 0..3 : src2dst[i] \in 0..255
    /\ \A r \in DOMAIN tmpRows :
          /\ DOMAIN tmpRows[r] = 0..3
          /\ \A c \in 0..3 : InRange(tmpType, tmpRows[r][c])
    /\ \A r \in 1..Len(dstRows) :
          /\ DOMAIN dstRows[r] = 0..(Fmt[dstFormat].nch - 1)
          /\ \A j \in DOMAIN dstRows[r] : ChannelInRange(dstFormat, j, dstRows[r][j])
=============================================================================
