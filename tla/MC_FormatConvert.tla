-------------------------- MODULE MC_FormatConvert --------------------------
(* Formats of Mesa's format table (formats.csv) and channel values.       *)
EXTENDS FormatConvert, FormatToArray

Z == 4  \* MESA_FORMAT_SWIZZLE_ZERO
O == 5  \* MESA_FORMAT_SWIZZLE_ONE

Swz(x, y, z, w) == (0 :> x) @@ (1 :> y) @@ (2 :> z) @@ (3 :> w)
Size == [UBYTE |-> 1, BYTE |-> 1, USHORT |-> 2, SHORT |-> 2, UINT |-> 4,
         INT |-> 4, FLOAT |-> 4]

(* An array format: datatype, normalized, channel count, swizzle.        *)
F(type, norm, nch, x, y, z, w) ==
    [kind |-> "array", arr |-> TRUE, type |-> type, normalized |-> norm,
     nch |-> nch, swz |-> Swz(x, y, z, w),
     datatype |-> CASE type = "FLOAT" -> "FLOAT"
                    [] norm /\ type \in {"BYTE", "SHORT", "INT"} -> "SNORM"
                    [] norm -> "UNORM"
                    [] type \in {"BYTE", "SHORT", "INT"} -> "INT"
                    [] OTHER -> "UINT",
     maxBits |-> 8 * Size[type],
     cbits |-> [j \in 0..(nch - 1) |-> 8 * Size[type]],
     ckind |-> [j \in 0..(nch - 1) |-> type]]

(* A format table descriptor for _mesa_format_to_array: layout, GL type, *)
(* integer, channel widths in packed order, bytes, swizzle.               *)
D(layout, type, integer, bits, bytes, swz) ==
    [compressed |-> FALSE, integer |-> integer, type |-> type,
     comps |-> Len(bits), layout |-> layout, bits |-> bits, bytes |-> bytes,
     swz |-> swz]

GLType == [UBYTE |-> "GL_UNSIGNED_BYTE", USHORT |-> "GL_UNSIGNED_SHORT"]

(* A packed Mesa format (no array format): datatype, GL type, bytes,     *)
(* channel widths and value kinds, swizzle.                               *)
P(dt, gltype, bytes, bits, kinds, x, y, z, w) ==
    [kind |-> "mesa", arr |-> FALSE, type |-> "none",
     normalized |-> dt = "UNORM", nch |-> Len(bits), swz |-> Swz(x, y, z, w),
     datatype |-> dt,
     maxBits |-> CHOOSE b \in {bits[k] : k \in 1..Len(bits)} :
                   \A k \in 1..Len(bits) : bits[k] <= b,
     cbits |-> [j \in 0..(Len(bits) - 1) |-> bits[j + 1]],
     ckind |-> [j \in 0..(Len(bits) - 1) |-> kinds[j + 1]],
     desc |-> D("PACKED", gltype, dt \in {"UINT", "INT"}, bits, bytes,
                Swz(x, y, z, w))]

(* A packed Mesa format of whole bytes or shorts, which has an array      *)
(* format: the array format's fields.                                      *)
M(type, norm, nch, x, y, z, w) ==
    [F(type, norm, nch, x, y, z, w) EXCEPT !.kind = "mesa"] @@
    [desc |-> D("PACKED", GLType[type], ~norm, [k \in 1..nch |-> 8 * Size[type]],
                nch * Size[type], Swz(x, y, z, w))]

(* Name -> format; swz[c] is the channel of RGBA component c.            *)
Table ==
    [R8G8B8A8_UNORM |-> F("UBYTE", TRUE, 4, 0, 1, 2, 3),
     B8G8R8A8_UNORM |-> F("UBYTE", TRUE, 4, 2, 1, 0, 3),
     A8R8G8B8_UNORM |-> F("UBYTE", TRUE, 4, 1, 2, 3, 0),
     RGB_UNORM8     |-> F("UBYTE", TRUE, 3, 0, 1, 2, O),
     RG_UNORM8      |-> F("UBYTE", TRUE, 2, 0, 1, Z, O),
     R_UNORM8       |-> F("UBYTE", TRUE, 1, 0, Z, Z, O),
     L_UNORM8       |-> F("UBYTE", TRUE, 1, 0, 0, 0, O),
     LA_UNORM8      |-> F("UBYTE", TRUE, 2, 0, 0, 0, 1),
     I_UNORM8       |-> F("UBYTE", TRUE, 1, 0, 0, 0, 0),
     A_UNORM8       |-> F("UBYTE", TRUE, 1, Z, Z, Z, 0),
     RGBA_SNORM16   |-> F("SHORT", TRUE, 4, 0, 1, 2, 3),
     L_UNORM16      |-> F("USHORT", TRUE, 1, 0, 0, 0, O),
     A_UNORM16      |-> F("USHORT", TRUE, 1, Z, Z, Z, 0),
     RG_SNORM8      |-> F("BYTE", TRUE, 2, 0, 1, Z, O),
     RGBA_UINT8     |-> F("UBYTE", FALSE, 4, 0, 1, 2, 3),
     RG_SINT16      |-> F("SHORT", FALSE, 2, 0, 1, Z, O),
     R_UINT32       |-> F("UINT", FALSE, 1, 0, Z, Z, O),
     RGBA_SINT32    |-> F("INT", FALSE, 4, 0, 1, 2, 3),
     R_SINT32       |-> F("INT", FALSE, 1, 0, Z, Z, O),
     RGBA8888_FLOAT |-> F("FLOAT", FALSE, 4, 0, 1, 2, 3),
     RGBA_UINT32    |-> F("UINT", FALSE, 4, 0, 1, 2, 3),
     MESA_FORMAT_R8G8B8A8_UNORM   |-> M("UBYTE", TRUE, 4, 0, 1, 2, 3),
     MESA_FORMAT_B8G8R8A8_UNORM   |-> M("UBYTE", TRUE, 4, 2, 1, 0, 3),
     MESA_FORMAT_R8G8_UNORM       |-> M("UBYTE", TRUE, 2, 0, 1, Z, O),
     MESA_FORMAT_R16G16_UNORM     |-> M("USHORT", TRUE, 2, 0, 1, Z, O),
     MESA_FORMAT_B5G6R5_UNORM     |-> P("UNORM", "GL_UNSIGNED_SHORT_5_6_5", 2, <<5, 6, 5>>, <<"U5", "U6", "U5">>, 2, 1, 0, O),
     MESA_FORMAT_R10G10B10A2_UNORM |-> P("UNORM", "GL_UNSIGNED_INT_2_10_10_10_REV", 4, <<10, 10, 10, 2>>, <<"U10", "U10", "U10", "U2">>, 0, 1, 2, 3),
     MESA_FORMAT_B10G10R10A2_UINT |-> P("UINT", "GL_UNSIGNED_INT_2_10_10_10_REV", 4, <<10, 10, 10, 2>>, <<"I10", "I10", "I10", "I2">>, 2, 1, 0, 3)]

AlphaOnly == {"A_UNORM8", "A_UNORM16"}
Int32 == {"RGBA_SINT32", "R_SINT32"}
MesaFormats == {f \in DOMAIN Table : Table[f].kind = "mesa"}
Others == DOMAIN Table \ (AlphaOnly \cup Int32 \cup MesaFormats)
WithAlphaSrc == Others \cup AlphaOnly

(* The argument pairs the code converts: array to array, Mesa to array   *)
(* or Mesa (a Mesa destination reached from an RGBA ubyte source, or     *)
(* a 10-bit one from a source of at most 8 bits, is in Mispacked).        *)
Converted ==
    (WithAlphaSrc \X Others)
    \cup ((MesaFormats \X (Others \cup MesaFormats))
            \ (({f \in MesaFormats : Table[f].maxBits <= 8}
                    \X {"MESA_FORMAT_R10G10B10A2_UNORM"})
                \cup ({"MESA_FORMAT_R8G8B8A8_UNORM"}
                       \X (MesaFormats \ {"MESA_FORMAT_R8G8B8A8_UNORM"}))))

(* Array to array pairs outside Converted: 32-bit signed integer sources *)
(* and alpha-only destinations.                                          *)
Int32Pairs == Int32 \X Others
AlphaDstPairs == Others \X AlphaOnly

(* Pairs the dispatcher mishandles: the float and ubyte fast packs with  *)
(* src_format (lines 162, 171), the uint one taking RGBA ubyte sources    *)
(* (line 177), the max bits of src_format (line 292).                     *)
Mispacked ==
    {<<"RGBA8888_FLOAT", "MESA_FORMAT_B5G6R5_UNORM">>,
     <<"R8G8B8A8_UNORM", "MESA_FORMAT_B5G6R5_UNORM">>,
     <<"MESA_FORMAT_R8G8B8A8_UNORM", "MESA_FORMAT_R10G10B10A2_UNORM">>,
     <<"RGBA_UINT32", "MESA_FORMAT_B10G10R10A2_UINT">>,
     <<"R_UNORM8", "MESA_FORMAT_R8G8B8A8_UNORM">>,
     <<"L_UNORM16", "MESA_FORMAT_R10G10B10A2_UNORM">>,
     <<"MESA_FORMAT_B5G6R5_UNORM", "MESA_FORMAT_R10G10B10A2_UNORM">>}

(* Two values per channel kind: one a narrower type cannot hold.         *)
Vals(t) ==
    CASE t = "UBYTE"  -> {7, 200}
      [] t = "BYTE"   -> {-100, 5}
      [] t = "USHORT" -> {9, 40000}
      [] t = "SHORT"  -> {-30000, 3}
      [] t = "UINT"   -> {2, 70000}
      [] t = "INT"    -> {-70000, 6}
      [] t = "FLOAT"  -> {Rat(1, 4), Rat(-1, 2)}
      [] t = "U5" -> {3, 30}
      [] t = "U6" -> {1, 50}
      [] t = "U10" -> {2, 1000}
      [] t = "U2" -> {1, 3}
      [] t = "I10" -> {5, 1000}
      [] t = "I2" -> {2}

(* For the Mesa formats of the conversion, _mesa_format_to_array         *)
(* describes on both byte orders the bytes the format stores.             *)
MesaFormatsDescribed ==
    \A f \in {srcFormat, dstFormat} :
        Fmt[f].kind = "mesa" => DescribesMemory(Fmt[f].desc)

=============================================================================
