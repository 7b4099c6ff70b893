----------------------------- MODULE PixelConvert -----------------------------
(***************************************************************************)
(* The pixel conversion operators of src/mesa/main/format_utils.c between  *)
(* the integer GL types: the MAX_UINT / EXTEND_NORMALIZED_INT macros, the  *)
(* unorm/snorm/float helpers, the CONV expression of each convert_*       *)
(* function, and one pixel through _mesa_swizzle_and_convert.  An integer *)
(* channel is the integer its C type holds; a GL_FLOAT channel is the     *)
(* exact rational [num, den] (den > 0) the float approximates: the        *)
(* rounding of float arithmetic, below 2^-24 of the value, is not         *)
(* modelled.  Half-float channels are not modelled.                       *)
(***************************************************************************)
EXTENDS Integers, TLC

MESA_FORMAT_SWIZZLE_ZERO == 4
MESA_FORMAT_SWIZZLE_ONE  == 5
MESA_FORMAT_SWIZZLE_NONE == 6

TypeBits == [GL_UNSIGNED_BYTE |-> 8,  GL_BYTE  |-> 8,
             GL_UNSIGNED_SHORT |-> 16, GL_SHORT |-> 16,
             GL_UNSIGNED_INT |-> 32,  GL_INT   |-> 32]
IsSigned(t) == t \in {"GL_BYTE", "GL_SHORT", "GL_INT"}

(* MAX_UINT(BITS) for BITS < 32 (2^BITS - 1 without forming 2^31), and    *)
(* MAX_INT(BITS) == (int)MAX_UINT(BITS - 1).                              *)
MAX_UINT(b) == (2^(b-1) - 1) * 2 + 1
MAX_INT(b) == MAX_UINT(b - 1)

(* Fault-injected variants, each placed before the definition it would    *)
(* replace: a plausible bug a property that holds must detect.            *)

(* The value is kept as an int, as if tmp were wider than DST_TYPE.      *)
Store_noWrap(t, v) == v

(* Storing an int into the C type t: modulo 2^bits, and two's complement  *)
(* for the signed types (gcc).  32-bit values stay in range (Admissible). *)
Store(t, v) ==
    LET b == TypeBits[t]
        m == v % (2^(b-1) * 2)
    IN IF t = "GL_FLOAT" \/ b = 32 THEN v
       ELSE IF IsSigned(t) /\ m >= 2^(b-1) THEN m - 2^(b-1) * 2 ELSE m

(* EXTEND_NORMALIZED_INT: replicate the top bits of X below the scaled    *)
(* value; >> of a negative X is arithmetic (floor), as gcc does.          *)
EXTEND_NORMALIZED_INT(x, s, d) ==
    x * (MAX_UINT(d) \div MAX_UINT(s))
      + (IF d % s # 0 THEN x \div 2^(s - (d % s)) ELSE 0)

unorm_to_unorm(x, s, d) ==
    IF s < d THEN EXTEND_NORMALIZED_INT(x, s, d) ELSE x \div 2^(s - d)

(* The negative clamp is dropped.                                       *)
snorm_to_unorm_noClamp(x, s, d) == unorm_to_unorm(x, s - 1, d)

snorm_to_unorm(x, s, d) == IF x < 0 THEN 0 ELSE unorm_to_unorm(x, s - 1, d)

unorm_to_snorm(x, s, d) == unorm_to_unorm(x, s, d - 1)

snorm_to_snorm(x, s, d) ==
    IF x < -MAX_INT(s) THEN -MAX_INT(d)
    ELSE IF s < d THEN EXTEND_NORMALIZED_INT(x, s - 1, d - 1)
    ELSE x \div 2^(s - d)

Rat(n, d) == [num |-> n, den |-> d]
IsRat(x) == x \in [num : Int, den : Int]

RECURSIVE GCD(_, _)
GCD(a, b) == IF b = 0 THEN a ELSE GCD(b, a % b)

(* F_TO_I(x * m): the rational x times m, rounded to the nearest integer *)
(* (no value the runs take lies halfway); m and den are reduced by their *)
(* gcd first so that the product stays below 2^31.                       *)
RoundTimes(x, m) ==
    LET g == GCD(m, x.den)
        n == x.num * (m \div g)
        d == x.den \div g
    IN n \div d + (IF 2 * (n % d) >= d THEN 1 ELSE 0)

(* C's conversion of a float to an integer type: toward zero.           *)
Trunc(x) == IF x.num >= 0 THEN x.num \div x.den ELSE -((-x.num) \div x.den)

unorm_to_float(x, s) == Rat(x, MAX_UINT(s))

snorm_to_float(x, s) ==
    IF x < -MAX_INT(s) THEN Rat(-1, 1) ELSE Rat(x, MAX_INT(s))

float_to_unorm(x, d) ==
    IF x.num < 0 THEN 0
    ELSE IF x.num > x.den THEN MAX_UINT(d)
    ELSE RoundTimes(x, MAX_UINT(d))

float_to_snorm(x, d) ==
    IF x.num < -x.den THEN -MAX_INT(d)
    ELSE IF x.num > x.den THEN MAX_INT(d)
    ELSE RoundTimes(x, MAX_INT(d))

(* The CONV expression convert_ubyte, convert_ushort and convert_uint use *)
(* for a source of type sT: the value itself for the same type, a         *)
(* normalized rescale, or the value with negatives clamped to 0.          *)
ToUnsigned(dT, sT, normalized, x) ==
    CASE sT = dT                          -> x
      [] sT = "GL_FLOAT" /\ normalized    -> float_to_unorm(x, TypeBits[dT])
      [] sT = "GL_FLOAT"                  -> IF x.num < 0 THEN 0 ELSE Trunc(x)
      [] normalized /\ ~IsSigned(sT) ->
             unorm_to_unorm(x, TypeBits[sT], TypeBits[dT])
      [] normalized -> snorm_to_unorm(x, TypeBits[sT], TypeBits[dT])
      [] IsSigned(sT)                     -> IF x < 0 THEN 0 ELSE x
      [] OTHER                            -> x

(* The unsigned destinations' (src < 0) ? 0 : src copied to a signed one. *)
ToSigned_clampNegative(dT, sT, normalized, x) ==
    CASE sT = dT                          -> x
      [] sT = "GL_FLOAT" /\ normalized    -> float_to_snorm(x, TypeBits[dT])
      [] sT = "GL_FLOAT"                  -> Trunc(x)
      [] normalized /\ ~IsSigned(sT) ->
             unorm_to_snorm(x, TypeBits[sT], TypeBits[dT])
      [] normalized -> snorm_to_snorm(x, TypeBits[sT], TypeBits[dT])
      [] IsSigned(sT)                     -> IF x < 0 THEN 0 ELSE x
      [] OTHER                            -> x

(* The CONV expression of convert_byte, convert_short and convert_int:   *)
(* without normalization the value is stored as it is.                   *)
ToSigned(dT, sT, normalized, x) ==
    CASE sT = dT                          -> x
      [] sT = "GL_FLOAT" /\ normalized    -> float_to_snorm(x, TypeBits[dT])
      [] sT = "GL_FLOAT"                  -> Trunc(x)
      [] normalized /\ ~IsSigned(sT) ->
             unorm_to_snorm(x, TypeBits[sT], TypeBits[dT])
      [] normalized -> snorm_to_snorm(x, TypeBits[sT], TypeBits[dT])
      [] OTHER                            -> x

(* The CONV expression of convert_float: the float itself, a normalized  *)
(* rescale, or the integer as a float.                                  *)
convert_float(sT, n, x) ==
    CASE sT = "GL_FLOAT"     -> x
      [] n /\ IsSigned(sT)   -> snorm_to_float(x, TypeBits[sT])
      [] n                   -> unorm_to_float(x, TypeBits[sT])
      [] OTHER               -> Rat(x, 1)

convert_ubyte(sT, n, x)  == ToUnsigned("GL_UNSIGNED_BYTE", sT, n, x)
convert_ushort(sT, n, x) == ToUnsigned("GL_UNSIGNED_SHORT", sT, n, x)
convert_uint(sT, n, x)   == ToUnsigned("GL_UNSIGNED_INT", sT, n, x)
convert_byte(sT, n, x)   == ToSigned("GL_BYTE", sT, n, x)
convert_short(sT, n, x)  == ToSigned("GL_SHORT", sT, n, x)
convert_int(sT, n, x)    == ToSigned("GL_INT", sT, n, x)

(* The const "one" each convert_* function puts in tmp[5].               *)
one(dT, n) ==
    CASE dT = "GL_FLOAT"          -> Rat(1, 1)
      [] dT = "GL_UNSIGNED_BYTE"  -> IF n THEN 255 ELSE 1
      [] dT = "GL_BYTE"           -> IF n THEN 127 ELSE 1
      [] dT = "GL_UNSIGNED_SHORT" -> IF n THEN 65535 ELSE 1
      [] dT = "GL_SHORT"          -> IF n THEN 32767 ELSE 1
      [] dT = "GL_UNSIGNED_INT"   -> 1  \* UINT32_MAX if normalized: not admitted
      [] dT = "GL_INT"            -> IF n THEN MAX_INT(32) ELSE 12

(* The switch of _mesa_swizzle_and_convert on the destination type.     *)
CONV(dT, sT, n, x) ==
    CASE dT = "GL_FLOAT"          -> convert_float(sT, n, x)
      [] dT = "GL_UNSIGNED_BYTE"  -> convert_ubyte(sT, n, x)
      [] dT = "GL_UNSIGNED_SHORT" -> convert_ushort(sT, n, x)
      [] dT = "GL_UNSIGNED_INT"   -> convert_uint(sT, n, x)
      [] dT = "GL_BYTE"           -> convert_byte(sT, n, x)
      [] dT = "GL_SHORT"          -> convert_short(sT, n, x)
      [] dT = "GL_INT"            -> convert_int(sT, n, x)

(* swizzle_convert_try_memcpy's test without the swizzle loop (665-667). *)
MemcpyTest_noSwizzle(dT, nd, sT, ns, sw) == sT = dT /\ ns = nd

(* swizzle_convert_try_memcpy's test (lines 660-667).                     *)
MemcpyTest(dT, nd, sT, ns, sw) ==
    /\ sT = dT
    /\ ns = nd
    /\ \A i \in 0..(nd - 1) : sw[i] \in {i, MESA_FORMAT_SWIZZLE_NONE}

(* One pixel through SWIZZLE_CONVERT: every source channel converted into *)
(* tmp (of the destination type), tmp[4] = 0, tmp[5] = one, and          *)
(* destination channel i takes tmp[swizzle[i]].                          *)
ConvertPixel(dT, nd, sT, ns, sw, n, p) ==
    LET tmp == [j \in 0..(ns - 1) |-> Store(dT, CONV(dT, sT, n, p[j]))]
               @@ (MESA_FORMAT_SWIZZLE_ZERO :> IF dT = "GL_FLOAT" THEN Rat(0, 1) ELSE 0)
               @@ (MESA_FORMAT_SWIZZLE_ONE :> one(dT, n))
    IN [i \in 0..(nd - 1) |-> tmp[sw[i]]]

(* _mesa_swizzle_and_convert on one pixel: memcpy when it applies, else  *)
(* the convert_* function of the destination type.                       *)
swizzle_and_convert(dT, nd, sT, ns, sw, n, p) ==
    IF MemcpyTest(dT, nd, sT, ns, sw) THEN p
    ELSE ConvertPixel(dT, nd, sT, ns, sw, n, p)

(* The range of the C type t (every value TLC has is below 2^32).        *)
InRange(t, v) ==
    IF t = "GL_FLOAT" THEN IsRat(v) /\ v.den > 0
    ELSE IF IsSigned(t) THEN -MAX_INT(TypeBits[t]) - 1 <= v /\ v <= MAX_INT(TypeBits[t])
    ELSE 0 <= v /\ (TypeBits[t] = 32 \/ v <= MAX_UINT(TypeBits[t]))

(* The reference "one": full scale for normalized data, else 1.          *)
RefOne(t, n) ==
    IF t = "GL_FLOAT" THEN Rat(1, 1) ELSE IF ~n THEN 1 ELSE IF IsSigned(t) THEN MAX_INT(TypeBits[t])
                      ELSE MAX_UINT(TypeBits[t])

=============================================================================
