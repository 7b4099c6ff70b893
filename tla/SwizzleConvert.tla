---------------------------- MODULE SwizzleConvert ----------------------------
(***************************************************************************)
(* _mesa_swizzle_and_convert (src/mesa/main/format_utils.c) between the    *)
(* integer GL types: the memcpy fast path, the dispatch on the destination *)
(* type to convert_ubyte .. convert_int, and SWIZZLE_CONVERT_LOOP, one      *)
(* pixel per step.  A channel value is the integer its C type holds.       *)
(*                                                                         *)
(* Float and half-float channels are not modelled (TLC has no reals), nor  *)
(* normalized GL_UNSIGNED_INT, whose values reach 2^32 - 1, past TLC's     *)
(* 32-bit signed integers; see Admissible.                                 *)
(***************************************************************************)
EXTENDS PixelConvert, Sequences, FiniteSets

CONSTANTS
    SrcTypes, DstTypes,  \* GL types the caller passes
    Norms,               \* values of the normalized flag
    MaxChans,            \* most channels per pixel (<= 4)
    MaxCount,            \* most pixels per call
    Values(_),           \* the channel values of a source type to try
    Samples(_)           \* the values of a type the conversions are checked on

ASSUME /\ SrcTypes \cup DstTypes \subseteq DOMAIN TypeBits
       /\ Norms \subseteq BOOLEAN /\ MaxChans \in 1..4 /\ MaxCount \in Nat

VARIABLES
    dstType, srcType, nDst, nSrc, swizzle, normalized,  \* the arguments
    src,      \* the source pixels: sequence of [0..nSrc-1 -> value]
    dst,      \* the destination pixels written so far
    path      \* "start" | "loop" | "done"

vars == <<dstType, srcType, nDst, nSrc, swizzle, normalized, src, dst, path>>

(* swizzle_convert_try_memcpy's test on the call's arguments.             *)
MemcpyApplies == MemcpyTest(dstType, nDst, srcType, nSrc, swizzle)

(* Lines 654-672 and 1388-1391: the pixels are copied as they are.        *)
swizzle_convert_try_memcpy ==
    /\ path = "start"
    /\ MemcpyApplies
    /\ dst' = src
    /\ path' = "done"
    /\ UNCHANGED <<dstType, srcType, nDst, nSrc, swizzle, normalized, src>>

(* The memcpy test failed: fall through to the convert_* switch.         *)
Dispatch ==
    /\ path = "start"
    /\ ~MemcpyApplies
    /\ path' = "loop"
    /\ UNCHANGED <<dstType, srcType, nDst, nSrc, swizzle, normalized, src, dst>>

(* One iteration of SWIZZLE_CONVERT_LOOP: the next pixel, converted.     *)
SWIZZLE_CONVERT_LOOP ==
    /\ path = "loop"
    /\ dst' = Append(dst, ConvertPixel(dstType, nDst, srcType, nSrc, swizzle,
                                       normalized, src[Len(dst) + 1]))
    /\ path' = IF Len(dst) + 1 = Len(src) THEN "done" ELSE "loop"
    /\ UNCHANGED <<dstType, srcType, nDst, nSrc, swizzle, normalized, src>>

(* The conversions whose values TLC represents: no normalized             *)
(* GL_UNSIGNED_INT, no GL_UNSIGNED_INT source beyond INT32_MAX.           *)
Admissible(dT, sT, n) ==
    n => "GL_UNSIGNED_INT" \notin {dT, sT}

(* A swizzle as callers build it: each used destination channel reads an *)
(* existing source channel, ZERO or ONE; the unused entries are NONE.     *)
Swizzles(ns, nd) ==
    {sw \in [0..3 -> 0..MESA_FORMAT_SWIZZLE_NONE] :
        \A i \in 0..3 :
            IF i < nd
            THEN sw[i] \in (0..(ns - 1)) \cup {MESA_FORMAT_SWIZZLE_ZERO,
                                               MESA_FORMAT_SWIZZLE_ONE}
            ELSE sw[i] = MESA_FORMAT_SWIZZLE_NONE}

Init ==
    /\ dstType \in DstTypes /\ srcType \in SrcTypes /\ normalized \in Norms
    /\ Admissible(dstType, srcType, normalized)
    /\ nSrc \in 1..MaxChans /\ nDst \in 1..MaxChans
    /\ swizzle \in Swizzles(nSrc, nDst)
    /\ src \in UNION {[1..c -> [0..(nSrc - 1) -> Values(srcType)]] :
                         c \in 1..MaxCount}
    /\ dst = <<>>
    /\ path = "start"

Next ==
    \/ swizzle_convert_try_memcpy
    \/ Dispatch
    \/ SWIZZLE_CONVERT_LOOP

Spec == Init /\ [][Next]_vars

-----------------------------------------------------------------------------
TypeOK ==
    /\ path \in {"start", "loop", "done"}
    /\ Len(dst) <= Len(src)
    /\ \A k \in 1..Len(dst) :
          \A i \in 0..(nDst - 1) : InRange(dstType, dst[k][i])

Done == path = "done"
Routed(i) == swizzle[i] < nSrc

(* Whichever path it takes (memcpy or the loop), every destination        *)
(* channel i of every pixel holds the conversion of source channel        *)
(* swizzle[i] of the same pixel, or 0 for ZERO, or the type's one for ONE *)
(* (1 for unnormalized data).                                             *)
ChannelsRouted ==
    Done =>
      \A k \in 1..Len(src), i \in 0..(nDst - 1) :
        dst[k][i] =
          CASE Routed(i) -> Store(dstType, CONV(dstType, srcType, normalized,
                                                src[k][swizzle[i]]))
            [] swizzle[i] = MESA_FORMAT_SWIZZLE_ZERO -> 0
            [] OTHER -> RefOne(dstType, normalized)

(* Without normalization a value the destination type can hold is kept   *)
(* exactly, whatever the two types (the (src < 0) ? 0 : src clamps apply  *)
(* only to values an unsigned destination cannot hold).                  *)
NonNormalizedExact ==
    (Done /\ ~normalized) =>
      \A k \in 1..Len(src), i \in 0..(nDst - 1) :
        (Routed(i) /\ InRange(dstType, src[k][swizzle[i]]))
          => dst[k][i] = src[k][swizzle[i]]

(* The value a normalized channel stands for, as numerator / denominator: *)
(* x / MAX for unorm, max(x, -MAX) / MAX for snorm (both -MAX-1 and -MAX  *)
(* mean -1.0).                                                            *)
Num(t, x) == IF IsSigned(t) /\ x < -MAX_INT(TypeBits[t])
             THEN -MAX_INT(TypeBits[t]) ELSE x
Den(t) == IF IsSigned(t) THEN MAX_INT(TypeBits[t]) ELSE MAX_UINT(TypeBits[t])

(* For the types of the call, the normalized conversion of every sample  *)
(* value of an 8- or 16-bit source into an 8- or 16-bit destination, with *)
(* an unsigned side, lands less than one step of the destination from the *)
(* exact value, clamped to [0, 1] for an unsigned destination             *)
(* (unorm_to_unorm, snorm_to_unorm, unorm_to_snorm, EXTEND_NORMALIZED_INT).*)
(* snorm to snorm is the subject of SnormResultInRange.                   *)
NormalizedWithinOneUlp ==
    (srcType # dstType /\ ~(IsSigned(srcType) /\ IsSigned(dstType))
       /\ TypeBits[srcType] <= 16 /\ TypeBits[dstType] <= 16)
      =>
      \A x \in Samples(srcType) :
        LET r    == Store(dstType, CONV(dstType, srcType, TRUE, x))
            want == IF IsSigned(dstType) \/ Num(srcType, x) >= 0
                    THEN Num(srcType, x) ELSE 0
            err  == Num(dstType, r) * Den(srcType) - want * Den(dstType)
        IN -Den(srcType) < err /\ err < Den(srcType)

(* A normalized conversion from another type to a signed type yields a   *)
(* value in [-MAX_INT, MAX_INT], as snorm_to_snorm's first branch does   *)
(* for the most negative source value.                                    *)
SnormResultInRange ==
    (Done /\ normalized /\ srcType # dstType /\ IsSigned(dstType)) =>
      \A k \in 1..Len(src), i \in 0..(nDst - 1) :
        Routed(i) => dst[k][i] >= -MAX_INT(TypeBits[dstType])
=============================================================================
