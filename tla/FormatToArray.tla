---------------------------- MODULE FormatToArray ----------------------------
(* _mesa_format_to_array (format_utils.c, 409-506): whether a Mesa format *)
(* can be read as an array of one GL type and, if so, the array's channel *)
(* count, normalization and the swizzle from array elements to RGBA.      *)
(* A format is a descriptor record with the fields the function reads     *)
(* from the format table: compressed, integer, type (of                   *)
(* _mesa_format_to_type_and_comps), comps, layout, bits (channel widths   *)
(* in packed order), bytes and swz (_mesa_get_format_swizzle, 4 = ZERO,   *)
(* 5 = ONE).  The byte order of the build is an argument.                 *)
EXTENDS Integers, Sequences

(* The byte orders _mesa_little_endian distinguishes.                     *)
Endians == {"little", "big"}

(* The static tables map_identity, map_3210 and map_1032.               *)
map_identity == [i \in 0..6 |-> i]
map_3210 == [map_identity EXCEPT ![0] = 3, ![1] = 2, ![2] = 1, ![3] = 0]
map_1032 == [map_identity EXCEPT ![0] = 1, ![1] = 0, ![2] = 3, ![3] = 2]

(* _mesa_get_format_max_bits: the widest channel.                       *)
MaxBits(d) == LET b == {d.bits[k] : k \in 1..Len(d.bits)}
              IN CHOOSE x \in b : \A y \in b : y <= x

(* The 2- and 4-unit maps exchanged.                                     *)
EndianMap_swapped(endian, unit, n) ==
    CASE n = 2 -> IF endian = "little" THEN map_identity ELSE map_3210
      [] n = 4 /\ unit = 8 -> IF endian = "little" THEN map_identity ELSE map_1032
      [] OTHER -> map_identity

(* The endian map of the 8-bit and 16-bit packed cases; a count with no  *)
(* case (3 bytes, 4 shorts) asserts and falls back to map_identity.      *)
EndianMap(endian, unit, n) ==
    CASE n = 2 -> IF endian = "little" THEN map_identity ELSE map_1032
      [] n = 4 /\ unit = 8 -> IF endian = "little" THEN map_identity ELSE map_3210
      [] OTHER -> map_identity

(* The packed case: the array unit of each GL type, its width, and the   *)
(* channel count it gives (width 0 for the types that return false).    *)
UnitBits(t) ==
    CASE t \in {"GL_UNSIGNED_BYTE", "GL_BYTE"} -> 8
      [] t \in {"GL_UNSIGNED_SHORT", "GL_SHORT", "GL_HALF_FLOAT"} -> 16
      [] t \in {"GL_UNSIGNED_INT", "GL_INT", "GL_FLOAT"} -> 32
      [] OTHER -> 0

PackedComponents(d) ==
    CASE UnitBits(d.type) = 8 -> d.bytes
      [] UnitBits(d.type) = 16 -> d.bytes \div 2
      [] OTHER -> d.comps

(* The result: ok is the return value; the other fields are the out       *)
(* parameters, set only on success.                                       *)
NotArray == [ok |-> FALSE, type |-> "none", nch |-> 0,
             swz |-> [i \in 0..3 |-> 0], normalized |-> FALSE]

Described(d, n, swz) ==
    [ok |-> TRUE, type |-> d.type, nch |-> n, swz |-> swz,
     normalized |-> ~d.integer]

(* The switch on the layout: ARRAY formats as they are, PACKED ones whose *)
(* widest channel is one unit of their type through the endian map.      *)
FormatToArray(d, endian) ==
    CASE d.compressed -> NotArray
      [] d.layout = "ARRAY" -> Described(d, d.comps, d.swz)
      [] d.layout = "PACKED" /\ UnitBits(d.type) # 0
                             /\ MaxBits(d) = UnitBits(d.type) ->
           LET n == PackedComponents(d)
               endianMap == IF UnitBits(d.type) = 32 THEN map_identity
                            ELSE EndianMap(endian, UnitBits(d.type), n)
           IN Described(d, n, [i \in 0..3 |-> endianMap[d.swz[i]]])
      [] OTHER -> NotArray

(* Reference: where channel c of a packed word of n units lies in memory. *)
(* Mesa packs the first channel in the least significant bits, so on a    *)
(* little-endian build it is unit c and on a big-endian one unit n-1-c.   *)
UnitOfChannel(endian, n, c) == IF endian = "little" THEN c ELSE n - 1 - c

(* A format is an array format when it is an ARRAY layout, or a packed   *)
(* one whose every channel is exactly one unit of a plain GL type.        *)
ReadableAsArray(d) ==
    /\ ~d.compressed
    /\ \/ d.layout = "ARRAY"
       \/ /\ d.layout = "PACKED"
          /\ UnitBits(d.type) # 0
          /\ \A k \in 1..Len(d.bits) : d.bits[k] = UnitBits(d.type)

(* On either byte order, _mesa_format_to_array reports exactly the       *)
(* formats readable as arrays, and for a packed one the array has as many *)
(* elements as the word has units and RGBA component i reads the element  *)
(* that holds the packed channel swz[i] (ZERO and ONE kept).              *)
DescribesMemory(d) ==
    \A e \in Endians :
        LET r == FormatToArray(d, e)
        IN /\ r.ok <=> ReadableAsArray(d)
           /\ (r.ok /\ d.layout = "PACKED") =>
                 /\ r.nch * UnitBits(d.type) = 8 * d.bytes
                 /\ \A i \in 0..3 :
                       r.swz[i] = IF d.swz[i] < 4
                                  THEN UnitOfChannel(e, r.nch, d.swz[i])
                                  ELSE d.swz[i]
=============================================================================
