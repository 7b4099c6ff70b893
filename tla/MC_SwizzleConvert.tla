-------------------------- MODULE MC_SwizzleConvert --------------------------
(* Channel values for the runs of SwizzleConvert.                          *)
EXTENDS SwizzleConvert

INT32_MIN == -2147483647 - 1

AllTypes == {"GL_UNSIGNED_BYTE", "GL_BYTE", "GL_UNSIGNED_SHORT", "GL_SHORT",
             "GL_UNSIGNED_INT", "GL_INT"}
NotInt == AllTypes \ {"GL_INT"}
IntOnly == {"GL_INT"}

(* Two values per type for multi-channel, multi-pixel runs: one the      *)
(* narrower types cannot hold and one they can.                          *)
FewValues(t) ==
    CASE t = "GL_UNSIGNED_BYTE"  -> {3, 200}
      [] t = "GL_BYTE"           -> {-100, 5}
      [] t = "GL_UNSIGNED_SHORT" -> {7, 40000}
      [] t = "GL_SHORT"          -> {-30000, 9}
      [] t = "GL_UNSIGNED_INT"   -> {2, 70000}
      [] t = "GL_INT"            -> {-70000, 4}

(* Every 8-bit value, and the edges of the wider types: extremes, the    *)
(* values next to them, and the powers of two around the byte and short *)
(* boundaries.                                                           *)
EdgeValues(t) ==
    CASE t = "GL_UNSIGNED_BYTE"  -> 0..255
      [] t = "GL_BYTE"           -> -128..127
      [] t = "GL_UNSIGNED_SHORT" ->
            {0, 1, 2, 127, 128, 129, 255, 256, 257, 511, 512, 32767, 32768,
             65279, 65280, 65281, 65534, 65535}
      [] t = "GL_SHORT"          ->
            {-32768, -32767, -32766, -32512, -257, -256, -255, -129, -128,
             -127, -2, -1, 0, 1, 2, 127, 128, 255, 256, 32511, 32512, 32766,
             32767}
      [] t = "GL_UNSIGNED_INT"   -> {0, 1, 255, 256, 65535, 65536, 2147483647}
      [] t = "GL_INT"            ->
            {INT32_MIN, INT32_MIN + 1, -16777216, -65536, -32769, -32768,
             -129, -128, -1, 0, 1, 127, 128, 32767, 32768, 16777215,
             2147483647}
=============================================================================
