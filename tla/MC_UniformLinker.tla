------------------------- MODULE MC_UniformLinker ---------------------------
(* Instances of UniformLinker for TLC: a small GLSL type universe and     *)
(* programs whose explicit uniform locations do not overlap in GL terms   *)
(* (each leaf array element takes one location).                          *)
EXTENDS UniformLinker

Scalar(c, o, sd, tg, ac) ==
    [kind |-> "scalar", comps |-> c, opaque |-> o, shadow |-> sd,
     target |-> tg, access |-> ac]

MC_Types ==
    [t \in {"float", "vec4", "sampler2D", "sampler2DShadow", "image2D",
            "floatArr2", "samplerArr2", "S", "I", "N"} |->
        CASE t = "float"           -> Scalar(1, "none", FALSE, "none", "none")
          [] t = "vec4"            -> Scalar(4, "none", FALSE, "none", "none")
          [] t = "sampler2D"       -> Scalar(1, "sampler", FALSE, "2D", "none")
          [] t = "sampler2DShadow" -> Scalar(1, "sampler", TRUE, "2D", "none")
          [] t = "image2D"         -> Scalar(1, "image", FALSE, "none", "rw")
          [] t = "floatArr2"   -> [kind |-> "array", elem |-> "float", len |-> 2]
          [] t = "samplerArr2" -> [kind |-> "array", elem |-> "sampler2D", len |-> 2]
          \* struct S { float a; vec4 b; }
          [] t = "S" -> [kind |-> "struct", fields |-> <<"float", "vec4">>]
          \* struct I { float a[2]; }   struct N { I i; float f; }
          [] t = "I" -> [kind |-> "struct", fields |-> <<"floatArr2">>]
          [] t = "N" -> [kind |-> "struct", fields |-> <<"I", "float">>]]

U(t, l) == [type |-> t, location |-> l]

(* float at 0, S at 1 (locations 1-2), sampler2D[2] at 3 (3-4),          *)
(* sampler2DShadow at 5, image2D at 6, and a float without a location.   *)
FlatUniforms ==
    [u \in {"uF", "uS", "uT", "uSh", "uImg", "uNoLoc"} |->
        CASE u = "uF"   -> U("float", 0)
          [] u = "uS"   -> U("S", 1)
          [] u = "uT"   -> U("samplerArr2", 3)
          [] u = "uSh"  -> U("sampler2DShadow", 5)
          [] u = "uImg" -> U("image2D", 6)
          [] OTHER      -> U("float", -1)]

(* struct N at 0 takes GL locations 0-2 (i.a[0], i.a[1], f); a float at 3. *)
NestedUniforms ==
    [u \in {"uN", "uF"} |-> IF u = "uN" THEN U("N", 0) ELSE U("float", 3)]

(* A struct and a float shared by the stages. *)
SharedUniforms ==
    [u \in {"uS", "uF"} |-> IF u = "uS" THEN U("S", 1) ELSE U("float", 0)]

TwoStages == 0..1
=============================================================================
