---------------------------- MODULE MC_LinkProgram ----------------------------
(* A program of two stages, the vertex stage first, linked twice: a float *)
(* at location 0 and a struct S { float a; vec4 b; } at 1 (locations 1-2) *)
(* each declared by either stage or both, in any order, and one vertex    *)
(* input.                                                                 *)
EXTENDS LinkProgram

LP_Scalar(c) == [kind |-> "scalar", comps |-> c, opaque |-> "none",
                 shadow |-> FALSE, target |-> "none", access |-> "none"]
LP_Types == [t \in {"float", "vec4", "S"} |->
                CASE t = "float" -> LP_Scalar(1)
                  [] t = "vec4"  -> LP_Scalar(4)
                  [] OTHER -> [kind |-> "struct", fields |-> <<"float", "vec4">>]]
LP_Uniforms == [u \in {"uS", "uF"} |->
                   IF u = "uS" THEN [type |-> "S", location |-> 1]
                   ELSE [type |-> "float", location |-> 0]]
LP_Stages == 0..1
=============================================================================
