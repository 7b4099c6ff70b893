---------------------------- MODULE MC_SpirvLinker ----------------------------
(* Shaders of two variables for the run of SpirvLinker: inputs, outputs,  *)
(* uniforms and a system value, located or not, named or not; one with a  *)
(* depth layout outside the enum.  Every capability set of the three.     *)
EXTENDS SpirvLinker

Var(m, l, n, d) == [mode |-> m, location |-> l, named |-> n, depth |-> d]
VarKinds ==
    {Var(m, l, n, "any") : m \in {"shader_in", "shader_out", "uniform", "system_value"},
                           l \in {-1, 0}, n \in BOOLEAN}
    \cup {Var("shader_out", 0, TRUE, "bogus")}
TwoVarShaders == {<<v1, v2>> : v1, v2 \in VarKinds}
AllCaps == [draw_parameters : BOOLEAN, multiview : BOOLEAN,
            variable_pointers : BOOLEAN]
=============================================================================
