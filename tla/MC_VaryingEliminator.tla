------------------------ MODULE MC_VaryingEliminator -------------------------
(* Instances of VaryingEliminator for TLC.  Slot numbers are those of      *)
(* gl_varying_slot in compiler/shader_enums.h (VAR0 = 32, PATCH0 = 64,     *)
(* TESS_LEVEL_OUTER = 26).                                                 *)
EXTENDS VaryingEliminator

MC_VAR0 == 32
MC_PATCH0 == 64
TESS_LEVEL_OUTER == 26

Decl(loc, frac, patch, slots, aa) ==
    [location |-> loc, frac |-> frac, patch |-> patch, slots |-> slots, aa |-> aa]

(* Per-vertex generic varyings at two adjacent slots, components 0 and 1, *)
(* one or two slots wide, with and without always_active_io, and one      *)
(* generic patch varying.                                                 *)
GenericDecls ==
    {Decl(l, f, FALSE, s, a) : l \in {MC_VAR0, MC_VAR0 + 1}, f \in {0, 1},
                               s \in {1, 2}, a \in BOOLEAN}
    \cup {Decl(MC_PATCH0, 0, TRUE, 1, FALSE)}

(* gl_TessLevelOuter (a built-in patch varying, float[4]), generic patch  *)
(* varyings at PATCH0 and PATCH0 + 26, and the per-vertex generic at      *)
(* VAR0 + 26, whose mask bit is 26 as well.                               *)
PatchDecls ==
    {Decl(TESS_LEVEL_OUTER, 0, TRUE, 4, FALSE),
     Decl(MC_PATCH0, 0, TRUE, 1, FALSE),
     Decl(MC_PATCH0 + TESS_LEVEL_OUTER, 0, TRUE, 1, FALSE),
     Decl(MC_VAR0 + TESS_LEVEL_OUTER, 0, FALSE, 1, FALSE)}

(* Both sets in one interface space: the generic varyings of both         *)
(* components and widths, one always-active varying, and the patch set.   *)
AllDecls ==
    {Decl(l, f, FALSE, s, FALSE) : l \in {MC_VAR0, MC_VAR0 + 1}, f \in {0, 1},
                                   s \in {1, 2}}
    \cup {Decl(MC_VAR0, 1, FALSE, 1, TRUE)} \cup PatchDecls

ZeroShift == {"zero"}
AnyShift == {"wrap", "zero"}
=============================================================================
