\* t0 = fadd(a, b) feeds a vec2 whose first channel is coalesced into
\* t0; between t0's definition and the vec, another instruction rewrites
\* a, so the clone of the fadd placed at the vec reads the new value.
CONSTANTS
    Programs <- ClobberPrograms
    Outs <- MC_Outs
SPECIFICATION Spec
INVARIANT CoalescePreservesValues
CHECK_DEADLOCK FALSE
