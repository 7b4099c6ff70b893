\* A vec3 whose first channel is propagated: the two channels left are
\* packed into a vec2 that keeps their write-mask positions.
CONSTANTS
    Programs <- GapPrograms
    Outs <- MC_Outs
SPECIFICATION Spec
INVARIANT CoalescePreservesValues
CHECK_DEADLOCK FALSE
