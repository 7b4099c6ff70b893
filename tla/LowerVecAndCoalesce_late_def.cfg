\* A temporary written again right after the vec that reads it: the pass
\* removes the instruction the block iteration saved as the next one.
CONSTANTS
    Programs <- LateDefPrograms
    Outs <- MC_Outs
SPECIFICATION Spec
INVARIANT NextInstrNotFreed
CHECK_DEADLOCK FALSE
