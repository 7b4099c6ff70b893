\* t0 is written in two channels and the vec reads its second: the
\* coalesced clone writes the vec's channel with the swizzle of the
\* channel it replaces, not the one the vec read.
CONSTANTS
    Programs <- WideParentPrograms
    Outs <- MC_Outs
SPECIFICATION Spec
INVARIANT CoalescePreservesValues
CHECK_DEADLOCK FALSE
