\* Normalized widening of the most negative snorm values.
SPECIFICATION Spec
CONSTANTS
    SrcTypes <- AllTypes
    DstTypes <- AllTypes
    Norms = {TRUE}
    MaxChans = 1
    MaxCount = 1
    Values <- EdgeValues
    Samples <- EdgeValues
INVARIANT SnormResultInRange
CHECK_DEADLOCK FALSE
