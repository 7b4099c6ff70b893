\* 32-bit signed integer array formats as source.
SPECIFICATION Spec
CONSTANTS
    Pairs <- Int32Pairs
    Fmt <- Table
    Values <- Vals
    MaxRows = 1
    StackBytes = {0, 3, 6, 255}
INVARIANT FormatValuesConverted
CHECK_DEADLOCK FALSE
