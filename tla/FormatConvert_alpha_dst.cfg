\* Alpha-only destinations (A8, A16).
SPECIFICATION Spec
CONSTANTS
    Pairs <- AlphaDstPairs
    Fmt <- Table
    Values <- Vals
    MaxRows = 1
    StackBytes = {0, 3, 6, 255}
INVARIANT FormatValuesConverted
CHECK_DEADLOCK FALSE
