\* The pairs the dispatcher mishandles (Mispacked): an RGBA float source
\* or an RGBA ubyte destination on the fast pack path, and an
\* array-format or narrower source with a packed destination.
SPECIFICATION Spec
CONSTANTS
    Pairs <- Mispacked
    Fmt <- Table
    Values <- Vals
    MaxRows = 1
    StackBytes = {0, 3, 6, 255}
INVARIANT ConvertedCloseToSource
CHECK_DEADLOCK FALSE
