\* Every pair the dispatcher converts (Converted): array to array, Mesa
\* to array or Mesa through the fast paths and the temporary images; one
\* row (the row loops carry nothing from row to row).  A conversion ends.
\* _mesa_format_to_array on the Mesa formats, on both byte orders.
SPECIFICATION Spec
CONSTANTS
    Pairs <- Converted
    Fmt <- Table
    Values <- Vals
    MaxRows = 1
    StackBytes = {0, 3, 6, 255}
INVARIANT TypeOK
INVARIANT FormatValuesConverted
INVARIANT ConvertedCloseToSource
INVARIANT MesaFormatsDescribed
CHECK_DEADLOCK FALSE
