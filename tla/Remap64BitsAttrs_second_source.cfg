\* Z or W of a split input read through the second source of an ALU.
CONSTANT Programs <- SecondSourcePrograms
SPECIFICATION Spec
INVARIANT ReadsRemapped
CHECK_DEADLOCK FALSE
