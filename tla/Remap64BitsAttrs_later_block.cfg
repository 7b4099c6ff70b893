\* The second input is loaded in a later block than the first.
CONSTANT Programs <- LaterBlockPrograms
SPECIFICATION Spec
INVARIANT ReadsRemapped
CHECK_DEADLOCK FALSE
