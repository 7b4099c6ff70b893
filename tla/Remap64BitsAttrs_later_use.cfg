\* Z or W of a split input read in a later block than its load.
CONSTANT Programs <- LaterUsePrograms
SPECIFICATION Spec
INVARIANT ReadsRemapped
CHECK_DEADLOCK FALSE
