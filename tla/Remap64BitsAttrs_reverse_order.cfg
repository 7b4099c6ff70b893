\* The input at location 1 is loaded before the one at location 0.
CONSTANT Programs <- ReverseOrderPrograms
SPECIFICATION Spec
INVARIANT ReadsRemapped
CHECK_DEADLOCK FALSE
