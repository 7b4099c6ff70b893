\* Two inputs of every pair of types, loaded once each in location order
\* in the first block.  The pass ends after the last block: no deadlock
\* check.
CONSTANT Programs <- InOrderPrograms
SPECIFICATION Spec
INVARIANT TypeOK
INVARIANT ReadsRemapped
CHECK_DEADLOCK FALSE
