\* Functions whose vec keeps, after propagation, a prefix of its channels
\* or one channel.  A finished pass stops: no deadlock check.
CONSTANTS
    Programs <- PrefixPrograms
    Outs <- MC_Outs
SPECIFICATION Spec
INVARIANT TypeOK
INVARIANT CoalescePreservesValues
CHECK_DEADLOCK FALSE
