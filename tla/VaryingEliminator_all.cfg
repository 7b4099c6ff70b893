\* Generic and patch interfaces together, in a build where a shift by 64
\* or more yields no bits.  A finished pass stops: no deadlock check.
CONSTANTS
    VAR0 <- MC_VAR0
    PATCH0 <- MC_PATCH0
    Decls <- AllDecls
    MaxVars = 2
    MaxCalls = 2
    ShiftOutcomes <- ZeroShift
SPECIFICATION Spec
INVARIANT TypeOK
INVARIANT NoNeededVaryingDemoted
INVARIANT UnneededVaryingDemoted
INVARIANT SecondCallMakesNoProgress
CHECK_DEADLOCK FALSE
