CONSTANTS
    VAR0 <- MC_VAR0
    PATCH0 <- MC_PATCH0
    Decls <- PatchDecls
    MaxVars = 2
    MaxCalls = 1
    ShiftOutcomes <- AnyShift
SPECIFICATION Spec
INVARIANT UnneededVaryingDemoted
CHECK_DEADLOCK FALSE
