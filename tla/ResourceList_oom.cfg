CONSTANTS
    Stages <- TwoStages
    MESA_SHADER_VERTEX = 0
    MaxUniforms = 2
    MaxInputs = 1
    MaxBuilds = 1
    CanFail = TRUE
SPECIFICATION Spec
INVARIANT ListIsUniformsThenInputs
PROPERTY ImplementsAbstractList
\* A build ends, normally or at an allocation failure.
CHECK_DEADLOCK FALSE
