CONSTANTS
    Stages <- TwoStages
    MESA_SHADER_VERTEX = 0
    MaxUniforms = 2
    MaxInputs = 1
    MaxBuilds = 2
    CanFail = TRUE
SPECIFICATION Spec
INVARIANT ListIsUniformsThenInputs
\* The program's link calls end after MaxBuilds builds.
CHECK_DEADLOCK FALSE
