CONSTANTS
    Types <- LP_Types
    Uniforms <- LP_Uniforms
    Stages <- LP_Stages
    MaxPerStage = 2
    MAX_SAMPLERS = 1
    MAX_IMAGE_UNIFORMS = 1
    MESA_SHADER_VERTEX = 0
    NInputs = 1
    MaxUniforms = 3
    MaxLinks = 3
    UniformCanFail = TRUE
    ResourceCanFail = FALSE
SPECIFICATION Spec
INVARIANT TypeOK
INVARIANT LinkedTablesMatchStorage
PROPERTY ImplementsAbstractList
\* The application links the program MaxLinks times, then stops.
CHECK_DEADLOCK FALSE
