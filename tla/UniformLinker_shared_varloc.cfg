CONSTANTS
    Types <- MC_Types
    Uniforms <- SharedUniforms
    Stages <- TwoStages
    MaxPerStage = 2
    MAX_SAMPLERS = 2
    MAX_IMAGE_UNIFORMS = 1
    CanFail = FALSE
SPECIFICATION Spec
INVARIANT VarLocationIsStorageIndex
CHECK_DEADLOCK FALSE
