CONSTANTS
    Types <- MC_Types
    Uniforms <- SharedUniforms
    Stages <- TwoStages
    MaxPerStage = 2
    MAX_SAMPLERS = 2
    MAX_IMAGE_UNIFORMS = 1
    CanFail = TRUE
SPECIFICATION Spec
INVARIANT StorageCountMatches
CHECK_DEADLOCK FALSE
