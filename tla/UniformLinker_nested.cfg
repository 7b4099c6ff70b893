CONSTANTS
    Types <- MC_Types
    Uniforms <- NestedUniforms
    Stages <- TwoStages
    MaxPerStage = 2
    MAX_SAMPLERS = 2
    MAX_IMAGE_UNIFORMS = 1
    CanFail = FALSE
SPECIFICATION Spec
INVARIANT RemapContainment
CHECK_DEADLOCK FALSE
