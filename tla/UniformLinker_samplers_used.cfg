\* A sampler declared by the first stage only still shows in the second
\* stage's SamplersUsed.
CONSTANTS
    Types <- MC_Types
    Uniforms <- FlatUniforms
    Stages <- TwoStages
    MaxPerStage = 1
    MAX_SAMPLERS = 2
    MAX_IMAGE_UNIFORMS = 1
    CanFail = FALSE
SPECIFICATION Spec
INVARIANT SamplersUsedOwnUnits
CHECK_DEADLOCK FALSE
