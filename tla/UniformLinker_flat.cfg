CONSTANTS
    Types <- MC_Types
    Uniforms <- FlatUniforms
    Stages <- TwoStages
    MaxPerStage = 3
    MAX_SAMPLERS = 2
    MAX_IMAGE_UNIFORMS = 1
    CanFail = TRUE
SPECIFICATION Spec
INVARIANT TypeOK
INVARIANT RemapContainment
INVARIANT NoDuplicateLocation
INVARIANT OpaqueIndicesDisjoint
INVARIANT DataSlotsInBounds
INVARIANT SamplerUnitsUsed
\* A link ends: the finished states have no successor.
CHECK_DEADLOCK FALSE
