\* A driver filling its extension table up to twice while a two-variable
\* shader is linked.  Both end: no deadlock check.
CONSTANTS
    Shaders <- TwoVarShaders
    Capabilities <- AllCaps
    MaxFills = 2
SPECIFICATION Spec
INVARIANT TypeOK
INVARIANT SupportedExtensionsNamed
INVARIANT LinkFailsIffInvalidVariable
CHECK_DEADLOCK FALSE
