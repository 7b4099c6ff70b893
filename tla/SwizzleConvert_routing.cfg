\* Up to 2 pixels of up to 2 channels, every swizzle, both flags, every
\* destination type but GL_INT; the conversions on every 8-bit value and
\* the edges of the wider types.  A call ends: no deadlock check.
SPECIFICATION Spec
CONSTANTS
    SrcTypes <- AllTypes
    DstTypes <- NotInt
    Norms = {FALSE, TRUE}
    MaxChans = 2
    MaxCount = 2
    Values <- FewValues
    Samples <- EdgeValues
INVARIANT TypeOK
INVARIANT ChannelsRouted
INVARIANT NonNormalizedExact
INVARIANT NormalizedWithinOneUlp
CHECK_DEADLOCK FALSE
