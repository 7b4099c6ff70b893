\* convert_int's ONE for unnormalized data.
SPECIFICATION Spec
CONSTANTS
    SrcTypes <- AllTypes
    DstTypes <- IntOnly
    Norms = {FALSE}
    MaxChans = 1
    MaxCount = 1
    Values <- FewValues
    Samples <- EdgeValues
INVARIANT ChannelsRouted
CHECK_DEADLOCK FALSE
