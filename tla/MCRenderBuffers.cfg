SPECIFICATION FairSpec
CONSTANTS
    BufferCount = 2
    Params <- MCParams
    EmptyParams <- MCEmptyParams
    RefusedParams <- MCRefusedParams
    MaxVersion = 3
    MaxFailures = 2
INVARIANTS OneOwner
PROPERTIES FramesInOrder RepaintsShown ThreadsEnd
CHECK_DEADLOCK FALSE
