SPECIFICATION DrawingSpec
CONSTANTS
    Width = 3
    Height = 3
    ItemOutputs <- TwoOutputs
    ItemInputs <- ThreeInputs
    ItemBodies <- NoBodies
    LogicItems <- FourItems
    WireDelays <- NoneOrThree
    Loaded <- Drawn
    Deltas <- NoDeltas
    TrueCrossPoints <- NoDeltas
    KeyMax = 6
    ReplayKeyMax = 8
    SegmentMax = 6
INVARIANTS LineTreesEquivalent SchematicFollowsLayout SavedIsLoaded
