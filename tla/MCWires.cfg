SPECIFICATION RecordedSpec
CONSTANTS
    Width = 3
    Height = 3
    ItemOutputs <- TwoOutputs
    ItemInputs <- RightInput
    ItemBodies <- NoBodies
    Loaded <- DrawnAndSelected
    Deltas <- OneLeft
    TrueCrossPoints <- NoOrCenter
    KeyMax = 5
    ReplayKeyMax = 8
    SegmentMax = 5
INVARIANTS WiresNeverThrow TreesWellFormed IndexMatchesLayout TogglesKeepWires
PROPERTIES WiresImplementUndoSnapshots
