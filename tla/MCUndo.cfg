SPECIFICATION RecordedSpec
CONSTANTS
    Cells = 2
    Attributes = {a, b}
    Rects <- OverlappingRects
    Loaded <- AllLayouts
    NewDefinitions <- OneDefinition
    KeyMax = 3
    ItemMax = 2
    OperationMax = 2
INVARIANTS NeverThrows InsertedDisjoint DeletesExactly CacheIsCurrent
PROPERTIES ImplementsUndoSnapshots
