SPECIFICATION RecordedSpec
CONSTANTS
    Cells = 2
    Attributes = {a, b}
    Rects <- OverlappingRects
    Loaded <- JustVanishingGroups
    NewDefinitions <- OneDefinition
    KeyMax = 3
    ItemMax = 2
    OperationMax = 2
PROPERTIES UndoKeepsGroups
