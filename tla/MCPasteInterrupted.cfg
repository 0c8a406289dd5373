SPECIFICATION UISpec
CONSTANTS
    Plain = plain
    Attributes <- OnePlain
    Cells = 3
    Points <- RowPoints
    Rects <- CellRects
    Loaded <- OneLoaded
    NewDefinitions <- OneDefinition
    Clipboards <- TwoItemClipboard
    MayInterruptPaste = TRUE
    KeyMax = 5
    ItemMax = 3
    OperationMax = 1
INVARIANTS NeverThrows
