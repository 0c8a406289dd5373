SPECIFICATION UISpec
CONSTANTS
    Plain = plain
    Attributes <- OnePlain
    Cells = 3
    Points <- RowPoints
    Rects <- CellRects
    Loaded <- OneOrTwoLoaded
    NewDefinitions <- OneDefinition
    Clipboards <- TwoItemClipboard
    MayInterruptPaste = FALSE
    KeyMax = 3
    ItemMax = 3
    OperationMax = 1
INVARIANTS NeverThrows NothingLeftOpen RestIsRecorded
PROPERTIES EscapeRestoresLayout
