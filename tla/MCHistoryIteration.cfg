SPECIFICATION SpecH
CONSTANTS
    ElementCount <- HistCount
    Type <- HistType
    InputCount <- HistInputCount
    OutputCount <- HistOutputCount
    Sink <- HistSink
    Inverted <- HistInverted
    Delay <- HistDelay
    HistoryLength <- HistLength
    RunConfigs <- HistRuns
    UserStates = {}
    UserInputs <- HistInputs
    CheckInterval = 2
    MaxTries = 1
    CountMax = 1000
    CallHorizon = 8
INVARIANT IteratedEntriesValid
CHECK_DEADLOCK FALSE
