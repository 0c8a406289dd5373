SPECIFICATION SpecH
CONSTANTS
    ElementCount <- GlitchCount
    Type <- GlitchType
    InputCount <- GlitchInputCount
    OutputCount <- GlitchOutputCount
    Sink <- GlitchSink
    Inverted <- GlitchInverted
    Delay <- GlitchDelay
    HistoryLength <- GlitchHistory
    RunConfigs <- GlitchRuns
    UserStates <- GlitchStates
    UserInputs <- GlitchInputs
    CheckInterval = 2
    MaxTries = 2
    CountMax = 1000
    CallHorizon = 5
INVARIANTS NoError QueueInvariant InputsFollowOutputs ViewShowsWave DrawnEntriesValid
PROPERTIES RunEndsComplete ImplementsSynchronousCircuit
CHECK_DEADLOCK FALSE
