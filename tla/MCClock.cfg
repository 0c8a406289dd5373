SPECIFICATION Spec
CONSTANTS
    ElementCount <- ClockCount
    Type <- ClockType
    InputCount <- ClockInputCount
    OutputCount <- ClockOutputCount
    Sink <- ClockSink
    Inverted <- ClockInverted
    Delay <- ClockDelay
    HistoryLength <- ClockHistory
    RunConfigs <- ClockRuns
    UserStates <- ClockStates
    UserInputs <- ClockInputs
    CheckInterval = 3
    MaxTries = 2
    CountMax = 1000
    CallHorizon = 5
PROPERTIES LimitRespected ImplementsSynchronousCircuit CallReturns
CHECK_DEADLOCK FALSE
