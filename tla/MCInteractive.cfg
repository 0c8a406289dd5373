SPECIFICATION Spec
CONSTANTS
    Second = 2
    Rates <- StopAndTwoRates
    Timeout = 1
    Durations <- ShortAndLong
    Settles <- AtOnceOrLater
    TryTime = 1
    RealtimeMax = 6
    ClickMax = 1
    RebaseMax = 2
INVARIANTS NeverFasterThanRate
PROPERTIES BacklogDropped ChangesRepainted
