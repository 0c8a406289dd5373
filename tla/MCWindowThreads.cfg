SPECIFICATION FairSpec
CONSTANTS
    Circuits <- MCCircuits
    NewCircuit = "empty"
    Example = "example"
    Files <- MCFiles
    Edited <- MCEdited
    InitialDisk <- MCInitialDisk
    InputKinds <- MCInputKinds
    CombinedKinds <- MCCombinedKinds
    EditKinds <- MCEditKinds
    MaxTasks = 4
INVARIANTS EventsInOrder DialogIsModal NeverThrows
PROPERTIES CircuitNeverLost CommandEnds
CHECK_DEADLOCK FALSE
