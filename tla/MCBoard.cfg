SPECIFICATION BoardFairSpec
CONSTANTS
    Dims = {0, 1, 2}
    SampleNumbers = {0, 1, 2}
    FilterTypes = {0, 1, 6}
    MaxLink = 1
    MaxLosses = 1
    MAX_X = 2
    MAX_Y = 2
    StoredConfigs <- MCStored
    Windows = {1}
    TX_POINTS = 1
    FIXED_WINDOW = 2
    FdsQueue = 1
    ExternalTrigger = FALSE
    MaxNesting = 2
    MaxPackage = 2
    AnyCommand <- MCCommands
INVARIANTS
    BoardTypeInvariant
    IdleIsOff
    ScanReady
    CountKept
PROPERTY
    StopEnds
CHECK_DEADLOCK FALSE
