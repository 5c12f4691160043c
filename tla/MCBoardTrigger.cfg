SPECIFICATION BoardFairSpec
CONSTANTS
    Dims = {0, 1}
    SampleNumbers = {0, 1, 2}
    FilterTypes = {0, 1, 2, 3, 4}
    MaxLink = 1
    MaxLosses = 1
    MAX_X = 1
    MAX_Y = 1
    StoredConfigs <- MCFilterStored
    Windows = {0, 2}
    TX_POINTS = 1
    FIXED_WINDOW = 1
    FdsQueue = 1
    ExternalTrigger = TRUE
    MaxNesting = 2
    MaxPackage = 2
    AnyCommand <- MCScanCommands
INVARIANTS
    IdleIsOff
PROPERTY
    StopEnds
CHECK_DEADLOCK FALSE
