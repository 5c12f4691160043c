SPECIFICATION BoardSpec
CONSTANTS
    Dims = {0, 1, 2}
    SampleNumbers = {0, 1, 2}
    FilterTypes = {0, 1}
    MaxLink = 1
    MaxLosses = 1
    MAX_X = 2
    MAX_Y = 2
    StoredConfigs <- MCStored
    Windows = {1}
    TX_POINTS = 1
    FIXED_WINDOW = 2
    FdsQueue = 1
    ExternalTrigger = TRUE
    MaxNesting = 2
    MaxPackage = 2
    AnyCommand <- MCScanCommands
INVARIANT
    ScanReady
CHECK_DEADLOCK FALSE
