SPECIFICATION SysSpec
CONSTANTS
    Dims = {0, 1, 2}
    SampleNumbers = {0, 1}
    FilterTypes = {0}
    MaxLink = 2
    MaxLosses = 0
    FRAME_BUFFER_SIZE = 1
    JsonSizes <- MCSmallJson
    MAX_X = 2
    MAX_Y = 2
    StoredConfigs <- MCStored
    Windows = {1}
    TX_POINTS = 1
    FIXED_WINDOW = 2
    FdsQueue = 1
    ExternalTrigger = FALSE
    MaxNesting = 1
    MaxPackage = 1
    AnyAnswer <- MCAnswers
    AnyCommand <- MCCommands
    MaxRestarts = 0
    BeyondMishaps = TRUE
INVARIANT
    AgreeWhenQuiet
