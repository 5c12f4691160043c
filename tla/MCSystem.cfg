SPECIFICATION SysFairSpec
CONSTANTS
    Dims = {0, 1, 2}
    SampleNumbers = {0, 1}
    FilterTypes = {0}
    MaxLink = 2
    MaxLosses = 1
    FRAME_BUFFER_SIZE = 1
    JsonSizes <- MCLargeJson
    MAX_X = 2
    MAX_Y = 2
    StoredConfigs <- MCStoredFrame
    Windows = {1}
    TX_POINTS = 2
    FIXED_WINDOW = 2
    FdsQueue = 1
    ExternalTrigger = FALSE
    MaxNesting = 1
    MaxPackage = 1
    AnyAnswer <- MCAnswers
    AnyCommand <- MCCommands
    MaxRestarts = 1
    BeyondMishaps = FALSE
INVARIANTS
    AgreeUnlessMishap
    FramesExpected
PROPERTIES
    KeepsScanning
    ImplementsHost
    BoardSpec
