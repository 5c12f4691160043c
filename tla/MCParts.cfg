SPECIFICATION Spec
CONSTANTS
    h1 = h1
    h2 = h2
    Handlers <- MCHandlers
    Sizes <- MCSizes
    JsonSize <- MCJson
    FRAME_BUFFER_SIZE = 2
    MaxFrames = 3
    Free = Free
    c1 = c1
    c2 = c2
    Clients <- MCClients
    Readers <- MCReaders
    MaxDescriptor = 2
    Nobody = Nobody
    AnswerStreams <- MCAnswers
    USB_PART_BUFFER_SIZE = 20
    CommandStreams <- MCCommands
    SERIAL_BUFFER = 26
    RX_COMMAND_SIZE = 51
    CHIP = 2
    CHAIN = 2
    SCAN_LINES = 2
    INT8_LIMIT = 4
    Unknown = Unknown
    Matrices <- MCMatrices
    Values <- MCValues
    WindowSizes <- MCWindowSizes
    Files <- MCFiles
    BoardSizes <- MCBoardSizes
    MAX_X = 2
    MAX_Y = 2
    UINT8 = 4
    Missing = Missing
    Stray = Stray
INVARIANTS
    ServerTypeOK
    WalkedFrameStays
    StopJoinsAll
    SentToOwnClient
    RxFits
    OneLineDriven
    RightPoint
    FiltersTypeOK
    SentIsAverage
    SteadyIsSent
    MedianWasMeasured
    JsonTypeOK
    ConvertsInside
    AllPixelsShown
PROPERTIES
    ImplementsQueue
    LockReleased
    AcceptsDespiteStuck
    RequestsEnd
    ParserHandsOverWhole
    NoAnswerLost
    AnswersGetHandled
    ReceiverHandsOverWhole
    OneReadSuffices
CHECK_DEADLOCK FALSE
