SPECIFICATION JsonSpec
CONSTANTS
    Files <- MCFiles
    BoardSizes <- MCBoardSizes
    MAX_X = 96
    MAX_Y = 96
    UINT8 = 256
    Missing = Missing
    Stray = Stray
INVARIANT ConversionStaysInside
CHECK_DEADLOCK FALSE
