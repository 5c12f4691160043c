SPECIFICATION ServerSpec
CONSTANTS
    h1 = h1
    h2 = h2
    Handlers <- MCHandlers
    Sizes <- MCSizes
    JsonSize <- MCJson
    FRAME_BUFFER_SIZE = 2
    MaxFrames = 3
    Free = Free
SYMMETRY Symmetry
INVARIANT
    WalksWholeFrame
