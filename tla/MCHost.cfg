SPECIFICATION HostSpec
CONSTANTS
    Dims = {0, 1, 2}
    SampleNumbers = {0}
    FilterTypes = {0}
    MaxLink = 1
    MaxLosses = 1
    FRAME_BUFFER_SIZE = 1
    JsonSizes <- MCJson
    AnyAnswer <- MCAnswers
INVARIANTS
    HostTypeInvariant
    SingleOutstanding
    BufferedFramesFit
    WrittenConfigCoversJson
    OnlySendableRequested
