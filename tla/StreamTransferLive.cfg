CONSTANTS
    WordSize = 8
    MaxAckBits = 2
    TotalChunks = 2
    NumStreams = 1
    Resume = {}
    ZeroRuns = {}
    Window = 2
    AckEvery = 2
    NackEnabled = FALSE
    NackThreshold = 1
    NackedLimit = 1
    Timers = {"tail", "inactivity", "stall"}
    Remember = FALSE
SPECIFICATION LiveSpec
PROPERTIES
    SenderFinishes
    BothEnd
CHECK_DEADLOCK FALSE
