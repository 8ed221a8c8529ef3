CONSTANTS
    WordSize = 8
    MaxAckBits = 2
    TotalChunks = 5
    NumStreams = 2
    Resume = {1}
    ZeroRuns = {1, 3}
    Window = 2
    AckEvery = 1
    NackEnabled = TRUE
    NackThreshold = 1
    NackedLimit = 1
    Timers = {"tail", "inactivity"}
    Remember = TRUE
SPECIFICATION Spec
CHECK_DEADLOCK FALSE
INVARIANTS
    ReportsFaithful
    FinishMeansComplete
    NothingOverlooked
PROPERTIES
    DeliversFile
