CONSTANTS
    WordSize = 7
    MaxAckBits = 2
    MaxCount = 6
    MaxReports = 2
    NackThreshold = 2
    NackedLimit = 1
SPECIFICATION Spec
CHECK_DEADLOCK FALSE
INVARIANTS
    ReportsSound
    NoHoleOverlooked
PROPERTIES
    NacksExact
