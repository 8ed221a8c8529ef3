CONSTANTS
    Conns = {a, b}
    NoConn = NoConn
    PortRanges = {{}, {1, 2, 3, 4}}
    SharedPort = 0
    MaxConcurrent = 3
    QueueCap = 1
    MaxHellos = 2
    TransferTimeout = TRUE
SPECIFICATION Spec
CHECK_DEADLOCK FALSE
INVARIANTS
    
    RunsContiguous
    AdmissionExact
