CONSTANTS
    Conns = {a, b}
    NoConn = NoConn
    PortRanges = {{}}
    SharedPort = 0
    MaxConcurrent = 2
    QueueCap = 1
    MaxHellos = 2
    TransferTimeout = FALSE
SPECIFICATION Spec
INVARIANT AcceptLoopResponsive
CHECK_DEADLOCK FALSE
