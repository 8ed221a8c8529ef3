CONSTANTS
    Conns = {a}
    NoConn = NoConn
    PortRanges = {{1, 2}}
    SharedPort = 0
    MaxConcurrent = 2
    QueueCap = 1
    MaxHellos = 2
    TransferTimeout = FALSE
SPECIFICATION Spec
INVARIANT OneTransferPerConnection
CHECK_DEADLOCK FALSE
