SPECIFICATION Spec
CONSTANTS
    NumChunks = 3
    Values = {0, 1, 2, 3}
    Zero = 0
    Garble = 3
    Sources <- MCSources
    None = None
    MaxHashes = 2
    MaxTransfers = 2
    MaxSlots = 3
    MaxEpoch = 1
    MaxFaults = 1
    HelloAttempts = 2
    CtrlAttempts = 2
CHECK_DEADLOCK FALSE
INVARIANTS
    ResumedKeysAgree
