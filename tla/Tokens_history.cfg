SPECIFICATION Spec
CONSTANTS
    token = token
    other = other
    u1 = u1
    u2 = u2
    x1 = x1
    x2 = x2
    x3 = x3
    x4 = x4
    x5 = x5
    Nobody = Nobody
    Contracts <- MCContracts
    Users <- MCUsers
    Txids <- MCTxids
    MaxOps = 2
    Chain <- MCChain
    Interval = 2
    MaxStarts = 2
    MaxRows = 1
    Faults = {}
INVARIANTS
    TransfersInHistory
CHECK_DEADLOCK FALSE
