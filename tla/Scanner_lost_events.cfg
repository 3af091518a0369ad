SPECIFICATION Spec
CONSTANTS
    x1 = x1
    x2 = x2
    x3 = x3
    Txids <- MCTxids
    Chain <- MCChain
    Ops <- MCOps
    Receipts <- MCReceipts
    MaxOps = 2
    MaxEvents = 2
    Interval = 2
    ScanFromFlags <- NoFlag
    MaxStarts = 2
    Faults = {"kill"}
INVARIANTS
    EventsSaved
CHECK_DEADLOCK FALSE
