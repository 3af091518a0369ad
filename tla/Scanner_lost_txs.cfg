SPECIFICATION Spec
CONSTANTS
    x1 = x1
    x2 = x2
    x3 = x3
    Txids <- MCTxids
    Chain <- MCChain
    Ops <- MCOps
    Receipts <- MCReceipts
    MaxOps = 2
    MaxEvents = 2
    Interval = 2
    ScanFromFlags <- NoFlag
    MaxStarts = 1
    Faults = {"get_contract_invoke_object"}
INVARIANTS
    TransactionsSaved
CHECK_DEADLOCK FALSE
