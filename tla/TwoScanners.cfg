SPECIFICATION SpecBoth
CONSTANTS
    x1 = x1
    x2 = x2
    Txids <- MCTxids
    Chain <- MCChain
    Ops <- MCOps
    Receipts <- MCReceipts
    MaxOps = 2
    MaxEvents = 2
    Interval = 2
    ScanFromFlags <- NoFlag
    MaxStarts = 1
    Faults = {"other_scanner", "rows_err", "kill", "db_tx",
              "get_contract_invoke_object"}
INVARIANTS
    NoOrphanRows
    CheckpointComplete
    NothingSkippedByEither
CHECK_DEADLOCK FALSE
