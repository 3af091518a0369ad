SPECIFICATION Spec
CONSTANTS
    Txs <- MCTxs
    OtherCalls = {"get_addr_balances", "get_contract_invoke_object"}
    MaxCalls = 4
    MaxPings = 1
    Faults = {"dial", "pong", "error", "odd", "garbled", "silent", "drop", "sigint"}
INVARIANTS
    TypeOK
    AnswersItsCall
    NoCallWaitsForNothing
    NilBlockIsPastHead
    IdsAreTheBlocks
    ShutdownHasAReason
PROPERTIES
    InterruptEndsCall
CHECK_DEADLOCK FALSE
