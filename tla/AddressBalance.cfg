SPECIFICATION Spec
CONSTANTS
    a1 = a1
    a2 = a2
    core = core
    token = token
    late = late
    Addrs <- MCAddrs
    Assets <- MCAssets
    NodeAssets <- MCNodeAssets
    ListLimit = 2
    Chain <- MCChain
    Interval = 2
    MaxStarts = 2
    MaxRows = 2
    Faults <- EveryFault
INVARIANTS
    TypeOK
    CheckpointedBalancesCurrent
    StaleOnlyBeforePendingOperation
PROPERTIES
    BalancesNeverGoBack
CHECK_DEADLOCK FALSE
