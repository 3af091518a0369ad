SPECIFICATION Spec
CONSTANTS
    a1 = a1
    a2 = a2
    core = core
    token = token
    late = late
    Addrs <- MCAddrs
    Assets <- MCAssets
    NodeAssets <- MCNodeAssets
    ListLimit = 2
    Chain <- MCChain
    Interval = 2
    MaxStarts = 2
    MaxRows = 1
    Faults <- EveryRowSeen
INVARIANTS
    OneRowWithAsset
PROPERTIES
    BalancesCatchUp
CHECK_DEADLOCK FALSE
