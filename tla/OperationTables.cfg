SPECIFICATION Spec
CONSTANTS
    transfer = transfer
    bonus = bonus
    white_list = white_list
    future = future
    amount = amount
    fee = fee
    Types <- MCTypes
    Nameless <- MCNameless
    Folded <- MCFolded
    Props <- MCProps
    MaxOps = 3
    Chain <- MCChain
    Interval = 2
    MaxStarts = 3
    Faults = {"check_table", "db_op", "rows_err", "kill"}
INVARIANTS
    TypeOK
    OperationsStored
    CacheIsTheTable
    RowsHoldTheirColumns
PROPERTIES
    ColumnsOfOneOperation
CHECK_DEADLOCK FALSE
