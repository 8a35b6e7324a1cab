CONSTANTS
    NoRow = NoRow
    Clock0 = 2
    MaxBar = 3
    MaxStarts = 2
    MaxOrders = 2
    Warmup = 2
    BootstrapEnter = TRUE
    Fills = {1, 6}
    Fee = 1
    Step = 2
    MinQty = 2
    MaxQty = 4
    Other = 1
    Faults = {"crash", "journal", "save", "refused", "lostreply", "unreported", "unpriced", "unknown", "close", "fetch", "strategy", "nofills"}
SPECIFICATION Spec
INVARIANTS
    PositionAccounted
    NeverDoubled
    TradeHasEvent
    RowBehindRun
CHECK_DEADLOCK FALSE
