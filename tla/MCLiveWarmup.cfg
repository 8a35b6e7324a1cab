CONSTANTS
    NoRow = NoRow
    Clock0 = 2
    MaxBar = 3
    MaxStarts = 1
    MaxOrders = 1
    Warmup = 2
    BootstrapEnter = FALSE
    Fills = {5}
    Fee = 1
    Step = 2
    MinQty = 2
    MaxQty = 6
    Other = 0
    Faults = {}
SPECIFICATION Spec
INVARIANT
    WarmsUpOnAll
CHECK_DEADLOCK FALSE
