CONSTANTS
    Callers = {"a", "b"}
    Sessions = {1, 2, 3}
    PoolSize = 1
    NoRow = NoRow
    Clock0 = 3
    MaxBar = 5
    MaxStarts = 2
    MaxOrders = 1
    Warmup = 3
    BootstrapEnter = TRUE
    Fills = {5}
    Fee = 1
    Step = 2
    MinQty = 2
    MaxQty = 6
    Other = 0
    Faults = {"crash", "save", "unknown", "fetch", "strategy", "close"}
SPECIFICATION WaitsSpec
INVARIANTS
    PastNeverTraded
    DeliveredOnceWhenNew
    ToldTheTruth
    NeverTwice
    PoolIsClean
PROPERTIES
    KeepsUp
    CallsEnd
CHECK_DEADLOCK FALSE
