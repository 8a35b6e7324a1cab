CONSTANTS
    a = a
    b = b
    bad = bad
    Times <- TwoWindows
    Span = 1
    Values = {a, b, bad}
    Unpackable = {bad}
    NoCandle = NoCandle
    Ids = {1, 2, 3}
    NoMark = NoMark
    NoEntry = NoEntry
    Refreshers = {r1, r2}
    Readers = {}
    Ranges <- NoRange
    Emptied = {1, 2}
    Batches <- SingleBatches
    StartStores <- FreshOrLegacy
SPECIFICATION Spec
INVARIANTS
    IndexedOrDirty
    SnapshotCurrent
