CONSTANTS
    a = a
    b = b
    bad = bad
    Times <- TwoInTheFirst
    Span = 2
    Values = {a, bad}
    Unpackable = {bad}
    NoCandle = NoCandle
    Ids = {1, 2}
    NoMark = NoMark
    NoEntry = NoEntry
    Refreshers = {r1}
    Readers = {p1}
    Ranges <- CutRange
    Emptied = {1}
    Batches <- SingleBatches
    StartStores <- FreshOrLegacy
SPECIFICATION PassFairSpec
PROPERTIES
    RefreshEnds
    PassPacks
    PlansReadTheStore
