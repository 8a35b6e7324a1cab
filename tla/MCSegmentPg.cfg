CONSTANTS
    a = a
    b = b
    x1 = x1
    x2 = x2
    r1 = r1
    r2 = r2
    Times <- TwoWindows
    Span = 1
    Values = {a, b}
    Unpackable = {}
    NoCandle = NoCandle
    Ids = {1, 2, 3}
    NoMark = NoMark
    NoEntry = NoEntry
    Refreshers = {r1, r2}
    Writers = {x1, x2}
    Repeats = {1, 2}
    Readers = {}
    Ranges <- NoRange
    Emptied = {}
    Batches <- OneBatch
    StartStores <- Written
SYMMETRY Alike
SPECIFICATION PgSpec
INVARIANTS
    NoCircularWait
PROPERTIES
    PublishesTheStore
