CONSTANTS
    OwnerTags = {"k3x9p2", "other0"}
    MaxEpoch = 100
    Owner = "k3x9p2"
    Epoch = 3
    Operation = 42
    ForeignTexts <- MCForeignTexts
    Kinds = {"entry", "exit"}
    Delay = 2
    LookupsVerified = TRUE
    Retention = 3
    Quantity = 2
    BareSubmit = FALSE
    MaxAttempts = 2
    MaxTime = 5
    Account <- MCAccount
    Listed <- MCListed
    MaxSize = 2
    EntrySides = {"long"}
    Terms = {"new"}
    ByHand <- MCByHand
    Reasons = {"manual"}
SPECIFICATION FuturesSpec
INVARIANTS
    FilledIsExecuted
    SettledIsOver
    ExecutionCounts
    EntrySentOnce
    CanAlwaysClose
    FinalIsWhole
PROPERTIES
    ProtectedWasCovered
    ClosedWasGone
CHECK_DEADLOCK FALSE
