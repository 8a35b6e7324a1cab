CONSTANTS
    OwnerTags = {"k3x9p2", "other0"}
    MaxEpoch = 100
    Owner = "k3x9p2"
    Epoch = 3
    Operation = 42
    ForeignTexts <- MCForeignTexts
    Kinds = {"entry", "exit"}
    Delay = 2
    LookupsVerified = TRUE
    Retention = 3
    Quantity = 2
    BareSubmit = TRUE
    MaxAttempts = 1
    MaxTime = 1
SPECIFICATION Spec
INVARIANTS
    RecordReadable
