CONSTANTS
    Commands = {"p", "q"}
    RunIds = {"r1"}
    Keys = {"k1", "k2"}
    Environments = {"mainnet", "testnet"}
    Invocations <- MCInvocations
    MaxStarts = 3
SPECIFICATION Spec
CHECK_DEADLOCK FALSE
INVARIANT LogIsTheWay
INVARIANT KeptAsRecorded
PROPERTY RecordSpec
PROPERTY StartupEnds
