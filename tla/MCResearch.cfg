CONSTANTS
    Syncs = {"range", "tail"}
    Configs <- MCConfigs
    Listed <- MCListed
    Step = 2
    Limit = 1
    Drifts <- MCDrifts
    Stored = {}
    Time0 = 6
    MaxTime = 11
    Cash0 = 1000
    Parts = 10
    Fees = {0, 1}
    Markets <- MCMarkets
    Histories <- MCHistories
    Fast = 1
    Slow = 2
SPECIFICATION MCSpec
CHECK_DEADLOCK FALSE
INVARIANT StoredIsFinal
INVARIANT CoversAlone
INVARIANT PackedWhenDone
INVARIANT FiguresAreTrue
INVARIANT TradesFollowDecisions
INVARIANT Rewarms
