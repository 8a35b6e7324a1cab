CONSTANTS
    Trees <- MCTrees
    Rewrites = {0, 3}
    MaxRewrites = 1
    LimitSets <- MCLimitSets
    Ranges <- MCRanges
    Runtimes <- MCRuntimes
    Manifests <- MCManifests
    Folded <- MCFolded
    Rank <- MCRank
    Hidden = {".git"}
    Plain = {"A", "S.py", "__init__.py", "a", "b.py", "m.toml", "s.py", "n.md"}
    Kept = {"S.py", "__init__.py", "b.py", "m.toml", "s.py", "aux.py"}
    Python = {"S.py", "s.py", "b.py"}
    Packages = {"A", "a"}
    PackageFile = "__init__.py"
    ManifestName = "m.toml"
    Block = 2
    TarMax = 3
    Targets <- MCTargets
    Step = 3
    Now = 31
    FirstBar = 9
    Ancient = 0
    AncientBars = 2
    FutureBars = 5
    WindowBars = 4
    SettledBars = 2
    Page = 2
    MaxPages = 4
    Latest = 3
    MaxLimit = 6
    AnyLimit = 100
    MaxDrift = 1
    RecvWindow = 5
    LowerCase <- MCLowerCase
    Notional = 3
    Multiple = 4
    LotStep = 2
    MinQty = 4
    BaseFee = 1
    Funds = {5, 20}
    Partial = {0, 4, 7}
    Polls = 3
    Lags = {0, 2}
SPECIFICATION EdgesSpec
CHECK_DEADLOCK FALSE
INVARIANT OneArchive
INVARIANT ExtractsAnywhere
INVARIANT DirectoryAsFiles
INVARIANT JudgedRight
