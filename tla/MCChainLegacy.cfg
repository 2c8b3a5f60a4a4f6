CONSTANTS
    Blocks <- TreeBlocks
    Path <- TreePath
    Work <- TreeWork
    Genesis = "g"
    Invalid = {"d1"}
    Spending = {"a2", "c3"}
    TreeInterval = 2
    LegacyBlocks = 100
    GenesisReplayed = "replayed"
    Twice <- TreeTwice
    FreshStart = TRUE
    SubmitUnsynced = TRUE
    MaxCrashes = 1
SPECIFICATION Spec
PROPERTIES
    ImplementsLedger
