CONSTANTS
    Blocks <- TreeBlocks
    Path <- TreePath
    Tasks = {"t", "u"}
    None = "none"
    MaxBlockRequest = 2
    MaxAsk = 2
    BanScore = 40
SPECIFICATION FairSpec
INVARIANTS
    OneServer
    FlagIsTask
    StoppedOnDisconnect
PROPERTIES
    ServedOrStranded
