CONSTANTS
    Blocks <- TreeBlocks
    Path <- TreePath
    Work <- TreeWork
    Genesis = "g"
    BadHeaders = {"header"}
    Unproved = {"proof"}
    Invalid = {"body"}
    Spending = {"a3"}
    Peers = {"p1", "p2"}
    None = "none"
    Tips <- HonestTips
    MaxHeaders = 2
    Window = 2
    Compact = FALSE
    MaxFaults = 0
SPECIFICATION FairSpec
PROPERTY CatchesUp
CHECK_DEADLOCK FALSE
