CONSTANTS
    Blocks <- TreeBlocks
    Path <- TreePath
    Work <- TreeWork
    Genesis = "g"
    BadHeaders = {"header"}
    Unproved = {"proof"}
    Invalid = {"body"}
    Spending = {"a3"}
    Peers = {"p1", "p2"}
    None = "none"
    Tips <- PeerTips
    MaxHeaders = 2
    Window = 2
    Compact = TRUE
    MaxFaults = 1
SPECIFICATION FairSpec
INVARIANTS
    TypeOK
    DownloadHasPeer
    StallsAreNoticed
    WindowBounded
PROPERTIES
    BannedForCause
    DownloadEnds
    StaysBehindOnlyAbandoned
CHECK_DEADLOCK FALSE
