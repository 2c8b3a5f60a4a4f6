CONSTANTS
    Blocks <- TreeBlocks
    Path <- TreePath
    Work <- TreeWork
    Genesis = "g"
    Invalid = {"d1"}
    Spending = {"a2", "c3"}
    TreeInterval = 2
    LegacyBlocks = 0
    GenesisReplayed = "replayed"
    Twice <- TreeTwice
    FreshStart = FALSE
    SubmitUnsynced = FALSE
    MaxCrashes = 2
SPECIFICATION FairSpec
INVARIANTS
    TypeOK
    BestIsPath
    StoredIsPath
    StoredOnBestChain
    CoinsMatchBlocks
    NamesMatchOrDetectable
    ConnectedOnRightNames
    SnapshotsCover
PROPERTIES
    RewindOnlyForMoreWork
    ImplementsLedger
    RecoveryTerminates
