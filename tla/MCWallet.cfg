CONSTANTS
    Txs <- MCTxs
    Genesis = "genesis"
    Outs <- MCOuts
    Inputs <- MCInputs
    Covs <- MCCovs
    Rate <- MCRate
    Size <- MCSize
    Mine <- MCMine
    CatchUpLimit = 1
    MaxSize = 2
    EvictionThreshold = 1
    MaxAncestors = 1
    Threads = {"sync"}
    MaxHeight = 2
    MaxBlockTxs = 2
    MaxReorgs = 1
SPECIFICATION WalletSpec
INVARIANTS
    SpentsExact
    NamesExact
    NoneConfirmed
    MinerRepairs
    WalletTypeOK
    NothingLost
