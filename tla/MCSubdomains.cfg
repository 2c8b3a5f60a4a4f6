CONSTANTS
    Names <- MCNames
    ParentOf <- MCParentOf
    GenesisNames = {"top"}
    GenesisParents = {"top"}
    Resources = {"empty", "delegation"}
    Addresses = {"a"}
    BidValues = {1}
    MinBid = 1
    OpenPeriod = 1
    BiddingPeriod = 1
    RevealPeriod = 1
    RegisterDeadline = 1
    TransferLockup = 1
    RenewalWindow = 5
    AuctionMaturity = 1
    MaxHeight = 7
    MaxCoins <- SubdomainCoins
SPECIFICATION Spec
INVARIANTS
    NoDelegation
    SubdomainsHaveParents
PROPERTIES
    FlagIsPermanent
