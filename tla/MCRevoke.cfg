CONSTANTS
    Names = {"name"}
    ParentOf <- NoParents
    GenesisNames = {}
    GenesisParents = {}
    Resources = {"empty"}
    Addresses = {"a"}
    BidValues = {1, 2}
    MinBid = 1
    OpenPeriod = 1
    BiddingPeriod = 1
    RevealPeriod = 1
    RegisterDeadline = 1
    TransferLockup = 1
    RenewalWindow = 5
    AuctionMaturity = 2
    MaxHeight = 10
    MaxCoins <- OneNameCoins
SPECIFICATION Spec
PROPERTIES
    RevokedUnspendable
