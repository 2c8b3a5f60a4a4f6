CONSTANTS
    Addrs = {"seed", "name", "self", "self brontide"}
    None = "none"
    Resolved <- MCResolved
    AtDefaultPort <- MCAtDefaultPort
    PeerLists = {{"self"}, {"self brontide"}, {"name"}}
    Exclusive = FALSE
    Dns = {"seed"}
    Gossip = {"self"}
    Selves = {"self", "self brontide"}
    Callers = {"self"}
    Reliable = {"seed", "name", "self brontide"}
    MaxOutbound = 2
    MaxInbound = 1
    MaxAddressPool = 1
    MaxFailCount = 2
    Tasks = {"timer"}
    Timer = "timer"
    MaxId = 2
    MaxFaults = 1
SPECIFICATION FairSpec
INVARIANTS
    IdsFresh
    DialedAccounted
PROPERTIES
    NeverAlone
    SelfGivenUp
CHECK_DEADLOCK FALSE
