SPECIFICATION FairSpec
CONSTANTS
    n1 = n1
    n2 = n2
    Workers <- TwoWorkers
    Shares = 2
    Threshold = 2
    MaxInits = 3
    MaxFaults = 2
    FaultKinds = {"hook", "bootstrap", "restart", "garbled", "slow"}
    Losable = {}
PROPERTIES
    ComesUpAgain
    GetsBootstrapped
