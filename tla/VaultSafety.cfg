SPECIFICATION Spec
CONSTANTS
    n1 = n1
    n2 = n2
    Workers <- TwoWorkers
    Shares = 3
    Threshold = 2
    MaxInits = 2
    MaxFaults = 2
    FaultKinds = {"hook", "bootstrap", "restart", "garbled", "slow"}
    Losable = {n2}
INVARIANTS
    TypeOK
    UnsealedIsRecoverable
    InitializedMeansEscrowed
    BootstrappedMeansOneCluster
    FollowersFindKeys
    Custody
PROPERTIES
    KeysAreEscrowed
