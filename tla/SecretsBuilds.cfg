SPECIFICATION FairSpec
CONSTANTS
    Jobs = {"prometheus", "postgres", "clickhouse"}
    n1 = n1
    n2 = n2
    Workers <- TwoWorkers
    MaxSecrets = 6
    MaxFaults = 3
    FaultKinds = {"kill", "delete"}
INVARIANTS
    TypeOK
    BcryptFollowsPassword
    Pairing
PROPERTIES
    SecretsKept
    ServedUnlessTorn
