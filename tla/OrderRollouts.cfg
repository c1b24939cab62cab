SPECIFICATION Spec
CONSTANTS
    Jobs = {"zookeeper", "postgres", "vault"}
    n1 = n1
    n2 = n2
    n3 = n3
    Workers <- ThreeWorkers
    None = None
    MaxFaults = 2
    FaultKinds = {"kv", "crash", "election", "slow"}
INVARIANTS
    TypeOK
    TransfersAtMostOnce
    OthersServe
    OthersAnswer
    Rollout
PROPERTIES
    EveryoneRestarted
