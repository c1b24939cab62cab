SPECIFICATION FairSpec
CONSTANTS
    Jobs = {"prometheus"}
    n1 = n1
    n2 = n2
    Workers <- OneWorker
    MaxSecrets = 3
    MaxFaults = 2
    FaultKinds = {"kill", "delete"}
PROPERTIES
    ServedInTheEnd
