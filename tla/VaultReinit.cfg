SPECIFICATION Spec
CONSTANTS
    n1 = n1
    n2 = n2
    Workers <- TwoWorkers
    Shares = 2
    Threshold = 2
    MaxInits = 2
    MaxFaults = 0
    FaultKinds = {}
    Losable = {n1}
PROPERTIES
    InitOnlyOnFirstDeploy
