SPECIFICATION Spec
CONSTANTS
    Jobs = {"vault"}
    n1 = n1
    n2 = n2
    n3 = n3
    Workers <- ThreeWorkers
    None = None
    MaxFaults = 1
    FaultKinds = {"crash"}
INVARIANTS TransfersOnceWhateverTheFlag
