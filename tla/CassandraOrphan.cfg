SPECIFICATION Spec
CONSTANTS
    n1 = n1
    n2 = n2
    r1 = r1
    r2 = r2
    Workers <- OneWorker
    Rotators = {r1}
    MaxPasswords = 2
    MaxFaults = 1
    FaultKinds = {"unanswered"}
INVARIANTS
    KvPasswordLogsIn
