SPECIFICATION FairSpec
CONSTANTS
    n1 = n1
    n2 = n2
    r1 = r1
    r2 = r2
    Workers <- TwoWorkers
    Rotators = {r1}
    MaxPasswords = 4
    MaxFaults = 2
    FaultKinds = {"kill", "unanswered", "outage", "slow", "rebuild"}
PROPERTIES
    ConfiguredInTheEnd
    RotatedEverywhere
