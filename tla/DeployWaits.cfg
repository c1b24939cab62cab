SPECIFICATION FairSpec
CONSTANTS
    Buckets <- FiveBuckets
    Size <- TwoOrThree
    MaxFaults = 2
    FaultKinds = {"crash", "kv", "hook", "slow"}
INVARIANTS
    TypeOK
    HalfWay
    FirstStartsInOrder
    GateHoldsWhileCalm
    JoinsOneAtATime
    OneOutAtATime
PROPERTIES
    ComesUpInTheEnd
