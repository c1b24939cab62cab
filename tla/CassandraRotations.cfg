SPECIFICATION Spec
CONSTANTS
    n1 = n1
    n2 = n2
    r1 = r1
    r2 = r2
    Workers <- TwoWorkers
    Rotators = {r1, r2}
    MaxPasswords = 4
    MaxFaults = 2
    FaultKinds = {"kill", "unanswered", "outage", "slow", "rebuild"}
INVARIANTS
    TypeOK
    RoleIsRecorded
    RotationsExclude
    Ownership
PROPERTIES
    ReplacesRecorded
    PasswordIsAccounted
