SPECIFICATION Spec
CONSTANTS
    Jobs = {"vault", "zookeeper", "postgres"}
    n1 = n1
    n2 = n2
    n3 = n3
    Workers <- ThreeWorkers
    None = None
INVARIANTS
    TypeOK
    SoFar
    MasterHasLed
    NobodyIsMissing
    ReportIsTrue
