SPECIFICATION Spec
CONSTANTS
    n1 = n1
    n2 = n2
    Nodes <- MCNodes
    capFailThreshold = 3
    diskInterval = 1
    forbiddenRetry = 3
INVARIANTS
    TypeOK
    DiskOfLastGoodRefresh
PROPERTIES
    DenialsSpaced
    KeepsContract
    ReportsTheWorld
