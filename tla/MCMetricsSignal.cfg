SPECIFICATION Spec
CONSTANTS
    n1 = n1
    n2 = n2
    p1 = p1
    p2 = p2
    Nodes <- MCNodes
    Pods <- MCPods
    capFailThreshold = 3
    forbiddenRetry = 4
INVARIANTS
    TypeOK
    DownMeansNothingServed
    UsageOfLastGoodFetch
PROPERTIES
    DenialsSpaced
    KeepsContract
    ReportsTheWorld
