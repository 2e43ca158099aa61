SPECIFICATION Spec
CONSTANTS
    n1 = n1
    p1 = p1
    Nodes <- MCNodes
    Pods <- MCPods
    Channels <- Nobody
    NoSnap = NoSnap
    Options <- OneAtATime
    capFailThreshold = 2
    diskInterval = 1
    forbiddenRetry = 2
INVARIANTS
    TypeOK
    SnapshotConsistent
PROPERTIES
    ClusterGetsShown
    RunEnds
