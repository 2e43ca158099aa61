SPECIFICATION Spec
CONSTANTS
    n1 = n1
    n2 = n2
    f1 = f1
    f2 = f2
    Nodes <- MCNodes
    Snapshots <- WithBare
    Fetches <- OneFetch
    StaleAfter = 1
    NoSnap = NoSnap
    NoNode = NoNode
INVARIANT
    GridShowsSnapshot
