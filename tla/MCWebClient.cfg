SPECIFICATION Spec
CONSTANTS
    n1 = n1
    n2 = n2
    f1 = f1
    f2 = f2
    Nodes <- MCNodes
    Snapshots <- Populated
    Fetches <- TwoFetches
    StaleAfter = 1
    NoSnap = NoSnap
    NoNode = NoNode
INVARIANTS
    TypeOK
    NoDataWithoutSignal
    DrillIsOfShownNode
PROPERTY
    PageCatchesUp
