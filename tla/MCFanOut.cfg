SPECIFICATION Spec
CONSTANTS
    n1 = n1
    n2 = n2
    n3 = n3
    NoNode = NoNode
    NoAnswer = NoAnswer
    Nodes <- MCNodes
    Addresses <- MCAddresses
    SelfSigned <- MCSelfSigned
    Configs <- MCConfigs
    nil = nil
    diskFetchConcurrency = 2
INVARIANTS
    TypeOK
    BoundedConcurrency
    NoRaceOnResults
    VerdictOnAnswers
    ReadsTrustedKubelets
PROPERTY
    DeliversVerdict
CHECK_DEADLOCK FALSE
