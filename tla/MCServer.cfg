SPECIFICATION Spec
CONSTANTS
    reader = reader
    sleeper = sleeper
    Clients <- MCClients
    Stalled <- MCStalled
    MaxGen = 4
    NoSnap = NoSnap
INVARIANTS
    TypeOK
    NothingLeaks
PROPERTIES
    StepsBackAtMostOnce
    CatchesUp
    HandlerReturns
