SPECIFICATION Spec
CONSTANTS
    c1 = c1
    c2 = c2
    NoChart = NoChart
    Clients <- MCClients
INVARIANTS
    TypeOK
    AsksWhatIsGranted
    EndsOnlyAsTold
PROPERTIES
    ExitsWhenTold
    KeepsPublishing
\* The process ends.
CHECK_DEADLOCK FALSE
