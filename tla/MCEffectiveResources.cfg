SPECIFICATION CallSpec
CONSTANTS
    MaxContainers = 2
    MaxInitContainers = 3
    MaxQuantity = 2
INVARIANT
    CoversEveryPhase
CHECK_DEADLOCK FALSE
