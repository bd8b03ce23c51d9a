CONSTANTS
    MaxGeneration = 2
    MaxBoots = 3
    MaxEpochs = 3
    StoreMayFail = TRUE
SPECIFICATION FairSpec
INVARIANTS
    GateBackedByRow
    LostStaysClosed
    RequestIsOperators
    FirstScanSignalFree
    UnresolvedClosesGate
PROPERTIES
    BootSettles
CHECK_DEADLOCK FALSE
