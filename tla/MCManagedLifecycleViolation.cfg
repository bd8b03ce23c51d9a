CONSTANTS
    MaxGeneration = 1
    MaxBoots = 2
    MaxEpochs = 2
    StoreMayFail = TRUE
SPECIFICATION Spec
INVARIANTS
    FailureClearsIntent
CHECK_DEADLOCK FALSE
