SPECIFICATION FairSpec
CONSTANTS
    n1 = n1
    n2 = n2
    Machines <- MCMachines
    Names <- MCNames
    MaxInodes = 2
    MaxFiles = 2
    MaxTokens = 2
    MaxEpochs = 2
    MaxTicks = 3
    Week = 1
    MaxBoots = 2
    MaxTurns = 2
    MaxFaults = 2
INVARIANTS OneOwner LateRemovalBounded OneOpenAttempt VerdictsHonest NodeUnknownCloses
PROPERTIES RemovedOnlyAged LeaseReleased
CHECK_DEADLOCK FALSE
