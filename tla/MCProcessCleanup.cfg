SPECIFICATION FairSpec
CONSTANTS
    c1 = c1
    m1 = m1
    r1 = r1
    Machines <- MCMachines
INVARIANTS
    KillAfterTerm
    JournalCoversEffects
    ClearedMeansGone
    UnresolvedAttemptIsFenced
PROPERTIES
    RevokedPlanIsInert
    SignalRestsOnFreshFacts
    AttemptSettles
CHECK_DEADLOCK FALSE
