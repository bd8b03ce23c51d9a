SPECIFICATION FairSpec
CONSTANTS
    r1 = r1
    r2 = r2
    k1 = k1
    Runs = {r1, r2}
    Controllers = {k1}
    LaneMaps <- MCLaneMaps
    Capacity = 2
    Retention = 0
    MaxTick = 1
INVARIANT ReleasedEvidenceIsSound
PROPERTIES
    LeaseRefinement
    OrphanedLeaseEnds
