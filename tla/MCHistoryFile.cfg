SPECIFICATION Spec
CONSTANTS
    MaxHistories = 4
    MaxTime = 1
    MaxCrashes = 2
    MaxMishaps = 2
INVARIANT HistoryIsOwn
PROPERTY HistoryIsKept
