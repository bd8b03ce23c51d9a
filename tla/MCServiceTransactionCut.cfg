SPECIFICATION Spec
CONSTANTS
    MaxInstalls = 2
    MaxFaults = 2
INVARIANTS
    RollbackNeverRefused
