SPECIFICATION LiveSpec
CONSTANTS
    MaxInstalls = 3
    MaxFaults = 3
INVARIANTS
    EnforceIsDesired
    LoadedCanOpenHistory
    RollbackStaysPossible
    SettledSelection
PROPERTIES
    AcceptedIsFinal
    RollbackConverges
