SPECIFICATION Spec
CONSTANTS
    Packs <- MCPacks
    MinAge = 1
    TableOf <- MCTableOf
    Moves <- MCMoves
    OwnerPid = 5
    OwnerEntry <- MCOwner
    Bound <- MCBound
    Self = 99
    Grace = 2
    Gap = 1
    Retention = 1
    StartTime = 2
    Jumps <- MCJumps
    Machines <- MCMachines
INVARIANT ClearIsHonest
PROPERTIES GraceEarned RetryStartsOver HeldStaysUntouched LedOnlyWithoutOwner
