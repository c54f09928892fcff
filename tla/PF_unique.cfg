SPECIFICATION Spec
CONSTANTS
    MaxProcesses = 2
    MaxIndex = 3
    MaxStateId = 3
    MaxWays = 2
INVARIANT StateIdsUnique
CHECK_DEADLOCK FALSE
