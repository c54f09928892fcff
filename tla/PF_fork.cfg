SPECIFICATION Spec
CONSTANTS
    MaxProcesses = 3
    MaxIndex = 3
    MaxStateId = 5
    MaxWays = 6
INVARIANTS TypeOK ProcessesWithinLimit ChildFindsSlot OwnsSlot NoStateLost SplitInRange IndexIsFresh
PROPERTY SplitIsPartition
CHECK_DEADLOCK FALSE
VIEW View
