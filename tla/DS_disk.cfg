SPECIFICATION Spec
CONSTANTS
    MaxStates = 3
    LastSector = 0
    Value = {0, 1}
    Blank = 0
    Mortal = {1}
    None = None
INVARIANTS TypeOK LeavesAreOwn SnapshotPresent
PROPERTIES DisksArePrivate FrozenAfterClone
CHECK_DEADLOCK FALSE
