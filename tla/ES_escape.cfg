SPECIFICATION Spec
CONSTANTS
    MaxStates = 2
    MaxKey = 2
    Ram = {}
    Shared = {dirty}
    Dirty = dirty
    Value = {0, 1}
    Clean = 0
    Uses = {dirty, "regs", "sys"}
    Mortal = {1, 2}
INVARIANT KillNeverEscapes
CHECK_DEADLOCK FALSE
