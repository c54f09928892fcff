SPECIFICATION MCSpec
CONSTANTS
    MaxStates = 3
    MaxKey = 3
    Ram = {ram}
    Shared = {dirty, vga}
    Dirty = dirty
    Value = {0, 1}
    Clean = 0
    Uses = {ram, dirty, vga, "regs", "sys", "dev"}
    Mortal = {1, 2}
INVARIANTS TypeOK OwnedIsExclusive PinnedCoherent CachesCoherent
PROPERTY PathsArePrivate
CHECK_DEADLOCK FALSE
