SPECIFICATION Spec
CONSTANTS
    MaxStates = 2
    LastSector = 1
    Value = {0, 1}
    Blank = 0
    Mortal = {1}
    None = None
INVARIANT ReadsAgree
CHECK_DEADLOCK FALSE
