SPECIFICATION Spec
CONSTANTS
    MaxProcesses = 2
    Timeout = TRUE
    MaxPaths = 2
    MaxForks = 3
    PathsEnd = FALSE
INVARIANT SomePathSurvives
CHECK_DEADLOCK FALSE
