SPECIFICATION FinishingSpec
CONSTANTS
    MaxProcesses = 2
    Timeout = FALSE
    MaxPaths = 3
    MaxForks = 3
    PathsEnd = FALSE
INVARIANT SomePathSurvives
PROPERTIES OneIsResumed SuspensionEnds
CHECK_DEADLOCK FALSE
