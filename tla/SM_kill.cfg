SPECIFICATION Spec
CONSTANTS
    MaxProcesses = 3
    Timeout = TRUE
    MaxPaths = 3
    MaxForks = 3
    PathsEnd = TRUE
INVARIANTS TypeOK SuccessCountMirrors KillsAgree KeeperExists
PROPERTY KillsAreExecuted
CHECK_DEADLOCK FALSE
