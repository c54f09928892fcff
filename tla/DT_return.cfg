SPECIFICATION OverapproximateSpec
CONSTANTS
    MaxPaths = 2
    MaxDepth = 3
    MaxSlots = 2
    MaxEvents = 6
    Libraries = {"library"}
    UnloadAction = "succeed"
INVARIANT
    ReturnsPaired
CHECK_DEADLOCK FALSE
