SPECIFICATION Spec
CONSTANTS
    MaxPaths = 2
    MaxDepth = 3
    MaxSlots = 2
    MaxEvents = 6
    Libraries = {"library"}
    UnloadAction = "succeed"
INVARIANTS
    TypeOK
    DescriptorsOwn
    ToldWhere
    ArgsHaveReturn
    ReturnsPaired
    HooksFollowLoad
    CheckerFollowsOnlyPath
CHECK_DEADLOCK FALSE
