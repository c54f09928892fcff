SPECIFICATION Spec
CONSTANT MaxStates = 5
INVARIANTS TypeOK EveryStateIsSomewhere RemovedAreKnown ActiveIsExact SelectableAreStates
CHECK_DEADLOCK FALSE
