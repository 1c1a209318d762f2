SPECIFICATION Spec
CONSTANTS
    MaxRows = 2
INVARIANTS
    RestoredFloorShowsItsRun
CHECK_DEADLOCK FALSE
