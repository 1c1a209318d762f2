SPECIFICATION FairSpec
CONSTANTS
    MaxRows = 3
INVARIANTS
    TypeOK
    OneRestorableRow
    AnyRowHasCounter
PROPERTIES
    
    PurgedObjectsGo
CHECK_DEADLOCK FALSE
