SPECIFICATION FairSpec
CONSTANTS
    Launches = 2
    MaxResends = 1
    None = None
INVARIANTS
    TypeOK
    ModelIsStored
PROPERTIES
    ImplementsJob
    JobEnds
CHECK_DEADLOCK FALSE
