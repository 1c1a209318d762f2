SPECIFICATION FairSpec
CONSTANTS
    Chunks = 2
    Calls = {c1, c2}
    MaxSends = 3
INVARIANTS
    TypeOK
    DigestIsOfTheChunks
PROPERTIES
    ImplementsUpload
    PurgedLeavesNothing
CHECK_DEADLOCK FALSE
