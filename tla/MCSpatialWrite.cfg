SPECIFICATION Spec
CONSTANTS
    w1 = w1
    w2 = w2
    o1 = o1
    p1 = p1
    p2 = p2
    ann = ann
    bob = bob
    None = None
    Walls = {w1, w2}
    Openings = {o1}
    Host <- MCHost
    Places = {p1, p2}
    AiResults <- MCAiResults
    Axes = {0, 1}
    People = {ann, bob}
    Approvers = {ann}
    Keep = 2
    Attempts = 2
    MaxRev = 3
INVARIANTS
    TypeOK
    LogTellsTheTruth
    AppliedOnce
    MergeIsValid
    RemovalsAreExact
PROPERTIES
    ImplementsSharedFloor
    RerunChangesNothing
    Undoable
CHECK_DEADLOCK FALSE
