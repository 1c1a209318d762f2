SPECIFICATION FairSpec
CONSTANTS
    MaxRuns = 1
    RequeueMax = 1
    StepRequeueMax = 1
PROPERTIES
    GoneFloorEndsItsRuns
CHECK_DEADLOCK FALSE
