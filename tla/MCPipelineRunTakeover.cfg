SPECIFICATION Spec
CONSTANTS
    MaxRuns = 3
    RequeueMax = 1
    StepRequeueMax = 1
PROPERTIES
    NewUploadKeepsItsRun
CHECK_DEADLOCK FALSE
