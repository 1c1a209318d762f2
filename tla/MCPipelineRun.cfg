SPECIFICATION FairSpec
CONSTANTS
    MaxRuns = 2
    RequeueMax = 1
    StepRequeueMax = 1
INVARIANTS
    TypeOK
    OnlyNewestLives
    CompletedIsEarned
    StepMatchesEvidence
    LiveRunOwnsDrawing
    TasksAreJustified
    LayerWrittenOnce
    FailureIsCurrent
    NotifiedOfTheTruth
PROPERTIES
    FinalIsFinal
    ProgressNeverBack
    ImplementsLifecycle
    LiveRunEnds
    RunningRunEnds
CHECK_DEADLOCK FALSE
