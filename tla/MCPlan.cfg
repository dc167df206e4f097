CONSTANTS
    NWorkers = 2
    Artifacts <- MCArtifacts
SPECIFICATION ExecSpec
INVARIANTS
    TypeOK
    LocksForward
    NothingLost
    AcceptsWhatFits
    StageOrder
    SequentialOrder
PROPERTY EveryJobRuns
CHECK_DEADLOCK FALSE
