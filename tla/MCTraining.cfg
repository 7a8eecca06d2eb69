SPECIFICATION TrainSpec
CONSTANTS
    Labels <- TwoLabels
    PoolOf <- Pools
    PerLabel = 3
    Tries = 1
    TrainShare = 50
    ValShare = 34
    MaxRuns = 2
INVARIANTS
    TrainTypeOK
    FilesNeverChange
    SplitIsPartition
    LabelsReachTheModel
    WorkIsBounded
CHECK_DEADLOCK FALSE
