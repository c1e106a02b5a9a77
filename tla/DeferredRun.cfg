SPECIFICATION UndisturbedSpec
CONSTANTS
    Events <- MCEvents
    GroupOf <- MCGroupOf
    JobEvents <- MCEvents
    MediaKinds <- OnlyIQ
    Dispositions <- OnlyMove
    Workers = {w1, w2}
    ModelEnabled = FALSE
    MaxStarts = 1
    MaxPrunes = 0
    MaxRestarts = 0
INVARIANTS
    TypeOK
    AnalysisAccounted
PROPERTIES
    AnalysisSettles
CHECK_DEADLOCK FALSE
