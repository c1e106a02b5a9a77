SPECIFICATION Spec
CONSTANTS
    Events <- OneEvent
    GroupOf <- Alone
    JobEvents <- OneEvent
    MediaKinds <- OnlyIQ
    Dispositions <- OnlyMove
    Workers = {w1}
    ModelEnabled = FALSE
    MaxStarts = 1
    MaxPrunes = 0
    MaxRestarts = 1
INVARIANT CompleteMeansAnalyzed
CHECK_DEADLOCK FALSE
