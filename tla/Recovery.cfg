SPECIFICATION MCSpec
CONSTANTS
    e1 = e1
    e2 = e2
    Events <- MCEvents
    MaxRev = 5
    MaxShortWrites = 1
    MaxSyncErrors = 1
    MaxKills = 2
    MaxPowerLosses = 2
    Captures <- TwoCaptures
    GroupOf <- OneGroup
    MediaKinds = {"iq", "audio", "both"}
    Dispositions = {"archive", "move", "delete"}
    Workers = {w1}
    ModelEnabled = TRUE
    MaxStarts = 1
    MaxPrunes = 1
    MaxRestarts = 1
INVARIANTS
    TypeOK
    AckedKept
PROPERTIES
    HistoryKept
    MediaKept
CHECK_DEADLOCK FALSE
