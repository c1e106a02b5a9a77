SPECIFICATION MCSpec
CONSTANTS
    Jobs = {j1}
    Configs <- MCConfigs
    Scheduled <- MCScheduled
    Repeating <- MCRepeating
    Callers = {c1, c2}
    None = None
    Blank = Blank
    Keys = {1}
    Uploaders = {"loop", "request"}
    MapperConfigs <- MCMapperConfigs
    LoopUploader = "loop"
    Clearer = "clear"
    MaxSessions = 2
    MaxSaves = 2
    MaxFailures = 1
    MaxRestarts = 1
    MaxTime = 2
    MaxEvents = 3
    Places = {0, 9, 40, 75}
    Widths = {1, 16, 160}
    Automatic = 80
    UserRates = {0, 192}
    Limits = {1, 2, 3}
INVARIANTS
    MapperTypeOK
    JobsAsSaved
    RecordsKept
    PassHeard
PROPERTIES
    OwedSettled
CHECK_DEADLOCK FALSE
