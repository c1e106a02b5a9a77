SPECIFICATION MCSpec
CONSTANTS
    Callers = {c1}
    Timers = {t1, t2}
    Monitor = monitor
    None = None
    MaxStarts = 3
    MaxMutes = 2
    MaxFaults = 1
    MaxRequests = 2
    Channels = {1, 2}
    Groups = {1, 2, 3}
    Secret = {3}
    Listed = {1}
    Expiry = 2
    MaxTicks = 4
    MaxAired = 3
    MaxMissed = 2
    Receivers = {x, y}
    Any = any
    MaxAssignments = 3
    MaxChannels = 3
    MaxSteps = 1
    MaxRefreshes = 1
    Frequencies = {f1, f2}
    Decoders = {text, iq}
    NeedIQ = {iq}
    Centers = {1, 2}
    BatchFrames = 2
    MaxSessions = 1
    MaxTunes = 2
    MaxOutside = 1
    LongestFrames = 3
    MaxFrames = 4
    SavedLNA = {0, 40}
    SavedVGA = {0, 30}
INVARIANTS
    ListeningTypeOK
    EngineKept
    CallsRecorded
    
    TunedAsAsked

    
    
CHECK_DEADLOCK FALSE
