SPECIFICATION MCSpec
CONSTANTS
    Clients = {c1, c2}
    NoClient = nobody
    MaxSessions = 1
    MaxHelpers = 2
    MaxShutdowns = 1
    Callers = {r1}
    MaxStarts = 3
    MaxPTTFailures = 1
    MaxStartFailures = 1
    Listeners = {web, relay}
    QueueLimit = 2
    MaxFrames = 4
INVARIANTS
    LiveTypeOK
    
    RelayLetGo
    NewestDelivered

    
CHECK_DEADLOCK FALSE
