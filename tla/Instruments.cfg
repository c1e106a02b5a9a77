SPECIFICATION MCSpec
CONSTANTS
    Callers = {c1, c2}
    Clearers = {c2}
    Nobody = Nobody
    Receivers = {r1, r2}
    Swept = {r1}
    MaxJobs = 3
    MaxSweeps = 2
    MaxSlices = 1
    MaxViewers = 3
    Points = 2
    MaxRuns = 2
    MaxFaults = 2
    MaxEdits = 3
INVARIANTS
    InstrumentsTypeOK
    InstrumentsKept

    
CHECK_DEADLOCK FALSE
