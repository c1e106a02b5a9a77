SPECIFICATION MCSpec
CONSTANTS
    FactoryIds = {factory}
    SheetIds = {sheet1, sheet2}
    UserIds = {user1}
    LibraryIds = {library1, library2}
    Factory = Factory
    Loop = Loop
    Askers = {p1, p2}
    Sheets = {A, B}
    NoSheet = NoSheet
    Scanners = {g1, g2}
    Folders = {f1, f2}
    NoFolder = NoFolder
    Analyses = {a1}
    Bench = Bench
    Bands = {VHF, UHF}
    Modulations = {NFM}
    Confidences = {50, 90}
    Minimums = {55, 80}
    Requests = {q1, q2}
    Packages = {tool, speech}
    Speech = speech
    Codec = codec
    Signals = {e1, e2}
    Editors = {u1, u2}
    Remotes = {n1, n2}
    Cases = 2
    MaxEdits = 1
    MaxFaults = 1
    MaxAsked = 2
    MaxScans = 3
    MaxModels = 2
    MaxConfigs = 1
    MaxBenchmarks = 1
    MaxJobs = 2
    MaxRestarts = 1
    MaxConfirmations = 4
    MaxLosses = 2
    MaxSaves = 3
    MaxUpsets = 2
INVARIANTS
    ServicesTypeOK
    ProfilesAgree
    

    
CHECK_DEADLOCK FALSE
