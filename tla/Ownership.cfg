SPECIFICATION FairOwnersSpec
CONSTANTS
    d1 = d1
    d2 = d2
    survey = survey
    tune = tune
    trunk = trunk
    None = None
    Devices <- MCDevices
    Profiles <- MCProfiles
    Kind <- MCKind
    Assigned <- MCAssigned
    Operators = {o1}
    Jobs = {j1, j2}
    MaxChans = 3
INVARIANTS
    OwnersTypeOK
    HandleMatchesLoop
    
    NoOrphanCapture
PROPERTIES
    
    StopsRelease
