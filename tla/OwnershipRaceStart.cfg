SPECIFICATION OwnersSpec
CONSTANTS
    d1 = d1
    d2 = d2
    survey = survey
    tune = tune
    trunk = trunk
    None = None
    Devices <- MCDevices
    Profiles <- MCProfiles
    Kind <- MCKind
    Assigned <- MCAssigned
    Operators = {o1, o2}
    Jobs = {j1}
    MaxChans = 2
INVARIANT CaptureExclusive
