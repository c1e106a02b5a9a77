SPECIFICATION Spec
CONSTANTS
    Captures <- MCCaptures
    Originals <- MCOriginals
    Size <- MCSize
    Policies <- MCPolicies
    FirstPolicy <- Unlimited
    Manual = {m1}
    JournalCap = 1
    Day = 2
    MaxTime = 2
    MaxCleanups = 2
    None = None
INVARIANTS
    TypeOK
    

    
CHECK_DEADLOCK FALSE
