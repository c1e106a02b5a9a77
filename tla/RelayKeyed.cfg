SPECIFICATION Spec
CONSTANTS
    Callers = {c1}
    MaxStarts = 1
    MaxPTTFailures = 0
    MaxStartFailures = 0
INVARIANT ReleasedAfterStop
CHECK_DEADLOCK FALSE
