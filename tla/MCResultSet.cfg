\* Three requests over seconds of two ticks and windows of one and two seconds.
SPECIFICATION Spec
CONSTANTS
    TimeRes = {0, 1, 2}
    Second = 2
    PFactor = 95
    Width = 64
    Start = 4
    MaxTime = 12
    MaxRequests = 3
INVARIANTS
    TypeOK
    WindowOfItsTime
    WindowsReachLatest
    
    
CHECK_DEADLOCK FALSE
