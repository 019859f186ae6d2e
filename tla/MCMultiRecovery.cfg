SPECIFICATION FairSpec
CONSTANTS
    c1 = c1  c2 = c2
    Caller = {c1, c2}
    CallsOf <- TimerRoles
    StepCount = 2
    Dependencies <- Chain
    MaxPrepare = 1
    MaxCrashes = 1
PROPERTY RecoveryCloses
CHECK_DEADLOCK FALSE
