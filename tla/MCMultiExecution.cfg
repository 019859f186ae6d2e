SPECIFICATION Spec
CONSTANTS
    c1 = c1  c2 = c2
    Caller = {c1, c2}
    CallsOf <- Roles
    StepCount = 2
    Dependencies <- Chain
    MaxPrepare = 2
    MaxCrashes = 1
INVARIANTS  DependencyOrder NothingLeaks
PROPERTIES OutcomesStand
CHECK_DEADLOCK FALSE
