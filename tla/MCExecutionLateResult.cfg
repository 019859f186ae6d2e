SPECIFICATION Spec
CONSTANTS
    c1 = c1  c2 = c2  c3 = c3
    Caller = {c1, c2}
    CallsOf <- TwoRoles
    MaxAttempts = 1
    MaxCrashes = 0
INVARIANT LateResultFenced
CHECK_DEADLOCK FALSE
