SPECIFICATION Spec
CONSTANTS
    c1 = c1  c2 = c2  c3 = c3
    Caller = {c1, c2, c3}
    CallsOf <- Roles
    MaxAttempts = 2
    MaxCrashes = 1
INVARIANTS CoordinatorInv ClosureMatches NothingIsLeft
PROPERTIES TerminalIsFinal ImplementsSaga
CHECK_DEADLOCK FALSE
