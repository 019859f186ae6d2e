\* Two sibling tasks of one workflow, up to two attempts each.
CONSTANTS
    w1 = w1
    w2 = w2
    t1 = t1
    t2 = t2
    Workflow = {w1}
    Task = {t1, t2}
    WorkflowOf <- OneWorkflow
    MaxBudget = 2
    MaxTime = 1
    Key = {}
    Event = {}
    Sweeper = {}
SPECIFICATION Spec
SYMMETRY Siblings
INVARIANTS TaskMatchesAttempts EndsOnce ClosedWhenDone CompensationExact
PROPERTIES TerminalIsFinal
CHECK_DEADLOCK FALSE
