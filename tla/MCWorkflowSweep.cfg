\* Recovery sweeps across two workflows, with checkpoints and events.
CONSTANTS
    w1 = w1
    w2 = w2
    t1 = t1
    t2 = t2
    Workflow = {w1, w2}
    Task = {t1, t2}
    WorkflowOf <- TwoWorkflows
    MaxBudget = 1
    MaxTime = 1
    Key = {"k"}
    Event = {"e"}
    Sweeper = {"s"}
SPECIFICATION FairSpec
INVARIANTS TimedOutAfterDeadline
PROPERTIES SweepReturns
CHECK_DEADLOCK FALSE
