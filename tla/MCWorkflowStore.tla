-------------------------- MODULE MCWorkflowStore --------------------------
(* Instances of WorkflowStore for TLC, with the mutants of its actions.    *)
EXTENDS WorkflowStore, TLC

CONSTANTS w1, w2, t1, t2

\* Both tasks in one workflow: siblings race for the workflow's outcome.
OneWorkflow == t1 :> w1 @@ t2 :> w1

\* One task in each of two workflows: the sweep crosses workflows.
TwoWorkflows == t1 :> w1 @@ t2 :> w2

\* The two sibling tasks are interchangeable.
Siblings == Permutations({t1, t2})
=============================================================================
