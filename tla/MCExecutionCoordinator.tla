----------------------- MODULE MCExecutionCoordinator -----------------------
EXTENDS ExecutionCoordinator, TLC

CONSTANTS c1, c2, c3

\* A thread that decides and executes, one that cancels, one that recovers.
Roles == c1 :> {"prepare", "approve", "deny", "resume", "reconcile"} @@ c2 :> {"cancel"}
            @@ c3 :> {"recover"}

\* The requester, and the timer's thread, which also serves cancellations.
TwoRoles == c1 :> {"prepare", "approve", "resume"} @@ c2 :> {"cancel", "recover"}
=============================================================================
