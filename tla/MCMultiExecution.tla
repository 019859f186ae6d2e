-------------------------- MODULE MCMultiExecution --------------------------
EXTENDS MultiExecution, TLC

CONSTANTS c1, c2

\* The second capability builds on the first.
Chain == 1 :> {} @@ 2 :> {1}

\* The requester's thread, and one that approves, cancels and recovers.
Roles == c1 :> {"prepare", "resume"} @@ c2 :> {"approve", "cancel", "recover"}

\* The requester, and the recovery timer in a thread that also denies and cancels.
TimerRoles == c1 :> {"prepare", "resume"} @@ c2 :> {"deny", "cancel", "recover"}
=============================================================================
