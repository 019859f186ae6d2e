---------------------------- MODULE FencedTasks ----------------------------
(***************************************************************************)
(* What fencing promises, without leases, clocks or quotas: a task is      *)
(* granted to one worker at a time, every grant opens a new epoch of the   *)
(* task, and only the holder of the current epoch commits, once.           *)
(***************************************************************************)
EXTENDS Naturals

CONSTANTS Task, Worker

VARIABLES
    epoch,    \* the number of grants of a task so far
    holder,   \* the worker the task is granted to: a set of at most one
    log       \* the epochs in which a task was committed

vars == <<epoch, holder, log>>

Init ==
    /\ epoch = [t \in Task |-> 0]
    /\ holder = [t \in Task |-> {}]
    /\ log = {}

Assign(t, w) ==
    /\ epoch' = [epoch EXCEPT ![t] = @ + 1]
    /\ holder' = [holder EXCEPT ![t] = {w}]
    /\ UNCHANGED log

Return(t) ==
    /\ holder' = [holder EXCEPT ![t] = {}]
    /\ UNCHANGED <<epoch, log>>

Commit(t) ==
    /\ holder[t] # {}
    /\ <<t, epoch[t]>> \notin log
    /\ log' = log \union {<<t, epoch[t]>>}
    /\ UNCHANGED <<epoch, holder>>

Next ==
    \E t \in Task : Return(t) \/ Commit(t) \/ \E w \in Worker : Assign(t, w)

Spec == Init /\ [][Next]_vars
=============================================================================
