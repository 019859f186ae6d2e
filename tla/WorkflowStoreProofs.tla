------------------------ MODULE WorkflowStoreProofs ------------------------
(***************************************************************************)
(* Proofs about WorkflowStore, for every number of workflows, tasks,       *)
(* attempts, sweepers and instants.                                        *)
(***************************************************************************)
EXTENDS WorkflowStore, FiniteSetTheorems, TLAPS

USE WorkflowStoreAssumption

----------------------------------------------------------------------------
(* Type correctness                                                        *)

\* The status _reconcile_workflow computes is "none" or a terminal status.
LEMMA ReconcileStatusType ==
    ASSUME NEW ts, NEW w, NEW hint
    PROVE  ReconcileStatus(ts, w, hint) \in {"none"} \union WorkflowTerminal
  BY DEF ReconcileStatus, WorkflowTerminal

\* Closing a workflow keeps the three closure columns well typed.
LEMMA CloseWorkflowType ==
    ASSUME TypeOK, NEW w \in Workflow, NEW s \in WorkflowTerminal, CloseWorkflow(w, s)
    PROVE  /\ workflows' \in [Workflow -> {"none", "active"} \union WorkflowTerminal]
           /\ workflow_closure' \in [Workflow -> {"none"} \union WorkflowTerminal]
           /\ workflow_events' \in [Workflow -> Nat]
  BY DEF CloseWorkflow, TypeOK

\* So does a reconciliation, whether or not it closes the workflow.
LEMMA ReconcileType ==
    ASSUME TypeOK, NEW ts, NEW w \in Workflow, NEW hint, ReconcileWorkflow(ts, w, hint)
    PROVE  /\ workflows' \in [Workflow -> {"none", "active"} \union WorkflowTerminal]
           /\ workflow_closure' \in [Workflow -> {"none"} \union WorkflowTerminal]
           /\ workflow_events' \in [Workflow -> Nat]
  <1>1. CASE ReconcileStatus(ts, w, hint) = "none"
    BY <1>1 DEF ReconcileWorkflow, TypeOK
  <1>2. CASE ReconcileStatus(ts, w, hint) # "none"
    <2>1. ReconcileStatus(ts, w, hint) \in WorkflowTerminal
      BY <1>2, ReconcileStatusType
    <2>2. CloseWorkflow(w, ReconcileStatus(ts, w, hint))
      BY <1>2 DEF ReconcileWorkflow
    <2> QED  BY <2>1, <2>2, CloseWorkflowType
  <1> QED  BY <1>1, <1>2

\* _terminate_attempt keeps every table it writes well typed.
LEMMA TerminateType ==
    ASSUME TypeOK, NEW t \in Task, NEW n \in Number,
           NEW s \in {"failed", "timed_out"}, TerminateAttempt(t, n, s)
    PROVE  /\ workflows' \in [Workflow -> {"none", "active"} \union WorkflowTerminal]
           /\ workflow_closure' \in [Workflow -> {"none"} \union WorkflowTerminal]
           /\ workflow_events' \in [Workflow -> Nat]
           /\ workflow_tasks' \in [Task -> TaskStatus]
           /\ attempts' \in [Task -> [Number -> AttemptStatus]]
           /\ attempt_termination' \in [Task -> [Number -> {"none"} \union AttemptTerminal]]
           /\ attempt_events' \in [Task -> [Number -> Nat]]
           /\ outbox' \in [Task -> {"none", "pending", "delivered"}]
           /\ UNCHANGED <<rows, checkpoints, inbox, clock>>
  <1>1. WorkflowOf[t] \in Workflow
    OBVIOUS
  <1>2. /\ workflows' \in [Workflow -> {"none", "active"} \union WorkflowTerminal]
        /\ workflow_closure' \in [Workflow -> {"none"} \union WorkflowTerminal]
        /\ workflow_events' \in [Workflow -> Nat]
    <2>1. CASE CanRetry(t, n)
      BY <2>1 DEF TerminateAttempt, TypeOK
    <2>2. CASE ~CanRetry(t, n)
      BY <2>2, <1>1, ReconcileType DEF TerminateAttempt
    <2> QED  BY <2>1, <2>2
  <1>3. workflow_tasks' \in [Task -> TaskStatus]
    BY DEF TerminateAttempt, TypeOK, TaskStatus
  <1>4. attempts' \in [Task -> [Number -> AttemptStatus]]
    BY DEF TerminateAttempt, TypeOK, AttemptStatus, AttemptTerminal
  <1>5. /\ attempt_termination' \in [Task -> [Number -> {"none"} \union AttemptTerminal]]
        /\ attempt_events' \in [Task -> [Number -> Nat]]
    BY DEF TerminateAttempt, RecordAttemptTermination, TypeOK, AttemptTerminal
  <1>6. outbox' \in [Task -> {"none", "pending", "delivered"}]
    BY DEF TerminateAttempt, EnqueueCompensation, TypeOK
  <1>7. UNCHANGED <<rows, checkpoints, inbox, clock>>
    BY DEF TerminateAttempt
  <1> QED  BY <1>2, <1>3, <1>4, <1>5, <1>6, <1>7

\* Every step of the store keeps every table well typed.
LEMMA TypeStep == TypeOK /\ [Next]_vars => TypeOK'
  <1> SUFFICES ASSUME TypeOK, [Next]_vars PROVE TypeOK'
    OBVIOUS
  <1> USE DEF vars, tables, rows, sweep, calls
  <1>1. CASE UNCHANGED vars
    BY <1>1 DEF TypeOK
  <1>2. ASSUME NEW w \in Workflow, CreateWorkflow(w) PROVE TypeOK'
    BY <1>2 DEF TypeOK, CreateWorkflow
  <1>3. ASSUME NEW w \in Workflow, CancelWorkflow(w) PROVE TypeOK'
    <2>1. CancelStatus(w) \in WorkflowTerminal
      BY DEF CancelStatus, WorkflowTerminal
    <2>2. CloseWorkflow(w, CancelStatus(w))
      BY <1>3 DEF CancelWorkflow
    <2>3. /\ workflows' \in [Workflow -> {"none", "active"} \union WorkflowTerminal]
          /\ workflow_closure' \in [Workflow -> {"none"} \union WorkflowTerminal]
          /\ workflow_events' \in [Workflow -> Nat]
      BY <2>1, <2>2, CloseWorkflowType
    <2>4. attempts' \in [Task -> [Number -> AttemptStatus]]
      BY <1>3 DEF CancelWorkflow, TypeOK, AttemptStatus, AttemptTerminal
    <2>5. attempt_termination' \in [Task -> [Number -> {"none"} \union AttemptTerminal]]
      BY <1>3 DEF CancelWorkflow, TypeOK, AttemptTerminal
    <2>6. attempt_events' \in [Task -> [Number -> Nat]]
      BY <1>3 DEF CancelWorkflow, TypeOK
    <2>7. workflow_tasks' \in [Task -> TaskStatus]
      BY <1>3 DEF CancelWorkflow, TypeOK, TaskStatus
    <2> QED  BY <1>3, <2>3, <2>4, <2>5, <2>6, <2>7 DEF CancelWorkflow, TypeOK
  <1>4. ASSUME NEW t \in Task, AddTaskCheck(t) PROVE TypeOK'
    BY <1>4 DEF TypeOK, AddTaskCheck
  <1>5. ASSUME NEW t \in Task, NEW b \in Number, NEW c \in {{}, {t}}, AddTaskInsert(t, b, c)
        PROVE  TypeOK'
    BY <1>5 DEF TypeOK, AddTaskInsert, NewTask, TaskStatus
  <1>6. ASSUME NEW t \in Task, NEW d \in Time, BeginAttempt(t, d) PROVE TypeOK'
    <2>1. workflow_tasks' \in [Task -> TaskStatus]
      BY <1>6 DEF BeginAttempt, TypeOK, TaskStatus
    <2>2. attempts' \in [Task -> [Number -> AttemptStatus]]
      BY <1>6 DEF BeginAttempt, TypeOK, AttemptStatus
    <2>3. deadline' \in [Task -> [Number -> Time]]
      BY <1>6 DEF BeginAttempt, TypeOK
    <2> QED  BY <1>6, <2>1, <2>2, <2>3 DEF TypeOK, BeginAttempt
  <1>7. ASSUME NEW t \in Task, AcknowledgeOutbox(t) PROVE TypeOK'
    BY <1>7 DEF TypeOK, AcknowledgeOutbox
  <1>8. ASSUME NEW t \in Task, NEW n \in Number, SaveCheckpointCheck(t, n) PROVE TypeOK'
    BY <1>8 DEF TypeOK, SaveCheckpointCheck, Attempt
  <1>9. ASSUME NEW t \in Task, NEW n \in Number, NEW k \in Key, SaveCheckpointWrite(t, n, k)
        PROVE  TypeOK'
    BY <1>9 DEF TypeOK, SaveCheckpointWrite
  <1>10. ASSUME NEW t \in Task, NEW n \in Number, CompleteAttempt(t, n) PROVE TypeOK'
    <2>1. /\ workflows' \in [Workflow -> {"none", "active"} \union WorkflowTerminal]
          /\ workflow_closure' \in [Workflow -> {"none"} \union WorkflowTerminal]
          /\ workflow_events' \in [Workflow -> Nat]
      BY <1>10, ReconcileType DEF CompleteAttempt
    <2>2. workflow_tasks' \in [Task -> TaskStatus]
      BY <1>10 DEF CompleteAttempt, TypeOK, TaskStatus
    <2>3. attempts' \in [Task -> [Number -> AttemptStatus]]
      BY <1>10 DEF CompleteAttempt, TypeOK, AttemptStatus, AttemptTerminal
    <2>4. /\ attempt_termination' \in [Task -> [Number -> {"none"} \union AttemptTerminal]]
          /\ attempt_events' \in [Task -> [Number -> Nat]]
      BY <1>10 DEF CompleteAttempt, RecordAttemptTermination, TypeOK, AttemptTerminal
    <2> QED  BY <1>10, <2>1, <2>2, <2>3, <2>4 DEF CompleteAttempt, TypeOK
  <1>11. ASSUME NEW t \in Task, NEW n \in Number, FailAttempt(t, n) PROVE TypeOK'
    BY <1>11, TerminateType DEF FailAttempt, TypeOK
  <1>12. ASSUME NEW t \in Task, NEW n \in Number, NEW now \in Time, TimeoutCheck(t, n, now)
         PROVE  TypeOK'
    BY <1>12 DEF TypeOK, TimeoutCheck, Attempt
  <1>13. ASSUME NEW t \in Task, NEW n \in Number, TimeoutTerminate(t, n) PROVE TypeOK'
    BY <1>13, TerminateType DEF TimeoutTerminate, TypeOK
  <1>14. ASSUME NEW s \in Sweeper, NEW now \in Time, SweepScan(s, now) PROVE TypeOK'
    BY <1>14 DEF TypeOK, SweepScan
  <1>15. ASSUME NEW s \in Sweeper, NEW t \in Task, NEW n \in Number, SweepCheck(s, t, n)
         PROVE  TypeOK'
    <2>1. /\ todo' \in [Sweeper -> SUBSET Attempt]
          /\ due' \in [Sweeper -> SUBSET Attempt]
      <3>1. <<t, n>> \in Attempt
        BY DEF Attempt
      <3>2. due' = [due EXCEPT ![s] = {<<t, n>>}] \/ due' = [due EXCEPT ![s] = {}]
        BY <1>15 DEF SweepCheck, SweepSkip, SweepRaise
      <3>3. todo' = [todo EXCEPT ![s] = @ \ {<<t, n>>}] \/ todo' = [todo EXCEPT ![s] = {}]
        BY <1>15 DEF SweepCheck, SweepSkip, SweepRaise
      <3>4. due[s] \in SUBSET Attempt /\ todo[s] \in SUBSET Attempt
        BY DEF TypeOK
      <3>5. due' \in [Sweeper -> SUBSET Attempt]
        <4>1. {<<t, n>>} \in SUBSET Attempt /\ {} \in SUBSET Attempt
          BY <3>1
        <4> QED  BY <3>2, <4>1 DEF TypeOK
      <3>6. todo' \in [Sweeper -> SUBSET Attempt]
        <4>1. (todo[s] \ {<<t, n>>}) \in SUBSET Attempt /\ {} \in SUBSET Attempt
          BY <3>4
        <4> QED  BY <3>3, <4>1 DEF TypeOK
      <3> QED  BY <3>5, <3>6
    <2> QED  BY <1>15, <2>1 DEF TypeOK, SweepCheck
  <1>16. ASSUME NEW s \in Sweeper, NEW t \in Task, NEW n \in Number, SweepTerminate(s, t, n)
         PROVE  TypeOK'
    <2>1. /\ todo' \in [Sweeper -> SUBSET Attempt]
          /\ due' \in [Sweeper -> SUBSET Attempt]
          /\ UNCHANGED <<adding, saving, expiring, sweep_now>>
      BY <1>16 DEF TypeOK, SweepTerminate, SweepSkip, SweepRaise
    <2>2. CASE TerminateAttempt(t, n, "timed_out")
      BY <2>1, <2>2, TerminateType DEF TypeOK
    <2>3. CASE UNCHANGED <<tables, checkpoints, inbox, clock>>
      BY <2>1, <2>3 DEF TypeOK
    <2> QED  BY <1>16, <2>2, <2>3 DEF SweepTerminate
  <1>17. ASSUME NEW e \in Event, ReceiveEvent(e) PROVE TypeOK'
    BY <1>17 DEF TypeOK, ReceiveEvent
  <1>18. CASE Tick
    BY <1>18 DEF TypeOK, Tick, Time
  <1> QED
    BY <1>1, <1>2, <1>3, <1>4, <1>5, <1>6, <1>7, <1>8, <1>9, <1>10, <1>11, <1>12,
       <1>13, <1>14, <1>15, <1>16, <1>17, <1>18
       DEF Next, TaskStep, AttemptStep, SweepStep

\* The initial tables are empty, hence well typed.
LEMMA TypeInit == Init => TypeOK
  BY DEF Init, TypeOK, TaskStatus, AttemptStatus, Number, Time

\* Every reachable state of the store is well typed.
THEOREM TypeCorrect == Spec => []TypeOK
  BY TypeInit, TypeStep, PTL DEF Spec

----------------------------------------------------------------------------
(* The inductive invariant                                                 *)

\* What callers remember stays true: their workflows exist, and the attempts
\* they found expired exist and are past their deadline for good.
CallersAreRight ==
    /\ \A t \in Task : t \in adding \/ workflow_tasks[t] # "none"
                        => workflows[WorkflowOf[t]] # "none"
    /\ \A t \in Task, n \in Number :
          <<t, n>> \in expiring \/ (\E s \in Sweeper : <<t, n>> \in todo[s] \union due[s])
             => attempts[t][n] # "none" /\ deadline[t][n] <= clock

\* The conjunction the proofs carry through every step.
StoreInv ==
    /\ TypeOK
    /\ TaskMatchesAttempts
    /\ AttemptEndsOnce
    /\ WorkflowClosesOnce
    /\ ClosureJustified
    /\ OpenWorkflowHasWork
    /\ CompensationExact
    /\ TimedOutAfterDeadline
    /\ CallersAreRight

core == <<workflows, workflow_tasks, rows, attempts, attempt_termination,
          attempt_events, workflow_closure, workflow_events>>

\* The transactions that write the workflow, task or attempt tables.
LEMMA StepCases ==
    ASSUME [Next]_vars
    PROVE  \/ UNCHANGED <<core, outbox>>
           \/ \E w \in Workflow : CreateWorkflow(w) \/ CancelWorkflow(w)
           \/ \E t \in Task : AcknowledgeOutbox(t)
           \/ \E t \in Task : \E b \in Number, c \in {{}, {t}} : AddTaskInsert(t, b, c)
           \/ \E t \in Task, at \in Time : BeginAttempt(t, at)
           \/ \E t \in Task, n \in Number : CompleteAttempt(t, n)
           \/ \E t \in Task, n \in Number, s \in {"failed", "timed_out"} : TerminateAttempt(t, n, s)
  <1> USE DEF vars, tables, rows, sweep, calls, core
  <1>1. CASE UNCHANGED vars
    BY <1>1
  <1>2. ASSUME NEW t \in Task, TaskStep(t) PROVE
           \/ UNCHANGED <<core, outbox>>
           \/ AcknowledgeOutbox(t)
           \/ \E b \in Number, c \in {{}, {t}} : AddTaskInsert(t, b, c)
           \/ \E at \in Time : BeginAttempt(t, at)
    BY <1>2 DEF TaskStep, AddTaskCheck
  <1>3. ASSUME NEW t \in Task, NEW n \in Number, AttemptStep(t, n) PROVE
           \/ UNCHANGED <<core, outbox>>
           \/ CompleteAttempt(t, n)
           \/ TerminateAttempt(t, n, "failed")
           \/ TerminateAttempt(t, n, "timed_out")
    BY <1>3 DEF AttemptStep, SaveCheckpointCheck, SaveCheckpointWrite, FailAttempt,
                TimeoutCheck, TimeoutTerminate
  <1>4. ASSUME NEW s \in Sweeper, (\E now \in Time : SweepScan(s, now)) \/ SweepStep(s)
        PROVE  \/ UNCHANGED <<core, outbox>>
               \/ \E t \in Task, n \in Number : TerminateAttempt(t, n, "timed_out")
    BY <1>4 DEF SweepStep, SweepScan, SweepCheck, SweepTerminate
  <1>5. CASE Tick \/ \E e \in Event : ReceiveEvent(e)
    BY <1>5 DEF Tick, ReceiveEvent
  <1> QED  BY <1>1, <1>2, <1>3, <1>4, <1>5 DEF Next

\* A running attempt is the last one of a running task.
LEMMA RunningIsLast ==
    ASSUME TypeOK, NEW t \in Task, NEW n \in Number, NEW k \in 0..MaxBudget,
           AttemptsUpTo(t, k), Running(t, n)
    PROVE  n = k /\ workflow_tasks[t] = "running"
  <1>1. n <= k /\ ~(n < k)
    BY DEF AttemptsUpTo, Running
  <1>2. n = k
    BY <1>1 DEF Number
  <1>3. workflow_tasks[t] \in TaskStatus
    BY DEF TypeOK
  <1> QED  BY <1>2, <1>3 DEF AttemptsUpTo, Running, TaskStatus, Number

\* COUNT(*) over the attempts of a task is the number of its last attempt.
LEMMA CountIsLast ==
    ASSUME TypeOK, NEW t \in Task, NEW k \in 0..MaxBudget, AttemptsUpTo(t, k)
    PROVE  AttemptCount(t) = k
  <1>1. {n \in Number : attempts[t][n] # "none"} = 1..k
    BY DEF AttemptsUpTo, Number
  <1>2. Cardinality(1..k) = k
    BY FS_Interval
  <1> QED  BY <1>1, <1>2 DEF AttemptCount

\* Every transaction keeps each task in step with its attempts.
LEMMA TaskMatchesAttemptsStep ==
    ASSUME TypeOK, TypeOK', TaskMatchesAttempts, [Next]_vars
    PROVE  TaskMatchesAttempts'
  <1> SUFFICES ASSUME NEW u \in Task PROVE \E k \in 0..MaxBudget : AttemptsUpTo(u, k)'
    BY DEF TaskMatchesAttempts
  <1>0. PICK k \in 0..MaxBudget : AttemptsUpTo(u, k)
    BY DEF TaskMatchesAttempts
  <1>1. CASE /\ attempts'[u] = attempts[u]
             /\ workflow_tasks'[u] = workflow_tasks[u]
             /\ max_attempts'[u] = max_attempts[u]
    BY <1>0, <1>1 DEF AttemptsUpTo
  <1>2. ASSUME NEW w \in Workflow, CancelWorkflow(w), WorkflowOf[u] = w
        PROVE  AttemptsUpTo(u, k)'
    <2>1. max_attempts'[u] = max_attempts[u]
      BY <1>2 DEF CancelWorkflow, rows
    <2>2. workflow_tasks'[u] = IF Cancellable(u) THEN "cancelled" ELSE workflow_tasks[u]
      BY <1>2 DEF CancelWorkflow
    <2>3. \A n \in Number :
             attempts'[u][n] = IF Running(u, n) THEN "cancelled" ELSE attempts[u][n]
      BY <1>2 DEF CancelWorkflow
    <2>4. \A n \in Number : /\ attempts'[u][n] # "none" <=> attempts[u][n] # "none"
                            /\ n < k => attempts'[u][n] = attempts[u][n]
      BY <1>0, <2>3 DEF AttemptsUpTo, Running
    <2>5. k > 0 => k \in Number
      BY DEF Number
    <2>6. workflow_tasks[u] \in TaskStatus
      BY DEF TypeOK
    <2>7. CASE workflow_tasks[u] = "running"
      BY <1>0, <2>1, <2>2, <2>3, <2>4, <2>5, <2>7 DEF AttemptsUpTo, Cancellable, Running
    <2>8. CASE workflow_tasks[u] # "running"
      <3>1. k > 0 => attempts'[u][k] = attempts[u][k]
        BY <1>0, <2>3, <2>5, <2>6, <2>8 DEF AttemptsUpTo, Running, TaskStatus
      <3>2. k > 0 => (workflow_tasks[u] = "ready" => attempts[u][k] \in {"failed", "timed_out"})
        BY <1>0 DEF AttemptsUpTo
      <3>3. workflow_tasks'[u] = IF workflow_tasks[u] = "ready" THEN "cancelled"
                                                              ELSE workflow_tasks[u]
        BY <2>2, <2>8 DEF Cancellable
      <3>4. max_attempts[u] \in Number
        BY DEF TypeOK
      <3> QED  BY <1>0, <2>1, <2>4, <3>1, <3>2, <3>3, <3>4 DEF AttemptsUpTo, Number
    <2> QED  BY <2>7, <2>8
  <1>3. ASSUME NEW b \in Number, NEW c \in {{}, {u}}, AddTaskInsert(u, b, c)
        PROVE  AttemptsUpTo(u, k)'
    <2>1. k = 0 /\ workflow_tasks'[u] = "ready" /\ max_attempts'[u] = b /\ attempts' = attempts
      BY <1>0, <1>3 DEF AddTaskInsert, NewTask, AttemptsUpTo, TypeOK
    <2> QED  BY <1>0, <2>1 DEF AttemptsUpTo, Number
  <1>4. ASSUME NEW at \in Time, BeginAttempt(u, at)
        PROVE  \E j \in 0..MaxBudget : AttemptsUpTo(u, j)'
    <2>1. k < max_attempts[u] /\ max_attempts[u] \in Number
      BY <1>0, <1>4 DEF BeginAttempt, AttemptsUpTo, TypeOK
    <2>2. k + 1 \in Number
      BY <2>1 DEF Number
    <2>3. /\ attempts' = [attempts EXCEPT ![u][k + 1] = "running"]
          /\ workflow_tasks'[u] = "running"
          /\ max_attempts' = max_attempts
      BY <1>0, <1>4, CountIsLast DEF BeginAttempt, TypeOK
    <2>4. \A n \in Number : attempts'[u][n] = IF n = k + 1 THEN "running" ELSE attempts[u][n]
      BY <2>2, <2>3 DEF TypeOK
    <2>5. AttemptsUpTo(u, k + 1)'
      BY <1>0, <1>4, <2>1, <2>2, <2>3, <2>4 DEF AttemptsUpTo, Number, BeginAttempt
    <2> QED  BY <2>2, <2>5 DEF Number
  <1>5. ASSUME NEW n \in Number, CompleteAttempt(u, n)
        PROVE  AttemptsUpTo(u, k)'
    <2>1. n = k /\ workflow_tasks[u] = "running"
      BY <1>0, <1>5, RunningIsLast DEF CompleteAttempt
    <2>2. workflow_tasks'[u] = "completed" /\ max_attempts' = max_attempts
      BY <1>5 DEF CompleteAttempt, TypeOK, rows
    <2>3. \A m \in Number : attempts'[u][m] = IF m = n THEN "completed" ELSE attempts[u][m]
      BY <1>5 DEF CompleteAttempt, TypeOK
    <2> QED  BY <1>0, <2>1, <2>2, <2>3 DEF AttemptsUpTo, Number
  <1>6. ASSUME NEW n \in Number, NEW s \in {"failed", "timed_out"}, TerminateAttempt(u, n, s)
        PROVE  AttemptsUpTo(u, k)'
    <2>1. n = k /\ workflow_tasks[u] = "running"
      BY <1>0, <1>6, RunningIsLast DEF TerminateAttempt
    <2>2. /\ workflow_tasks'[u] = IF k < max_attempts[u] THEN "ready" ELSE "failed"
          /\ max_attempts' = max_attempts
      BY <1>6, <2>1 DEF TerminateAttempt, CanRetry, TypeOK, rows
    <2>3. \A m \in Number : attempts'[u][m] = IF m = n THEN s ELSE attempts[u][m]
      BY <1>6 DEF TerminateAttempt, TypeOK
    <2>4. max_attempts[u] \in Number /\ k <= max_attempts[u]
      BY <1>0 DEF TypeOK, AttemptsUpTo
    <2> QED  BY <1>0, <2>1, <2>2, <2>3, <2>4 DEF AttemptsUpTo, Number
  <1>7. CASE UNCHANGED <<core, outbox>>
    BY <1>1, <1>7 DEF core, rows
  <1>8. CASE \E w \in Workflow : CreateWorkflow(w)
    BY <1>1, <1>8 DEF CreateWorkflow, rows
  <1>9. CASE \E t \in Task : AcknowledgeOutbox(t)
    BY <1>1, <1>9 DEF AcknowledgeOutbox, rows
  <1>10. ASSUME NEW w \in Workflow, CancelWorkflow(w), WorkflowOf[u] # w
         PROVE  \E j \in 0..MaxBudget : AttemptsUpTo(u, j)'
    <2>1. /\ workflow_tasks'[u] = workflow_tasks[u] /\ max_attempts'[u] = max_attempts[u]
          /\ attempts'[u] = attempts[u]
      BY <1>10 DEF CancelWorkflow, rows, TypeOK
    <2> QED  BY <2>1, <1>1
  <1>11. ASSUME NEW t \in Task, t # u, NEW b \in Number, NEW c \in {{}, {t}}, AddTaskInsert(t, b, c)
         PROVE  \E j \in 0..MaxBudget : AttemptsUpTo(u, j)'
    BY <1>1, <1>11 DEF AddTaskInsert, NewTask, TypeOK
  <1>12. ASSUME NEW t \in Task, t # u, NEW at \in Time, BeginAttempt(t, at)
         PROVE  \E j \in 0..MaxBudget : AttemptsUpTo(u, j)'
    BY <1>1, <1>12 DEF BeginAttempt, TypeOK
  <1>13. ASSUME NEW t \in Task, t # u, NEW n \in Number, CompleteAttempt(t, n)
         PROVE  \E j \in 0..MaxBudget : AttemptsUpTo(u, j)'
    BY <1>1, <1>13 DEF CompleteAttempt, rows, TypeOK
  <1>14. ASSUME NEW t \in Task, t # u, NEW n \in Number, NEW s \in {"failed", "timed_out"},
                TerminateAttempt(t, n, s)
         PROVE  \E j \in 0..MaxBudget : AttemptsUpTo(u, j)'
    BY <1>1, <1>14 DEF TerminateAttempt, rows, TypeOK
  <1> QED
    BY <1>2, <1>3, <1>4, <1>5, <1>6, <1>7, <1>8, <1>9, <1>10, <1>11, <1>12, <1>13, <1>14, StepCases

\* Every attempt still has at most one termination row and event.
LEMMA AttemptEndsOnceStep ==
    ASSUME TypeOK, TypeOK', TaskMatchesAttempts, AttemptEndsOnce, [Next]_vars
    PROVE  AttemptEndsOnce'
  <1>1. CASE UNCHANGED <<attempts, attempt_termination, attempt_events>>
    BY <1>1 DEF AttemptEndsOnce
  <1>2. ASSUME NEW t \in Task, NEW n \in Number, NEW s \in AttemptTerminal, Running(t, n),
               attempts' = [attempts EXCEPT ![t][n] = s], RecordAttemptTermination(t, n, s)
        PROVE  AttemptEndsOnce'
    <2>1. attempt_termination[t][n] = "none" /\ attempt_events[t][n] = 0
      BY <1>2 DEF AttemptEndsOnce, Running, AttemptTerminal
    <2> SUFFICES ASSUME NEW u \in Task, NEW m \in Number
                 PROVE  IF attempts'[u][m] \in AttemptTerminal
                        THEN attempt_termination'[u][m] = attempts'[u][m] /\ attempt_events'[u][m] = 1
                        ELSE attempt_termination'[u][m] = "none" /\ attempt_events'[u][m] = 0
      BY DEF AttemptEndsOnce
    <2>2. CASE u = t /\ m = n
      BY <1>2, <2>1, <2>2 DEF RecordAttemptTermination, TypeOK
    <2>3. CASE ~(u = t /\ m = n)
      <3>1. /\ attempts'[u][m] = attempts[u][m]
            /\ attempt_termination'[u][m] = attempt_termination[u][m]
            /\ attempt_events'[u][m] = attempt_events[u][m]
        BY <1>2, <2>3 DEF RecordAttemptTermination, TypeOK
      <3> QED  BY <3>1 DEF AttemptEndsOnce
    <2> QED  BY <2>2, <2>3
  <1>3. ASSUME NEW w \in Workflow, CancelWorkflow(w) PROVE AttemptEndsOnce'
    <2> SUFFICES ASSUME NEW u \in Task, NEW m \in Number
                 PROVE  IF attempts'[u][m] \in AttemptTerminal
                        THEN attempt_termination'[u][m] = attempts'[u][m] /\ attempt_events'[u][m] = 1
                        ELSE attempt_termination'[u][m] = "none" /\ attempt_events'[u][m] = 0
      BY DEF AttemptEndsOnce
    <2>1. CASE WorkflowOf[u] = w /\ Running(u, m)
      <3>1. attempt_termination[u][m] = "none" /\ attempt_events[u][m] = 0
        BY <2>1 DEF AttemptEndsOnce, Running, AttemptTerminal
      <3>2. /\ attempts'[u][m] = "cancelled"
            /\ attempt_termination'[u][m] = "cancelled"
            /\ attempt_events'[u][m] = attempt_events[u][m] + 1
        BY <1>3, <2>1, <3>1 DEF CancelWorkflow
      <3> QED  BY <3>1, <3>2 DEF AttemptTerminal
    <2>2. CASE ~(WorkflowOf[u] = w /\ Running(u, m))
      BY <1>3, <2>2 DEF CancelWorkflow, AttemptEndsOnce
    <2> QED  BY <2>1, <2>2
  <1>4. ASSUME NEW t \in Task, NEW at \in Time, BeginAttempt(t, at) PROVE AttemptEndsOnce'
    <2>1. PICK k \in 0..MaxBudget : AttemptsUpTo(t, k)
      BY DEF TaskMatchesAttempts
    <2>2. attempts' = [attempts EXCEPT ![t][k + 1] = "running"]
      BY <1>4, <2>1, CountIsLast DEF BeginAttempt
    <2>3. k + 1 \in Number /\ attempts[t][k + 1] = "none"
      <3>1. k + 1 <= max_attempts[t] /\ max_attempts[t] \in Number
        BY <1>4, <2>1, CountIsLast DEF BeginAttempt, TypeOK
      <3> QED  BY <2>1, <3>1 DEF AttemptsUpTo, Number
    <2>4. UNCHANGED <<attempt_termination, attempt_events>>
      BY <1>4 DEF BeginAttempt
    <2>5. \A u \in Task, m \in Number : attempts'[u][m] # attempts[u][m]
             => attempts[u][m] = "none" /\ attempts'[u][m] = "running"
      <3>1. \A m \in Number : attempts'[t][m] = IF m = k + 1 THEN "running" ELSE attempts[t][m]
        BY <2>2, <2>3 DEF TypeOK
      <3>2. \A u \in Task : u # t => attempts'[u] = attempts[u]
        BY <2>2 DEF TypeOK
      <3> QED  BY <2>3, <3>1, <3>2
    <2> QED  BY <2>4, <2>5 DEF AttemptEndsOnce, AttemptTerminal
  <1>5. ASSUME NEW t \in Task, NEW n \in Number, CompleteAttempt(t, n) PROVE AttemptEndsOnce'
    BY <1>5, <1>2 DEF CompleteAttempt, AttemptTerminal
  <1>6. ASSUME NEW t \in Task, NEW n \in Number, NEW s \in {"failed", "timed_out"},
               TerminateAttempt(t, n, s)
        PROVE  AttemptEndsOnce'
    BY <1>6, <1>2 DEF TerminateAttempt, AttemptTerminal
  <1>7. CASE UNCHANGED <<core, outbox>>
    BY <1>1, <1>7 DEF core
  <1>8. CASE \E w \in Workflow : CreateWorkflow(w)
    BY <1>1, <1>8 DEF CreateWorkflow
  <1>9. CASE \E t \in Task : AcknowledgeOutbox(t)
    BY <1>1, <1>9 DEF AcknowledgeOutbox
  <1>10. CASE \E t \in Task : \E b \in Number, c \in {{}, {t}} : AddTaskInsert(t, b, c)
    BY <1>1, <1>10 DEF AddTaskInsert
  <1> QED  BY <1>3, <1>4, <1>5, <1>6, <1>7, <1>8, <1>9, <1>10, StepCases

----------------------------------------------------------------------------
(* Closing a workflow                                                      *)

\* w goes from open to closed with this status, and no other workflow moves.
Closes(w, s) ==
    /\ workflows[w] = "active" /\ workflow_closure[w] = "none" /\ workflow_events[w] = 0
    /\ workflows' = [workflows EXCEPT ![w] = s]
    /\ workflow_closure' = [workflow_closure EXCEPT ![w] = s]
    /\ workflow_events' = [workflow_events EXCEPT ![w] = 1]

\* _close_workflow on a workflow without a closure row closes it.
LEMMA CloseOpen ==
    ASSUME TypeOK, WorkflowClosesOnce, NEW w \in Workflow, NEW s \in WorkflowTerminal,
           ~Closed(w), CloseWorkflow(w, s)
    PROVE  Closes(w, s)
  <1>1. workflows[w] \notin WorkflowTerminal /\ workflow_events[w] = 0
    BY DEF WorkflowClosesOnce, Closed, WorkflowTerminal
  <1> QED  BY <1>1 DEF CloseWorkflow, Closes, Closed, TypeOK

\* _reconcile_workflow leaves the workflow alone or closes an open one.
LEMMA ReconcileCases ==
    ASSUME TypeOK, WorkflowClosesOnce, NEW ts, NEW w \in Workflow, NEW hint,
           ReconcileWorkflow(ts, w, hint)
    PROVE  \/ /\ ReconcileStatus(ts, w, hint) = "none"
              /\ UNCHANGED <<workflows, workflow_closure, workflow_events>>
           \/ /\ ReconcileStatus(ts, w, hint) \in WorkflowTerminal
              /\ Closes(w, ReconcileStatus(ts, w, hint))
  <1>1. CASE ReconcileStatus(ts, w, hint) = "none"
    BY <1>1 DEF ReconcileWorkflow
  <1>2. CASE ReconcileStatus(ts, w, hint) # "none"
    <2>1. ReconcileStatus(ts, w, hint) \in WorkflowTerminal
      BY <1>2, ReconcileStatusType
    <2>2. ~Closed(w)
      BY <1>2 DEF ReconcileStatus
    <2>3. CloseWorkflow(w, ReconcileStatus(ts, w, hint))
      BY <1>2 DEF ReconcileWorkflow
    <2> QED  BY <2>1, <2>2, <2>3, CloseOpen
  <1> QED  BY <1>1, <1>2

\* What the reconciled status says about the task rows it was computed from.
LEMMA ReconcileMeaning ==
    ASSUME NEW ts, NEW w, NEW hint, ~Closed(w)
    PROVE  LET S == ReconcileStatus(ts, w, hint)
               Some(v) == \E t \in TasksOf(ts, w) : ts[t] = v
               All(v) == \A t \in TasksOf(ts, w) : ts[t] = v
           IN  /\ S = "completed" => TasksOf(ts, w) # {} /\ All("completed")
               /\ S \in {"failed", "timed_out"} => Some("failed")
               /\ S = "partial" => Some("completed")
               /\ S # "cancelled"
               /\ S = "none" => TasksOf(ts, w) = {} \/ (~All("completed") /\ ~Some("failed"))
  BY DEF ReconcileStatus

\* Every transaction keeps status, closure row and event together.
LEMMA WorkflowClosesOnceStep ==
    ASSUME TypeOK, TypeOK', WorkflowClosesOnce, [Next]_vars
    PROVE  WorkflowClosesOnce'
  <1>1. CASE UNCHANGED <<workflows, workflow_closure, workflow_events>>
    BY <1>1 DEF WorkflowClosesOnce
  <1>2. ASSUME NEW w \in Workflow, NEW s \in WorkflowTerminal, Closes(w, s)
        PROVE  WorkflowClosesOnce'
    BY <1>2 DEF Closes, WorkflowClosesOnce, TypeOK
  <1>3. ASSUME NEW w \in Workflow, CreateWorkflow(w) PROVE WorkflowClosesOnce'
    BY <1>3 DEF CreateWorkflow, WorkflowClosesOnce, TypeOK, WorkflowTerminal
  <1>4. ASSUME NEW w \in Workflow, CancelWorkflow(w) PROVE WorkflowClosesOnce'
    <2>1. CancelStatus(w) \in WorkflowTerminal
      BY DEF CancelStatus, WorkflowTerminal
    <2>2. Closes(w, CancelStatus(w))
      BY <1>4, <2>1, CloseOpen DEF CancelWorkflow
    <2> QED  BY <1>2, <2>1, <2>2
  <1>5. ASSUME NEW t \in Task, NEW n \in Number, CompleteAttempt(t, n) PROVE WorkflowClosesOnce'
    BY <1>1, <1>2, <1>5, ReconcileCases DEF CompleteAttempt
  <1>6. ASSUME NEW t \in Task, NEW n \in Number, NEW s \in {"failed", "timed_out"},
               TerminateAttempt(t, n, s)
        PROVE  WorkflowClosesOnce'
    BY <1>1, <1>2, <1>6, ReconcileCases DEF TerminateAttempt
  <1>7. CASE UNCHANGED <<core, outbox>>
    BY <1>1, <1>7 DEF core
  <1>8. CASE \E t \in Task, at \in Time : BeginAttempt(t, at)
    BY <1>1, <1>8 DEF BeginAttempt
  <1>9. CASE \E t \in Task : AcknowledgeOutbox(t)
    BY <1>1, <1>9 DEF AcknowledgeOutbox
  <1>10. CASE \E t \in Task : \E b \in Number, c \in {{}, {t}} : AddTaskInsert(t, b, c)
    BY <1>1, <1>10 DEF AddTaskInsert
  <1> QED  BY <1>3, <1>4, <1>5, <1>6, <1>7, <1>8, <1>9, <1>10, StepCases

\* The workflow of a running task is neither completed nor cancelled.
LEMMA RunningWorkflow ==
    ASSUME TypeOK, TaskMatchesAttempts, ClosureJustified,
           NEW t \in Task, NEW n \in Number, Running(t, n)
    PROVE  /\ workflow_tasks[t] = "running"
           /\ workflows[WorkflowOf[t]] \notin {"completed", "cancelled"}
  <1>1. workflow_tasks[t] = "running"
    BY RunningIsLast DEF TaskMatchesAttempts
  <1>2. SomeTask(WorkflowOf[t], {"running", "failed", "cancelled"})
        /\ SomeTask(WorkflowOf[t], {"completed", "running", "failed"})
    BY <1>1 DEF SomeTask, TasksOf
  <1> QED  BY <1>1, <1>2 DEF ClosureJustified

\* The recorded outcome stays justified when a running task of a workflow
\* ends, whatever it ends with.
LEMMA JustifiedAfterTaskEnds ==
    ASSUME TypeOK, TypeOK', TaskMatchesAttempts, ClosureJustified, WorkflowClosesOnce,
           NEW t \in Task, NEW n \in Number, Running(t, n),
           NEW v \in {"ready", "completed", "failed"},
           workflow_tasks' = [workflow_tasks EXCEPT ![t] = v],
           \/ UNCHANGED <<workflows, workflow_closure, workflow_events>>
           \/ \E hint : ReconcileWorkflow(workflow_tasks', WorkflowOf[t], hint)
    PROVE  ClosureJustified'
  <1> DEFINE w == WorkflowOf[t]
  <1>1. workflow_tasks[t] = "running" /\ workflows[w] \notin {"completed", "cancelled"}
    BY RunningWorkflow
  <1>2. \A u \in Task : u # t => workflow_tasks'[u] = workflow_tasks[u]
    BY DEF TypeOK
  <1>3. \A x \in Workflow, S \in SUBSET TaskStatus :
           x # w => (SomeTask(x, S)' <=> SomeTask(x, S))
    BY <1>2 DEF SomeTask, TasksOf
  <1>4. \A S \in SUBSET {"completed", "failed"} : SomeTask(w, S) => SomeTask(w, S)'
    BY <1>1, <1>2 DEF SomeTask, TasksOf
  <1>5. \A x \in Workflow : workflows'[x] = workflows[x] =>
           /\ workflows'[x] = "completed" =>
                 SomeTask(x, {"completed"})' /\ ~SomeTask(x, {"running", "failed", "cancelled"})'
           /\ workflows'[x] \in {"failed", "timed_out"} => SomeTask(x, {"failed"})'
           /\ workflows'[x] = "partial" => SomeTask(x, {"completed"})'
           /\ workflows'[x] = "cancelled" => ~SomeTask(x, {"completed", "running", "failed"})'
    BY <1>1, <1>3, <1>4 DEF ClosureJustified, TaskStatus
  <1>6. CASE UNCHANGED workflows
    BY <1>5, <1>6 DEF ClosureJustified
  <1>7. ASSUME NEW hint, ReconcileWorkflow(workflow_tasks', w, hint), workflows' # workflows
        PROVE  ClosureJustified'
    <2> DEFINE s == ReconcileStatus(workflow_tasks', w, hint)
    <2>1. s \in WorkflowTerminal /\ Closes(w, s)
      BY <1>7, ReconcileCases
    <2>2. ~Closed(w) /\ workflows'[w] = s
      BY <2>1 DEF Closes, Closed, TypeOK
    <2>3. \A x \in Workflow : x # w => workflows'[x] = workflows[x]
      BY <2>1 DEF Closes, TypeOK
    <2>4. /\ s = "completed" => TasksOf(workflow_tasks', w) # {}
                                /\ \A u \in TasksOf(workflow_tasks', w) : workflow_tasks'[u] = "completed"
          /\ s \in {"failed", "timed_out"} => \E u \in TasksOf(workflow_tasks', w) : workflow_tasks'[u] = "failed"
          /\ s = "partial" => \E u \in TasksOf(workflow_tasks', w) : workflow_tasks'[u] = "completed"
          /\ s # "cancelled"
      BY <2>2, ReconcileMeaning
    <2>5. /\ workflows'[w] = "completed" =>
                SomeTask(w, {"completed"})' /\ ~SomeTask(w, {"running", "failed", "cancelled"})'
          /\ workflows'[w] \in {"failed", "timed_out"} => SomeTask(w, {"failed"})'
          /\ workflows'[w] = "partial" => SomeTask(w, {"completed"})'
          /\ workflows'[w] # "cancelled"
      BY <2>2, <2>4 DEF SomeTask
    <2> QED  BY <1>5, <2>3, <2>5 DEF ClosureJustified
  <1> QED  BY <1>6, <1>7

\* Every transaction keeps the recorded outcomes justified.
LEMMA ClosureJustifiedStep ==
    ASSUME TypeOK, TypeOK', TaskMatchesAttempts, WorkflowClosesOnce, ClosureJustified,
           OpenWorkflowHasWork, [Next]_vars
    PROVE  ClosureJustified'
  <1>1. CASE UNCHANGED <<workflows, workflow_tasks>>
    BY <1>1 DEF ClosureJustified, SomeTask, TasksOf
  <1>2. ASSUME NEW w \in Workflow, CreateWorkflow(w) PROVE ClosureJustified'
    <2>1. \A x \in Workflow : workflows'[x] = IF x = w THEN "active" ELSE workflows[x]
      BY <1>2 DEF CreateWorkflow, TypeOK
    <2>2. workflow_tasks' = workflow_tasks
      BY <1>2 DEF CreateWorkflow
    <2> QED  BY <2>1, <2>2 DEF ClosureJustified, SomeTask, TasksOf
  <1>3. ASSUME NEW w \in Workflow, CancelWorkflow(w) PROVE ClosureJustified'
    <2>1. CancelStatus(w) \in {"partial", "cancelled"}
      BY DEF CancelStatus
    <2>2. Closes(w, CancelStatus(w))
      BY <1>3, <2>1, CloseOpen DEF CancelWorkflow, WorkflowTerminal
    <2>3. \A x \in Workflow : workflows'[x] = IF x = w THEN CancelStatus(w) ELSE workflows[x]
      BY <2>2 DEF Closes, TypeOK
    <2>4. \A u \in Task : workflow_tasks'[u] =
             IF WorkflowOf[u] = w /\ Cancellable(u) THEN "cancelled" ELSE workflow_tasks[u]
      BY <1>3 DEF CancelWorkflow
    <2>5. \A x \in Workflow, S \in SUBSET TaskStatus :
             x # w => (SomeTask(x, S)' <=> SomeTask(x, S))
      BY <2>4 DEF SomeTask, TasksOf
    <2>6. CASE CancelStatus(w) = "partial"
      <3>1. PICK t \in TasksOf(workflow_tasks, w) : workflow_tasks[t] = "completed"
        BY <2>6 DEF CancelStatus
      <3>2. SomeTask(w, {"completed"})'
        BY <2>4, <3>1 DEF SomeTask, TasksOf, Cancellable
      <3> QED  BY <2>3, <2>5, <2>6, <3>2 DEF ClosureJustified, TaskStatus
    <2>7. CASE CancelStatus(w) = "cancelled"
      <3>1. ~SomeTask(w, {"completed"})
        BY <2>7 DEF CancelStatus, SomeTask
      <3>2. ~SomeTask(w, {"failed", "cancelled"})
        BY <2>2 DEF Closes, OpenWorkflowHasWork
      <3>3. ~SomeTask(w, {"completed", "running", "failed"})'
        BY <2>4, <3>1, <3>2 DEF SomeTask, TasksOf, Cancellable
      <3> QED  BY <2>3, <2>5, <2>7, <3>3 DEF ClosureJustified, TaskStatus
    <2> QED  BY <2>1, <2>6, <2>7
  <1>4. ASSUME NEW t \in Task, NEW b \in Number, NEW c \in {{}, {t}}, AddTaskInsert(t, b, c)
        PROVE  ClosureJustified'
    <2>1. \A u \in Task : workflow_tasks'[u] = IF u = t THEN "ready" ELSE workflow_tasks[u]
      BY <1>4 DEF AddTaskInsert, NewTask, TypeOK
    <2>2. \A x \in Workflow, S \in SUBSET {"running", "completed", "failed", "cancelled"} :
             SomeTask(x, S)' <=> SomeTask(x, S)
      BY <1>4, <2>1 DEF SomeTask, TasksOf, AddTaskInsert
    <2>3. workflows' = workflows
      BY <1>4 DEF AddTaskInsert
    <2> QED  BY <2>2, <2>3 DEF ClosureJustified
  <1>5. ASSUME NEW t \in Task, NEW at \in Time, BeginAttempt(t, at) PROVE ClosureJustified'
    <2>1. \A u \in Task : workflow_tasks'[u] = IF u = t THEN "running" ELSE workflow_tasks[u]
      BY <1>5 DEF BeginAttempt, TypeOK
    <2>2. \A x \in Workflow, S \in SUBSET TaskStatus :
             x # WorkflowOf[t] => (SomeTask(x, S)' <=> SomeTask(x, S))
      BY <2>1 DEF SomeTask, TasksOf
    <2>3. workflows' = workflows /\ workflows[WorkflowOf[t]] = "active"
      BY <1>5 DEF BeginAttempt
    <2> QED  BY <2>2, <2>3 DEF ClosureJustified, TaskStatus
  <1>6. ASSUME NEW t \in Task, NEW n \in Number, CompleteAttempt(t, n) PROVE ClosureJustified'
    BY <1>6, JustifiedAfterTaskEnds DEF CompleteAttempt
  <1>7. ASSUME NEW t \in Task, NEW n \in Number, NEW s \in {"failed", "timed_out"},
               TerminateAttempt(t, n, s)
        PROVE  ClosureJustified'
    BY <1>7, JustifiedAfterTaskEnds DEF TerminateAttempt
  <1>8. CASE UNCHANGED <<core, outbox>>
    BY <1>1, <1>8 DEF core
  <1>9. CASE \E t \in Task : AcknowledgeOutbox(t)
    BY <1>1, <1>9 DEF AcknowledgeOutbox
  <1> QED  BY <1>2, <1>3, <1>4, <1>5, <1>6, <1>7, <1>8, <1>9, StepCases

\* Every transaction leaves an open workflow something to run.
LEMMA OpenWorkflowHasWorkStep ==
    ASSUME TypeOK, TypeOK', TaskMatchesAttempts, WorkflowClosesOnce, OpenWorkflowHasWork,
           CallersAreRight, [Next]_vars
    PROVE  OpenWorkflowHasWork'
  <1> SUFFICES ASSUME NEW w \in Workflow, workflows'[w] = "active"
               PROVE  /\ ~SomeTask(w, {"failed", "cancelled"})'
                      /\ SomeTask(w, {"completed"})' => SomeTask(w, {"ready", "running"})'
    BY DEF OpenWorkflowHasWork
  <1> DEFINE Goal == /\ ~SomeTask(w, {"failed", "cancelled"})'
                     /\ SomeTask(w, {"completed"})' => SomeTask(w, {"ready", "running"})'
  <1>1. CASE /\ workflows[w] = "active"
             /\ \A u \in Task : WorkflowOf[u] = w => workflow_tasks'[u] = workflow_tasks[u]
    <2>1. \A S \in SUBSET TaskStatus : SomeTask(w, S)' <=> SomeTask(w, S)
      BY <1>1 DEF SomeTask, TasksOf
    <2> QED  BY <1>1, <2>1 DEF OpenWorkflowHasWork, TaskStatus
  <1>2. ASSUME NEW x \in Workflow, CreateWorkflow(x) PROVE Goal
    <2>1. CASE x = w
      <3>1. workflow_tasks' = workflow_tasks /\ TasksOf(workflow_tasks, w) = {}
        BY <1>2, <2>1 DEF CreateWorkflow, CallersAreRight, TasksOf
      <3> QED  BY <3>1 DEF SomeTask
    <2>2. CASE x # w
      BY <1>1, <1>2, <2>2 DEF CreateWorkflow, TypeOK
    <2> QED  BY <2>1, <2>2
  <1>3. ASSUME NEW x \in Workflow, CancelWorkflow(x) PROVE Goal
    <2>1. CancelStatus(x) \in {"partial", "cancelled"}
      BY DEF CancelStatus
    <2>2. Closes(x, CancelStatus(x))
      BY <1>3, <2>1, CloseOpen DEF CancelWorkflow, WorkflowTerminal
    <2>3. x # w /\ workflows[w] = "active"
      BY <2>1, <2>2 DEF Closes, TypeOK
    <2> QED  BY <1>1, <1>3, <2>3 DEF CancelWorkflow
  <1>4. ASSUME NEW t \in Task, NEW b \in Number, NEW c \in {{}, {t}}, AddTaskInsert(t, b, c)
        PROVE  Goal
    <2>1. \A u \in Task : workflow_tasks'[u] = IF u = t THEN "ready" ELSE workflow_tasks[u]
      BY <1>4 DEF AddTaskInsert, NewTask, TypeOK
    <2>2. workflow_tasks[t] = "none" /\ workflows[w] = "active"
      BY <1>4 DEF AddTaskInsert
    <2>3. SomeTask(w, {"ready", "running"}) => SomeTask(w, {"ready", "running"})'
      BY <2>1 DEF SomeTask, TasksOf
    <2>4. SomeTask(w, {"failed", "cancelled"})' => SomeTask(w, {"failed", "cancelled"})
      BY <2>1 DEF SomeTask, TasksOf
    <2>5. SomeTask(w, {"completed"})' => SomeTask(w, {"completed"})
      BY <2>1 DEF SomeTask, TasksOf
    <2> QED  BY <2>2, <2>3, <2>4, <2>5 DEF OpenWorkflowHasWork
  <1>5. ASSUME NEW t \in Task, NEW at \in Time, BeginAttempt(t, at) PROVE Goal
    <2>1. \A u \in Task : workflow_tasks'[u] = IF u = t THEN "running" ELSE workflow_tasks[u]
      BY <1>5 DEF BeginAttempt, TypeOK
    <2>2. workflows[w] = "active"
      BY <1>5 DEF BeginAttempt
    <2>3. SomeTask(w, {"ready", "running"}) => SomeTask(w, {"ready", "running"})'
      BY <2>1 DEF SomeTask, TasksOf
    <2>4. SomeTask(w, {"failed", "cancelled"})' => SomeTask(w, {"failed", "cancelled"})
      BY <2>1 DEF SomeTask, TasksOf
    <2>5. SomeTask(w, {"completed"})' => SomeTask(w, {"completed"})
      BY <2>1 DEF SomeTask, TasksOf
    <2> QED  BY <2>2, <2>3, <2>4, <2>5 DEF OpenWorkflowHasWork
  <1>6. ASSUME NEW t \in Task, NEW n \in Number, Running(t, n),
               NEW v \in {"completed", "failed"}, NEW hint,
               workflow_tasks' = [workflow_tasks EXCEPT ![t] = v],
               ReconcileWorkflow(workflow_tasks', WorkflowOf[t], hint)
        PROVE  Goal
    <2>1. \A u \in Task : workflow_tasks'[u] = IF u = t THEN v ELSE workflow_tasks[u]
      BY <1>6 DEF TypeOK
    <2>2. workflows[w] = "active"
          /\ (WorkflowOf[t] = w => ReconcileStatus(workflow_tasks', w, hint) = "none")
      <3> DEFINE r == ReconcileStatus(workflow_tasks', WorkflowOf[t], hint)
      <3>1. \/ r = "none" /\ UNCHANGED workflows
            \/ r \in WorkflowTerminal /\ Closes(WorkflowOf[t], r)
        BY <1>6, ReconcileCases
      <3>2. CASE r = "none" /\ UNCHANGED workflows
        BY <3>2
      <3>3. CASE r \in WorkflowTerminal /\ Closes(WorkflowOf[t], r)
        <4>1. workflows' = [workflows EXCEPT ![WorkflowOf[t]] = r] /\ r # "active"
          BY <3>3 DEF Closes, WorkflowTerminal
        <4>2. WorkflowOf[t] # w
          BY <4>1 DEF TypeOK
        <4> QED  BY <4>1, <4>2 DEF TypeOK
      <3> QED  BY <3>1, <3>2, <3>3
    <2>3. CASE WorkflowOf[t] # w
      BY <1>1, <2>1, <2>2, <2>3
    <2>4. CASE WorkflowOf[t] = w
      <3>1. ~Closed(w)
        BY <2>2 DEF WorkflowClosesOnce, Closed, WorkflowTerminal
      <3>2. t \in TasksOf(workflow_tasks', w)
        BY <2>1, <2>4 DEF TasksOf
      <3>3. /\ ~\A u \in TasksOf(workflow_tasks', w) : workflow_tasks'[u] = "completed"
            /\ ~\E u \in TasksOf(workflow_tasks', w) : workflow_tasks'[u] = "failed"
        BY <2>2, <2>4, <3>1, <3>2, ReconcileMeaning
      <3>4. v = "completed"
        BY <2>1, <3>2, <3>3
      <3>5. ~SomeTask(w, {"failed", "cancelled"})'
        BY <2>1, <2>2, <3>4 DEF OpenWorkflowHasWork, SomeTask, TasksOf
      <3>6. \A u \in Task : workflow_tasks'[u] \in TaskStatus
        BY DEF TypeOK
      <3>7. SomeTask(w, {"ready", "running"})'
        BY <3>3, <3>5, <3>6 DEF SomeTask, TasksOf, TaskStatus
      <3> QED  BY <3>5, <3>7
    <2> QED  BY <2>3, <2>4
  <1>7. ASSUME NEW t \in Task, NEW n \in Number, CompleteAttempt(t, n) PROVE Goal
    BY <1>6, <1>7 DEF CompleteAttempt
  <1>8. ASSUME NEW t \in Task, NEW n \in Number, NEW s \in {"failed", "timed_out"},
               TerminateAttempt(t, n, s)
        PROVE  Goal
    <2>1. CASE CanRetry(t, n)
      <3>1. /\ \A u \in Task : workflow_tasks'[u] = IF u = t THEN "ready" ELSE workflow_tasks[u]
            /\ workflows[w] = "active"
        BY <1>8, <2>1 DEF TerminateAttempt, TypeOK
      <3>2. SomeTask(w, {"ready", "running"}) => SomeTask(w, {"ready", "running"})'
        BY <3>1 DEF SomeTask, TasksOf
      <3>3. SomeTask(w, {"failed", "cancelled"})' => SomeTask(w, {"failed", "cancelled"})
        BY <3>1 DEF SomeTask, TasksOf
      <3>4. SomeTask(w, {"completed"})' => SomeTask(w, {"completed"})
        BY <3>1 DEF SomeTask, TasksOf
      <3> QED  BY <3>1, <3>2, <3>3, <3>4 DEF OpenWorkflowHasWork
    <2>2. CASE ~CanRetry(t, n)
      BY <1>6, <1>8, <2>2 DEF TerminateAttempt
    <2> QED  BY <2>1, <2>2
  <1>9. CASE UNCHANGED <<core, outbox>>
    BY <1>1, <1>9 DEF core
  <1>10. CASE \E t \in Task : AcknowledgeOutbox(t)
    BY <1>1, <1>10 DEF AcknowledgeOutbox
  <1> QED  BY <1>2, <1>3, <1>4, <1>5, <1>7, <1>8, <1>9, <1>10, StepCases

----------------------------------------------------------------------------
(* Compensation, deadlines and callers                                     *)

\* Every transaction keeps the outbox in step with the failed tasks.
LEMMA CompensationExactStep ==
    ASSUME TypeOK, TypeOK', TaskMatchesAttempts, CompensationExact, OpenWorkflowHasWork, [Next]_vars
    PROVE  CompensationExact'
  <1> SUFFICES ASSUME NEW u \in Task
               PROVE  outbox'[u] # "none" <=> workflow_tasks'[u] = "failed" /\ u \in compensation'
    BY DEF CompensationExact
  <1> DEFINE Goal == outbox'[u] # "none" <=> workflow_tasks'[u] = "failed" /\ u \in compensation'
  <1>0. outbox[u] # "none" <=> workflow_tasks[u] = "failed" /\ u \in compensation
    BY DEF CompensationExact
  <1>1. CASE /\ UNCHANGED <<outbox, compensation>>
             /\ workflow_tasks'[u] = "failed" <=> workflow_tasks[u] = "failed"
    BY <1>0, <1>1
  <1>2. ASSUME NEW w \in Workflow, CreateWorkflow(w) PROVE Goal
    BY <1>1, <1>2 DEF CreateWorkflow, rows
  <1>3. ASSUME NEW w \in Workflow, CancelWorkflow(w) PROVE Goal
    BY <1>1, <1>3 DEF CancelWorkflow, Cancellable, rows
  <1>4. ASSUME NEW t \in Task, AcknowledgeOutbox(t) PROVE Goal
    BY <1>0, <1>4 DEF AcknowledgeOutbox, rows, TypeOK
  <1>5. ASSUME NEW t \in Task, NEW b \in Number, NEW c \in {{}, {t}}, AddTaskInsert(t, b, c)
        PROVE  Goal
    BY <1>0, <1>5 DEF AddTaskInsert, NewTask, TypeOK
  <1>6. ASSUME NEW t \in Task, NEW at \in Time, BeginAttempt(t, at) PROVE Goal
    BY <1>1, <1>6 DEF BeginAttempt, TypeOK
  <1>7. ASSUME NEW t \in Task, NEW n \in Number, CompleteAttempt(t, n) PROVE Goal
    <2>1. workflow_tasks[t] = "running"
      BY <1>7, RunningIsLast DEF CompleteAttempt, TaskMatchesAttempts
    <2> QED  BY <1>1, <1>7, <2>1 DEF CompleteAttempt, rows, TypeOK
  <1>8. ASSUME NEW t \in Task, NEW n \in Number, NEW s \in {"failed", "timed_out"},
               TerminateAttempt(t, n, s)
        PROVE  Goal
    <2>1. workflow_tasks[t] = "running"
      BY <1>8, RunningIsLast DEF TerminateAttempt, TaskMatchesAttempts
    <2>2. /\ workflow_tasks' = [workflow_tasks EXCEPT ![t] =
                IF CanRetry(t, n) THEN "ready" ELSE "failed"]
          /\ compensation' = compensation
      BY <1>8 DEF TerminateAttempt, rows
    <2>3. outbox' = IF ~CanRetry(t, n) /\ t \in compensation /\ outbox[t] = "none"
                    THEN [outbox EXCEPT ![t] = "pending"] ELSE outbox
      BY <1>8 DEF TerminateAttempt, EnqueueCompensation
    <2>4. CASE u = t
      BY <1>0, <2>1, <2>2, <2>3, <2>4 DEF TypeOK
    <2>5. CASE u # t
      BY <1>0, <2>2, <2>3, <2>5 DEF TypeOK
    <2> QED  BY <2>4, <2>5
  <1>9. CASE UNCHANGED <<core, outbox>>
    BY <1>1, <1>9 DEF core, rows
  <1> QED  BY <1>2, <1>3, <1>4, <1>5, <1>6, <1>7, <1>8, <1>9, StepCases

\* The clock never goes back.
LEMMA ClockMonotone ==
    ASSUME TypeOK, [Next]_vars
    PROVE  clock <= clock'
  <1>1. ASSUME NEW w \in Workflow, CreateWorkflow(w) \/ CancelWorkflow(w) PROVE clock' = clock
    BY <1>1 DEF CreateWorkflow, CancelWorkflow
  <1>2. ASSUME NEW t \in Task, TaskStep(t) PROVE clock' = clock
    BY <1>2 DEF TaskStep, AddTaskCheck, AddTaskInsert, BeginAttempt, AcknowledgeOutbox
  <1>3. ASSUME NEW t \in Task, NEW n \in Number, AttemptStep(t, n) PROVE clock' = clock
    BY <1>3 DEF AttemptStep, SaveCheckpointCheck, SaveCheckpointWrite, CompleteAttempt, FailAttempt,
                TerminateAttempt, TimeoutCheck, TimeoutTerminate
  <1>4. ASSUME NEW s \in Sweeper, (\E now \in Time : SweepScan(s, now)) \/ SweepStep(s)
        PROVE  clock' = clock
    BY <1>4 DEF SweepScan, SweepStep, SweepCheck, SweepTerminate, TerminateAttempt
  <1>5. CASE UNCHANGED vars \/ \E e \in Event : ReceiveEvent(e)
    BY <1>5 DEF vars, ReceiveEvent, TypeOK, Time
  <1>6. CASE Tick
    BY <1>6 DEF Tick, TypeOK, Time
  <1>7. clock' = clock => clock <= clock'
    BY DEF TypeOK, Time
  <1> QED  BY <1>1, <1>2, <1>3, <1>4, <1>5, <1>6, <1>7 DEF Next

\* An attempt row is never deleted and its deadline never changes.
LEMMA DeadlineStable ==
    ASSUME TypeOK, TypeOK', TaskMatchesAttempts, [Next]_vars,
           NEW u \in Task, NEW m \in Number, attempts[u][m] # "none"
    PROVE  attempts'[u][m] # "none" /\ deadline'[u][m] = deadline[u][m]
  <1>1. CASE UNCHANGED <<attempts, deadline>>
    BY <1>1
  <1>2. ASSUME NEW w \in Workflow, CancelWorkflow(w)
        PROVE  attempts'[u][m] # "none" /\ deadline'[u][m] = deadline[u][m]
    BY <1>2 DEF CancelWorkflow, rows
  <1>3. ASSUME NEW t \in Task, NEW at \in Time, BeginAttempt(t, at)
        PROVE  attempts'[u][m] # "none" /\ deadline'[u][m] = deadline[u][m]
    <2>1. PICK k \in 0..MaxBudget : AttemptsUpTo(t, k)
      BY DEF TaskMatchesAttempts
    <2>2. /\ attempts' = [attempts EXCEPT ![t][k + 1] = "running"]
          /\ deadline' = [deadline EXCEPT ![t][k + 1] = at]
      BY <1>3, <2>1, CountIsLast DEF BeginAttempt
    <2>3. ~(u = t /\ m = k + 1)
      BY <2>1 DEF AttemptsUpTo, Number
    <2> QED  BY <2>2, <2>3 DEF TypeOK
  <1>4. ASSUME NEW t \in Task, NEW n \in Number, CompleteAttempt(t, n)
        PROVE  attempts'[u][m] # "none" /\ deadline'[u][m] = deadline[u][m]
    BY <1>4 DEF CompleteAttempt, rows, TypeOK
  <1>5. ASSUME NEW t \in Task, NEW n \in Number, NEW s \in {"failed", "timed_out"},
               TerminateAttempt(t, n, s)
        PROVE  attempts'[u][m] # "none" /\ deadline'[u][m] = deadline[u][m]
    BY <1>5 DEF TerminateAttempt, rows, TypeOK
  <1>6. CASE UNCHANGED <<core, outbox>>
    BY <1>1, <1>6 DEF core, rows
  <1>7. CASE \E w \in Workflow : CreateWorkflow(w)
    BY <1>1, <1>7 DEF CreateWorkflow, rows
  <1>8. CASE \E t \in Task : AcknowledgeOutbox(t)
    BY <1>1, <1>8 DEF AcknowledgeOutbox, rows
  <1>9. CASE \E t \in Task : \E b \in Number, c \in {{}, {t}} : AddTaskInsert(t, b, c)
    BY <1>1, <1>9 DEF AddTaskInsert
  <1> QED  BY <1>2, <1>3, <1>4, <1>5, <1>6, <1>7, <1>8, <1>9, StepCases

\* An attempt becomes timed out only by a caller that had found it expired.
LEMMA TimeoutHasCaller ==
    ASSUME TypeOK, [Next]_vars, NEW u \in Task, NEW m \in Number,
           attempts[u][m] # "timed_out", attempts'[u][m] = "timed_out"
    PROVE  <<u, m>> \in expiring \/ \E s \in Sweeper : <<u, m>> \in due[s]
  <1>1. ASSUME NEW t \in Task, NEW n \in Number, NEW v \in {"completed", "failed"},
               attempts' = [attempts EXCEPT ![t][n] = v]
        PROVE  FALSE
    BY <1>1 DEF TypeOK
  <1>2. ASSUME NEW t \in Task, NEW n \in Number, attempts' = [attempts EXCEPT ![t][n] = "timed_out"]
        PROVE  t = u /\ n = m
    BY <1>2 DEF TypeOK
  <1>3. ~UNCHANGED attempts
    OBVIOUS
  <1>4. ASSUME NEW w \in Workflow, CreateWorkflow(w) \/ CancelWorkflow(w) PROVE FALSE
    BY <1>3, <1>4 DEF CreateWorkflow, CancelWorkflow
  <1>5. ASSUME NEW t \in Task, TaskStep(t) PROVE FALSE
    <2>1. ASSUME NEW at \in Time, BeginAttempt(t, at) PROVE FALSE
      BY <2>1 DEF BeginAttempt, TypeOK
    <2> QED  BY <1>3, <1>5, <2>1 DEF TaskStep, AddTaskCheck, AddTaskInsert, AcknowledgeOutbox, tables
  <1>6. ASSUME NEW t \in Task, NEW n \in Number, AttemptStep(t, n)
        PROVE  <<u, m>> \in expiring
    BY <1>1, <1>2, <1>3, <1>6
       DEF AttemptStep, SaveCheckpointCheck, SaveCheckpointWrite, CompleteAttempt, FailAttempt,
           TerminateAttempt, TimeoutCheck, TimeoutTerminate, tables
  <1>7. ASSUME NEW s \in Sweeper, (\E now \in Time : SweepScan(s, now)) \/ SweepStep(s)
        PROVE  <<u, m>> \in due[s]
    BY <1>2, <1>3, <1>7 DEF SweepScan, SweepStep, SweepCheck, SweepTerminate, TerminateAttempt, tables
  <1>8. CASE Tick \/ (\E e \in Event : ReceiveEvent(e)) \/ UNCHANGED vars
    BY <1>3, <1>8 DEF Tick, ReceiveEvent, tables, vars
  <1> QED  BY <1>4, <1>5, <1>6, <1>7, <1>8 DEF Next

\* No step records a timeout before the deadline.
LEMMA TimedOutAfterDeadlineStep ==
    ASSUME TypeOK, TypeOK', TaskMatchesAttempts, TimedOutAfterDeadline, CallersAreRight, [Next]_vars
    PROVE  TimedOutAfterDeadline'
  <1> SUFFICES ASSUME NEW u \in Task, NEW m \in Number, attempts'[u][m] = "timed_out"
               PROVE  deadline'[u][m] <= clock'
    BY DEF TimedOutAfterDeadline
  <1>1. attempts[u][m] # "none" /\ deadline[u][m] <= clock
    <2>1. CASE attempts[u][m] = "timed_out"
      BY <2>1 DEF TimedOutAfterDeadline
    <2>2. CASE attempts[u][m] # "timed_out"
      BY <2>2, TimeoutHasCaller DEF CallersAreRight
    <2> QED  BY <2>1, <2>2
  <1>2. deadline'[u][m] = deadline[u][m] /\ clock <= clock'
    BY <1>1, DeadlineStable, ClockMonotone
  <1>3. deadline[u][m] \in Nat /\ clock \in Nat /\ clock' \in Nat
    BY DEF TypeOK, Time
  <1> QED  BY <1>1, <1>2, <1>3

\* No step makes a workflow row disappear.
LEMMA WorkflowsStay ==
    ASSUME TypeOK, WorkflowClosesOnce, [Next]_vars, NEW x \in Workflow, workflows[x] # "none"
    PROVE  workflows'[x] # "none"
  <1>1. CASE UNCHANGED workflows
    BY <1>1
  <1>2. ASSUME NEW w \in Workflow, NEW s \in WorkflowTerminal, Closes(w, s)
        PROVE  workflows'[x] # "none"
    BY <1>2 DEF Closes, TypeOK, WorkflowTerminal
  <1>3. ASSUME NEW w \in Workflow, CreateWorkflow(w) PROVE workflows'[x] # "none"
    BY <1>3 DEF CreateWorkflow, TypeOK
  <1>4. ASSUME NEW w \in Workflow, CancelWorkflow(w) PROVE workflows'[x] # "none"
    <2>1. CancelStatus(w) \in WorkflowTerminal
      BY DEF CancelStatus, WorkflowTerminal
    <2> QED  BY <1>2, <1>4, <2>1, CloseOpen DEF CancelWorkflow
  <1>5. ASSUME NEW t \in Task, NEW n \in Number, CompleteAttempt(t, n) PROVE workflows'[x] # "none"
    BY <1>1, <1>2, <1>5, ReconcileCases DEF CompleteAttempt
  <1>6. ASSUME NEW t \in Task, NEW n \in Number, NEW s \in {"failed", "timed_out"},
               TerminateAttempt(t, n, s)
        PROVE  workflows'[x] # "none"
    BY <1>1, <1>2, <1>6, ReconcileCases DEF TerminateAttempt
  <1>7. CASE UNCHANGED <<core, outbox>>
    BY <1>1, <1>7 DEF core
  <1>8. CASE \E t \in Task, at \in Time : BeginAttempt(t, at)
    BY <1>1, <1>8 DEF BeginAttempt
  <1>9. CASE \E t \in Task : AcknowledgeOutbox(t)
    BY <1>1, <1>9 DEF AcknowledgeOutbox
  <1>10. CASE \E t \in Task : \E b \in Number, c \in {{}, {t}} : AddTaskInsert(t, b, c)
    BY <1>1, <1>10 DEF AddTaskInsert
  <1> QED  BY <1>3, <1>4, <1>5, <1>6, <1>7, <1>8, <1>9, <1>10, StepCases

\* A task gets its row only from a caller that had found its workflow.
LEMMA TaskHasCaller ==
    ASSUME TypeOK, TaskMatchesAttempts, [Next]_vars, NEW u \in Task,
           workflow_tasks[u] = "none", workflow_tasks'[u] # "none"
    PROVE  u \in adding
  <1>1. ~UNCHANGED workflow_tasks
    OBVIOUS
  <1>2. ASSUME NEW t \in Task, t # u, NEW v, workflow_tasks' = [workflow_tasks EXCEPT ![t] = v]
        PROVE  FALSE
    BY <1>2 DEF TypeOK
  <1>3. ASSUME NEW w \in Workflow, CreateWorkflow(w) \/ CancelWorkflow(w) PROVE FALSE
    BY <1>1, <1>3 DEF CreateWorkflow, CancelWorkflow, Cancellable
  <1>4. ASSUME NEW t \in Task, NEW b \in Number, NEW c \in {{}, {t}}, AddTaskInsert(t, b, c)
        PROVE  u \in adding
    BY <1>2, <1>4 DEF AddTaskInsert, NewTask
  <1>5. ASSUME NEW t \in Task, NEW at \in Time, BeginAttempt(t, at) PROVE FALSE
    BY <1>2, <1>5 DEF BeginAttempt
  <1>6. ASSUME NEW t \in Task, NEW n \in Number, CompleteAttempt(t, n) PROVE FALSE
    <2>1. workflow_tasks[t] = "running"
      BY <1>6, RunningIsLast DEF CompleteAttempt, TaskMatchesAttempts
    <2> QED  BY <1>2, <1>6, <2>1 DEF CompleteAttempt
  <1>7. ASSUME NEW t \in Task, NEW n \in Number, NEW s \in {"failed", "timed_out"},
               TerminateAttempt(t, n, s)
        PROVE  FALSE
    <2>1. workflow_tasks[t] = "running"
      BY <1>7, RunningIsLast DEF TerminateAttempt, TaskMatchesAttempts
    <2> QED  BY <1>2, <1>7, <2>1 DEF TerminateAttempt
  <1>8. CASE UNCHANGED <<core, outbox>> \/ \E t \in Task : AcknowledgeOutbox(t)
    BY <1>1, <1>8 DEF core, AcknowledgeOutbox
  <1> QED  BY <1>3, <1>4, <1>5, <1>6, <1>7, <1>8, StepCases

\* A caller newly remembered as having found the workflow did find it.
LEMMA AddingIsRight ==
    ASSUME [Next]_vars, NEW u \in Task, u \notin adding, u \in adding'
    PROVE  workflows[WorkflowOf[u]] = "active"
  <1>1. ~UNCHANGED adding
    OBVIOUS
  <1>2. ASSUME NEW t \in Task, TaskStep(t) PROVE workflows[WorkflowOf[u]] = "active"
    BY <1>1, <1>2 DEF TaskStep, AddTaskCheck, AddTaskInsert, BeginAttempt, AcknowledgeOutbox, calls
  <1>3. ASSUME NEW w \in Workflow, CreateWorkflow(w) \/ CancelWorkflow(w) PROVE FALSE
    BY <1>1, <1>3 DEF CreateWorkflow, CancelWorkflow, calls
  <1>4. ASSUME NEW t \in Task, NEW n \in Number, AttemptStep(t, n) PROVE FALSE
    BY <1>1, <1>4 DEF AttemptStep, SaveCheckpointCheck, SaveCheckpointWrite, CompleteAttempt,
                      FailAttempt, TimeoutCheck, TimeoutTerminate, calls
  <1>5. ASSUME NEW s \in Sweeper, (\E now \in Time : SweepScan(s, now)) \/ SweepStep(s)
        PROVE  FALSE
    BY <1>1, <1>5 DEF SweepScan, SweepStep, SweepCheck, SweepTerminate
  <1>6. CASE Tick \/ (\E e \in Event : ReceiveEvent(e)) \/ UNCHANGED vars
    BY <1>1, <1>6 DEF Tick, ReceiveEvent, calls, vars
  <1> QED  BY <1>2, <1>3, <1>4, <1>5, <1>6 DEF Next

\* An attempt newly remembered as expired was running and expired.
LEMMA ExpiredIsRight ==
    ASSUME TypeOK, [Next]_vars, NEW u \in Task, NEW m \in Number,
           \/ <<u, m>> \in expiring' \ expiring
           \/ \E s \in Sweeper : /\ <<u, m>> \in todo'[s] \union due'[s]
                                  /\ <<u, m>> \notin todo[s] \union due[s]
    PROVE  attempts[u][m] # "none" /\ deadline[u][m] <= clock
  <1> DEFINE Goal == attempts[u][m] # "none" /\ deadline[u][m] <= clock
  <1>0. ASSUME NEW now \in Time, now <= clock, Running(u, m), Expired(u, m, now) PROVE Goal
    <2>1. deadline[u][m] \in Nat /\ clock \in Nat /\ now \in Nat
      BY DEF TypeOK, Time
    <2> QED  BY <1>0, <2>1 DEF Running, Expired
  <1>1. ~UNCHANGED <<expiring, todo, due>>
    OBVIOUS
  <1>2. ASSUME NEW t \in Task, TaskStep(t) PROVE FALSE
    BY <1>1, <1>2 DEF TaskStep, AddTaskCheck, AddTaskInsert, BeginAttempt, AcknowledgeOutbox, calls, sweep
  <1>3. ASSUME NEW w \in Workflow, CreateWorkflow(w) \/ CancelWorkflow(w) PROVE FALSE
    BY <1>1, <1>3 DEF CreateWorkflow, CancelWorkflow, calls, sweep
  <1>4. ASSUME NEW t \in Task, NEW n \in Number, AttemptStep(t, n) PROVE Goal
    <2>1. ASSUME NEW now \in Time, TimeoutCheck(t, n, now) PROVE Goal
      <3>1. UNCHANGED <<todo, due>> /\ expiring' = expiring \union {<<t, n>>}
        BY <2>1 DEF TimeoutCheck, sweep
      <3>2. t = u /\ n = m
        BY <3>1
      <3> QED  BY <1>0, <2>1, <3>2 DEF TimeoutCheck
    <2> QED  BY <1>1, <1>4, <2>1
                DEF AttemptStep, SaveCheckpointCheck, SaveCheckpointWrite, CompleteAttempt,
                    FailAttempt, TimeoutTerminate, calls, sweep
  <1>5. ASSUME NEW s \in Sweeper, NEW now \in Time, SweepScan(s, now) PROVE Goal
    <2>1. expiring' = expiring /\ due' = due
      BY <1>5 DEF SweepScan
    <2>2. \A r \in Sweeper : r # s => todo'[r] = todo[r]
      BY <1>5 DEF SweepScan, TypeOK
    <2>3. <<u, m>> \in todo'[s]
      BY <2>1, <2>2
    <2>4. todo'[s] = {a \in Attempt : Running(a[1], a[2]) /\ Expired(a[1], a[2], now)}
      BY <1>5 DEF SweepScan, TypeOK
    <2>5. Running(u, m) /\ Expired(u, m, now)
      BY <2>3, <2>4
    <2> QED  BY <1>0, <1>5, <2>5 DEF SweepScan
  <1>6. ASSUME NEW s \in Sweeper, NEW t \in Task, NEW n \in Number,
               SweepCheck(s, t, n) \/ SweepTerminate(s, t, n)
        PROVE  FALSE
    <2>1. expiring' = expiring
      BY <1>6 DEF SweepCheck, SweepTerminate
    <2>2. \A r \in Sweeper : r # s => todo'[r] = todo[r] /\ due'[r] = due[r]
      BY <1>6 DEF SweepCheck, SweepTerminate, SweepSkip, SweepRaise, TypeOK
    <2>3. todo'[s] \union due'[s] \subseteq todo[s] \union due[s]
      <3>1. todo'[s] \in {todo[s] \ {<<t, n>>}, {}}
        BY <1>6 DEF SweepCheck, SweepTerminate, SweepSkip, SweepRaise, TypeOK
      <3>2. due'[s] = {} \/ (due'[s] = {<<t, n>>} /\ <<t, n>> \in todo[s])
        BY <1>6 DEF SweepCheck, SweepTerminate, SweepSkip, SweepRaise, TypeOK
      <3> QED  BY <3>1, <3>2
    <2> QED  BY <2>1, <2>2, <2>3
  <1>7. CASE Tick \/ (\E e \in Event : ReceiveEvent(e)) \/ UNCHANGED vars
    BY <1>1, <1>7 DEF Tick, ReceiveEvent, calls, sweep, vars
  <1> QED  BY <1>2, <1>3, <1>4, <1>5, <1>6, <1>7 DEF Next, SweepStep

\* What callers remember stays true.
LEMMA CallersAreRightStep ==
    ASSUME TypeOK, TypeOK', TaskMatchesAttempts, WorkflowClosesOnce, CallersAreRight, [Next]_vars
    PROVE  CallersAreRight'
  <1>1. ASSUME NEW u \in Task, u \in adding' \/ workflow_tasks'[u] # "none"
        PROVE  workflows'[WorkflowOf[u]] # "none"
    <2>1. workflows[WorkflowOf[u]] # "none"
      <3>1. CASE u \in adding \/ workflow_tasks[u] # "none"
        BY <3>1 DEF CallersAreRight
      <3>2. CASE u \notin adding /\ u \in adding'
        BY <3>2, AddingIsRight
      <3>3. CASE workflow_tasks[u] = "none" /\ workflow_tasks'[u] # "none"
        BY <3>3, TaskHasCaller DEF CallersAreRight
      <3> QED  BY <1>1, <3>1, <3>2, <3>3
    <2> QED  BY <2>1, WorkflowsStay
  <1>2. ASSUME NEW u \in Task, NEW m \in Number,
               <<u, m>> \in expiring' \/ (\E s \in Sweeper : <<u, m>> \in todo'[s] \union due'[s])
        PROVE  attempts'[u][m] # "none" /\ deadline'[u][m] <= clock'
    <2>1. attempts[u][m] # "none" /\ deadline[u][m] <= clock
      BY <1>2, ExpiredIsRight DEF CallersAreRight
    <2>2. attempts'[u][m] # "none" /\ deadline'[u][m] = deadline[u][m] /\ clock <= clock'
      BY <2>1, DeadlineStable, ClockMonotone
    <2>3. deadline[u][m] \in Nat /\ clock \in Nat /\ clock' \in Nat
      BY DEF TypeOK, Time
    <2> QED  BY <2>1, <2>2, <2>3
  <1> QED  BY <1>1, <1>2 DEF CallersAreRight

----------------------------------------------------------------------------
(* The theorems                                                            *)

\* Empty tables satisfy the invariant.
LEMMA StoreInvInit == Init => StoreInv
  <1> SUFFICES ASSUME Init PROVE StoreInv
    OBVIOUS
  <1>1. TypeOK
    BY TypeInit
  <1>2. TaskMatchesAttempts
    <2>1. \A t \in Task : AttemptsUpTo(t, 0)
      BY DEF Init, AttemptsUpTo, Number
    <2> QED  BY <2>1 DEF TaskMatchesAttempts
  <1>3. AttemptEndsOnce /\ CompensationExact /\ TimedOutAfterDeadline
    BY DEF Init, AttemptEndsOnce, AttemptTerminal, CompensationExact, TimedOutAfterDeadline
  <1>4. WorkflowClosesOnce /\ ClosureJustified /\ OpenWorkflowHasWork
    BY DEF Init, WorkflowClosesOnce, WorkflowTerminal, ClosureJustified, OpenWorkflowHasWork
  <1>5. CallersAreRight
    BY DEF Init, CallersAreRight
  <1> QED  BY <1>1, <1>2, <1>3, <1>4, <1>5 DEF StoreInv

\* Every step preserves the invariant.
LEMMA StoreInvStep == StoreInv /\ [Next]_vars => StoreInv'
  <1> SUFFICES ASSUME StoreInv, [Next]_vars PROVE StoreInv'
    OBVIOUS
  <1>1. TypeOK /\ TypeOK'
    BY TypeStep DEF StoreInv
  <1>2. /\ TaskMatchesAttempts' /\ AttemptEndsOnce' /\ WorkflowClosesOnce'
        /\ ClosureJustified' /\ OpenWorkflowHasWork'
    BY <1>1, TaskMatchesAttemptsStep, AttemptEndsOnceStep, WorkflowClosesOnceStep,
       ClosureJustifiedStep, OpenWorkflowHasWorkStep DEF StoreInv
  <1>3. CompensationExact' /\ TimedOutAfterDeadline' /\ CallersAreRight'
    BY <1>1, CompensationExactStep, TimedOutAfterDeadlineStep, CallersAreRightStep DEF StoreInv
  <1> QED  BY <1>1, <1>2, <1>3 DEF StoreInv

\* The invariant holds in every reachable state.
THEOREM StoreInvariant == Spec => []StoreInv
  BY StoreInvInit, StoreInvStep, PTL DEF Spec

\* A task row and its attempts always tell one story.
THEOREM TasksMatchAttempts == Spec => []TaskMatchesAttempts
  <1>1. StoreInv => TaskMatchesAttempts
    BY DEF StoreInv
  <1> QED  BY <1>1, StoreInvariant, PTL

\* However many callers race to end an attempt, it ends exactly once.
THEOREM AttemptsEndOnce == Spec => []AttemptEndsOnce
  <1>1. StoreInv => AttemptEndsOnce
    BY DEF StoreInv
  <1> QED  BY <1>1, StoreInvariant, PTL

\* A workflow closes exactly once, with one status, row and event.
THEOREM WorkflowsCloseOnce == Spec => []WorkflowClosesOnce
  <1>1. StoreInv => WorkflowClosesOnce
    BY DEF StoreInv
  <1> QED  BY <1>1, StoreInvariant, PTL

\* A recorded outcome stays justified by the tasks.
THEOREM ClosuresJustified == Spec => []ClosureJustified
  <1>1. StoreInv => ClosureJustified
    BY DEF StoreInv
  <1> QED  BY <1>1, StoreInvariant, PTL

\* No open workflow is left with nothing to run.
THEOREM OpenWorkflowsHaveWork == Spec => []OpenWorkflowHasWork
  <1>1. StoreInv => OpenWorkflowHasWork
    BY DEF StoreInv
  <1> QED  BY <1>1, StoreInvariant, PTL

\* Every attempt ends once and every workflow closes once.
THEOREM EverythingEndsOnce == Spec => []EndsOnce
  BY AttemptsEndOnce, WorkflowsCloseOnce, PTL DEF EndsOnce

\* A workflow is closed exactly when its tasks are done with.
THEOREM WorkflowsCloseWhenDone == Spec => []ClosedWhenDone
  BY ClosuresJustified, OpenWorkflowsHaveWork, PTL DEF ClosedWhenDone

\* Compensations are enqueued for exactly the failed tasks that ask for one.
THEOREM CompensationsExact == Spec => []CompensationExact
  <1>1. StoreInv => CompensationExact
    BY DEF StoreInv
  <1> QED  BY <1>1, StoreInvariant, PTL

\* No attempt is recorded timed out before its deadline.
THEOREM TimeoutsAfterDeadline == Spec => []TimedOutAfterDeadline
  <1>1. StoreInv => TimedOutAfterDeadline
    BY DEF StoreInv
  <1> QED  BY <1>1, StoreInvariant, PTL

\* No step changes a terminal status.
LEMMA FinalStepLemma == StoreInv /\ [Next]_vars => [FinalStep]_vars
  <1> SUFFICES ASSUME StoreInv, [Next]_vars PROVE FinalStep
    OBVIOUS
  <1>0. /\ TypeOK /\ TypeOK' /\ TaskMatchesAttempts /\ WorkflowClosesOnce
    BY TypeStep DEF StoreInv
  <1>1. ASSUME NEW x \in Workflow, workflows[x] \in WorkflowTerminal
        PROVE  workflows'[x] = workflows[x]
    <2>1. CASE UNCHANGED workflows
      BY <2>1
    <2>2. ASSUME NEW w \in Workflow, NEW s \in WorkflowTerminal, Closes(w, s)
          PROVE  workflows'[x] = workflows[x]
      BY <1>0, <1>1, <2>2 DEF Closes, TypeOK, WorkflowTerminal
    <2>3. ASSUME NEW w \in Workflow, CreateWorkflow(w) PROVE workflows'[x] = workflows[x]
      BY <1>0, <1>1, <2>3 DEF CreateWorkflow, TypeOK, WorkflowTerminal
    <2>4. ASSUME NEW w \in Workflow, CancelWorkflow(w) PROVE workflows'[x] = workflows[x]
      <3>1. CancelStatus(w) \in WorkflowTerminal
        BY DEF CancelStatus, WorkflowTerminal
      <3> QED  BY <1>0, <2>2, <2>4, <3>1, CloseOpen DEF CancelWorkflow
    <2>5. ASSUME NEW t \in Task, NEW n \in Number, CompleteAttempt(t, n)
          PROVE  workflows'[x] = workflows[x]
      BY <1>0, <2>1, <2>2, <2>5, ReconcileCases DEF CompleteAttempt
    <2>6. ASSUME NEW t \in Task, NEW n \in Number, NEW s \in {"failed", "timed_out"},
                 TerminateAttempt(t, n, s)
          PROVE  workflows'[x] = workflows[x]
      BY <1>0, <2>1, <2>2, <2>6, ReconcileCases DEF TerminateAttempt
    <2>7. CASE UNCHANGED <<core, outbox>> \/ \E t \in Task : AcknowledgeOutbox(t)
      BY <2>1, <2>7 DEF core, AcknowledgeOutbox
    <2>8. CASE \E t \in Task : \/ \E at \in Time : BeginAttempt(t, at)
                              \/ \E b \in Number, c \in {{}, {t}} : AddTaskInsert(t, b, c)
      BY <2>1, <2>8 DEF BeginAttempt, AddTaskInsert
    <2> QED  BY <2>3, <2>4, <2>5, <2>6, <2>7, <2>8, StepCases
  <1>2. ASSUME NEW u \in Task
        PROVE  /\ workflow_tasks[u] \in {"completed", "failed", "cancelled"}
                     => workflow_tasks'[u] = workflow_tasks[u]
               /\ outbox[u] = "delivered" => outbox'[u] = "delivered"
    <2> DEFINE Goal == /\ workflow_tasks[u] \in {"completed", "failed", "cancelled"}
                             => workflow_tasks'[u] = workflow_tasks[u]
                       /\ outbox[u] = "delivered" => outbox'[u] = "delivered"
    <2>1. CASE UNCHANGED <<core, outbox>>
      BY <2>1 DEF core
    <2>2. ASSUME NEW w \in Workflow, CreateWorkflow(w) \/ CancelWorkflow(w) PROVE Goal
      BY <2>2 DEF CreateWorkflow, CancelWorkflow, Cancellable
    <2>3. ASSUME NEW t \in Task, AcknowledgeOutbox(t) PROVE Goal
      BY <1>0, <2>3 DEF AcknowledgeOutbox, TypeOK
    <2>4. ASSUME NEW t \in Task, NEW b \in Number, NEW c \in {{}, {t}}, AddTaskInsert(t, b, c)
          PROVE  Goal
      BY <1>0, <2>4 DEF AddTaskInsert, NewTask, TypeOK
    <2>5. ASSUME NEW t \in Task, NEW at \in Time, BeginAttempt(t, at) PROVE Goal
      BY <1>0, <2>5 DEF BeginAttempt, TypeOK
    <2>6. ASSUME NEW t \in Task, NEW n \in Number, CompleteAttempt(t, n) PROVE Goal
      <3>1. workflow_tasks[t] = "running"
        BY <1>0, <2>6, RunningIsLast DEF CompleteAttempt, TaskMatchesAttempts
      <3> QED  BY <1>0, <2>6, <3>1 DEF CompleteAttempt, TypeOK
    <2>7. ASSUME NEW t \in Task, NEW n \in Number, NEW s \in {"failed", "timed_out"},
                 TerminateAttempt(t, n, s)
          PROVE  Goal
      <3>1. workflow_tasks[t] = "running"
        BY <1>0, <2>7, RunningIsLast DEF TerminateAttempt, TaskMatchesAttempts
      <3> QED  BY <1>0, <2>7, <3>1 DEF TerminateAttempt, EnqueueCompensation, TypeOK
    <2> QED  BY <2>1, <2>2, <2>3, <2>4, <2>5, <2>6, <2>7, StepCases
  <1>3. ASSUME NEW u \in Task, NEW m \in Number, attempts[u][m] \in AttemptTerminal
        PROVE  attempts'[u][m] = attempts[u][m]
    <2>0. attempts[u][m] # "none" /\ ~Running(u, m)
      BY <1>3 DEF AttemptTerminal, Running
    <2>1. CASE UNCHANGED attempts
      BY <2>1
    <2>2. ASSUME NEW w \in Workflow, CancelWorkflow(w) PROVE attempts'[u][m] = attempts[u][m]
      BY <2>0, <2>2 DEF CancelWorkflow
    <2>3. ASSUME NEW t \in Task, NEW at \in Time, BeginAttempt(t, at)
          PROVE  attempts'[u][m] = attempts[u][m]
      <3>1. PICK k \in 0..MaxBudget : AttemptsUpTo(t, k)
        BY <1>0 DEF TaskMatchesAttempts
      <3>2. attempts' = [attempts EXCEPT ![t][k + 1] = "running"]
        BY <1>0, <2>3, <3>1, CountIsLast DEF BeginAttempt
      <3>3. ~(u = t /\ m = k + 1)
        BY <2>0, <3>1 DEF AttemptsUpTo, Number
      <3> QED  BY <1>0, <3>2, <3>3 DEF TypeOK
    <2>4. ASSUME NEW t \in Task, NEW n \in Number, CompleteAttempt(t, n)
          PROVE  attempts'[u][m] = attempts[u][m]
      BY <1>0, <2>0, <2>4 DEF CompleteAttempt, TypeOK
    <2>5. ASSUME NEW t \in Task, NEW n \in Number, NEW s \in {"failed", "timed_out"},
                 TerminateAttempt(t, n, s)
          PROVE  attempts'[u][m] = attempts[u][m]
      BY <1>0, <2>0, <2>5 DEF TerminateAttempt, TypeOK
    <2>6. CASE UNCHANGED <<core, outbox>> \/ \E t \in Task : AcknowledgeOutbox(t)
      BY <2>1, <2>6 DEF core, AcknowledgeOutbox
    <2>7. CASE \E w \in Workflow : CreateWorkflow(w)
      BY <2>1, <2>7 DEF CreateWorkflow
    <2>8. CASE \E t \in Task : \E b \in Number, c \in {{}, {t}} : AddTaskInsert(t, b, c)
      BY <2>1, <2>8 DEF AddTaskInsert
    <2> QED  BY <2>2, <2>3, <2>4, <2>5, <2>6, <2>7, <2>8, StepCases
  <1> QED  BY <1>1, <1>2, <1>3 DEF FinalStep

\* Terminal outcomes are final in every behaviour.
THEOREM TerminalFinal == Spec => TerminalIsFinal
  BY StoreInvariant, FinalStepLemma, PTL DEF Spec, TerminalIsFinal
=============================================================================
