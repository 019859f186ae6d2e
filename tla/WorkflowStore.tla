--------------------------- MODULE WorkflowStore ---------------------------
(***************************************************************************)
(* The durable workflow records of services/control_plane/workflows.py.    *)
(*                                                                         *)
(* Every variable is a SQLite table (or one column of it).  A row that     *)
(* does not exist has status "none".  A method whose body runs under       *)
(* BEGIN IMMEDIATE is one action.  A method that SELECTs first and writes  *)
(* later (add_task, save_checkpoint, timeout_attempt, the recovery loop)   *)
(* is two actions: Python's sqlite3 opens its transaction only at the      *)
(* first write, so another thread of the HTTP server may run in between.   *)
(* What such a caller has read is remembered in adding, saving, expiring   *)
(* and sweep.  The first three sets are never pruned: any number of        *)
(* callers may have passed the same check, and a caller that crashes is    *)
(* one whose second step never happens.                                    *)
(*                                                                         *)
(* A rejected call (WorkflowError, IntegrityError, a repeated terminal     *)
(* call) changes nothing and is a stuttering step.                         *)
(***************************************************************************)
EXTENDS Naturals, FiniteSets

CONSTANTS
    Workflow,     \* workflow_id values
    Task,         \* (workflow_id, task_id) keys of workflow_tasks
    WorkflowOf,   \* the workflow_id part of a task key
    MaxBudget,    \* bound: the largest max_attempts a caller asks for
    MaxTime,      \* bound: the last instant of the clock
    Key,          \* checkpoint_key values
    Event,        \* inbound event_id values
    Sweeper       \* threads that call recover_expired_attempts

ASSUME WorkflowStoreAssumption ==
    /\ WorkflowOf \in [Task -> Workflow]
    /\ MaxBudget \in Nat \ {0}
    /\ MaxTime \in Nat

VARIABLES
    workflows,            \* workflows.status
    workflow_tasks,       \* workflow_tasks.status
    max_attempts,         \* workflow_tasks.max_attempts
    compensation,         \* tasks whose compensation_event_type is set
    attempts,             \* attempts.status, by task and attempt number
    deadline,             \* attempts.deadline
    attempt_termination,  \* attempt_termination.terminal_status
    attempt_events,       \* how many attempt.* rows workflow_closure_events has
    workflow_closure,     \* workflow_closure.terminal_status
    workflow_events,      \* how many workflow.* rows workflow_closure_events has
    checkpoints,          \* keys of the checkpoints table
    outbox,               \* the compensate:<w>:<t> row of outbox, by task
    inbox,                \* event ids of inbox
    clock,                \* wall-clock time
    adding,               \* tasks some add_task call found the workflow active for
    saving,               \* attempts some save_checkpoint call found running
    expiring,             \* attempts some timeout_attempt call found expired
    todo,                 \* rows each recover_expired_attempts call has yet to visit
    due,                  \* the row it is about to terminate, if any
    sweep_now             \* the now argument of that call

rows   == <<max_attempts, compensation, deadline>>
tables == <<workflows, workflow_tasks, rows, attempts, attempt_termination,
            attempt_events, workflow_closure, workflow_events, outbox>>
sweep  == <<todo, due, sweep_now>>
calls  == <<adding, saving, expiring, sweep>>
vars   == <<tables, checkpoints, inbox, clock, calls>>

----------------------------------------------------------------------------

Number  == 1..MaxBudget
Attempt == Task \X Number
Time    == 0..MaxTime

WorkflowTerminal == {"completed", "failed", "cancelled", "partial", "timed_out"}
TaskStatus       == {"none", "ready", "running", "completed", "failed", "cancelled"}
AttemptTerminal  == {"completed", "failed", "timed_out", "cancelled"}
AttemptStatus    == {"none", "running"} \union AttemptTerminal

\* The tasks of workflow w that have a row, when task_status is the table.
TasksOf(task_status, w) == {t \in Task : WorkflowOf[t] = w /\ task_status[t] # "none"}

\* A caller that treats a failed attempt as still running.
RunningMutant(t, n) == attempts[t][n] \in {"running", "failed"}

Running(t, n) == attempts[t][n] = "running"

\* A deadline test that is off by one.
ExpiredMutant(t, n, now) == deadline[t][n] <= now + 1

\* not (now < deadline)
Expired(t, n, now) == deadline[t][n] <= now

\* SELECT COUNT(*) FROM attempts for task t.
AttemptCount(t) == Cardinality({n \in Number : attempts[t][n] # "none"})

Init ==
    /\ workflows = [w \in Workflow |-> "none"]
    /\ workflow_tasks = [t \in Task |-> "none"]
    /\ max_attempts = [t \in Task |-> 1]
    /\ compensation = {}
    /\ attempts = [t \in Task |-> [n \in Number |-> "none"]]
    /\ deadline = [t \in Task |-> [n \in Number |-> 0]]
    /\ attempt_termination = [t \in Task |-> [n \in Number |-> "none"]]
    /\ attempt_events = [t \in Task |-> [n \in Number |-> 0]]
    /\ workflow_closure = [w \in Workflow |-> "none"]
    /\ workflow_events = [w \in Workflow |-> 0]
    /\ checkpoints = {}
    /\ outbox = [t \in Task |-> "none"]
    /\ inbox = {}
    /\ clock = 0
    /\ adding = {}
    /\ saving = {}
    /\ expiring = {}
    /\ todo = [s \in Sweeper |-> {}]
    /\ due = [s \in Sweeper |-> {}]
    /\ sweep_now = [s \in Sweeper |-> 0]

----------------------------------------------------------------------------
(* Opening: create_workflow and add_task                                   *)

CreateWorkflow(w) ==
    /\ workflows[w] = "none"
    /\ workflows' = [workflows EXCEPT ![w] = "active"]
    /\ UNCHANGED <<workflow_tasks, rows, attempts, attempt_termination, attempt_events,
                   workflow_closure, workflow_events, outbox,
                   checkpoints, inbox, clock, calls>>

\* The SELECT of add_task: the workflow exists and is active.
AddTaskCheck(t) ==
    /\ workflows[WorkflowOf[t]] = "active"
    /\ adding' = adding \union {t}
    /\ UNCHANGED <<tables, checkpoints, inbox, clock, saving, expiring, sweep>>

NewTask(t, budget, comp) ==
    /\ workflow_tasks' = [workflow_tasks EXCEPT ![t] = "ready"]
    /\ max_attempts' = [max_attempts EXCEPT ![t] = budget]
    /\ compensation' = compensation \union comp

\* The INSERT of add_task; a second row with the same key is an IntegrityError.
\* comp is {t} when the caller names a compensation event, else {}.
AddTaskInsert(t, budget, comp) ==
    /\ t \in adding
    /\ workflow_tasks[t] = "none"
    /\ NewTask(t, budget, comp)
    /\ UNCHANGED <<workflows, deadline, attempts, attempt_termination, attempt_events,
                   workflow_closure, workflow_events, outbox,
                   checkpoints, inbox, clock, calls>>

----------------------------------------------------------------------------
(* Running: begin_attempt and save_checkpoint                              *)

BeginAttempt(t, at) ==
    /\ workflows[WorkflowOf[t]] = "active"
    /\ workflow_tasks[t] = "ready"
    /\ LET number == AttemptCount(t) + 1 IN
          /\ number <= max_attempts[t]
          /\ attempts' = [attempts EXCEPT ![t][number] = "running"]
          /\ deadline' = [deadline EXCEPT ![t][number] = at]
    /\ workflow_tasks' = [workflow_tasks EXCEPT ![t] = "running"]
    /\ UNCHANGED <<workflows, max_attempts, compensation, attempt_termination, attempt_events,
                   workflow_closure, workflow_events, outbox,
                   checkpoints, inbox, clock, calls>>

\* The SELECT of save_checkpoint: the attempt is running.
SaveCheckpointCheck(t, n) ==
    /\ Running(t, n)
    /\ saving' = saving \union {<<t, n>>}
    /\ UNCHANGED <<tables, checkpoints, inbox, clock, adding, expiring, sweep>>

\* The INSERT OR REPLACE of save_checkpoint.
SaveCheckpointWrite(t, n, k) ==
    /\ <<t, n>> \in saving
    /\ checkpoints' = checkpoints \union {<<t, n, k>>}
    /\ UNCHANGED <<tables, inbox, clock, calls>>

----------------------------------------------------------------------------
(* Closing: _record_attempt_termination, _reconcile_workflow and           *)
(* _close_workflow, and the methods that end in them                       *)

\* INSERT OR IGNORE INTO attempt_termination, then one closure event.
RecordAttemptTermination(t, n, status) ==
    /\ attempt_termination' = [attempt_termination EXCEPT ![t][n] =
          IF @ = "none" THEN status ELSE @]
    /\ attempt_events' = [attempt_events EXCEPT ![t][n] = @ + 1]

\* Closing w with this status fails only when another status is recorded;
\* the closure row is INSERT OR IGNORE, its event is unconditional.
CloseWorkflow(w, terminal) ==
    /\ workflows[w] \in {"active", terminal}
    /\ workflows' = [workflows EXCEPT ![w] = terminal]
    /\ workflow_closure' = [workflow_closure EXCEPT ![w] =
          IF @ = "none" THEN terminal ELSE @]
    /\ workflow_events' = [workflow_events EXCEPT ![w] = @ + 1]

\* A _reconcile_workflow that does not look for an existing closure.
ClosedMutant(w) == FALSE

\* _closure: the workflow has its closure row.
Closed(w) == workflow_closure[w] # "none"

\* The status _reconcile_workflow closes w with when the tasks have
\* task_status, or "none" when it leaves w as it is.
ReconcileStatus(task_status, w, hint) ==
    LET Some(status) == \E t \in TasksOf(task_status, w) : task_status[t] = status
        All(status)  == \A t \in TasksOf(task_status, w) : task_status[t] = status
    IN  IF Closed(w) \/ TasksOf(task_status, w) = {} THEN "none"
        ELSE IF All("completed") THEN "completed"
        ELSE IF ~Some("failed") THEN "none"
        ELSE IF Some("completed") THEN "partial"
        ELSE IF hint = "timed_out" THEN "timed_out" ELSE "failed"

\* A reconciliation that reads the task rows before this call's own update.
ReconcileWorkflowMutant(task_status, w, hint) ==
    LET terminal == ReconcileStatus(workflow_tasks, w, hint) IN
    IF terminal = "none"
    THEN UNCHANGED <<workflows, workflow_closure, workflow_events>>
    ELSE CloseWorkflow(w, terminal)

\* _reconcile_workflow, run in the transaction that writes the task rows.
ReconcileWorkflow(task_status, w, hint) ==
    LET terminal == ReconcileStatus(task_status, w, hint) IN
    IF terminal = "none"
    THEN UNCHANGED <<workflows, workflow_closure, workflow_events>>
    ELSE CloseWorkflow(w, terminal)

CompleteAttempt(t, n) ==
    LET task_status == [workflow_tasks EXCEPT ![t] = "completed"] IN
    /\ Running(t, n)
    /\ attempts' = [attempts EXCEPT ![t][n] = "completed"]
    /\ workflow_tasks' = task_status
    /\ RecordAttemptTermination(t, n, "completed")
    /\ ReconcileWorkflow(task_status, WorkflowOf[t], "completed")
    /\ UNCHANGED <<rows, outbox, checkpoints, inbox, clock, calls>>

\* A retry test that is off by one.
CanRetryMutant(t, n) == n <= max_attempts[t]

CanRetry(t, n) == n < max_attempts[t]

\* A compensation enqueued on every failure instead of the last one.
EnqueueCompensationMutant(t, retry) ==
    IF t \in compensation /\ outbox[t] = "none"
    THEN outbox' = [outbox EXCEPT ![t] = "pending"]
    ELSE UNCHANGED outbox

\* INSERT OR IGNORE of the compensation event, after the last failure only.
EnqueueCompensation(t, retry) ==
    IF ~retry /\ t \in compensation /\ outbox[t] = "none"
    THEN outbox' = [outbox EXCEPT ![t] = "pending"]
    ELSE UNCHANGED outbox

\* _terminate_attempt on a running attempt: the task is ready again while
\* attempts are left, else it has failed, its compensation is enqueued
\* (INSERT OR IGNORE) and the workflow is reconciled.
TerminateAttempt(t, n, status) ==
    LET retry == CanRetry(t, n)
        task_status == [workflow_tasks EXCEPT ![t] = IF retry THEN "ready" ELSE "failed"]
    IN
    /\ Running(t, n)
    /\ attempts' = [attempts EXCEPT ![t][n] = status]
    /\ RecordAttemptTermination(t, n, status)
    /\ workflow_tasks' = task_status
    /\ EnqueueCompensation(t, retry)
    /\ IF retry
       THEN UNCHANGED <<workflows, workflow_closure, workflow_events>>
       ELSE ReconcileWorkflow(task_status, WorkflowOf[t], status)
    /\ UNCHANGED <<rows, checkpoints, inbox, clock>>

FailAttempt(t, n) ==
    /\ TerminateAttempt(t, n, "failed")
    /\ UNCHANGED calls

\* The first connection of timeout_attempt: running, and past its deadline.
\* The caller's now was taken from the clock, perhaps some time ago.
TimeoutCheck(t, n, now) ==
    /\ now <= clock
    /\ Running(t, n)
    /\ Expired(t, n, now)
    /\ expiring' = expiring \union {<<t, n>>}
    /\ UNCHANGED <<tables, checkpoints, inbox, clock, adding, saving, sweep>>

\* The second connection of timeout_attempt.
TimeoutTerminate(t, n) ==
    /\ <<t, n>> \in expiring
    /\ TerminateAttempt(t, n, "timed_out")
    /\ UNCHANGED calls

\* A cancellation that forgets that some work was delivered.
CancelStatusMutant(w) == "cancelled"

CancelStatus(w) ==
    IF \E t \in TasksOf(workflow_tasks, w) : workflow_tasks[t] = "completed"
    THEN "partial" ELSE "cancelled"

\* An UPDATE without its status filter.
CancellableMutant(t) == workflow_tasks[t] \in {"ready", "running", "completed"}

Cancellable(t) == workflow_tasks[t] \in {"ready", "running"}

\* cancel_workflow; on a closed workflow it only reports the closure.
CancelWorkflow(w) ==
    LET Mine(t)       == WorkflowOf[t] = w
        Stopped(t, n) == Mine(t) /\ Running(t, n)
    IN
    /\ workflows[w] # "none"
    /\ ~Closed(w)
    /\ attempts' = [t \in Task |-> [n \in Number |->
          IF Stopped(t, n) THEN "cancelled" ELSE attempts[t][n]]]
    /\ attempt_termination' = [t \in Task |-> [n \in Number |->
          IF Stopped(t, n) /\ attempt_termination[t][n] = "none"
          THEN "cancelled" ELSE attempt_termination[t][n]]]
    /\ attempt_events' = [t \in Task |-> [n \in Number |->
          IF Stopped(t, n) THEN attempt_events[t][n] + 1 ELSE attempt_events[t][n]]]
    /\ workflow_tasks' = [t \in Task |->
          IF Mine(t) /\ Cancellable(t) THEN "cancelled" ELSE workflow_tasks[t]]
    /\ CloseWorkflow(w, CancelStatus(w))
    /\ UNCHANGED <<rows, outbox, checkpoints, inbox, clock, calls>>

----------------------------------------------------------------------------
(* recover_expired_attempts: one scan, then timeout_attempt on each row    *)

Idle(s) == todo[s] = {} /\ due[s] = {}

SweepScan(s, now) ==
    /\ Idle(s)
    /\ now <= clock
    /\ todo' = [todo EXCEPT ![s] =
          {a \in Attempt : Running(a[1], a[2]) /\ Expired(a[1], a[2], now)}]
    /\ sweep_now' = [sweep_now EXCEPT ![s] = now]
    /\ UNCHANGED <<tables, checkpoints, inbox, clock, adding, saving, expiring, due>>

\* The WorkflowError of a nested timeout_attempt ends the whole loop.
SweepRaise(s) ==
    /\ todo' = [todo EXCEPT ![s] = {}]
    /\ due' = [due EXCEPT ![s] = {}]

\* A loop that does not move on from an attempt another caller timed out.
SweepSkipMutant(s, t, n) == UNCHANGED <<todo, due>>

\* timeout_attempt returns at once: the attempt is timed out already.
SweepSkip(s, t, n) ==
    /\ todo' = [todo EXCEPT ![s] = @ \ {<<t, n>>}]
    /\ due' = [due EXCEPT ![s] = {}]

\* timeout_attempt's check, for any row left: the order of attempt ids is
\* opaque.  An attempt that another caller completed, failed or cancelled
\* since the scan raises.
SweepCheck(s, t, n) ==
    /\ due[s] = {}
    /\ <<t, n>> \in todo[s]
    /\ \/ /\ Running(t, n) /\ Expired(t, n, sweep_now[s])
          /\ todo' = [todo EXCEPT ![s] = @ \ {<<t, n>>}]
          /\ due' = [due EXCEPT ![s] = {<<t, n>>}]
       \/ attempts[t][n] = "timed_out" /\ SweepSkip(s, t, n)
       \/ attempts[t][n] \notin {"running", "timed_out"} /\ SweepRaise(s)
    /\ UNCHANGED <<tables, checkpoints, inbox, clock, adding, saving, expiring, sweep_now>>

\* timeout_attempt's _terminate_attempt.
SweepTerminate(s, t, n) ==
    /\ <<t, n>> \in due[s]
    /\ \/ /\ TerminateAttempt(t, n, "timed_out")
          /\ SweepSkip(s, t, n)
       \/ /\ attempts[t][n] = "timed_out"
          /\ SweepSkip(s, t, n)
          /\ UNCHANGED <<tables, checkpoints, inbox, clock>>
       \/ /\ attempts[t][n] \notin {"running", "timed_out"}
          /\ SweepRaise(s)
          /\ UNCHANGED <<tables, checkpoints, inbox, clock>>
    /\ UNCHANGED <<adding, saving, expiring, sweep_now>>

----------------------------------------------------------------------------
(* Delivery: receive_event and acknowledge_outbox; and the clock           *)

ReceiveEvent(e) ==
    /\ inbox' = inbox \union {e}
    /\ UNCHANGED <<tables, checkpoints, clock, calls>>

AcknowledgeOutbox(t) ==
    /\ outbox[t] # "none"
    /\ outbox' = [outbox EXCEPT ![t] = "delivered"]
    /\ UNCHANGED <<workflows, workflow_tasks, rows, attempts, attempt_termination,
                   attempt_events, workflow_closure, workflow_events,
                   checkpoints, inbox, clock, calls>>

Tick ==
    /\ clock < MaxTime
    /\ clock' = clock + 1
    /\ UNCHANGED <<tables, checkpoints, inbox, calls>>

----------------------------------------------------------------------------

SweepStep(s) == \E t \in Task, n \in Number : SweepCheck(s, t, n) \/ SweepTerminate(s, t, n)

TaskStep(t) ==
    \/ AddTaskCheck(t)
    \/ \E budget \in Number, comp \in {{}, {t}} : AddTaskInsert(t, budget, comp)
    \/ \E at \in Time : BeginAttempt(t, at)
    \/ AcknowledgeOutbox(t)

AttemptStep(t, n) ==
    \/ SaveCheckpointCheck(t, n)
    \/ \E k \in Key : SaveCheckpointWrite(t, n, k)
    \/ CompleteAttempt(t, n)
    \/ FailAttempt(t, n)
    \/ \E now \in Time : TimeoutCheck(t, n, now)
    \/ TimeoutTerminate(t, n)

Next ==
    \/ \E w \in Workflow : CreateWorkflow(w) \/ CancelWorkflow(w)
    \/ \E t \in Task : TaskStep(t)
    \/ \E t \in Task, n \in Number : AttemptStep(t, n)
    \/ \E s \in Sweeper : (\E now \in Time : SweepScan(s, now)) \/ SweepStep(s)
    \/ \E e \in Event : ReceiveEvent(e)
    \/ Tick

Spec == Init /\ [][Next]_vars

\* A thread inside recover_expired_attempts keeps running.
FairSpec == Spec /\ \A s \in Sweeper : WF_vars(SweepStep(s))

----------------------------------------------------------------------------
(* Properties                                                              *)

\* Every table holds rows of its declared kind; in particular a task's
\* max_attempts is positive, as add_task demands.
TypeOK ==
    /\ workflows \in [Workflow -> {"none", "active"} \union WorkflowTerminal]
    /\ workflow_tasks \in [Task -> TaskStatus]
    /\ max_attempts \in [Task -> Number]
    /\ compensation \subseteq Task
    /\ attempts \in [Task -> [Number -> AttemptStatus]]
    /\ deadline \in [Task -> [Number -> Time]]
    /\ attempt_termination \in [Task -> [Number -> {"none"} \union AttemptTerminal]]
    /\ attempt_events \in [Task -> [Number -> Nat]]
    /\ workflow_closure \in [Workflow -> {"none"} \union WorkflowTerminal]
    /\ workflow_events \in [Workflow -> Nat]
    /\ checkpoints \subseteq Task \X Number \X Key
    /\ outbox \in [Task -> {"none", "pending", "delivered"}]
    /\ inbox \subseteq Event
    /\ clock \in Time
    /\ adding \subseteq Task
    /\ saving \subseteq Attempt
    /\ expiring \subseteq Attempt
    /\ todo \in [Sweeper -> SUBSET Attempt]
    /\ due \in [Sweeper -> SUBSET Attempt]
    /\ sweep_now \in [Sweeper -> Time]

\* Attempts 1..k of task t have rows, all but the last were retried, and the
\* task's status is what the last one and the remaining budget imply.
AttemptsUpTo(t, k) ==
    /\ \A n \in Number : attempts[t][n] # "none" <=> n <= k
    /\ \A n \in Number : n < k => attempts[t][n] \in {"failed", "timed_out"}
    /\ k <= max_attempts[t]
    /\ workflow_tasks[t] = "none"  => k = 0
    /\ workflow_tasks[t] = "ready" =>
          k < max_attempts[t] /\ (k > 0 => attempts[t][k] \in {"failed", "timed_out"})
    /\ workflow_tasks[t] = "running" => k > 0 /\ attempts[t][k] = "running"
    /\ workflow_tasks[t] = "completed" => k > 0 /\ attempts[t][k] = "completed"
    /\ workflow_tasks[t] = "failed" =>
          k = max_attempts[t] /\ attempts[t][k] \in {"failed", "timed_out"}
    /\ workflow_tasks[t] = "cancelled" =>
          (k > 0 => attempts[t][k] \in {"failed", "timed_out", "cancelled"})

\* A task row and its attempts tell one story: attempts are numbered without
\* gaps within the budget and only the last may be running or decide the
\* task.  Hence at most one attempt of a task runs, and "retry budget
\* exhausted" (begin_attempt) is never why a ready task cannot start.
TaskMatchesAttempts == \A t \in Task : \E k \in 0..MaxBudget : AttemptsUpTo(t, k)

\* An attempt that ended left exactly one termination row and one attempt.*
\* event, both with its own status; a running one left none, however many
\* callers raced to end it.
AttemptEndsOnce ==
    \A t \in Task, n \in Number :
        LET status == attempts[t][n] IN
        IF status \in AttemptTerminal
        THEN attempt_termination[t][n] = status /\ attempt_events[t][n] = 1
        ELSE attempt_termination[t][n] = "none" /\ attempt_events[t][n] = 0

SomeTask(w, S) == \E t \in TasksOf(workflow_tasks, w) : workflow_tasks[t] \in S

\* A closed workflow has one closure row with its own status and exactly one
\* workflow.* event; an open one has neither.
WorkflowClosesOnce ==
    \A w \in Workflow :
        IF workflows[w] \in WorkflowTerminal
        THEN workflow_closure[w] = workflows[w] /\ workflow_events[w] = 1
        ELSE workflow_closure[w] = "none" /\ workflow_events[w] = 0

\* The recorded outcome is justified by the tasks for as long as it stands:
\* "completed" means no task failed, was cancelled or is still running,
\* "failed"/"timed_out" that one task exhausted its attempts, "partial" that
\* one completed, "cancelled" that none completed and none still runs.
ClosureJustified ==
    \A w \in Workflow :
        /\ workflows[w] = "completed" =>
              SomeTask(w, {"completed"}) /\ ~SomeTask(w, {"running", "failed", "cancelled"})
        /\ workflows[w] \in {"failed", "timed_out"} => SomeTask(w, {"failed"})
        /\ workflows[w] = "partial" => SomeTask(w, {"completed"})
        /\ workflows[w] = "cancelled" => ~SomeTask(w, {"completed", "running", "failed"})

\* An open workflow always has something left to do: once it has tasks, one
\* is ready or running, and none has failed or been cancelled.  So no order
\* of completions, failures and late add_task calls leaves it open forever
\* with nothing to run.
OpenWorkflowHasWork ==
    \A w \in Workflow : workflows[w] = "active" =>
        /\ ~SomeTask(w, {"failed", "cancelled"})
        /\ SomeTask(w, {"completed"}) => SomeTask(w, {"ready", "running"})

\* A workflow is closed when its tasks say so and only then: every closure is
\* justified by them, and an open workflow has something left to do
\* (_reconcile_workflow).
ClosedWhenDone == ClosureJustified /\ OpenWorkflowHasWork

\* However complete, fail, timeout, cancel and the sweep race, an attempt ends
\* once and a workflow closes once, with one record each.
EndsOnce == AttemptEndsOnce /\ WorkflowClosesOnce

\* A compensation event is in the outbox exactly when its task has failed for
\* good and asked for one.
CompensationExact ==
    \A t \in Task :
        outbox[t] # "none" <=> /\ workflow_tasks[t] = "failed"
                               /\ t \in compensation

\* timeout_attempt reads the deadline in one connection and writes in another;
\* still no attempt is ever recorded timed out before its deadline.
TimedOutAfterDeadline ==
    \A t \in Task, n \in Number :
        attempts[t][n] = "timed_out" => deadline[t][n] <= clock

\* A step leaves every terminal status as it is.
FinalStep ==
    /\ \A w \in Workflow :
          workflows[w] \in WorkflowTerminal => workflows'[w] = workflows[w]
    /\ \A t \in Task :
          /\ workflow_tasks[t] \in {"completed", "failed", "cancelled"}
                => workflow_tasks'[t] = workflow_tasks[t]
          /\ outbox[t] = "delivered" => outbox'[t] = "delivered"
    /\ \A t \in Task, n \in Number :
          attempts[t][n] \in AttemptTerminal => attempts'[t][n] = attempts[t][n]

\* Terminal outcomes are final: no step changes the status of a closed
\* workflow, of an ended attempt or of a task that completed, failed or was
\* cancelled, and an acknowledged compensation never becomes pending again.
TerminalIsFinal == [][FinalStep]_vars

\* A call of recover_expired_attempts always returns (or raises).
SweepReturns == \A s \in Sweeper : ~Idle(s) ~> Idle(s)
=============================================================================
