--------------------------- MODULE MultiExecution ---------------------------
(***************************************************************************)
(* A multi-capability request of services/execution_coordinator.py:        *)
(* _prepare_multi, _continue_multi_prepare, _decide_multi, _resume_multi,  *)
(* _finalize_multi, _cancel_multi, _interrupt_multi and the multi branch   *)
(* of recover_stale.  A parent row and one row per step; each step drives  *)
(* a child product of its own (ProductSaga), under a new id for every      *)
(* attempt to prepare it.                                                  *)
(*                                                                         *)
(* Every call runs in a thread of its own, one transaction at a time, and  *)
(* loops over the step rows it has read at the start of its loop (todo).   *)
(* A row is stale 15 minutes after its last change and the deadline ends   *)
(* 10 minutes after the creation, so a call that finds a row stale is also *)
(* past the deadline; a call keeps the time at which it was made (late).   *)
(***************************************************************************)
EXTENDS Naturals

CONSTANTS
    Caller,         \* threads of the service
    CallsOf,        \* bound: the calls a thread may serve
    StepCount,      \* capabilities in the plan
    Dependencies,   \* for each step, the steps it depends on
    MaxPrepare,     \* _MAX_ATTEMPTS
    MaxCrashes      \* bound: how often the process stops

Calls == {"prepare", "approve", "deny", "resume", "cancel", "recover"}
Steps == 1..StepCount

ASSUME MultiAssumption ==
    /\ CallsOf \in [Caller -> SUBSET Calls]
    /\ StepCount \in Nat \ {0, 1}
    /\ MaxPrepare \in Nat \ {0}
    /\ MaxCrashes \in Nat
    /\ \A i \in Steps : Dependencies[i] \subseteq Steps

VARIABLES
    product, charged,    \* the children: see ProductSaga
    needs,               \* children whose admission requires an approval
    decision,            \* the approval store, by child
    granted, revoked,    \* children whose execution grant has a row, is revoked
    jobs,                \* the parent's job
    status,              \* execution_requests.status; "none": no row
    execution_closure,   \* execution_closure.terminal_status; "none": no row
    step_status,         \* execution_steps.status
    prepare_attempt,     \* execution_steps.prepare_attempt, part of the child's id
    execution_attempt,   \* execution_steps.execution_attempt
    op, pc,              \* each thread's call and its next transaction
    seen,                \* the parent status a thread believes in
    todo,                \* the step rows its loop has still to visit
    late, overdue,       \* the deadline had passed when recover_stale was called; has passed
    crashes

Child == Steps \X (1..MaxPrepare)

INSTANCE ProductSaga WITH Product <- Child

children == <<product, charged, needs, decision, granted, revoked>>
parent   == <<jobs, status, execution_closure>>
steps    == <<step_status, prepare_attempt, execution_attempt>>
threads  == <<op, pc, seen, todo, late>>
vars     == <<children, parent, steps, threads, overdue, crashes>>

Terminal == {"ACCEPTED", "CANCELLED", "FAILED_TERMINAL", "DENIED", "INTERRUPTED", "PARTIAL"}
Active   == {"EXECUTING", "VERIFYING", "CANCELLING"}
JobTerminal == {"COMPLETED", "FAILED", "CANCELLED"}

\* _ALLOWED_TRANSITIONS, for the states a multi-capability row can be in.
AllowedTransitions(s) ==
    CASE s = "PENDING_ADMISSION" -> {"PENDING_APPROVAL", "ADMITTED", "FAILED_TERMINAL"}
      [] s = "PENDING_APPROVAL"  -> {"ADMITTED", "DENIED", "CANCELLING"}
      [] s = "ADMITTED"          -> {"QUEUED", "CANCELLING", "FAILED_TERMINAL"}
      [] s = "QUEUED"            -> {"EXECUTING", "CANCELLING", "FAILED_TERMINAL"}
      [] s = "EXECUTING"         -> {"VERIFYING", "FAILED_TERMINAL", "CANCELLING", "ACCEPTED",
                                     "PARTIAL", "INTERRUPTED"}
      [] s = "VERIFYING"         -> {"ACCEPTED", "FAILED_TERMINAL", "CANCELLING", "INTERRUPTED"}
      [] s = "CANCELLING"        -> {"CANCELLED", "ACCEPTED", "FAILED_TERMINAL", "INTERRUPTED"}
      [] OTHER                   -> {}

----------------------------------------------------------------------------
(* Transactions common to all calls                                        *)

Goto(c, label) ==
    /\ pc' = [pc EXCEPT ![c] = label]
    /\ UNCHANGED <<op, seen, todo, late>>

\* The call returns or raises to its HTTP handler or to the recovery timer.
Return(c) ==
    /\ pc' = [pc EXCEPT ![c] = "idle"]
    /\ op' = [op EXCEPT ![c] = "idle"]
    /\ seen' = [seen EXCEPT ![c] = "none"]
    /\ todo' = [todo EXCEPT ![c] = {}]
    /\ late' = [late EXCEPT ![c] = FALSE]

Jump(c, label) ==
    \/ label = "return" /\ Return(c)
    \/ label # "return" /\ Goto(c, label)

\* A step of a call that only looks at the stores.
Look(c, from, label) ==
    /\ pc[c] = from
    /\ Jump(c, label)
    /\ UNCHANGED <<children, parent, steps, overdue, crashes>>

\* A call starts and reads the parent row.
Enter(c, call, label) ==
    /\ pc[c] = "idle"
    /\ call \in CallsOf[c]
    /\ pc' = [pc EXCEPT ![c] = label]
    /\ op' = [op EXCEPT ![c] = call]
    /\ seen' = [seen EXCEPT ![c] = status]
    /\ late' = [late EXCEPT ![c] = overdue /\ call = "recover"]
    /\ UNCHANGED <<todo, children, parent, steps, overdue, crashes>>

\* The parent row is read again.
ReadStatus(c, from, believed, label) ==
    /\ pc[c] = from
    /\ seen' = [seen EXCEPT ![c] = believed]
    /\ pc' = [pc EXCEPT ![c] = label]
    /\ UNCHANGED <<op, todo, late, children, parent, steps, overdue, crashes>>

\* Mutant: the UPDATE has no AND status = expected.
CanSwapMutant(c, target) == target \in AllowedTransitions(seen[c])

\* The transition is legal, and the row still is as the caller expects.
CanSwap(c, target) ==
    /\ target \in AllowedTransitions(seen[c])
    /\ status = seen[c]

\* _transition and _fail: to label, or raise to otherwise.
TransitionTo(c, from, target, label, otherwise) ==
    /\ pc[c] = from
    /\ \/ /\ CanSwap(c, target)
          /\ status' = target
          /\ \/ label = "return" /\ Return(c)
             \/ /\ label # "return"
                /\ seen' = [seen EXCEPT ![c] = target]
                /\ pc' = [pc EXCEPT ![c] = label]
                /\ UNCHANGED <<op, todo, late>>
       \/ ~CanSwap(c, target) /\ UNCHANGED status /\ Jump(c, otherwise)
    /\ UNCHANGED <<children, jobs, execution_closure, steps, overdue, crashes>>

\* _record_closure: INSERT OR IGNORE, in a transaction of its own.
RecordClosure(c, from, terminal, label) ==
    /\ pc[c] = from
    /\ execution_closure' = IF execution_closure = "none" THEN terminal ELSE execution_closure
    /\ Jump(c, label)
    /\ UNCHANGED <<children, jobs, status, steps, overdue, crashes>>

\* A row of execution_steps, as it is read.
StepRow(i) ==
    [index |-> i, status |-> step_status[i], prepare |-> prepare_attempt[i],
     execution |-> execution_attempt[i]]

Loops == {"prepare", "decide", "run", "cancel", "interrupt"}

\* The rows a loop passes over without doing anything.
Passed(loop) ==
    CASE loop = "prepare"   -> {"ADMITTED", "PENDING_APPROVAL"}
      [] loop = "cancel"    -> {"ACCEPTED", "CANCELLED", "DENIED"}
      [] loop = "interrupt" -> {"ACCEPTED"}
      [] loop = "run"       -> {}
      [] loop = "decide"    -> {"none", "PLANNED", "PREPARING", "ADMITTED", "DENIED", "EXECUTING",
                                "ACCEPTED", "FAILED_TERMINAL", "CANCELLED", "INTERRUPTED"}

\* What follows the loop.
AfterLoop(loop) ==
    CASE loop = "prepare"   -> "prepare_finish"
      [] loop = "decide"    -> "decide_swap"
      [] loop = "run"       -> "verify"
      [] loop = "cancel"    -> "cancel_check"
      [] loop = "interrupt" -> "interrupt_job"

\* What a loop does first for a row: a planned row is claimed and one found
\* PREPARING taken for an orphan; a grant is revoked if the row says that the
\* step was executed.
ForRow(loop, row) ==
    CASE loop = "prepare"   -> CASE row.status = "PLANNED"   -> "prepare_claim"
                                 [] row.status = "PREPARING" -> "prepare_orphan"
                                 [] OTHER                    -> "raised"
      [] loop = "decide"    -> "decide_child"
      [] loop = "run"       -> "run_row"
      [] loop = "cancel"    -> IF row.execution > 0 THEN "cancel_revoke" ELSE "cancel_child"
      [] loop = "interrupt" -> IF row.execution > 0 THEN "interrupt_revoke" ELSE "interrupt_child"

\* The rows are in the order of their steps.
FirstRow(rows) == CHOOSE row \in rows : \A other \in rows : row.index <= other.index

Loop(c, loop, rows) ==
    /\ todo' = [todo EXCEPT ![c] = rows]
    /\ pc' = [pc EXCEPT ![c] = IF rows = {} THEN AfterLoop(loop) ELSE ForRow(loop, FirstRow(rows))]
    /\ UNCHANGED <<op, seen, late>>

\* _multi_step_rows at the head of a loop.
ReadSteps(c, from, loop) ==
    /\ pc[c] = from
    /\ Loop(c, loop, {StepRow(i) : i \in {k \in Steps : step_status[k] \notin Passed(loop)}})
    /\ UNCHANGED <<children, parent, steps, overdue, crashes>>

\* The row under the loop, and the child it names.
Row(c)     == FirstRow(todo[c])
ChildOf(c) == <<Row(c).index, Row(c).prepare>>

\* On to the next row of the loop.
NextRow(c, loop) == Loop(c, loop, todo[c] \ {Row(c)})

\* transition_job: a read decides (ReadJob), and the write trusts it.
ReadJob(c, from, states, label, otherwise) ==
    Look(c, from, IF jobs \in states THEN label ELSE otherwise)

WriteJob(c, from, state, label) ==
    /\ pc[c] = from
    /\ jobs' = state
    /\ Goto(c, label)
    /\ UNCHANGED <<children, status, execution_closure, steps, overdue, crashes>>

\* grants.revoke of the row's grant, whether or not it has a row yet.
RevokeRowGrant(c, from, label) ==
    /\ pc[c] = from
    /\ revoked' = revoked \union {ChildOf(c)}
    /\ Goto(c, label)
    /\ UNCHANGED <<product, charged, needs, decision, granted, parent, steps, overdue, crashes>>

\* UPDATE execution_steps ... for the row under the loop.
SetStep(c, state) == step_status' = [step_status EXCEPT ![Row(c).index] = state]

\* UPDATE execution_steps SET status = after WHERE status IN before, for the
\* row under the loop: on to label, or to otherwise.  The label is that of a
\* loop when the row is done with.
SwapStep(c, from, before, after, label, otherwise) ==
    /\ pc[c] = from
    /\ \/ /\ step_status[Row(c).index] \in before
          /\ SetStep(c, after)
          /\ IF label \in Loops THEN NextRow(c, label) ELSE Goto(c, label)
       \/ /\ step_status[Row(c).index] \notin before
          /\ UNCHANGED step_status
          /\ Jump(c, otherwise)
    /\ UNCHANGED <<children, parent, prepare_attempt, execution_attempt, overdue, crashes>>

\* _store_multi_step_result: an accepted step stays, one under way becomes
\* accepted, any other raises.
StoreResult(c, from, label, otherwise) ==
    SwapStep(c, from, {"ACCEPTED", "EXECUTING"}, "ACCEPTED", label, otherwise)

\* Mutant: no AND status != 'ACCEPTED'.
CloseRowMutant(c, state) == SetStep(c, state)

\* UPDATE ... AND status != 'ACCEPTED' of the row under the loop.
CloseRow(c, state) ==
    step_status' = [step_status EXCEPT ![Row(c).index] = IF @ = "ACCEPTED" THEN @ ELSE state]

\* get_job, then transition_job to a terminal state, which reads again and
\* raises if the job has ended by then, and then writes unconditionally.
EndJob(c, from, again, write, state, label, otherwise) ==
    \/ ReadJob(c, from, JobTerminal, label, again)
    \/ ReadJob(c, again, JobTerminal, otherwise, write)
    \/ WriteJob(c, write, state, label)

\* Mutant: the error is swallowed.
RecoverFinalizingMutant(c, from, label, otherwise) ==
    /\ pc[c] = from
    /\ \/ AcceptProof(ChildOf(c)) /\ Goto(c, label)
       \/ Goto(c, label) /\ UNCHANGED <<product, charged>>
    /\ UNCHANGED <<needs, decision, granted, revoked, parent, steps, overdue, crashes>>

\* adapter.recover_finalizing: it may raise an error of the product runtime.
RecoverFinalizing(c, from, label, otherwise) ==
    /\ pc[c] = from
    /\ \/ AcceptProof(ChildOf(c)) /\ Goto(c, label)
       \/ product[ChildOf(c)] = "accepted" /\ Goto(c, label) /\ UNCHANGED <<product, charged>>
       \/ Goto(c, otherwise) /\ UNCHANGED <<product, charged>>
    /\ UNCHANGED <<needs, decision, granted, revoked, parent, steps, overdue, crashes>>

\* adapter.interrupt: nothing to do unless the child is pending.  Cleaning up
\* may fail, in which case the product's runtime raises.
InterruptChild(c, from, label, otherwise) ==
    /\ pc[c] = from
    /\ \/ CloseProof(ChildOf(c), "interrupted") /\ Goto(c, label)
       \/ product[ChildOf(c)] # "pending" /\ Goto(c, label) /\ UNCHANGED <<product, charged>>
       \/ Jump(c, otherwise) /\ UNCHANGED <<product, charged>>
    /\ UNCHANGED <<needs, decision, granted, revoked, parent, steps, overdue, crashes>>

----------------------------------------------------------------------------
(* prepare                                                                 *)

\* _prepare_multi: the parent row and all step rows in one transaction, whose
\* key lets one caller pass.
PrepareStart(c) ==
    /\ pc[c] = "idle"
    /\ "prepare" \in CallsOf[c]
    /\ status = "none"
    /\ status' = "PENDING_ADMISSION"
    /\ step_status' = [i \in Steps |-> "PLANNED"]
    /\ pc' = [pc EXCEPT ![c] = "prepare_read"]
    /\ op' = [op EXCEPT ![c] = "prepare"]
    /\ seen' = [seen EXCEPT ![c] = "PENDING_ADMISSION"]
    /\ UNCHANGED <<children, jobs, execution_closure, prepare_attempt, execution_attempt,
                   todo, late, overdue, crashes>>

\* prepare of a request that exists goes on with its preparation.
PrepareAgain(c) == status = "PENDING_ADMISSION" /\ Enter(c, "prepare", "prepare_read")

\* The orphan's child, if it has come into being, is interrupted.
PrepareOrphan(c) ==
    Look(c, "prepare_orphan",
         IF product[ChildOf(c)] = "none" THEN "prepare_renew" ELSE "prepare_interrupt")

\* Mutant: the attempt is counted twice.
PrepareRenewMutant(c) ==
    /\ pc[c] = "prepare_renew"
    /\ Row(c).prepare < MaxPrepare
    /\ SetStep(c, "PLANNED")
    /\ prepare_attempt' = [prepare_attempt EXCEPT ![Row(c).index] = @ + 2]
    /\ Goto(c, "prepare_claim")
    /\ UNCHANGED <<children, parent, execution_attempt, overdue, crashes>>

\* The row goes back to PLANNED under the id of a new child, unless the
\* attempts are used up; then it is read again.
PrepareRenew(c) ==
    /\ pc[c] = "prepare_renew"
    /\ \/ /\ Row(c).prepare = MaxPrepare
          /\ Goto(c, "prepare_fail")
          /\ UNCHANGED steps
       \/ /\ Row(c).prepare < MaxPrepare
          /\ \/ /\ step_status[Row(c).index] = "PREPARING"
                /\ SetStep(c, "PLANNED")
                /\ prepare_attempt' = [prepare_attempt EXCEPT ![Row(c).index] = Row(c).prepare + 1]
             \/ /\ step_status[Row(c).index] # "PREPARING"
                /\ UNCHANGED <<step_status, prepare_attempt>>
          /\ todo' = [todo EXCEPT ![c] = (@ \ {Row(c)}) \union
                        {[Row(c) EXCEPT !.prepare = prepare_attempt'[Row(c).index]]}]
          /\ pc' = [pc EXCEPT ![c] = "prepare_claim"]
          /\ UNCHANGED <<execution_attempt, op, seen, late>>
    /\ UNCHANGED <<children, parent, overdue, crashes>>

\* One thread gets the row.
PrepareClaim(c) ==
    SwapStep(c, "prepare_claim", {"PLANNED"}, "PREPARING", "prepare_child", "return")

\* adapter.prepare: it fails if the child exists, and for its own reasons.
PrepareChild(c) ==
    /\ pc[c] = "prepare_child"
    /\ \/ /\ PrepareProof(ChildOf(c))
          /\ \/ needs' = needs \union {ChildOf(c)} /\ Goto(c, "prepare_pending")
             \/ UNCHANGED needs /\ Goto(c, "prepare_admitted")
       \/ Goto(c, "prepare_failed") /\ UNCHANGED <<product, charged, needs>>
    /\ UNCHANGED <<decision, granted, revoked, parent, steps, overdue, crashes>>

\* The preparation is stored in a row that still is PREPARING.
PrepareStore(c) ==
    \/ SwapStep(c, "prepare_pending", {"PREPARING"}, "PENDING_APPROVAL", "prepare", "prepare_failed")
    \/ SwapStep(c, "prepare_admitted", {"PREPARING"}, "ADMITTED", "prepare", "prepare_failed")

\* The exception handler writes whatever the row has become.
PrepareFailed(c) ==
    /\ pc[c] = "prepare_failed"
    /\ SetStep(c, "FAILED_TERMINAL")
    /\ Goto(c, "prepare_fail")
    /\ UNCHANGED <<children, parent, prepare_attempt, execution_attempt, overdue, crashes>>

\* All steps are prepared: the rows are read again, then the parent's status.
PrepareFinish(c) ==
    Look(c, "prepare_finish",
         IF status # "PENDING_ADMISSION" THEN "return"
         ELSE IF \E i \in Steps : step_status[i] = "PENDING_APPROVAL" THEN "to_approval"
         ELSE "to_admitted")

PrepareStep(c) ==
    \/ PrepareStart(c)
    \/ PrepareAgain(c)
    \/ ReadSteps(c, "prepare_read", "prepare")
    \/ PrepareOrphan(c)
    \/ InterruptChild(c, "prepare_interrupt", "prepare_renew", "return")
    \/ PrepareRenew(c)
    \/ PrepareClaim(c)
    \/ PrepareChild(c)
    \/ PrepareStore(c)
    \/ PrepareFailed(c)
    \/ TransitionTo(c, "prepare_fail", "FAILED_TERMINAL", "close_failed", "return")
    \/ PrepareFinish(c)
    \/ TransitionTo(c, "to_approval", "PENDING_APPROVAL", "return", "return")
    \/ TransitionTo(c, "to_admitted", "ADMITTED", "return", "return")

----------------------------------------------------------------------------
(* decide                                                                  *)

Decision(c) == IF op[c] = "approve" THEN "approved" ELSE "denied"

\* decide: only a request that awaits approval.
DecideStart(c, call) ==
    /\ status = "PENDING_APPROVAL"
    /\ Enter(c, call, "decide_read")

\* governance.decide of the child: its work must be pending, neither denied
\* nor executed; an approval is replaced.
DecideChild(c) ==
    /\ pc[c] = "decide_child"
    /\ LET open == decision[ChildOf(c)] # "denied" /\ ChildOf(c) \notin charged
       IN  \/ /\ open
              /\ decision' = [decision EXCEPT ![ChildOf(c)] = Decision(c)]
              /\ Goto(c, "decide_store")
           \/ ~open /\ UNCHANGED decision /\ Return(c)
    /\ UNCHANGED <<product, charged, needs, granted, revoked, parent, steps, overdue, crashes>>

\* The step follows, if nobody else has decided it.
DecideStore(c) ==
    SwapStep(c, "decide_store", {"PENDING_APPROVAL"},
             IF op[c] = "approve" THEN "ADMITTED" ELSE "DENIED", "decide", "return")

DecideStep(c) ==
    \/ \E call \in {"approve", "deny"} : DecideStart(c, call)
    \/ ReadSteps(c, "decide_read", "decide")
    \/ DecideChild(c)
    \/ DecideStore(c)
    \/ op[c] = "approve" /\ TransitionTo(c, "decide_swap", "ADMITTED", "return", "return")
    \/ op[c] = "deny" /\ TransitionTo(c, "decide_swap", "DENIED", "close_denied", "return")
    \/ RecordClosure(c, "close_denied", "DENIED", "return")

----------------------------------------------------------------------------
(* resume, and the same run by recover_stale                               *)

\* A request past its deadline fails; an admitted one starts its job and is
\* queued; one under way is taken up where its steps are.
ResumeStart(c) ==
    \E call \in {"resume", "recover"} :
        /\ status \in (IF call = "resume" THEN {"ADMITTED", "EXECUTING", "VERIFYING"} ELSE Active)
        /\ Enter(c, call, IF status = "CANCELLING" THEN "raised"
                          ELSE IF overdue THEN "expire"
                          ELSE IF status = "ADMITTED" THEN "start_job"
                          ELSE IF status = "VERIFYING" THEN "finalize" ELSE "run_read")

\* The dependencies are looked up in the rows as they are now.
Ready(c) == \A d \in Dependencies[Row(c).index] : step_status[d] = "ACCEPTED"

\* Mutant: a step that is under way elsewhere is skipped.
RunRowMutant(c) ==
    /\ pc[c] = "run_row"
    /\ \/ Row(c).status # "ADMITTED" /\ NextRow(c, "run")
       \/ Row(c).status = "ADMITTED" /\ Goto(c, "run_claim")
    /\ UNCHANGED <<children, parent, steps, overdue, crashes>>

\* The loop's body: a step accepted before is passed, one found EXECUTING
\* looked after, an admitted one executed.
RunRow(c) ==
    /\ pc[c] = "run_row"
    /\ \/ Ready(c) /\ Row(c).status = "ACCEPTED" /\ NextRow(c, "run")
       \/ Ready(c) /\ Row(c).status = "ADMITTED" /\ Goto(c, "run_claim")
       \/ Ready(c) /\ Row(c).status = "EXECUTING" /\ Goto(c, "run_state")
       \/ /\ ~Ready(c) \/ Row(c).status \notin {"ACCEPTED", "ADMITTED", "EXECUTING"}
          /\ Goto(c, "raised")
    /\ UNCHANGED <<children, parent, steps, overdue, crashes>>

\* A step found EXECUTING: finish what is finished, close what failed.  A
\* child that runs is never stale here, for the deadline has not passed.
RunState(c) ==
    Look(c, "run_state",
         CASE product[ChildOf(c)] = "finalizing" -> "run_recover"
           [] product[ChildOf(c)] = "accepted"   -> "run_found"
           [] product[ChildOf(c)] \in {"failed", "interrupted"} -> "close_step"
           [] OTHER                              -> "raised")

\* One thread gets the step.
RunClaim(c) ==
    /\ pc[c] = "run_claim"
    /\ \/ /\ step_status[Row(c).index] = "ADMITTED"
          /\ SetStep(c, "EXECUTING")
          /\ execution_attempt' = [execution_attempt EXCEPT ![Row(c).index] = Row(c).execution + 1]
          /\ Goto(c, "register")
       \/ /\ step_status[Row(c).index] # "ADMITTED"
          /\ UNCHANGED <<step_status, execution_attempt>>
          /\ Goto(c, "raised")
    /\ UNCHANGED <<children, parent, prepare_attempt, overdue, crashes>>

\* grants.register, which may fail.
RegisterGrant(c) ==
    /\ pc[c] = "register"
    /\ \/ granted' = granted \union {ChildOf(c)} /\ Goto(c, "child_start")
       \/ UNCHANGED granted /\ Goto(c, "close_step")
    /\ UNCHANGED <<product, charged, needs, decision, revoked, parent, steps, overdue, crashes>>

\* governance.admission_proven, for a child.
Admitted(p) == p \notin needs \/ decision[p] = "approved"

\* adapter.execute: a child that is not pending raises, one that is not
\* admitted fails, as does one whose grant was revoked meanwhile.
ChildStart(c) ==
    Look(c, "child_start",
         IF product[ChildOf(c)] # "pending" THEN "close_step"
         ELSE IF Admitted(ChildOf(c)) THEN "child_charge" ELSE "child_failed")

ChildCharge(c) ==
    /\ pc[c] = "child_charge"
    /\ \/ /\ decision[ChildOf(c)] # "denied"
          /\ ChildOf(c) \in granted \ revoked
          /\ ChargeProof(ChildOf(c))
          /\ Goto(c, "child_work")
       \/ Goto(c, "child_failed") /\ UNCHANGED <<product, charged>>
    /\ UNCHANGED <<needs, decision, granted, revoked, parent, steps, overdue, crashes>>

\* The work is done and verified, or it fails.
ChildWork(c) ==
    /\ pc[c] = "child_work"
    /\ \/ FinalizeProof(ChildOf(c)) /\ Goto(c, "child_accept")
       \/ Goto(c, "child_failed") /\ UNCHANGED <<product, charged>>
    /\ UNCHANGED <<needs, decision, granted, revoked, parent, steps, overdue, crashes>>

\* A child still pending fails with its execution.
ChildFailed(c) ==
    /\ pc[c] = "child_failed"
    /\ \/ CloseProof(ChildOf(c), "failed")
       \/ product[ChildOf(c)] # "pending" /\ UNCHANGED <<product, charged>>
    /\ Goto(c, "close_step")
    /\ UNCHANGED <<needs, decision, granted, revoked, parent, steps, overdue, crashes>>

\* Mutant: the grant is revoked only if the execution raised.
RunFinallyMutant(c) ==
    \/ /\ pc[c] = "run_finally"
       /\ NextRow(c, "run")
       /\ UNCHANGED <<children, parent, steps, overdue, crashes>>
    \/ RevokeRowGrant(c, "run_end", "raised")

\* The finally clause: the grant, if it was registered here, is revoked.
RunFinally(c) ==
    \/ /\ pc[c] = "run_finally"
       /\ revoked' = revoked \union {ChildOf(c)}
       /\ NextRow(c, "run")
       /\ UNCHANGED <<product, charged, needs, decision, granted, parent, steps, overdue, crashes>>
    \/ /\ RevokeRowGrant(c, "run_end", "raised")
       /\ Row(c).status = "ADMITTED" /\ ChildOf(c) \in granted
    \/ Look(c, "run_end", "raised") /\ ~(Row(c).status = "ADMITTED" /\ ChildOf(c) \in granted)

\* _close_multi_failure: the step fails, ...
CloseStep(c) ==
    /\ pc[c] = "close_step"
    /\ CloseRow(c, "FAILED_TERMINAL")
    /\ Goto(c, "close_read")
    /\ UNCHANGED <<children, parent, prepare_attempt, execution_attempt, overdue, crashes>>

\* ... the rows and the parent are read, and the parent becomes PARTIAL if a
\* step was accepted.
CloseRead(c) ==
    ReadStatus(c, "close_read", status,
               IF \E i \in Steps : step_status[i] = "ACCEPTED" THEN "partial_job" ELSE "fail_job")

CloseFailure(c) ==
    \/ CloseStep(c)
    \/ CloseRead(c)
    \/ EndJob(c, "partial_job", "partial_job_again", "partial_write", "FAILED", "partial_swap",
              "run_end")
    \/ EndJob(c, "fail_job", "fail_job_again", "fail_write", "FAILED", "fail_swap", "run_end")
    \/ TransitionTo(c, "partial_swap", "PARTIAL", "close_partial", "run_end")
    \/ RecordClosure(c, "close_partial", "PARTIAL", "run_end")
    \/ TransitionTo(c, "fail_swap", "FAILED_TERMINAL", "close_failed", "run_end")

\* All rows are passed: whoever finds the request EXECUTING moves it on.
Verify(c) ==
    IF status = "EXECUTING" THEN ReadStatus(c, "verify", "EXECUTING", "verify_swap")
    ELSE ReadStatus(c, "verify", "VERIFYING", "finalize")

\* _finalize_multi: every step is accepted, ...
FinalizeCheck(c) ==
    Look(c, "finalize",
         IF \A i \in Steps : step_status[i] = "ACCEPTED" THEN "final_job" ELSE "raised")

\* ... the parent's job, which runs by now, is completed step by step (a job
\* read twice in a row is read once, at the second time) ...
FinalJob(c) ==
    Look(c, "final_job",
         CASE jobs = "RUNNING"    -> "final_validating"
           [] jobs = "VALIDATING" -> "final_completed"
           [] jobs = "COMPLETED"  -> "accept"
           [] OTHER               -> "raised")

\* Mutant: the closure is recorded whoever has won.
AcceptMutant(c) == TransitionTo(c, "accept", "ACCEPTED", "close_accepted", "close_accepted")

\* ... and the request accepted; losing to another acceptance is success.
Accept(c) ==
    \/ CanSwap(c, "ACCEPTED") /\ TransitionTo(c, "accept", "ACCEPTED", "close_accepted", "return")
    \/ ~CanSwap(c, "ACCEPTED") /\ Look(c, "accept", "raised")

FinalizeMulti(c) ==
    \/ FinalizeCheck(c)
    \/ FinalJob(c)
    \/ WriteJob(c, "final_validating", "VALIDATING", "final_job")
    \/ WriteJob(c, "final_completed", "COMPLETED", "accept")
    \/ Accept(c)
    \/ RecordClosure(c, "close_accepted", "ACCEPTED", "return")

ResumeStep(c) ==
    \/ ResumeStart(c)
    \/ TransitionTo(c, "expire", "FAILED_TERMINAL", "close_failed", "raised")
    \/ RecordClosure(c, "close_failed", "FAILED_TERMINAL",
                     IF op[c] = "prepare" THEN "return"
                     ELSE IF todo[c] = {} THEN "raised" ELSE "run_end")
    \/ ReadJob(c, "start_job", {"PENDING"}, "start_running", "queue")
    \/ WriteJob(c, "start_running", "RUNNING", "queue")
    \/ TransitionTo(c, "queue", "QUEUED", "start", "raised")
    \/ TransitionTo(c, "start", "EXECUTING", "run_read", "raised")
    \/ ReadSteps(c, "run_read", "run")
    \/ RunRow(c)
    \/ RunState(c)
    \/ RecoverFinalizing(c, "run_recover", "run_found", "raised")
    \/ StoreResult(c, "run_found", "run", "raised")
    \/ RunClaim(c)
    \/ RegisterGrant(c)
    \/ ChildStart(c)
    \/ ChildCharge(c)
    \/ ChildWork(c)
    \/ ChildFailed(c)
    \/ RecoverFinalizing(c, "child_accept", "run_store", "run_end")
    \/ StoreResult(c, "run_store", "run_finally", "close_step")
    \/ RunFinally(c)
    \/ CloseFailure(c)
    \/ Verify(c)
    \/ TransitionTo(c, "verify_swap", "VERIFYING", "finalize", "raised")
    \/ FinalizeMulti(c)

----------------------------------------------------------------------------
(* cancel                                                                  *)

\* A request in preparation cannot be cancelled, nor one that has ended.
CancelStart(c) ==
    \/ status = "CANCELLING" /\ Enter(c, "cancel", "cancel_read")
    \/ /\ status \in {"PENDING_APPROVAL", "ADMITTED", "QUEUED", "EXECUTING", "VERIFYING"}
       /\ Enter(c, "cancel", "cancel_swap")

\* A finished child is kept, any other is interrupted.
CancelChild(c) ==
    Look(c, "cancel_child",
         CASE product[ChildOf(c)] = "none"       -> "cancel_mark"
           [] product[ChildOf(c)] = "finalizing" -> "cancel_recover"
           [] product[ChildOf(c)] = "accepted"   -> "cancel_store"
           [] OTHER                              -> "cancel_interrupt")

MarkRow(c, from, state, loop) ==
    /\ pc[c] = from
    /\ CloseRow(c, state)
    /\ NextRow(c, loop)
    /\ UNCHANGED <<children, parent, prepare_attempt, execution_attempt, overdue, crashes>>

\* Mutant: the steps are not read again after the loop.
CancelCheckMutant(c) == Look(c, "cancel_check", "cancel_job")

\* A request whose steps were all accepted meanwhile is accepted after all.
CancelCheck(c) ==
    Look(c, "cancel_check",
         IF \A i \in Steps : step_status[i] = "ACCEPTED" THEN "finalize" ELSE "cancel_job")

CancelStep(c) ==
    \/ CancelStart(c)
    \/ TransitionTo(c, "cancel_swap", "CANCELLING", "cancel_read", "return")
    \/ ReadSteps(c, "cancel_read", "cancel")
    \/ RevokeRowGrant(c, "cancel_revoke", "cancel_child")
    \/ CancelChild(c)
    \/ RecoverFinalizing(c, "cancel_recover", "cancel_store", "raised")
    \/ StoreResult(c, "cancel_store", "cancel", "raised")
    \/ InterruptChild(c, "cancel_interrupt", "cancel_mark", "raised")
    \/ MarkRow(c, "cancel_mark", "CANCELLED", "cancel")
    \/ CancelCheck(c)
    \/ EndJob(c, "cancel_job", "cancel_job_again", "cancel_write", "CANCELLED", "cancel_close",
              "raised")
    \/ TransitionTo(c, "cancel_close", "CANCELLED", "close_cancelled", "return")
    \/ RecordClosure(c, "close_cancelled", "CANCELLED", "return")

----------------------------------------------------------------------------
(* recover_stale after _resume_multi has raised, and _interrupt_multi      *)

\* Mutant: nobody interrupts.
RaisedMutant(c) == Look(c, "raised", "return")

\* A request whose row, as recover_stale has read it, is stale is interrupted.
Raised(c) ==
    \/ Look(c, "raised", "return")
    \/ op[c] = "recover" /\ late[c] /\ Look(c, "raised", "interrupt_status")

RecoverStep(c) ==
    \/ Raised(c)
    \/ ReadStatus(c, "interrupt_status", status, "interrupt_read")
    \/ ReadSteps(c, "interrupt_read", "interrupt")
    \/ RevokeRowGrant(c, "interrupt_revoke", "interrupt_child")
    \/ InterruptChild(c, "interrupt_child", "interrupt_mark", "interrupt_mark")
    \/ MarkRow(c, "interrupt_mark", "INTERRUPTED", "interrupt")
    \/ EndJob(c, "interrupt_job", "interrupt_job_again", "interrupt_write", "CANCELLED",
              "interrupt_swap", "return")
    \/ TransitionTo(c, "interrupt_swap", "INTERRUPTED", "close_interrupted", "return")
    \/ RecordClosure(c, "close_interrupted", "INTERRUPTED", "return")

----------------------------------------------------------------------------

\* The deadline passes.
Tick ==
    /\ ~overdue
    /\ status # "none"
    /\ overdue' = TRUE
    /\ UNCHANGED <<children, parent, steps, threads, crashes>>

Idle == [c \in Caller |-> "idle"]

\* The process stops and is started again.
Crash ==
    /\ pc # Idle
    /\ crashes < MaxCrashes
    /\ crashes' = crashes + 1
    /\ pc' = Idle
    /\ op' = Idle
    /\ seen' = [c \in Caller |-> "none"]
    /\ todo' = [c \in Caller |-> {}]
    /\ late' = [c \in Caller |-> FALSE]
    /\ UNCHANGED <<children, parent, steps, overdue>>

Init ==
    /\ SagaInit
    /\ needs = {}
    /\ decision = [p \in Child |-> "none"]
    /\ granted = {} /\ revoked = {}
    /\ jobs = "PENDING"
    /\ status = "none"
    /\ execution_closure = "none"
    /\ step_status = [i \in Steps |-> "none"]
    /\ prepare_attempt = [i \in Steps |-> 1]
    /\ execution_attempt = [i \in Steps |-> 0]
    /\ op = Idle /\ pc = Idle
    /\ seen = [c \in Caller |-> "none"]
    /\ todo = [c \in Caller |-> {}]
    /\ late = [c \in Caller |-> FALSE]
    /\ overdue = FALSE
    /\ crashes = 0

CallerStep(c) ==
    \/ PrepareStep(c)
    \/ DecideStep(c)
    \/ ResumeStep(c)
    \/ CancelStep(c)
    \/ RecoverStep(c)

Next == Tick \/ Crash \/ \E c \in Caller : CallerStep(c)

Spec == Init /\ [][Next]_vars

----------------------------------------------------------------------------
(* Properties                                                              *)

\* Rows hold the values of their columns.
TypeOK ==
    /\ \A p \in Child : product[p] \in Closed \union {"none", "pending", "finalizing", "accepted"}
    /\ charged \subseteq Child /\ needs \subseteq Child
    /\ decision \in [Child -> {"none", "approved", "denied"}]
    /\ granted \subseteq Child /\ revoked \subseteq Child
    /\ jobs \in JobTerminal \union {"PENDING", "RUNNING", "VALIDATING"}
    /\ status \in Terminal \union Active \union
          {"none", "PENDING_ADMISSION", "PENDING_APPROVAL", "ADMITTED", "QUEUED"}
    /\ execution_closure \in Terminal \union {"none"}
    /\ \A i \in Steps : step_status[i] \in
          {"none", "PLANNED", "PREPARING", "PENDING_APPROVAL", "ADMITTED", "DENIED", "EXECUTING",
           "ACCEPTED", "FAILED_TERMINAL", "CANCELLED", "INTERRUPTED"}
    /\ prepare_attempt \in [Steps -> 1..MaxPrepare]
    /\ execution_attempt \in [Steps -> 0..1]
    /\ crashes \in 0..MaxCrashes

\* "Every semantic dependency is accepted before its dependent step starts":
\* whatever thread runs a step's child, the steps it depends on are accepted.
DependencyOrder ==
    \A p \in charged : \A d \in Dependencies[p[1]] : step_status[d] = "ACCEPTED"

\* "Full acceptance requires every required step to be accepted", whoever
\* accepts the request, and an accepted step has an accepted product.
AcceptedIsComplete ==
    /\ status = "ACCEPTED" => \A i \in Steps : step_status[i] = "ACCEPTED"
    /\ \A i \in Steps :
          step_status[i] = "ACCEPTED" => product[<<i, prepare_attempt[i]>>] = "accepted"

\* An accepted step stays accepted: no cancellation, failure or recovery
\* takes back a result.
ResultsAreKept ==
    [][\A i \in Steps : step_status[i] = "ACCEPTED" => step_status'[i] = "ACCEPTED"]_vars

\* The first terminal status of the parent stays.
TerminalIsFinal == [][(status \in Terminal) => status' = status]_vars

\* PARTIAL, and CANCELLED, INTERRUPTED or failed for all that, tell the truth:
\* PARTIAL has an accepted step, and none of them has only accepted steps.
OutcomeIsTruthful ==
    /\ status = "PARTIAL" => \E i \in Steps : step_status[i] = "ACCEPTED"
    /\ status \in {"PARTIAL", "CANCELLED", "DENIED"} =>
          \E i \in Steps : step_status[i] # "ACCEPTED"

\* The closure never contradicts the status.
ClosureMatches == execution_closure \in {"none", status}

\* Accepted, partial and cancelled are what the steps and their products say,
\* and the closure agrees, in well-typed rows.
MultiInv == TypeOK /\ AcceptedIsComplete /\ OutcomeIsTruthful /\ ClosureMatches

\* Outcomes stand: the parent's terminal status and the accepted steps, whoever
\* cancels, fails, denies or recovers later (_transition, _interrupt_multi).
OutcomesStand == ResultsAreKept /\ TerminalIsFinal

\* While the process lives, no grant stays open once no call is under way.
NothingLeaks == crashes = 0 /\ pc = Idle => granted \subseteq revoked

----------------------------------------------------------------------------
(* Fairness: threads run on, the timer calls recover_stale again and again *)
(* and the clock passes every deadline.                                    *)

Progress(c) == pc[c] # "idle" /\ CallerStep(c)

RecoverStart(c) == ResumeStart(c) /\ op'[c] = "recover"

FoundStale(c) == Raised(c) /\ pc'[c] = "interrupt_status"

FairSpec ==
    /\ Spec
    /\ WF_vars(Tick)
    /\ \A c \in Caller : WF_vars(Progress(c))
    /\ \A c \in {x \in Caller : "recover" \in CallsOf[x]} :
          SF_vars(RecoverStart(c)) /\ SF_vars(FoundStale(c))

\* recover_stale closes every active request in the end.
RecoveryCloses == status \in Active ~> status \in Terminal
=============================================================================
