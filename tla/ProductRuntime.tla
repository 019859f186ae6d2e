--------------------------- MODULE ProductRuntime ---------------------------
(***************************************************************************)
(* The durable video product of services/integrations/product_runtime.py:  *)
(* prepare, execute, interrupt and recover_finalizing of one request,      *)
(* called by concurrent threads (Caller). The runtime drives five stores - *)
(* its own table, the control plane's jobs, the workflow store, the        *)
(* scheduler and the governance gateway - one transaction at a time.       *)
(*                                                                         *)
(* pc[c] is the next transaction of caller c.  A call ends in "manifest"   *)
(* (a manifest is returned), "interrupted" (interrupt returns),            *)
(* "unfinished" (ProductFinalizationPending) or "raised" (anything else);  *)
(* the coordinator's steps go on from there.                               *)
(*                                                                         *)
(* control_plane.transition_job reads the job, validates the transition    *)
(* and then writes unconditionally: a read and a write step here.  Where   *)
(* the code reads a job twice in a row and treats both answers alike, the  *)
(* model reads it once, at the second.                                     *)
(***************************************************************************)
EXTENDS Naturals, FiniteSets

CONSTANTS
    Caller,       \* threads of the service
    MaxAttempts   \* execution_requests.max_attempts

ASSUME CoordinatorAssumption == MaxAttempts \in Nat \ {0}

VARIABLES
    product_proofs,         \* product_proofs.status; "none": no row
    product_proof_closure,  \* its terminal_status; "none": no row
    jobs,                   \* jobs.state
    workflow,               \* how far the tasks video and delivery are
    lease,                  \* the scheduler's lease row of the job: "none" or "held"
    lease_json,             \* "none", or "stored": the product knows its lease
    human_approval,         \* governed_work: "required" or "not_required"
    decision,               \* the approval store: "none", "approved", "denied"
    governed_work,          \* governed_work.status
    granted,                \* attempts whose execution grant has a row
    revoked,                \* attempts whose grant is revoked
    spent,                  \* attempts whose grant was charged
    op,                     \* the coordinator call a caller is in
    number,                 \* the attempt a caller works for
    pc

product  == <<product_proofs, product_proof_closure>>
stores   == <<jobs, workflow, lease, lease_json>>
admission == <<human_approval, decision, governed_work>>
grants   == <<granted, revoked, spent>>
callers  == <<op, number>>

Attempts == 1..MaxAttempts

JobTerminal      == {"COMPLETED", "FAILED", "CANCELLED"}
WorkflowTerminal == {"completed", "closed"}

Goto(c, label) == pc' = [pc EXCEPT ![c] = label]

\* governance.admission_proven: no approval needed, or an approval on record.
Admitted == human_approval = "not_required" \/ decision = "approved"

\* The grant policy on the coordinator's grants, whose budget is one effect
\* on the one job; the policy in full is in GrantPolicy.
Chargeable(n) == n \in granted \ revoked /\ n \notin spent

ProductInit ==
    /\ product_proofs = "none"
    /\ product_proof_closure = "none"
    /\ jobs = "PENDING"
    /\ workflow = "none"
    /\ lease = "none"
    /\ lease_json = "none"
    /\ human_approval = "required"
    /\ decision = "none"
    /\ governed_work = "none"
    /\ granted = {}
    /\ revoked = {}
    /\ spent = {}

\* prepare: the quote may fail; the workflow's key lets one caller pass, and
\* lets none pass again if that one does not come to the end.
PrepareWorkflow(c) ==
    /\ pc[c] = "prepare_workflow"
    /\ \/ workflow = "none" /\ workflow' = "ready" /\ Goto(c, "prepare_submit")
       \/ Goto(c, "raised") /\ UNCHANGED workflow
    /\ UNCHANGED <<product, jobs, lease, lease_json, admission, grants, callers>>

\* governance.submit: high risk needs an approval.
PrepareSubmit(c) ==
    /\ pc[c] = "prepare_submit"
    /\ governed_work' = "pending"
    /\ \E approval \in {"required", "not_required"} : human_approval' = approval
    /\ Goto(c, "prepare_product")
    /\ UNCHANGED <<product, stores, decision, grants, callers>>

\* The product's row, its lease deferred until execute.
PrepareProduct(c) ==
    /\ pc[c] = "prepare_product"
    /\ product_proofs' = "pending"
    /\ Goto(c, "prepare_insert")
    /\ UNCHANGED <<product_proof_closure, stores, admission, grants, callers>>

PrepareStep(c) ==
    \/ PrepareWorkflow(c)
    \/ PrepareSubmit(c)
    \/ PrepareProduct(c)

----------------------------------------------------------------------------
(* execute                                                                 *)

\* _pending raises outside the try block; a missing admission raises inside.
ExecuteStart(c) ==
    /\ pc[c] = "execute"
    /\ Goto(c, IF product_proofs # "pending" THEN "raised"
               ELSE IF Admitted THEN "schedule" ELSE "fail_workflow")
    /\ UNCHANGED <<product, stores, admission, grants, callers>>

\* _execution_lease: schedule, which fails when no worker has room ...
ScheduleLease(c) ==
    /\ pc[c] = "schedule"
    /\ \/ lease' = "held" /\ Goto(c, "store_lease")
       \/ Goto(c, "fail_workflow") /\ UNCHANGED lease
    /\ UNCHANGED <<product, jobs, workflow, lease_json, admission, grants, callers>>

\* ... and _store_lease, in another store.
StoreLease(c) ==
    /\ pc[c] = "store_lease"
    /\ lease_json' = "stored"
    /\ Goto(c, "authorize_lease")
    /\ UNCHANGED <<product, jobs, workflow, lease, admission, grants, callers>>

\* A step that only looks at the stores and goes on or fails.
Check(c, from, test, to, otherwise) ==
    /\ pc[c] = from
    /\ Goto(c, IF test THEN to ELSE otherwise)
    /\ UNCHANGED <<product, stores, admission, grants, callers>>

\* transition_job's write, which trusts the state read before.
WriteJob(c, from, state, to) ==
    /\ pc[c] = from
    /\ jobs' = state
    /\ Goto(c, to)
    /\ UNCHANGED <<product, workflow, lease, lease_json, admission, grants, callers>>

\* begin_attempt and complete_attempt: the workflow store refuses a task that
\* is not ready, an attempt that does not run, and everything once closed.
AdvanceWorkflow(c, from, before, after, to) ==
    /\ pc[c] = from
    /\ \/ workflow = before /\ workflow' = after /\ Goto(c, to)
       \/ workflow # before /\ UNCHANGED workflow /\ Goto(c, "fail_workflow")
    /\ UNCHANGED <<product, jobs, lease, lease_json, admission, grants, callers>>

\* fail_attempt of a task without retries closes the workflow; it raises if
\* the workflow is closed already, to the same effect.
FailAttempt(c, from) ==
    /\ pc[c] = from
    /\ workflow' = IF workflow \in WorkflowTerminal THEN workflow ELSE "closed"
    /\ Goto(c, "fail_workflow")
    /\ UNCHANGED <<product, jobs, lease, lease_json, admission, grants, callers>>

\* The video runtime: authorize_billable, which also fails on the hard cap ...
AuthorizeBillable(c) ==
    /\ pc[c] = "authorize_billable"
    /\ \/ Admitted /\ governed_work = "pending" /\ Goto(c, "charge_grant")
       \/ Goto(c, "video_failed")
    /\ UNCHANGED <<product, stores, admission, grants, callers>>

\* ... then the grant is charged ...
ChargeGrant(c) ==
    /\ pc[c] = "charge_grant"
    /\ \/ /\ Chargeable(number[c])
          /\ spent' = spent \union {number[c]}
          /\ Goto(c, "render")
       \/ /\ ~Chargeable(number[c])
          /\ UNCHANGED spent
          /\ Goto(c, "render_failed")
    /\ UNCHANGED <<product, stores, admission, granted, revoked, callers>>

\* ... and the rendering, which is external, ends in reconcile_billable: its
\* write replaces whatever status the request has, a denial included.  After
\* it the removal of the workspace may still raise.
Render(c) ==
    /\ \/ /\ pc[c] = "render"
          /\ governed_work' = "executed"
          /\ \E label \in {"video_done", "video_failed"} : Goto(c, label)
       \/ /\ pc[c] \in {"render", "render_failed"}
          /\ governed_work' = "failed"
          /\ Goto(c, "video_failed")
    /\ UNCHANGED <<product, stores, human_approval, decision, grants, callers>>

\* The delivery is verified against the artifact; a mismatch fails the task.
VerifyDelivery(c) ==
    \/ AdvanceWorkflow(c, "verify_delivery", "delivering", "completed", "side_effect")
    \/ FailAttempt(c, "verify_delivery")

\* The AcceptanceManifest checks: DAG, grant and job.
FinalizationReady(c) ==
    /\ workflow = "completed"
    /\ number[c] \in spent
    /\ jobs = "VALIDATING"

\* scheduler.release must find the lease: otherwise somebody interrupted.
ReleaseLease(c) ==
    /\ pc[c] = "release_lease"
    /\ lease' = "none"
    /\ Goto(c, IF lease = "held" THEN "finalize" ELSE "fail_workflow")
    /\ UNCHANGED <<product, jobs, workflow, lease_json, admission, grants, callers>>

\* Mutant: the UPDATE has no AND status = 'pending'.
FinalizeMutant(c) ==
    /\ pc[c] = "finalize"
    /\ product_proofs' = "finalizing"
    /\ Goto(c, "recover_finalizing")
    /\ UNCHANGED <<product_proof_closure, stores, admission, grants, callers>>

\* The point of no return: from here on execute never fails the product.
Finalize(c) ==
    /\ pc[c] = "finalize"
    /\ \/ product_proofs = "pending" /\ product_proofs' = "finalizing" /\ Goto(c, "recover_finalizing")
       \/ product_proofs # "pending" /\ UNCHANGED product_proofs /\ Goto(c, "fail_workflow")
    /\ UNCHANGED <<product_proof_closure, stores, admission, grants, callers>>

ExecuteStep(c) ==
    \/ ExecuteStart(c)
    \/ ScheduleLease(c)
    \/ StoreLease(c)
    \/ Check(c, "authorize_lease", lease = "held", "job_running", "fail_workflow")
    \/ Check(c, "job_running", jobs = "PENDING", "write_running", "fail_workflow")
    \/ WriteJob(c, "write_running", "RUNNING", "begin_video")
    \/ AdvanceWorkflow(c, "begin_video", "ready", "video", "authorize_billable")
    \/ AuthorizeBillable(c)
    \/ ChargeGrant(c)
    \/ Render(c)
    \/ FailAttempt(c, "video_failed")
    \/ AdvanceWorkflow(c, "video_done", "video", "rendered", "job_validating")
    \/ Check(c, "job_validating", jobs = "RUNNING", "write_validating", "fail_workflow")
    \/ WriteJob(c, "write_validating", "VALIDATING", "begin_delivery")
    \/ AdvanceWorkflow(c, "begin_delivery", "rendered", "delivering", "verify_delivery")
    \/ VerifyDelivery(c)
    \/ Check(c, "side_effect", lease = "held", "manifest_checks", "fail_workflow")
    \/ Check(c, "manifest_checks", FinalizationReady(c), "release_lease", "fail_workflow")
    \/ ReleaseLease(c)
    \/ Finalize(c)

----------------------------------------------------------------------------
(* _fail_product_proof and the finally clause of execute                   *)

\* cancel_workflow closes an open workflow and leaves a closed one.
CancelWorkflow(c, from, to) ==
    /\ pc[c] = from
    /\ workflow' = IF workflow \in WorkflowTerminal THEN workflow ELSE "closed"
    /\ Goto(c, to)
    /\ UNCHANGED <<product, jobs, lease, lease_json, admission, grants, callers>>

\* A job that has not started is cancelled, one under way fails, and one that
\* has ended is left alone.
FailJob(c) ==
    /\ pc[c] = "fail_job"
    /\ Goto(c, IF jobs \in JobTerminal THEN "fail_product"
               ELSE IF jobs = "PENDING" THEN "write_cancelled" ELSE "write_failed")
    /\ UNCHANGED <<product, stores, admission, grants, callers>>

\* INSERT OR IGNORE of the closure, whether or not the row was pending.
FailProduct(c) ==
    /\ pc[c] = "fail_product"
    /\ product_proofs' = IF product_proofs = "pending" THEN "failed" ELSE product_proofs
    /\ product_proof_closure' =
          IF product_proof_closure = "none" THEN "failed" ELSE product_proof_closure
    /\ Goto(c, "drop_lease")
    /\ UNCHANGED <<stores, admission, grants, callers>>

\* Mutant: no finally clause.
DropLeaseMutant(c) ==
    /\ pc[c] = "drop_lease"
    /\ Goto(c, "raised")
    /\ UNCHANGED <<product, stores, admission, grants, callers>>

DropLease(c) ==
    /\ pc[c] = "drop_lease"
    /\ lease' = "none"
    /\ Goto(c, "raised")
    /\ UNCHANGED <<product, jobs, workflow, lease_json, admission, grants, callers>>

FailStep(c) ==
    \/ CancelWorkflow(c, "fail_workflow", "fail_job")
    \/ FailJob(c)
    \/ WriteJob(c, "write_cancelled", "CANCELLED", "fail_product")
    \/ WriteJob(c, "write_failed", "FAILED", "fail_product")
    \/ FailProduct(c)
    \/ DropLease(c)

----------------------------------------------------------------------------
(* recover_finalizing                                                      *)

\* An exception: execute turns it into ProductFinalizationPending.
FinalizingRaises(c) == IF op[c] = "resume" THEN "unfinished" ELSE "raised"

\* Mutant: the stored manifest is returned without the saga's last steps.
FinalizeStartMutant(c) ==
    /\ pc[c] = "recover_finalizing"
    /\ Goto(c, IF product_proofs \in {"accepted", "finalizing"} THEN "manifest"
               ELSE FinalizingRaises(c))
    /\ UNCHANGED <<product, stores, admission, grants, callers>>

FinalizeStart(c) ==
    /\ pc[c] = "recover_finalizing"
    /\ Goto(c, IF product_proofs = "accepted" THEN "manifest"
               ELSE IF product_proofs = "finalizing" THEN "complete_job"
               ELSE FinalizingRaises(c))
    /\ UNCHANGED <<product, stores, admission, grants, callers>>

CompleteJob(c) ==
    /\ pc[c] = "complete_job"
    /\ Goto(c, IF jobs = "VALIDATING" THEN "write_completed"
               ELSE IF jobs = "COMPLETED" THEN "accept_product"
               ELSE FinalizingRaises(c))
    /\ UNCHANGED <<product, stores, admission, grants, callers>>

\* The last transaction: the row and its closure together.
AcceptProduct(c) ==
    /\ pc[c] = "accept_product"
    /\ \/ /\ product_proofs = "finalizing"
          /\ product_proofs' = "accepted"
          /\ product_proof_closure' =
                IF product_proof_closure = "none" THEN "accepted" ELSE product_proof_closure
          /\ Goto(c, "manifest")
       \/ /\ product_proofs # "finalizing"
          /\ UNCHANGED product
          /\ Goto(c, IF product_proofs = "accepted" THEN "manifest" ELSE FinalizingRaises(c))
    /\ UNCHANGED <<stores, admission, grants, callers>>

FinalizingStep(c) ==
    \/ FinalizeStart(c)
    \/ CompleteJob(c)
    \/ WriteJob(c, "write_completed", "COMPLETED", "accept_product")
    \/ AcceptProduct(c)

----------------------------------------------------------------------------
(* interrupt                                                               *)

InterruptStart(c) ==
    /\ pc[c] = "interrupt"
    /\ Goto(c, IF product_proofs # "pending" THEN "interrupted"
               ELSE IF lease_json = "stored" THEN "interrupt_lease" ELSE "interrupt_workflow")
    /\ UNCHANGED <<product, stores, admission, grants, callers>>

InterruptLease(c) ==
    /\ pc[c] = "interrupt_lease"
    /\ lease' = "none"
    /\ Goto(c, "interrupt_workflow")
    /\ UNCHANGED <<product, jobs, workflow, lease_json, admission, grants, callers>>

\* get_job, then transition_job, which reads again: a job that ended between
\* the two makes the transition, and so interrupt, raise.
InterruptJob(c) ==
    \/ Check(c, "interrupt_job", jobs \in JobTerminal, "interrupt_product", "interrupt_job_again")
    \/ Check(c, "interrupt_job_again", jobs \in JobTerminal, "raised", "interrupt_write")

\* "cancelled" for the owner's cancellation, "interrupted" for a recovery.
InterruptedAs(c) == IF op[c] = "cancel" THEN "cancelled" ELSE "interrupted"

\* Mutant: the closure is inserted whether or not the row was changed.
InterruptProductMutant(c) ==
    /\ pc[c] = "interrupt_product"
    /\ product_proofs' = IF product_proofs = "pending" THEN InterruptedAs(c) ELSE product_proofs
    /\ product_proof_closure' =
          IF product_proof_closure = "none" THEN InterruptedAs(c) ELSE product_proof_closure
    /\ Goto(c, "interrupted")
    /\ UNCHANGED <<stores, admission, grants, callers>>

\* Mutant: a finalizing product is closed like a pending one.
InterruptFinalizingMutant(c) ==
    /\ pc[c] = "interrupt_product"
    /\ \/ /\ product_proofs \in {"pending", "finalizing"}
          /\ product_proofs' = InterruptedAs(c)
          /\ product_proof_closure' =
                IF product_proof_closure = "none" THEN InterruptedAs(c) ELSE product_proof_closure
       \/ /\ product_proofs \notin {"pending", "finalizing"}
          /\ UNCHANGED product
    /\ Goto(c, "interrupted")
    /\ UNCHANGED <<stores, admission, grants, callers>>

InterruptProduct(c) ==
    /\ pc[c] = "interrupt_product"
    /\ \/ /\ product_proofs = "pending"
          /\ product_proofs' = InterruptedAs(c)
          /\ product_proof_closure' =
                IF product_proof_closure = "none" THEN InterruptedAs(c) ELSE product_proof_closure
       \/ /\ product_proofs # "pending"
          /\ UNCHANGED product
    /\ Goto(c, "interrupted")
    /\ UNCHANGED <<stores, admission, grants, callers>>

InterruptStep(c) ==
    \/ InterruptStart(c)
    \/ InterruptLease(c)
    \/ CancelWorkflow(c, "interrupt_workflow", "interrupt_job")
    \/ InterruptJob(c)
    \/ WriteJob(c, "interrupt_write", "CANCELLED", "interrupt_product")
    \/ InterruptProduct(c)

ProductStep(c) ==
    \/ PrepareStep(c)
    \/ ExecuteStep(c)
    \/ FailStep(c)
    \/ FinalizingStep(c)
    \/ InterruptStep(c)
=============================================================================
