-------------------- MODULE ExecutionCoordinatorProofs --------------------
(***************************************************************************)
(* Proofs about the execution coordinator and the product saga it drives,  *)
(* for any number of threads, whatever calls they serve, any retry budget  *)
(* and any number of crashes.                                              *)
(*                                                                         *)
(* The proof has two halves.  Each action is shown to obey a few tables    *)
(* (StatusTable, ProductTable, ...): who may write a row, under which      *)
(* conditions a thread comes to a label, and what it has done when it      *)
(* leaves.  The inductive invariant then follows from the tables alone.    *)
(***************************************************************************)
EXTENDS ExecutionCoordinator, TLAPS

----------------------------------------------------------------------------
(* Labels                                                                  *)

PrepareLabels == {"prepare_workflow", "prepare_submit", "prepare_product", "prepare_insert",
                  "prepare_blocked"}
DecideLabels  == {"decide_check", "decide_write", "decide_mark", "decide_swap", "done", "close_denied"}

\* Between the rendering and the point of no return.
RenderedLabels == {"video_done", "job_validating", "write_validating", "begin_delivery",
                   "verify_delivery", "side_effect", "manifest_checks", "release_lease", "finalize"}

\* Where execute may hold its lease.
LeaseLabels == (RenderedLabels \ {"finalize"}) \union
    {"store_lease", "authorize_lease", "job_running", "write_running", "begin_video",
     "authorize_billable", "charge_grant", "render", "render_failed", "video_failed",
     "fail_workflow", "fail_job", "write_cancelled", "write_failed", "fail_product", "drop_lease"}

\* execute up to the point of no return, and its failure path.
ExecuteLabels == LeaseLabels \union {"execute", "schedule", "finalize"}

\* A resumed attempt whose adapter has not started.
UnstartedLabels == {"start", "register", "except_unstarted", "fail_retryable"}

\* recover_finalizing, by whichever call.
FinishLabels == {"recover_finalizing", "complete_job", "write_completed", "accept_product", "manifest"}

InterruptLabels == {"interrupt", "interrupt_lease", "interrupt_workflow", "interrupt_job",
                    "interrupt_job_again", "interrupt_write", "interrupt_product", "interrupted"}

\* resume between the swap to QUEUED and its last word on the request.
OwnerLabels == UnstartedLabels \union ExecuteLabels \union FinishLabels \union
               {"except", "raised", "fail", "accept"}

ResumeLabels == OwnerLabels \union {"resume_checks", "queue", "fail_expired", "close_failed",
                                    "close_accepted", "finally", "unfinished"}
CancelLabels == FinishLabels \union InterruptLabels \union
    {"cancel_blocked", "cancel_swap", "cancel_revoke", "cancel_product", "cancel_close",
     "close_cancelled", "close_accepted", "accept", "raised"}
RecoverLabels == FinishLabels \union InterruptLabels \union
    {"product_state", "interrupt_swap", "close_interrupted", "close_failed", "close_accepted",
     "accept", "fail", "raised"}

\* Where a resumed attempt may have a grant, where it counts on EXECUTING, a
\* cancellation on CANCELLING and a recovery on an active status.
ChargeableLabels == ResumeLabels \ {"resume_checks", "queue", "fail_expired", "start", "register"}
RunningLabels    == {"register"} \union ExecuteLabels \union FinishLabels
CancellingLabels == InterruptLabels \union {"cancel_revoke", "cancel_product"}
ReconcileLabels  == RecoverLabels \ {"close_interrupted", "close_failed", "close_accepted"}

\* The labels of each call.
LabelOf(call, label) ==
    \/ call = "idle"    /\ label = "idle"
    \/ call = "prepare" /\ label \in PrepareLabels \union {"raised"}
    \/ call \in {"approve", "deny"} /\ label \in DecideLabels \union {"raised"}
    \/ call = "resume"  /\ label \in ResumeLabels
    \/ call = "cancel"  /\ label \in CancelLabels
    \/ call \in {"recover", "reconcile"} /\ label \in RecoverLabels

Labels == {"idle"} \union PrepareLabels \union DecideLabels \union ResumeLabels \union CancelLabels
          \union RecoverLabels
Statuses == Terminal \union Active \union
            {"none", "PENDING_APPROVAL", "ADMITTED", "BLOCKED", "QUEUED", "FAILED_RETRYABLE"}

\* The thread that runs the request's current attempt.
Owner(c) == op[c] = "resume" /\ pc[c] \in OwnerLabels

\* A thread in the middle of creating the product.
Preparer(c) == pc[c] \in {"prepare_submit", "prepare_product"}

\* A request somebody may still resume, or has not started to execute.
Early   == {"none", "PENDING_APPROVAL", "ADMITTED", "BLOCKED", "QUEUED", "FAILED_RETRYABLE"}
Started == {"QUEUED"} \union Active \union Terminal
Finish  == {"finalizing", "accepted"}

----------------------------------------------------------------------------
(* The invariant                                                           *)

CallerTypes ==
    /\ pc \in [Caller -> Labels]
    /\ op \in [Caller -> Calls \union {"idle"}]
    /\ number \in [Caller -> 1..MaxAttempts + 1]
    /\ seen \in [Caller -> Statuses]

\* A thread is at a label of the call it serves.
OnPath == \A c \in Caller : LabelOf(op[c], pc[c])

\* The attempt a thread works for is within the budget where it is used.
NumbersInRange ==
    \A c \in Caller :
        \/ number[c] \in Attempts
        \/ op[c] = "resume" /\ pc[c] \in {"resume_checks", "fail_expired", "close_failed", "finally"}

\* Types, also of the threads' own variables.
TypeInv == TypeOK /\ CallerTypes /\ OnPath /\ NumbersInRange

\* A product's closure is its status.
ProductClosed ==
    product_proof_closure =
        IF product_proofs \in {"none", "pending", "finalizing"} THEN "none" ELSE product_proofs

\* A finished product is backed by the other stores.
FinishBacked ==
    product_proofs \in Finish =>
        workflow = "completed" /\ governed_work \in {"executed", "denied"} /\ attempt \in spent

\* Only the current attempt is charged, and only once the request executes.
ChargedOnce ==
    /\ spent \subseteq {attempt}
    /\ status \in Early => product_proofs \notin Finish /\ spent = {}

\* A request that can still run has a product, and a product has a workflow.
ProductExists ==
    /\ status \in (Active \union Early) \ {"none", "BLOCKED"} => product_proofs # "none"
    /\ workflow = "none" => product_proofs = "none"

\* Rows of the request and its product, apart from the threads.
RowsInv ==
    /\ ProductClosed /\ FinishBacked /\ ChargedOnce /\ ProductExists
    /\ AcceptedIsFinished
    /\ execution_closure \in {"none", status}

\* One thread creates the product, and one runs the current attempt.
OneOfEach ==
    /\ \A c, d \in Caller : Preparer(c) /\ Preparer(d) => c = d
    /\ \A c, d \in Caller : Owner(c) /\ Owner(d) => c = d

\* What the thread that creates the product can rely on.
PreparerInv ==
    \A c \in Caller :
        /\ Preparer(c) => product_proofs = "none" /\ workflow # "none"
        /\ pc[c] = "prepare_insert" => product_proofs # "none"

\* What the thread that runs the attempt can rely on.
OwnerInv ==
    \A c \in Caller : Owner(c) =>
        /\ number[c] = attempt
        /\ status \in Started
        /\ pc[c] # "start" => status # "QUEUED"
        /\ product_proofs # "none"
        /\ pc[c] \in UnstartedLabels => spent = {}
        /\ pc[c] \in UnstartedLabels \union ExecuteLabels => product_proofs \notin Finish
        /\ pc[c] \in RenderedLabels => governed_work \in {"executed", "denied"}
        /\ pc[c] \in {"release_lease", "finalize"} => workflow = "completed" /\ number[c] \in spent
        /\ pc[c] = "recover_finalizing" => product_proofs \in Finish

\* What a thread at these labels knows of the product, whatever its call.
FinisherInv ==
    \A c \in Caller :
        /\ pc[c] \in {"complete_job", "write_completed", "accept_product"} => product_proofs \in Finish
        /\ pc[c] \in {"manifest", "accept"} => product_proofs = "accepted"

\* The closure a thread is about to record is that of the status.
CloserInv ==
    \A c \in Caller :
        /\ pc[c] = "close_denied" => status = "DENIED"
        /\ pc[c] = "close_failed" => status = "FAILED_TERMINAL"
        /\ pc[c] = "close_accepted" => status = "ACCEPTED"
        /\ pc[c] = "close_cancelled" => status = "CANCELLED"
        /\ pc[c] = "close_interrupted" => status = "INTERRUPTED"

\* The part of the invariant that crashes cannot touch.
SafeInv ==
    /\ TypeInv
    /\ RowsInv /\ OneOfEach /\ PreparerInv /\ OwnerInv /\ FinisherInv /\ CloserInv

\* What a status that was seen says of the status now.
SeenInv ==
    \A c \in Caller :
        /\ seen[c] = "VERIFYING" => status \in {"VERIFYING", "CANCELLING"} \union Terminal
        /\ seen[c] = "CANCELLING" => status \in {"CANCELLING"} \union Terminal
        /\ op[c] = "resume" /\ pc[c] = "start" => seen[c] = "QUEUED"
        /\ op[c] = "resume" /\ pc[c] \in RunningLabels => seen[c] = "EXECUTING"
        /\ op[c] = "resume" /\ pc[c] = "accept" => seen[c] = "VERIFYING"
        /\ op[c] = "resume" /\ pc[c] \in {"fail", "fail_retryable"} =>
              seen[c] \in {"EXECUTING", "VERIFYING"}
        /\ op[c] = "cancel" /\ pc[c] \in CancellingLabels => seen[c] = "CANCELLING"
        /\ op[c] \in {"recover", "reconcile"} /\ pc[c] \in ReconcileLabels => seen[c] \in Active

\* A thread that interrupts a request it has seen EXECUTING, and will swap it.
Interrupter(c) ==
    /\ op[c] \in {"recover", "reconcile"}
    /\ pc[c] \in {"interrupt_product", "interrupted", "interrupt_swap"}
    /\ seen[c] = "EXECUTING"

\* Somebody will give back the lease, the grants, ...
LeaseHeld   == lease = "held" => \E c \in Caller : op[c] = "resume" /\ pc[c] \in LeaseLabels
GrantsHeld  ==
    \A n \in granted \ revoked : \E c \in Caller :
        /\ op[c] = "resume" /\ number[c] = n
        /\ pc[c] \in ChargeableLabels
\* ... move a running request on ...
QueuedHeld    == status = "QUEUED" => \E c \in Caller : op[c] = "resume" /\ pc[c] = "start"
VerifyingHeld == status = "VERIFYING" => \E c \in Caller : op[c] = "resume" /\ pc[c] = "accept"
ExecutingHeld ==
    status = "EXECUTING" =>
        \E c \in Caller : (Owner(c) /\ pc[c] \notin {"start", "accept"}) \/ Interrupter(c)
\* ... although a job may be cancelled under a product that is being finished:
\* then the thread that did so is about to interrupt the request ...
CancelledUnder ==
    (/\ status = "EXECUTING"
     /\ jobs \notin {"VALIDATING", "COMPLETED"}
     /\ \E c \in Caller : op[c] = "resume"
           /\ pc[c] \in {"release_lease", "finalize", "recover_finalizing", "complete_job"})
    => \E c \in Caller : Interrupter(c)
\* ... and record the closure.
CloseLabel(s) ==
    CASE s = "DENIED" -> "close_denied"
      [] s = "FAILED_TERMINAL" -> "close_failed"
      [] s = "ACCEPTED" -> "close_accepted"
      [] s = "CANCELLED" -> "close_cancelled"
      [] s = "INTERRUPTED" -> "close_interrupted"
ClosureHeld ==
    status \in Terminal /\ execution_closure = "none" => \E c \in Caller : pc[c] = CloseLabel(status)

\* Without a crash, whatever is open is in some thread's hands.
HandsInv ==
    crashes = 0 => /\ LeaseHeld /\ GrantsHeld /\ QueuedHeld /\ VerifyingHeld
                   /\ ExecutingHeld /\ CancelledUnder /\ ClosureHeld

\* The inductive invariant of the coordinator.
RequestInv == SafeInv /\ SeenInv /\ HandsInv

----------------------------------------------------------------------------
(* The tables                                                              *)

\* A step of a thread moves that thread alone.
Alone(c) ==
    /\ \A d \in Caller \ {c} : /\ pc'[d] = pc[d] /\ op'[d] = op[d]
                               /\ number'[d] = number[d] /\ seen'[d] = seen[d]
    /\ crashes' = crashes

\* The status changes by the INSERT, and by swaps, which leave the thread at
\* the label that goes with the new status.
StatusTable(c) ==
    \/ UNCHANGED <<status, attempt>>
    \/ /\ status = "none" /\ UNCHANGED attempt
       /\ \/ pc[c] = "prepare_blocked" /\ status' = "BLOCKED"
          \/ pc[c] = "prepare_insert" /\ status' \in {"PENDING_APPROVAL", "ADMITTED"}
    \/ /\ status = seen[c] /\ status' \in AllowedTransitions(status)
       /\ seen'[c] = status' /\ number'[c] = number[c] /\ op'[c] = op[c]
       /\ attempt' = IF status' = "QUEUED" THEN number[c] ELSE attempt
       /\ status' = "QUEUED" => pc[c] = "queue" /\ pc'[c] = "start"
       /\ status' = "EXECUTING" => pc[c] = "start" /\ pc'[c] = "register"
       /\ status' = "VERIFYING" => pc[c] = "manifest" /\ op[c] = "resume" /\ pc'[c] = "accept"
       /\ status' = "FAILED_RETRYABLE" => pc[c] = "fail_retryable" /\ pc'[c] = "finally"
       /\ status' = "ACCEPTED" => pc[c] \in {"accept", "manifest"}
       /\ status' \in Terminal => pc'[c] = CloseLabel(status')

\* A swap from the status the row has succeeds.
SwapTable(c) ==
    /\ pc[c] = "start" /\ seen[c] = "QUEUED" /\ status = "QUEUED" => status' = "EXECUTING"
    /\ pc[c] = "accept" /\ seen[c] = "VERIFYING" /\ status = "VERIFYING" => status' = "ACCEPTED"
    /\ (/\ pc[c] \in {"fail", "fail_retryable", "interrupt_swap"}
        /\ seen[c] = "EXECUTING" /\ status = "EXECUTING") => status' # "EXECUTING"

\* The product's row and its closure.
ProductTable(c) ==
    \/ UNCHANGED product
    \/ pc[c] = "prepare_product" /\ product_proofs' = "pending" /\ UNCHANGED product_proof_closure
    \/ /\ pc[c] = "finalize" /\ product_proofs = "pending" /\ product_proofs' = "finalizing"
       /\ UNCHANGED product_proof_closure /\ pc'[c] = "recover_finalizing"
    \/ /\ pc[c] = "accept_product" /\ product_proofs = "finalizing" /\ product_proofs' = "accepted"
       /\ product_proof_closure = "none" => product_proof_closure' = "accepted"
    \/ /\ pc[c] \in {"fail_product", "interrupt_product"}
       /\ product_proofs = "pending" /\ product_proofs' \in {"failed", "interrupted", "cancelled"}
       /\ product_proof_closure = "none" => product_proof_closure' = product_proofs'
    \/ /\ pc[c] = "fail_product" /\ product_proofs # "pending" /\ UNCHANGED product_proofs
       /\ product_proof_closure' = IF product_proof_closure = "none" THEN "failed"
                                   ELSE product_proof_closure

\* The other rows.
StoresTable(c) ==
    /\ workflow' = workflow \/ (workflow \notin WorkflowTerminal /\ workflow' # "none")
    /\ \/ governed_work' \in {governed_work, "denied"}
       \/ pc[c] \in {"prepare_submit", "render", "render_failed"}
    /\ \/ lease' \in {lease, "none"}
       \/ pc[c] = "schedule" /\ pc'[c] = "store_lease" /\ op'[c] = op[c]
    /\ \/ jobs' = jobs \/ jobs' \in {"VALIDATING", "COMPLETED"}
       \/ /\ pc[c] \in {"write_running", "write_cancelled", "write_failed"}
          /\ pc'[c] \in {"begin_video", "fail_product"}
       \/ /\ pc[c] = "interrupt_write" /\ pc'[c] = "interrupt_product"
          /\ seen'[c] = seen[c] /\ op'[c] = op[c]
    /\ spent' = spent \/ (pc[c] = "charge_grant" /\ spent' = spent \union {number[c]})
    /\ \/ granted' = granted
       \/ /\ pc[c] = "register" /\ granted' = granted \union {number[c]}
          /\ pc'[c] = "execute" /\ op'[c] = op[c] /\ number'[c] = number[c]
    /\ revoked \subseteq revoked'

\* The request's closure.
ClosureTable(c) ==
    /\ \/ execution_closure' = execution_closure
       \/ /\ execution_closure = "none" /\ execution_closure' \in Terminal
          /\ pc[c] = CloseLabel(execution_closure')
    /\ \A s \in Terminal : pc[c] = CloseLabel(s) => execution_closure' # "none"
    /\ \A s \in Terminal : pc'[c] = CloseLabel(s) => status' = s

\* What holds of a thread that comes to one of these labels.
LabelTable(c) ==
    /\ pc'[c] = "prepare_submit" =>
          pc[c] = "prepare_workflow" /\ workflow = "none" /\ workflow' # "none"
    /\ pc'[c] = "prepare_product" => pc[c] = "prepare_submit"
    /\ pc'[c] = "prepare_insert" => pc[c] = "prepare_product"
    /\ pc[c] = "prepare_product" => pc'[c] = "prepare_insert" /\ product_proofs' = "pending"
    /\ pc'[c] \in RenderedLabels => pc[c] \in RenderedLabels \/ governed_work' = "executed"
    /\ pc'[c] = "release_lease" =>
          pc[c] = "manifest_checks" /\ FinalizationReady(c) /\ jobs' = jobs
    /\ pc'[c] = "finalize" => pc[c] = "release_lease"
    /\ pc'[c] = "complete_job" => product_proofs' = "finalizing" /\ pc[c] = "recover_finalizing"
    /\ pc'[c] = "write_completed" => pc[c] = "complete_job"
    /\ pc'[c] = "accept_product" => pc[c] \in {"complete_job", "write_completed"}
    /\ pc'[c] = "manifest" => product_proofs' = "accepted"
    /\ pc'[c] = "accept" => product_proofs' = "accepted" \/ pc[c] = "manifest"

\* The thread that runs the attempt: how it comes to be at a label ...
OwnerTable(c) ==
    op'[c] = "resume" =>
        /\ pc'[c] \in OwnerLabels =>
              \/ pc'[c] = "start" /\ pc[c] = "queue" /\ status' = "QUEUED" /\ status # "QUEUED"
              \/ Owner(c) /\ number'[c] = number[c] /\ pc'[c] # "start"
        /\ pc[c] = "start" /\ pc'[c] \in OwnerLabels => status' = "EXECUTING"
        /\ pc'[c] \in UnstartedLabels \ {"start"} => pc[c] \in UnstartedLabels
        /\ pc'[c] \in (UnstartedLabels \union ExecuteLabels) \ {"start"} =>
              pc[c] \in UnstartedLabels \union ExecuteLabels
        /\ pc'[c] = "recover_finalizing" => pc[c] = "finalize" /\ product_proofs' = "finalizing"

\* ... and what it has done when it leaves.
LeaveTable(c) ==
    op[c] = "resume" =>
        /\ pc[c] \in LeaseLabels =>
              lease' = "none" \/ (op'[c] = "resume" /\ pc'[c] \in LeaseLabels)
        /\ pc[c] \in ChargeableLabels =>
              \/ op'[c] = "resume" /\ pc'[c] \in ChargeableLabels /\ number'[c] = number[c]
              \/ number[c] \notin granted' \ revoked'
        /\ pc[c] \in OwnerLabels \ {"start", "accept"} =>
              \/ op'[c] = "resume" /\ pc'[c] \in OwnerLabels \ {"start", "accept"}
              \/ pc[c] = "manifest" /\ status' = "VERIFYING"
              \/ pc[c] \in {"raised", "except", "except_unstarted"} /\ status' # "EXECUTING"
              \/ pc[c] \in {"fail", "fail_retryable"}
              \/ pc[c] \in {"recover_finalizing", "accept_product"} /\ product_proofs \notin Finish
              \/ pc[c] = "complete_job" /\ jobs \notin {"VALIDATING", "COMPLETED"}

\* The status a thread believes the row has.
SeenTable(c) ==
    /\ seen'[c] \in {seen[c], status', "none"}
    /\ op'[c] = "resume" =>
          /\ pc'[c] = "start" => seen'[c] = "QUEUED"
          /\ pc'[c] = "accept" => seen'[c] = "VERIFYING"
          /\ pc'[c] \in {"fail", "fail_retryable"} => seen'[c] \in {"EXECUTING", "VERIFYING"}
          /\ pc'[c] \in RunningLabels =>
                \/ seen'[c] = "EXECUTING"
                \/ op[c] = "resume" /\ pc[c] \in RunningLabels /\ seen'[c] = seen[c]
    /\ op'[c] = "cancel" /\ pc'[c] \in CancellingLabels =>
          \/ seen'[c] = "CANCELLING"
          \/ op[c] = "cancel" /\ pc[c] \in CancellingLabels /\ seen'[c] = seen[c]
    /\ op'[c] \in {"recover", "reconcile"} /\ pc'[c] \in ReconcileLabels =>
          \/ seen'[c] \in Active
          \/ op[c] \in {"recover", "reconcile"} /\ pc[c] \in ReconcileLabels /\ seen'[c] = seen[c]
    /\ op[c] \in {"recover", "reconcile"} /\ pc[c] \in {"interrupt_product", "interrupted"} =>
          op'[c] = op[c] /\ pc'[c] \in {"interrupted", "interrupt_swap"} /\ seen'[c] = seen[c]

Tables(c) ==
    /\ Alone(c) /\ StatusTable(c) /\ SwapTable(c) /\ ProductTable(c) /\ StoresTable(c)
    /\ ClosureTable(c) /\ LabelTable(c) /\ OwnerTable(c) /\ LeaveTable(c) /\ SeenTable(c)

----------------------------------------------------------------------------
(* Every step of a thread obeys the tables                                 *)

USE DEF
    TypeInv, TypeOK, CallerTypes, OnPath, NumbersInRange, LabelOf, Labels, Calls, Statuses,
    Attempts, WorkflowTerminal, JobTerminal, Terminal, Active, Finish, Goto,
    PrepareLabels, DecideLabels, ResumeLabels, CancelLabels, RecoverLabels, OwnerLabels,
    UnstartedLabels, ExecuteLabels, LeaseLabels, RenderedLabels, FinishLabels, InterruptLabels,
    ChargeableLabels, RunningLabels, CancellingLabels, ReconcileLabels, Owner, CloseLabel,
    Tables, Alone, StatusTable, SwapTable, ProductTable, StoresTable, ClosureTable,
    LabelTable, OwnerTable, LeaveTable, SeenTable,
    request, product, stores, admission, grants, callers, productVars

\* The steps of prepare in the product runtime obey the tables.
LEMMA PrepareTables ==
    ASSUME TypeInv, NEW c \in Caller, PrepareStep(c), UNCHANGED <<request, seen, crashes>>
    PROVE  Tables(c) /\ TypeInv'
<1> USE CoordinatorAssumption
<1>1. CASE PrepareWorkflow(c)
  BY <1>1 DEF PrepareWorkflow
<1>2. CASE PrepareSubmit(c)
  BY <1>2 DEF PrepareSubmit
<1>3. CASE PrepareProduct(c)
  BY <1>3 DEF PrepareProduct
<1> QED  BY <1>1, <1>2, <1>3 DEF PrepareStep

\* The steps of execute obey the tables.
LEMMA ExecuteTables ==
    ASSUME TypeInv, NEW c \in Caller, ExecuteStep(c), UNCHANGED <<request, seen, crashes>>
    PROVE  Tables(c) /\ TypeInv'
<1> USE CoordinatorAssumption
<1>1. CASE ExecuteStart(c)
  BY <1>1 DEF ExecuteStart
<1>2. CASE ScheduleLease(c)
  BY <1>2 DEF ScheduleLease
<1>3. CASE StoreLease(c)
  BY <1>3 DEF StoreLease
<1>4. CASE Check(c, "authorize_lease", lease = "held", "job_running", "fail_workflow")
  BY <1>4 DEF Check
<1>5. CASE Check(c, "job_running", jobs = "PENDING", "write_running", "fail_workflow")
  BY <1>5 DEF Check
<1>6. CASE WriteJob(c, "write_running", "RUNNING", "begin_video")
  BY <1>6 DEF WriteJob
<1>7. CASE AdvanceWorkflow(c, "begin_video", "ready", "video", "authorize_billable")
  BY <1>7 DEF AdvanceWorkflow
<1>8. CASE AuthorizeBillable(c)
  BY <1>8 DEF AuthorizeBillable
<1>9. CASE ChargeGrant(c)
  BY <1>9 DEF ChargeGrant, Chargeable
<1>10. CASE Render(c)
  BY <1>10 DEF Render
<1>11. CASE FailAttempt(c, "video_failed")
  BY <1>11 DEF FailAttempt
<1>12. CASE AdvanceWorkflow(c, "video_done", "video", "rendered", "job_validating")
  BY <1>12 DEF AdvanceWorkflow
<1>13. CASE Check(c, "job_validating", jobs = "RUNNING", "write_validating", "fail_workflow")
  BY <1>13 DEF Check
<1>14. CASE WriteJob(c, "write_validating", "VALIDATING", "begin_delivery")
  BY <1>14 DEF WriteJob
<1>15. CASE AdvanceWorkflow(c, "begin_delivery", "rendered", "delivering", "verify_delivery")
  BY <1>15 DEF AdvanceWorkflow
<1>16. CASE VerifyDelivery(c)
  BY <1>16 DEF VerifyDelivery, AdvanceWorkflow, FailAttempt
<1>17. CASE Check(c, "side_effect", lease = "held", "manifest_checks", "fail_workflow")
  BY <1>17 DEF Check
<1>18. CASE Check(c, "manifest_checks", FinalizationReady(c), "release_lease", "fail_workflow")
  BY <1>18 DEF Check, FinalizationReady
<1>19. CASE ReleaseLease(c)
  BY <1>19 DEF ReleaseLease
<1>20. CASE Finalize(c)
  BY <1>20 DEF Finalize
<1> QED  BY <1>1, <1>2, <1>3, <1>4, <1>5, <1>6, <1>7, <1>8, <1>9, <1>10, <1>11, <1>12, <1>13,
         <1>14, <1>15, <1>16, <1>17, <1>18, <1>19, <1>20 DEF ExecuteStep

\* The failure path of execute obeys the tables.
LEMMA FailTables ==
    ASSUME TypeInv, NEW c \in Caller, FailStep(c), UNCHANGED <<request, seen, crashes>>
    PROVE  Tables(c) /\ TypeInv'
<1> USE CoordinatorAssumption
<1>1. CASE CancelWorkflow(c, "fail_workflow", "fail_job")
  BY <1>1 DEF CancelWorkflow
<1>2. CASE FailJob(c)
  BY <1>2 DEF FailJob
<1>3. CASE WriteJob(c, "write_cancelled", "CANCELLED", "fail_product")
  BY <1>3 DEF WriteJob
<1>4. CASE WriteJob(c, "write_failed", "FAILED", "fail_product")
  BY <1>4 DEF WriteJob
<1>5. CASE FailProduct(c)
  BY <1>5 DEF FailProduct
<1>6. CASE DropLease(c)
  BY <1>6 DEF DropLease
<1> QED  BY <1>1, <1>2, <1>3, <1>4, <1>5, <1>6 DEF FailStep

\* The steps of recover_finalizing obey the tables.
LEMMA FinalizingTables ==
    ASSUME TypeInv, NEW c \in Caller, FinalizingStep(c), UNCHANGED <<request, seen, crashes>>
    PROVE  Tables(c) /\ TypeInv'
<1> USE CoordinatorAssumption
<1>1. CASE FinalizeStart(c)
  BY <1>1 DEF FinalizeStart, FinalizingRaises
<1>2. CASE CompleteJob(c)
  BY <1>2 DEF CompleteJob, FinalizingRaises
<1>3. CASE WriteJob(c, "write_completed", "COMPLETED", "accept_product")
  BY <1>3 DEF WriteJob
<1>4. CASE AcceptProduct(c)
  BY <1>4 DEF AcceptProduct, FinalizingRaises
<1> QED  BY <1>1, <1>2, <1>3, <1>4 DEF FinalizingStep

\* The steps of interrupt obey the tables.
LEMMA InterruptTables ==
    ASSUME TypeInv, NEW c \in Caller, InterruptStep(c), UNCHANGED <<request, seen, crashes>>
    PROVE  Tables(c) /\ TypeInv'
<1> USE CoordinatorAssumption
<1>1. CASE InterruptStart(c)
  BY <1>1 DEF InterruptStart
<1>2. CASE InterruptLease(c)
  BY <1>2 DEF InterruptLease
<1>3. CASE CancelWorkflow(c, "interrupt_workflow", "interrupt_job")
  BY <1>3 DEF CancelWorkflow
<1>4. CASE InterruptJob(c)
  BY <1>4 DEF InterruptJob, Check
<1>5. CASE WriteJob(c, "interrupt_write", "CANCELLED", "interrupt_product")
  BY <1>5 DEF WriteJob
<1>6. CASE InterruptProduct(c)
  BY <1>6 DEF InterruptProduct, InterruptedAs
<1> QED  BY <1>1, <1>2, <1>3, <1>4, <1>5, <1>6 DEF InterruptStep

\* The steps of the coordinator's prepare and decide obey the tables.
LEMMA DecisionTables ==
    ASSUME TypeInv, NEW c \in Caller, DecisionStep(c)
    PROVE  Tables(c) /\ TypeInv'
<1> USE CoordinatorAssumption
<1>1. CASE PrepareStart(c)
  BY <1>1 DEF PrepareStart, Enter
<1>2. CASE PrepareInsert(c)
  BY <1>2 DEF PrepareInsert, PrepareStatus, Return
<1>3. CASE \E call \in {"approve", "deny"} : DecideStart(c, call)
  BY <1>3 DEF DecideStart, Enter, ReadRow
<1>4. CASE DecideCheck(c)
  BY <1>4 DEF DecideCheck
<1>5. CASE DecideWrite(c)
  BY <1>5 DEF DecideWrite
<1>6. CASE DecideMark(c)
  BY <1>6 DEF DecideMark
<1>7. CASE DecideSwap(c)
  BY <1>7 DEF DecideSwap, TransitionTo, CanSwap, AllowedTransitions, Jump, Return
<1>8. CASE RecordClosure(c, "close_denied", "DENIED", "return")
  BY <1>8 DEF RecordClosure, Jump, Return
<1> QED  BY <1>1, <1>2, <1>3, <1>4, <1>5, <1>6, <1>7, <1>8 DEF DecisionStep

\* The steps of resume obey the tables.
LEMMA ResumeTables ==
    ASSUME TypeInv, NEW c \in Caller, ResumeStep(c)
    PROVE  Tables(c) /\ TypeInv'
<1> USE CoordinatorAssumption
<1>1. CASE ResumeStart(c)
  BY <1>1 DEF ResumeStart, Enter, ReadRow, GrantNumber
<1>2. CASE ResumeChecks(c)
  BY <1>2 DEF ResumeChecks, Jump, Return
<1>3. CASE Queue(c)
  BY <1>3 DEF Queue, CanSwap, AllowedTransitions, Return
<1>4. CASE pc[c] = "start" /\ TransitionTo(c, "EXECUTING", "register", "return")
  BY <1>4 DEF TransitionTo, CanSwap, AllowedTransitions, Jump, Return
<1>5. CASE RegisterGrant(c)
  BY <1>5 DEF RegisterGrant
<1>6. CASE /\ pc[c] = "manifest" /\ op[c] = "resume"
           /\ TransitionTo(c, "VERIFYING", "accept", "except")
  BY <1>6 DEF TransitionTo, CanSwap, AllowedTransitions, Jump, Return
<1>7. CASE ResumeExcept(c)
  BY <1>7 DEF ResumeExcept, FailTarget
<1>8. CASE ResumeFail(c)
  BY <1>8 DEF ResumeFail, TransitionTo, CanSwap, AllowedTransitions, Jump, Return
<1>9. CASE RecordClosure(c, "close_failed", "FAILED_TERMINAL",
           IF op[c] = "resume" THEN "finally" ELSE "return")
  BY <1>9 DEF RecordClosure, Jump, Return
<1>10. CASE ResumeFinally(c)
  BY <1>10 DEF ResumeFinally, RevokeGrant, Jump, Return
<1> QED  BY <1>1, <1>2, <1>3, <1>4, <1>5, <1>6, <1>7, <1>8, <1>9, <1>10 DEF ResumeStep

\* The steps of _accept obey the tables.
LEMMA AcceptTables ==
    ASSUME TypeInv, NEW c \in Caller, AcceptStep(c)
    PROVE  Tables(c) /\ TypeInv'
<1> USE CoordinatorAssumption
<1>1. CASE Accept(c)
  BY <1>1 DEF Accept, TransitionTo, CanSwap, AllowedTransitions, Jump, Return
<1>2. CASE RecordClosure(c, "close_accepted", "ACCEPTED", IF op[c] = "resume" THEN "finally" ELSE "return")
  BY <1>2 DEF RecordClosure, Jump, Return
<1> QED  BY <1>1, <1>2 DEF AcceptStep

\* The steps of cancel obey the tables.
LEMMA CancelTables ==
    ASSUME TypeInv, NEW c \in Caller, CancelStep(c)
    PROVE  Tables(c) /\ TypeInv'
<1> USE CoordinatorAssumption
<1>1. CASE CancelStart(c)
  BY <1>1 DEF CancelStart, Enter, ReadRow, GrantNumber
<1>2. CASE pc[c] = "cancel_blocked" /\ TransitionTo(c, "CANCELLED", "close_cancelled", "return")
  BY <1>2 DEF TransitionTo, CanSwap, AllowedTransitions, Jump, Return
<1>3. CASE pc[c] = "cancel_swap" /\ TransitionTo(c, "CANCELLING", "cancel_revoke", "return")
  BY <1>3 DEF TransitionTo, CanSwap, AllowedTransitions, Jump, Return
<1>4. CASE RevokeGrant(c, "cancel_revoke", "cancel_product")
  BY <1>4 DEF RevokeGrant, Jump, Return
<1>5. CASE CancelProduct(c)
  BY <1>5 DEF CancelProduct
<1>6. CASE CancelInterrupted(c)
  BY <1>6 DEF CancelInterrupted
<1>7. CASE pc[c] = "cancel_close" /\ TransitionTo(c, "CANCELLED", "close_cancelled", "return")
  BY <1>7 DEF TransitionTo, CanSwap, AllowedTransitions, Jump, Return
<1>8. CASE RecordClosure(c, "close_cancelled", "CANCELLED", "return")
  BY <1>8 DEF RecordClosure, Jump, Return
<1> QED  BY <1>1, <1>2, <1>3, <1>4, <1>5, <1>6, <1>7, <1>8 DEF CancelStep

\* The steps of recover_stale and _reconcile_active obey the tables.
LEMMA RecoverTables ==
    ASSUME TypeInv, NEW c \in Caller, RecoverStep(c)
    PROVE  Tables(c) /\ TypeInv'
<1> USE CoordinatorAssumption
<1>1. CASE RecoverStart(c)
  BY <1>1 DEF RecoverStart, Enter, ReadRow, GrantNumber
<1>2. CASE ProductState(c)
  BY <1>2 DEF ProductState, Jump, Return
<1>3. CASE op[c] \in {"recover", "reconcile"} /\ RevokeGrant(c, "interrupted", "interrupt_swap")
  BY <1>3 DEF RevokeGrant, Jump, Return
<1>4. CASE pc[c] = "interrupt_swap" /\ TransitionTo(c, "INTERRUPTED", "close_interrupted", "return")
  BY <1>4 DEF TransitionTo, CanSwap, AllowedTransitions, Jump, Return
<1>5. CASE RecordClosure(c, "close_interrupted", "INTERRUPTED", "return")
  BY <1>5 DEF RecordClosure, Jump, Return
<1> QED  BY <1>1, <1>2, <1>3, <1>4, <1>5 DEF RecoverStep

\* A call that is over obeys the tables.
LEMMA EndTables ==
    ASSUME TypeInv, NEW c \in Caller, EndCall(c)
    PROVE  Tables(c) /\ TypeInv'
BY CoordinatorAssumption DEF EndCall, Return

HIDE DEF
    TypeInv, TypeOK, CallerTypes, OnPath, NumbersInRange, LabelOf, Labels, Calls, Statuses,
    Attempts, WorkflowTerminal, JobTerminal, Terminal, Active, Finish, Goto,
    PrepareLabels, DecideLabels, ResumeLabels, CancelLabels, RecoverLabels, OwnerLabels,
    UnstartedLabels, ExecuteLabels, LeaseLabels, RenderedLabels, FinishLabels, InterruptLabels,
    ChargeableLabels, RunningLabels, CancellingLabels, ReconcileLabels, Owner, CloseLabel,
    Tables, Alone, StatusTable, SwapTable, ProductTable, StoresTable, ClosureTable,
    LabelTable, OwnerTable, LeaveTable, SeenTable,
    request, product, stores, admission, grants, callers, productVars

\* Every step of a thread obeys the tables.
LEMMA StepTables ==
    ASSUME TypeInv, NEW c \in Caller, CallerStep(c)
    PROVE  Tables(c) /\ TypeInv'
<1>1. CASE ProductStep(c) /\ UNCHANGED <<request, seen, crashes>>
  BY <1>1, PrepareTables, ExecuteTables, FailTables, FinalizingTables, InterruptTables DEF ProductStep
<1> QED  BY <1>1, DecisionTables, ResumeTables, AcceptTables, CancelTables, RecoverTables, EndTables
         DEF CallerStep

----------------------------------------------------------------------------
(* The invariant follows from the tables                                   *)

\* Which call a label belongs to.
LEMMA LabelsTell ==
    ASSUME TypeInv, NEW c \in Caller
    PROVE  /\ pc[c] \in {"queue"} \union UnstartedLabels \union ExecuteLabels => op[c] = "resume"
           /\ pc[c] \in InterruptLabels => op[c] \in {"cancel", "recover", "reconcile"}
BY DEF TypeInv, OnPath, LabelOf, PrepareLabels, DecideLabels, ResumeLabels, CancelLabels,
       RecoverLabels, OwnerLabels, UnstartedLabels, ExecuteLabels, LeaseLabels, RenderedLabels,
       FinishLabels, InterruptLabels

\* The moves of the status, spelled out.
LEMMA Moves ==
    ASSUME NEW s \in Statuses, NEW t \in AllowedTransitions(s)
    PROVE  /\ s \notin Terminal \union {"none"}
           /\ t \notin {"none", "BLOCKED", "PENDING_APPROVAL"}
           /\ s = "BLOCKED" => t = "CANCELLED"
           /\ t = "ADMITTED" => s = "PENDING_APPROVAL"
           /\ t = "QUEUED" => s \in {"ADMITTED", "FAILED_RETRYABLE"}
           /\ t = "EXECUTING" => s = "QUEUED"
           /\ t = "VERIFYING" => s = "EXECUTING"
           /\ s \in {"VERIFYING", "CANCELLING"} => t \in Terminal \union {"CANCELLING"}
           /\ s = "CANCELLING" => t \in Terminal
BY DEF AllowedTransitions, Statuses, Terminal, Active

\* The rows keep their invariant.
LEMMA RowsStep ==
    ASSUME SafeInv, NEW c \in Caller, Tables(c), TypeInv'
    PROVE  RowsInv'
<1> USE DEF SafeInv, RowsInv
<1>1. pc[c] \in UnstartedLabels \union ExecuteLabels => Owner(c)
  BY LabelsTell DEF Owner, OwnerLabels
<1>2. status \in Statuses /\ status' \in Statuses
  BY DEF TypeInv, TypeOK, Statuses
<1>3. ProductClosed'
  BY <1>1 DEF ProductClosed, Tables, ProductTable, PreparerInv, Preparer, OwnerInv, ExecuteLabels,
              LeaseLabels, Finish, product, TypeInv, TypeOK
<1>4. FinishBacked'
  BY <1>1, <1>2, Moves DEF FinishBacked, ChargedOnce, Early, Tables, ProductTable, StoresTable,
     StatusTable, PreparerInv, Preparer, OwnerInv, ExecuteLabels, LeaseLabels, RenderedLabels,
     Finish, product, WorkflowTerminal
<1>5. ChargedOnce'
  BY <1>1, <1>2, Moves DEF ChargedOnce, Tables, StatusTable, ProductTable, StoresTable, OwnerInv,
     Early, Started, Active, Terminal, UnstartedLabels, ExecuteLabels, LeaseLabels, RenderedLabels,
     Finish, product
<1>6. ProductExists'
  BY <1>2, Moves DEF ProductExists, Tables, StatusTable, ProductTable, StoresTable, PreparerInv,
     Preparer, Active, Terminal, Early, Statuses, product
<1>7. AcceptedIsFinished'
  BY <1>2, Moves DEF AcceptedIsFinished, Tables, StatusTable, ProductTable, FinisherInv,
     PreparerInv, Preparer, product, Terminal
<1>8. (execution_closure \in {"none", status})'
  BY <1>2, Moves DEF Tables, StatusTable, ClosureTable, CloserInv, CloseLabel, Terminal, TypeInv,
     TypeOK
<1> QED  BY <1>3, <1>4, <1>5, <1>6, <1>7, <1>8

\* One thread creates the product, and knows that it is the one.
LEMMA PreparerStep ==
    ASSUME SafeInv, NEW c \in Caller, Tables(c), TypeInv'
    PROVE  PreparerInv' /\ \A d, e \in Caller : Preparer(d)' /\ Preparer(e)' => d = e
BY DEF SafeInv, RowsInv, ProductExists, OneOfEach, PreparerInv, Preparer, Tables, Alone,
       ProductTable, StoresTable, LabelTable, product, Finish

\* One thread runs the attempt.
LEMMA OneOwner ==
    ASSUME SafeInv, NEW c \in Caller, Tables(c), TypeInv'
    PROVE  \A d, e \in Caller : Owner(d)' /\ Owner(e)' => d = e
<1>1. status \in Statuses /\ status' \in Statuses
  BY DEF SafeInv, TypeInv, TypeOK, Statuses
<1>2. Owner(c)' => Owner(c) \/ status \notin Started
  BY <1>1, Moves DEF Tables, OwnerTable, StatusTable, Owner, Started, Active, Terminal
<1>3. \A d \in Caller \ {c} : Owner(d)' <=> Owner(d)
  BY DEF Tables, Alone, Owner
<1> QED  BY <1>2, <1>3 DEF SafeInv, OneOfEach, OwnerInv

\* The thread that runs the attempt can rely on what OwnerInv says.
LEMMA OwnerStep ==
    ASSUME SafeInv, NEW c \in Caller, Tables(c), TypeInv'
    PROVE  OwnerInv'
<1> USE DEF SafeInv
<1>1. pc[c] \in {"queue"} \union UnstartedLabels \union ExecuteLabels => op[c] = "resume"
  BY LabelsTell
<1>2. status \in Statuses /\ status' \in Statuses
  BY DEF TypeInv, TypeOK, Statuses
<1>3. ASSUME NEW d \in Caller \ {c}, Owner(d)'
      PROVE  (/\ number[d] = attempt
              /\ status \in Started
              /\ pc[d] # "start" => status # "QUEUED"
              /\ product_proofs # "none"
              /\ pc[d] \in UnstartedLabels => spent = {}
              /\ pc[d] \in UnstartedLabels \union ExecuteLabels => product_proofs \notin Finish
              /\ pc[d] \in RenderedLabels => governed_work \in {"executed", "denied"}
              /\ pc[d] \in {"release_lease", "finalize"} => workflow = "completed" /\ number[d] \in spent
              /\ pc[d] = "recover_finalizing" => product_proofs \in Finish)'
  <2>1. Owner(d) /\ pc'[d] = pc[d] /\ number'[d] = number[d]
    BY <1>3 DEF Tables, Alone, Owner
  <2>2. ~Owner(c) /\ pc[c] \notin UnstartedLabels \union ExecuteLabels
    BY <1>1, <2>1 DEF OneOfEach, Owner, OwnerLabels
  <2>3. attempt' = attempt /\ status' \in Started /\ (status # "QUEUED" => status' # "QUEUED")
    BY <1>2, <2>1, <2>2, Moves DEF Tables, StatusTable, OwnerInv, Started, Active, Terminal,
                                       Statuses, UnstartedLabels
  <2>4. product_proofs' # "none" /\ (product_proofs' \in Finish <=> product_proofs \in Finish)
    BY <2>1, <2>2 DEF Tables, ProductTable, OwnerInv, PreparerInv, Preparer, Finish, ExecuteLabels,
                      LeaseLabels, product
  <2>5. spent' = spent /\ (workflow = "completed" => workflow' = "completed")
    BY <2>2 DEF Tables, StoresTable, ExecuteLabels, LeaseLabels, WorkflowTerminal
  <2>6. governed_work \in {"executed", "denied"} => governed_work' \in {"executed", "denied"}
    BY <2>1, <2>2 DEF Tables, StoresTable, ExecuteLabels, LeaseLabels, PreparerInv, Preparer,
       OwnerInv
  <2> QED  BY <2>1, <2>3, <2>4, <2>5, <2>6 DEF OwnerInv
<1>4. CASE ~Owner(c)'
  BY <1>3, <1>4 DEF OwnerInv
<1>5. CASE Owner(c)' /\ pc'[c] = "start"
  BY <1>1, <1>2, <1>3, <1>5, Moves DEF OwnerInv, Tables, OwnerTable, StatusTable, ProductTable,
     StoresTable, RowsInv, ChargedOnce, ProductExists, Early, Active, Started, Terminal, Owner,
     Finish, UnstartedLabels, ExecuteLabels, LeaseLabels, RenderedLabels, product
<1>6. CASE Owner(c)' /\ pc'[c] # "start"
  <2>1. Owner(c) /\ number'[c] = number[c]
    BY <1>6 DEF Tables, OwnerTable, Owner
  <2>2. number'[c] = attempt' /\ status' # "QUEUED"
    <3>1. status' # "QUEUED"
      BY <1>2, <1>6, <2>1, Moves DEF Tables, StatusTable, OwnerTable, OwnerInv, Owner, Started,
         Active, Terminal
    <3> QED  BY <1>2, <2>1, <3>1 DEF Tables, StatusTable, OwnerInv
  <2>3. status' \in Started
    BY <1>2, <1>6, <2>1, <2>2, Moves DEF Tables, StatusTable, OwnerInv, Owner, Started, Active,
       Terminal, Statuses, OwnerLabels, UnstartedLabels, ExecuteLabels, LeaseLabels, RenderedLabels,
       FinishLabels
  <2>4. product_proofs' # "none"
    BY <2>1 DEF Tables, ProductTable, OwnerInv, product
  <2>5. pc'[c] \in UnstartedLabels => spent' = {}
    BY <1>6, <2>1 DEF Tables, OwnerTable, StoresTable, OwnerInv, Owner, UnstartedLabels
  <2>6. pc'[c] \in UnstartedLabels \union ExecuteLabels => product_proofs' \notin Finish
    BY <1>6, <2>1 DEF Tables, OwnerTable, ProductTable, LabelTable, OwnerInv, Owner, Finish,
       product, UnstartedLabels, ExecuteLabels, LeaseLabels, RenderedLabels
  <2>7. pc'[c] \in RenderedLabels => governed_work' \in {"executed", "denied"}
    BY <1>6, <2>1 DEF Tables, LabelTable, StoresTable, OwnerInv, Owner, RenderedLabels
  <2>8. pc'[c] \in {"release_lease", "finalize"} => workflow' = "completed" /\ number'[c] \in spent'
    BY <2>1 DEF Tables, LabelTable, StoresTable, FinalizationReady, OwnerInv, WorkflowTerminal
  <2>9. pc'[c] = "recover_finalizing" => product_proofs' \in Finish
    BY <1>6 DEF Tables, OwnerTable, Owner, Finish
  <2> QED  BY <1>3, <2>2, <2>3, <2>4, <2>5, <2>6, <2>7, <2>8, <2>9 DEF OwnerInv, UnstartedLabels
<1> QED  BY <1>4, <1>5, <1>6

\* A thread that finishes a product finds it finalizing or accepted.
LEMMA FinisherStep ==
    ASSUME SafeInv, NEW c \in Caller, Tables(c), TypeInv'
    PROVE  FinisherInv'
<1>1. /\ product_proofs \in Finish => product_proofs' \in Finish
      /\ product_proofs = "accepted" => product_proofs' = "accepted"
  BY DEF SafeInv, PreparerInv, Preparer, Tables, ProductTable, Finish, product
<1> QED  BY <1>1 DEF SafeInv, FinisherInv, Tables, Alone, LabelTable, Finish

\* A thread that records a closure records that of the status.
LEMMA CloserStep ==
    ASSUME SafeInv, NEW c \in Caller, Tables(c), TypeInv'
    PROVE  CloserInv'
<1>1. status \in Terminal => status' = status
  BY Moves DEF SafeInv, TypeInv, TypeOK, Statuses, Tables, StatusTable, Terminal
<1> QED  BY <1>1 DEF SafeInv, CloserInv, Tables, Alone, ClosureTable, CloseLabel, Terminal

\* The part of the invariant that crashes cannot touch is inductive ...
LEMMA SafeStep ==
    ASSUME SafeInv, NEW c \in Caller, Tables(c), TypeInv'
    PROVE  SafeInv'
BY RowsStep, PreparerStep, OneOwner, OwnerStep, FinisherStep, CloserStep DEF SafeInv, OneOfEach

\* ... and a crash preserves the whole invariant.
LEMMA CrashStep ==
    ASSUME SafeInv, Crash
    PROVE  SafeInv' /\ SeenInv' /\ HandsInv'
<1> USE DEF Crash, Idle, productVars, product, stores, admission, grants, request
<1>1. TypeInv'
  BY CoordinatorAssumption, CallAssumption DEF SafeInv, TypeInv, TypeOK, CallerTypes, OnPath,
     NumbersInRange, LabelOf, Labels, Calls, Statuses, Attempts
<1>2. RowsInv'
  BY DEF SafeInv, RowsInv, ProductClosed, FinishBacked, ChargedOnce, ProductExists,
     AcceptedIsFinished
<1>3. \A c \in Caller : pc'[c] = "idle" /\ op'[c] = "idle" /\ seen'[c] = "none"
  OBVIOUS
<1>4. OneOfEach' /\ PreparerInv' /\ OwnerInv' /\ FinisherInv' /\ CloserInv'
  BY <1>3 DEF OneOfEach, PreparerInv, OwnerInv, FinisherInv, CloserInv, Preparer, Owner
<1>5. SeenInv'
  BY <1>3 DEF SeenInv
<1>6. HandsInv'
  BY DEF SafeInv, TypeInv, TypeOK, HandsInv
<1> QED  BY <1>1, <1>2, <1>4, <1>5, <1>6 DEF SafeInv

\* What a status that was seen says of the status now.
LEMMA SeenStep ==
    ASSUME SafeInv, SeenInv, NEW c \in Caller, Tables(c), TypeInv'
    PROVE  SeenInv'
<1>1. status \in Statuses /\ status' \in Statuses
  BY DEF SafeInv, TypeInv, TypeOK, Statuses
<1>2. /\ status \in {"VERIFYING", "CANCELLING"} \union Terminal =>
            status' \in {"VERIFYING", "CANCELLING"} \union Terminal
      /\ status \in {"CANCELLING"} \union Terminal => status' \in {"CANCELLING"} \union Terminal
  BY <1>1, Moves DEF Tables, StatusTable, Terminal
<1> QED  BY <1>2 DEF SeenInv, Tables, Alone, SeenTable, Active

\* A thread about to interrupt a request that it has seen EXECUTING comes to
\* swap it, and the swap succeeds if the request still executes.
LEMMA InterrupterStays ==
    ASSUME SafeInv, NEW c \in Caller, Tables(c), NEW d \in Caller, Interrupter(d),
           status = "EXECUTING", status' = "EXECUTING"
    PROVE  Interrupter(d)'
BY DEF Interrupter, Tables, Alone, SeenTable, SwapTable

\* What is open stays in somebody's hands: the lease, ...
LEMMA LeaseStep ==
    ASSUME SafeInv, LeaseHeld, NEW c \in Caller, Tables(c), TypeInv'
    PROVE  LeaseHeld'
<1>1. pc[c] = "schedule" => op[c] = "resume"
  BY LabelsTell DEF SafeInv, ExecuteLabels
<1> QED  BY <1>1 DEF LeaseHeld, Tables, Alone, StoresTable, LeaveTable, LeaseLabels

\* ... the grants, ...
LEMMA GrantsStep ==
    ASSUME SafeInv, GrantsHeld, NEW c \in Caller, Tables(c), TypeInv'
    PROVE  GrantsHeld'
<1> SUFFICES ASSUME NEW n \in (granted \ revoked)'
             PROVE  \E d \in Caller : (op[d] = "resume" /\ number[d] = n /\ pc[d] \in ChargeableLabels)'
  BY DEF GrantsHeld
<1>1. CASE n \in granted \ revoked
  <2>1. PICK d \in Caller : op[d] = "resume" /\ number[d] = n /\ pc[d] \in ChargeableLabels
    BY <1>1 DEF GrantsHeld
  <2> QED  BY <2>1 DEF Tables, Alone, LeaveTable
<1>2. CASE n \notin granted \ revoked
  BY <1>2, LabelsTell DEF SafeInv, Tables, StoresTable, ChargeableLabels, ResumeLabels, OwnerLabels,
                          UnstartedLabels, ExecuteLabels
<1> QED  BY <1>1, <1>2

\* ... a request that is queued or verified, ...
LEMMA QueuedStep ==
    ASSUME SafeInv, SeenInv, QueuedHeld, VerifyingHeld, NEW c \in Caller, Tables(c), TypeInv'
    PROVE  QueuedHeld' /\ VerifyingHeld'
<1>1. status \in Statuses /\ (pc[c] = "queue" => op[c] = "resume")
  BY LabelsTell DEF SafeInv, TypeInv, TypeOK, Statuses
<1>2. QueuedHeld'
  BY <1>1 DEF QueuedHeld, Tables, Alone, StatusTable, SwapTable, SeenInv
<1>3. VerifyingHeld'
  BY DEF VerifyingHeld, Tables, Alone, StatusTable, SwapTable, SeenInv
<1> QED  BY <1>2, <1>3

\* ... a request that executes, ...
LEMMA ExecutingStep ==
    ASSUME SafeInv, SeenInv, ExecutingHeld, CancelledUnder, NEW c \in Caller, Tables(c), TypeInv'
    PROVE  ExecutingHeld'
<1> SUFFICES ASSUME status' = "EXECUTING"
             PROVE  \E d \in Caller : ((Owner(d) /\ pc[d] \notin {"start", "accept"}) \/ Interrupter(d))'
  BY DEF ExecutingHeld
<1>1. CASE status # "EXECUTING"
  BY <1>1, LabelsTell DEF SafeInv, Tables, StatusTable, Owner, OwnerLabels, UnstartedLabels
<1>2. CASE status = "EXECUTING"
  <2>1. PICK d \in Caller : (Owner(d) /\ pc[d] \notin {"start", "accept"}) \/ Interrupter(d)
    BY <1>2 DEF ExecutingHeld
  <2>2. CASE Interrupter(d)
    BY <1>2, <2>2, InterrupterStays
  <2>3. CASE Owner(d) /\ pc[d] \notin {"start", "accept"} /\ d # c
    BY <2>3 DEF Tables, Alone, Owner
  <2>4. CASE Owner(c) /\ pc[c] \notin {"start", "accept"}
    <3>1. pc[c] \in {"fail", "fail_retryable"} => FALSE
      BY <1>2, <2>4 DEF SeenInv, Owner, Tables, SwapTable, Terminal
    <3>2. pc[c] \in {"recover_finalizing", "accept_product"} => product_proofs \in Finish
      BY <2>4 DEF SafeInv, OwnerInv, FinisherInv
    <3>3. CASE pc[c] = "complete_job" /\ jobs \notin {"VALIDATING", "COMPLETED"}
      BY <1>2, <2>4, <3>3, InterrupterStays DEF CancelledUnder, Owner
    <3> QED  BY <2>4, <3>1, <3>2, <3>3 DEF Owner, Tables, LeaveTable
  <2> QED  BY <2>1, <2>2, <2>3, <2>4
<1> QED  BY <1>1, <1>2

\* ... also when its job is cancelled under it, ...
LEMMA CancelledStep ==
    ASSUME SafeInv, SeenInv, CancelledUnder, NEW c \in Caller, Tables(c), TypeInv'
    PROVE  CancelledUnder'
<1> DEFINE Ending == {"release_lease", "finalize", "recover_finalizing", "complete_job"}
<1> SUFFICES ASSUME status' = "EXECUTING", jobs' \notin {"VALIDATING", "COMPLETED"},
                    NEW d \in Caller, op'[d] = "resume", pc'[d] \in Ending
             PROVE  \E e \in Caller : Interrupter(e)'
  BY DEF CancelledUnder
<1>1. Owner(d)' /\ Owner(d) /\ (d = c \/ pc[d] \in Ending)
  BY DEF Tables, Alone, OwnerTable, Owner, OwnerLabels, ExecuteLabels, LeaseLabels, RenderedLabels,
     FinishLabels
<1>2. pc[c] \in UnstartedLabels \union ExecuteLabels => d = c
  BY <1>1, LabelsTell DEF SafeInv, OneOfEach, Owner, OwnerLabels
<1>3. status = "EXECUTING"
  BY <1>2 DEF Tables, StatusTable, UnstartedLabels
<1>4. jobs' = jobs => pc[d] \in Ending
  BY <1>1 DEF Tables, LabelTable, OwnerTable, FinalizationReady
<1>5. CASE jobs' = jobs
  BY <1>1, <1>3, <1>4, <1>5, InterrupterStays DEF CancelledUnder, Owner
<1>6. CASE jobs' # jobs
  <2>1. /\ pc[c] = "interrupt_write" /\ pc'[c] = "interrupt_product"
        /\ seen'[c] = seen[c] /\ op'[c] = op[c]
    BY <1>2, <1>6 DEF Tables, StoresTable, ExecuteLabels, LeaseLabels
  <2>2. op[c] \in {"cancel", "recover", "reconcile"}
    BY <2>1, LabelsTell DEF SafeInv, InterruptLabels
  <2>3. op[c] # "cancel" /\ seen[c] = "EXECUTING"
    BY <1>3, <2>1, <2>2 DEF SeenInv, CancellingLabels, ReconcileLabels, RecoverLabels,
       InterruptLabels, Active, Terminal
  <2> QED  BY <2>1, <2>2, <2>3 DEF Interrupter
<1> QED  BY <1>5, <1>6

\* ... and a terminal status without its closure.
LEMMA ClosureStep ==
    ASSUME SafeInv, ClosureHeld, NEW c \in Caller, Tables(c), TypeInv'
    PROVE  ClosureHeld'
<1>1. status \in Terminal => status' = status
  BY Moves DEF SafeInv, TypeInv, TypeOK, Statuses, Tables, StatusTable, Terminal
<1>2. status' \in Terminal /\ status' # status => pc'[c] = CloseLabel(status')
  BY DEF Tables, StatusTable, Terminal
<1>3. execution_closure' = "none" => execution_closure = "none"
  BY DEF Tables, ClosureTable
<1> QED  BY <1>1, <1>2, <1>3 DEF ClosureHeld, Tables, Alone, ClosureTable

----------------------------------------------------------------------------
(* The theorems                                                            *)

\* RequestInv holds of the coordinator: whatever the threads and crashes, and
\* however the transactions of the calls interleave.
THEOREM RequestInvariant == Spec => []RequestInv
<1>1. Init => RequestInv
  <2> SUFFICES ASSUME Init PROVE RequestInv
    OBVIOUS
  <2> USE DEF Init, ProductInit, Idle
  <2>1. TypeInv
    BY CoordinatorAssumption, CallAssumption
       DEF TypeInv, TypeOK, CallerTypes, OnPath, NumbersInRange, LabelOf, Labels, Calls, Statuses,
           Attempts, JobTerminal, WorkflowTerminal, Terminal, Active
  <2>2. RowsInv
    BY DEF RowsInv, ProductClosed, FinishBacked, ChargedOnce, ProductExists, AcceptedIsFinished,
       Finish, Active, Early
  <2>3. OneOfEach /\ PreparerInv /\ OwnerInv /\ FinisherInv /\ CloserInv
    BY DEF OneOfEach, PreparerInv, OwnerInv, FinisherInv, CloserInv, Preparer, Owner
  <2>4. SeenInv
    BY DEF SeenInv
  <2>5. HandsInv
    BY DEF HandsInv, LeaseHeld, GrantsHeld, QueuedHeld, VerifyingHeld, ExecutingHeld,
       CancelledUnder, ClosureHeld, Terminal
  <2> QED  BY <2>1, <2>2, <2>3, <2>4, <2>5 DEF RequestInv, SafeInv
<1>2. RequestInv /\ [Next]_vars => RequestInv'
  <2> SUFFICES ASSUME RequestInv, [Next]_vars PROVE RequestInv'
    OBVIOUS
  <2>1. CASE Crash
    BY <2>1, CrashStep DEF RequestInv
  <2>2. ASSUME NEW c \in Caller, CallerStep(c) PROVE RequestInv'
    <3>1. Tables(c) /\ TypeInv' /\ crashes' = crashes
      BY <2>2, StepTables DEF RequestInv, SafeInv, Tables, Alone
    <3>2. SafeInv' /\ SeenInv'
      BY <3>1, SafeStep, SeenStep DEF RequestInv
    <3>3. HandsInv'
      BY <3>1, LeaseStep, GrantsStep, QueuedStep, ExecutingStep, CancelledStep, ClosureStep
         DEF RequestInv, HandsInv
    <3> QED  BY <3>2, <3>3 DEF RequestInv
  <2>3. CASE UNCHANGED vars
    <3> USE <2>3 DEF vars, product, stores, admission, grants, callers, request
    <3>1. TypeInv'
      BY DEF RequestInv, SafeInv, TypeInv, TypeOK, CallerTypes, OnPath, NumbersInRange
    <3>2. RowsInv' /\ OneOfEach' /\ PreparerInv' /\ OwnerInv' /\ FinisherInv' /\ CloserInv'
      BY DEF RequestInv, SafeInv, RowsInv, ProductClosed, FinishBacked, ChargedOnce, ProductExists,
         AcceptedIsFinished, OneOfEach, PreparerInv, OwnerInv, FinisherInv, CloserInv, Preparer,
         Owner
    <3>3. SeenInv'
      BY DEF RequestInv, SeenInv
    <3>4. HandsInv'
      BY DEF RequestInv, HandsInv, LeaseHeld, GrantsHeld, QueuedHeld, VerifyingHeld, ExecutingHeld,
             CancelledUnder, ClosureHeld, Interrupter, Owner
    <3> QED  BY <3>1, <3>2, <3>3, <3>4 DEF RequestInv, SafeInv
  <2> QED  BY <2>1, <2>2, <2>3 DEF Next
<1> QED  BY <1>1, <1>2, PTL DEF Spec

\* Acceptance is backed by every store: for any number of threads, calls and
\* crashes, a finalizing or accepted product has its tasks completed, its
\* governed work executed and the current attempt's grant charged, and a
\* request is accepted only with its product.
THEOREM CoordinatorIsSafe == Spec => []CoordinatorInv
<1>1. RequestInv => CoordinatorInv
  BY DEF RequestInv, SafeInv, TypeInv, RowsInv, ProductClosed, FinishBacked, Finish, CoordinatorInv,
     FinishedIsProven
<1> QED  BY <1>1, RequestInvariant, PTL

\* The closures never contradict the rows they close.
THEOREM ClosuresMatch == Spec => []ClosureMatches
<1>1. RequestInv => ClosureMatches
  BY DEF RequestInv, SafeInv, RowsInv, ProductClosed, ClosureMatches
<1> QED  BY <1>1, RequestInvariant, PTL

\* Without a crash, calls that race and fail leave no lease, no open grant and
\* no request that runs with nobody running it, however many they are.
THEOREM NothingIsLeftBehind == Spec => []NothingIsLeft
<1>1. RequestInv => NothingIsLeft
  <2> SUFFICES ASSUME RequestInv, crashes = 0, pc = Idle
               PROVE  /\ lease = "none" /\ granted \subseteq revoked
                      /\ status \notin {"QUEUED", "EXECUTING", "VERIFYING"}
                      /\ status \in Terminal => execution_closure = status
    BY DEF NothingIsLeft, NothingLeaks, NothingHangs
  <2>1. \A c \in Caller : pc[c] = "idle"
    BY DEF Idle
  <2>2. HandsInv /\ TypeOK /\ RowsInv
    BY DEF RequestInv, SafeInv, TypeInv
  <2>3. lease = "none"
    BY <2>1, <2>2 DEF HandsInv, LeaseHeld, TypeOK, LeaseLabels, RenderedLabels
  <2>4. granted \subseteq revoked
    BY <2>1, <2>2 DEF HandsInv, GrantsHeld, ChargeableLabels, ResumeLabels, OwnerLabels,
       UnstartedLabels, ExecuteLabels, LeaseLabels, RenderedLabels, FinishLabels
  <2>5. status \notin {"QUEUED", "EXECUTING", "VERIFYING"}
    BY <2>1, <2>2 DEF HandsInv, QueuedHeld, VerifyingHeld, ExecutingHeld, Interrupter, Owner,
       OwnerLabels, UnstartedLabels, ExecuteLabels, LeaseLabels, RenderedLabels, FinishLabels
  <2>6. status \in Terminal => execution_closure = status
    BY <2>1, <2>2 DEF HandsInv, ClosureHeld, CloseLabel, RowsInv, Terminal
  <2> QED  BY <2>3, <2>4, <2>5, <2>6
<1> QED  BY <1>1, RequestInvariant, PTL

\* However many threads swap the status, the first terminal one stays.
THEOREM TerminalStays == Spec => TerminalIsFinal
<1>1. RequestInv /\ [Next]_vars => [(status \in Terminal) => status' = status]_vars
  <2> SUFFICES ASSUME RequestInv, Next, status \in Terminal PROVE status' = status
    BY DEF vars, request
  <2>1. CASE Crash
    BY <2>1 DEF Crash, request
  <2>2. ASSUME NEW c \in Caller, CallerStep(c) PROVE status' = status
    <3>1. Tables(c)
      BY <2>2, StepTables DEF RequestInv, SafeInv
    <3> QED  BY <3>1, Moves DEF Tables, StatusTable, Statuses, Terminal
  <2> QED  BY <2>1, <2>2 DEF Next
<1> QED  BY <1>1, RequestInvariant, PTL DEF Spec, TerminalIsFinal

\* The request drives its product through the protocol of ProductSaga, the one
\* the multi-capability coordinator composes: charged before it is finalized,
\* never closed once it is finalizing, never reopened.
THEOREM CoordinatorImplementsSaga == Spec => ImplementsSaga
<1>1. Init => Saga!SagaInit
  BY DEF Init, ProductInit, Saga!SagaInit
<1>2. RequestInv /\ [Next]_vars => [Saga!SagaNext]_Saga!saga
  <2> SUFFICES ASSUME RequestInv, [Next]_vars PROVE [Saga!SagaNext]_Saga!saga
    OBVIOUS
  <2>1. CASE UNCHANGED <<product_proofs, spent>>
    BY <2>1 DEF Saga!saga
  <2>2. CASE Crash \/ UNCHANGED vars
    BY <2>1, <2>2 DEF Crash, vars, productVars, product, grants
  <2>3. ASSUME NEW c \in Caller, CallerStep(c) PROVE [Saga!SagaNext]_Saga!saga
    <3>1. Tables(c)
      BY <2>3, StepTables DEF RequestInv, SafeInv
    <3>2. pc[c] \in ExecuteLabels => /\ product_proofs \in Saga!Closed \union {"pending"}
                                     /\ pc[c] = "finalize" => spent # {}
      BY LabelsTell DEF RequestInv, SafeInv, TypeInv, TypeOK, OwnerInv, Owner, OwnerLabels, Finish,
         Saga!Closed
    <3>3. CASE spent' # spent
      <4>1. /\ product_proofs \in Saga!Closed \union {"pending"}
            /\ product_proofs' = product_proofs /\ spent' # {}
        BY <3>1, <3>2, <3>3 DEF Tables, StoresTable, ProductTable, ExecuteLabels, LeaseLabels,
           product
      <4>2. Saga!ChargeProof("request")
        BY <4>1 DEF Saga!ChargeProof
      <4> QED  BY <4>2 DEF Saga!SagaNext
    <3>4. CASE spent' = spent /\ product_proofs' # product_proofs
      <4>1. \/ product_proofs = "none" /\ product_proofs' = "pending"
            \/ product_proofs = "pending" /\ product_proofs' = "finalizing" /\ spent # {}
            \/ product_proofs = "finalizing" /\ product_proofs' = "accepted"
            \/ product_proofs = "pending" /\ product_proofs' \in Saga!Closed
        BY <3>1, <3>2, <3>4 DEF Tables, ProductTable, product, ExecuteLabels, LeaseLabels,
           RequestInv, SafeInv, PreparerInv, Preparer, Saga!Closed
      <4>2. \/ Saga!PrepareProof("request") \/ Saga!FinalizeProof("request") \/ Saga!AcceptProof("request")
            \/ \E how \in Saga!Closed : Saga!CloseProof("request", how)
        BY <3>4, <4>1 DEF Saga!PrepareProof, Saga!FinalizeProof, Saga!AcceptProof, Saga!CloseProof,
           Saga!Move
      <4> QED  BY <4>2 DEF Saga!SagaNext
    <3> QED  BY <2>1, <3>3, <3>4
  <2> QED  BY <2>2, <2>3 DEF Next
<1> QED  BY <1>1, <1>2, RequestInvariant, PTL DEF Spec, ImplementsSaga, Saga!SagaSpec
=============================================================================
