------------------------ MODULE ExecutionCoordinator ------------------------
(***************************************************************************)
(* The execution coordinator of services/execution_coordinator.py for one  *)
(* single-capability request: prepare, decide, resume, cancel, the stale   *)
(* recovery and the reconciliation of active requests, composed with the   *)
(* product runtime they drive.                                             *)
(*                                                                         *)
(* Every call runs in a thread of its own and is a sequence of             *)
(* transactions; _transition, _fail and _accept are compare-and-swap       *)
(* updates of the status.  Whether a deadline has passed or a row is       *)
(* stale depends on the caller's now and is left open, since a rendering   *)
(* takes arbitrarily long.  Crash stops the process: every thread is gone, *)
(* every store stays.                                                      *)
(***************************************************************************)
EXTENDS ProductRuntime

CONSTANTS
    CallsOf,       \* bound: the calls a thread may serve
    MaxCrashes     \* bound: how often the process stops

Calls == {"prepare", "approve", "deny", "resume", "reconcile", "cancel", "recover"}

ASSUME CallAssumption == CallsOf \in [Caller -> SUBSET Calls] /\ MaxCrashes \in Nat

VARIABLES
    status,              \* execution_requests.status; "none": no row
    attempt,             \* execution_requests.attempt
    execution_closure,   \* execution_closure.terminal_status; "none": no row
    seen,                \* the status a caller believes the row has
    crashes

request   == <<status, attempt, execution_closure>>
productVars == <<product, stores, admission, grants>>
vars == <<product, stores, admission, grants, callers, pc, request, seen, crashes>>

Terminal == {"ACCEPTED", "CANCELLED", "FAILED_TERMINAL", "DENIED", "INTERRUPTED"}
Active   == {"EXECUTING", "VERIFYING", "CANCELLING"}

\* _ALLOWED_TRANSITIONS, for the states in which a row exists.
AllowedTransitions(s) ==
    CASE s = "PENDING_APPROVAL" -> {"ADMITTED", "DENIED", "CANCELLING"}
      [] s = "ADMITTED"         -> {"QUEUED", "CANCELLING", "FAILED_TERMINAL"}
      [] s = "QUEUED"           -> {"EXECUTING", "CANCELLING", "FAILED_RETRYABLE", "FAILED_TERMINAL"}
      [] s = "EXECUTING"        -> {"VERIFYING", "FAILED_RETRYABLE", "FAILED_TERMINAL", "CANCELLING",
                                    "ACCEPTED", "INTERRUPTED"}
      [] s = "VERIFYING"        -> {"ACCEPTED", "FAILED_TERMINAL", "CANCELLING", "INTERRUPTED"}
      [] s = "FAILED_RETRYABLE" -> {"QUEUED", "CANCELLING", "FAILED_TERMINAL"}
      [] s = "CANCELLING"       -> {"CANCELLED", "ACCEPTED", "FAILED_TERMINAL", "INTERRUPTED"}
      [] s = "BLOCKED"          -> {"CANCELLED"}
      [] OTHER                  -> {}

\* Mutant: the UPDATE has no AND status = expected.
CanSwapMutant(c, target) == target \in AllowedTransitions(seen[c])

\* The transition is legal, and the row still is as the caller expects.
CanSwap(c, target) ==
    /\ target \in AllowedTransitions(seen[c])
    /\ status = seen[c]

\* A caller starts a call.
Enter(c, call, label) ==
    /\ pc[c] = "idle"
    /\ call \in CallsOf[c]
    /\ op' = [op EXCEPT ![c] = call]
    /\ Goto(c, label)

Idle == [c \in Caller |-> "idle"]

Init ==
    /\ ProductInit
    /\ op = Idle
    /\ number = [c \in Caller |-> 1]
    /\ pc = Idle
    /\ status = "none"
    /\ attempt = 0
    /\ execution_closure = "none"
    /\ seen = [c \in Caller |-> "none"]
    /\ crashes = 0

\* The call returns or raises to its HTTP handler.
Return(c) ==
    /\ pc' = [pc EXCEPT ![c] = "idle"]
    /\ op' = [op EXCEPT ![c] = "idle"]
    /\ number' = [number EXCEPT ![c] = 1]
    /\ seen' = [seen EXCEPT ![c] = "none"]

\* The next transaction of the call, or its end.
Jump(c, label) ==
    \/ label = "return" /\ Return(c)
    \/ label # "return" /\ Goto(c, label) /\ UNCHANGED <<callers, seen>>

\* _request_row: the caller keeps the status and the attempt it has read.
ReadRow(c, n) ==
    /\ number' = [number EXCEPT ![c] = n]
    /\ seen' = [seen EXCEPT ![c] = status]

\* Mutant: the attempt as it is.
GrantNumberMutant == attempt

\* max(1, attempt), as the revocations compute it.
GrantNumber == IF attempt = 0 THEN 1 ELSE attempt

\* The UPDATE ... WHERE status = expected of _transition and _fail: it goes
\* to label, or raises to otherwise.
TransitionTo(c, target, label, otherwise) ==
    /\ \/ /\ CanSwap(c, target)
          /\ status' = target
          /\ seen' = [seen EXCEPT ![c] = target]
          /\ Goto(c, label)
          /\ UNCHANGED callers
       \/ ~CanSwap(c, target) /\ UNCHANGED status /\ Jump(c, otherwise)
    /\ UNCHANGED <<productVars, attempt, execution_closure, crashes>>

\* _record_closure: INSERT OR IGNORE in a transaction of its own.
RecordClosure(c, from, terminal, label) ==
    /\ pc[c] = from
    /\ execution_closure' = IF execution_closure = "none" THEN terminal ELSE execution_closure
    /\ Jump(c, label)
    /\ UNCHANGED <<productVars, status, attempt, crashes>>

\* grants.revoke, whether or not the grant has a row yet.
RevokeGrant(c, from, label) ==
    /\ pc[c] = from
    /\ revoked' = revoked \union {number[c]}
    /\ Jump(c, label)
    /\ UNCHANGED <<product, stores, admission, granted, spent, request, crashes>>

\* The call is over; except in resume, an exception ends it too.
EndCall(c) ==
    /\ pc[c] = "done" \/ (pc[c] = "raised" /\ op[c] # "resume")
    /\ Return(c)
    /\ UNCHANGED <<productVars, request, crashes>>

----------------------------------------------------------------------------
(* prepare and decide                                                      *)

\* An existing request is returned as it is.  An objective without a verified
\* adapter becomes a BLOCKED row and has no product.
PrepareStart(c) ==
    /\ status = "none"
    /\ \E label \in {"prepare_workflow", "prepare_blocked"} : Enter(c, "prepare", label)
    /\ UNCHANGED <<productVars, number, request, seen, crashes>>

PrepareStatus(c) ==
    IF pc[c] = "prepare_blocked" THEN "BLOCKED"
    ELSE IF human_approval = "required" THEN "PENDING_APPROVAL" ELSE "ADMITTED"

\* The INSERT; a second one violates the key.
PrepareInsert(c) ==
    /\ pc[c] \in {"prepare_insert", "prepare_blocked"}
    /\ status' = IF status = "none" THEN PrepareStatus(c) ELSE status
    /\ Return(c)
    /\ UNCHANGED <<productVars, attempt, execution_closure, crashes>>

\* decide: only a request that awaits approval.
DecideStart(c, call) ==
    /\ status = "PENDING_APPROVAL"
    /\ Enter(c, call, "decide_check")
    /\ ReadRow(c, 1)
    /\ UNCHANGED <<productVars, request, crashes>>

\* governance.decide, first transaction: the work must be pending.
DecideCheck(c) ==
    /\ pc[c] = "decide_check"
    /\ Goto(c, IF governed_work = "pending" THEN "decide_write" ELSE "raised")
    /\ UNCHANGED <<productVars, callers, request, seen, crashes>>

\* The decision replaces an earlier one.
DecideWrite(c) ==
    /\ pc[c] = "decide_write"
    /\ decision' = IF op[c] = "approve" THEN "approved" ELSE "denied"
    /\ Goto(c, IF op[c] = "approve" THEN "decide_swap" ELSE "decide_mark")
    /\ UNCHANGED <<product, stores, human_approval, governed_work, grants, callers,
                   request, seen, crashes>>

DecideMark(c) ==
    /\ pc[c] = "decide_mark"
    /\ governed_work' = "denied"
    /\ Goto(c, "decide_swap")
    /\ UNCHANGED <<product, stores, human_approval, decision, grants, callers,
                   request, seen, crashes>>

DecideSwap(c) ==
    /\ pc[c] = "decide_swap"
    /\ \/ op[c] = "approve" /\ TransitionTo(c, "ADMITTED", "done", "raised")
       \/ op[c] = "deny" /\ TransitionTo(c, "DENIED", "close_denied", "raised")

DecisionStep(c) ==
    \/ PrepareStart(c)
    \/ PrepareInsert(c)
    \/ \E call \in {"approve", "deny"} : DecideStart(c, call)
    \/ DecideCheck(c)
    \/ DecideWrite(c)
    \/ DecideMark(c)
    \/ DecideSwap(c)
    \/ RecordClosure(c, "close_denied", "DENIED", "return")

----------------------------------------------------------------------------
(* resume                                                                  *)

\* An active request is reconciled; a request that can run is checked: the
\* deadline, the admission, the retry budget.
ResumeStart(c) ==
    /\ \/ /\ status \in {"EXECUTING", "VERIFYING"}
          /\ Enter(c, "reconcile", "product_state")
          /\ ReadRow(c, GrantNumber)
       \/ /\ status \in {"ADMITTED", "FAILED_RETRYABLE"}
          /\ Enter(c, "resume", "resume_checks")
          /\ ReadRow(c, attempt + 1)
    /\ UNCHANGED <<productVars, request, crashes>>

ResumeChecks(c) ==
    /\ pc[c] = "resume_checks"
    /\ \/ Jump(c, "fail_expired")
       \/ ~Admitted /\ Jump(c, "return")
       \/ Admitted /\ Jump(c, IF number[c] > MaxAttempts THEN "fail_expired" ELSE "queue")
    /\ UNCHANGED <<productVars, request, crashes>>

\* The transition to QUEUED also writes the attempt.
Queue(c) ==
    /\ pc[c] = "queue"
    /\ \/ /\ CanSwap(c, "QUEUED")
          /\ status' = "QUEUED"
          /\ attempt' = number[c]
          /\ seen' = [seen EXCEPT ![c] = "QUEUED"]
          /\ Goto(c, "start")
          /\ UNCHANGED callers
       \/ ~CanSwap(c, "QUEUED") /\ UNCHANGED <<status, attempt>> /\ Return(c)
    /\ UNCHANGED <<productVars, execution_closure, crashes>>

\* grants.register may fail before the adapter starts, with an exception of
\* the retryable kinds or with another.
RegisterGrant(c) ==
    /\ pc[c] = "register"
    /\ \/ granted' = granted \union {number[c]} /\ Goto(c, "execute")
       \/ /\ UNCHANGED granted
          /\ \E error \in {"except", "except_unstarted"} : Goto(c, error)
    /\ UNCHANGED <<product, stores, admission, revoked, spent, callers, request, seen, crashes>>

\* Only a retryable failure before the adapter has started is retried.
FailTarget(c) ==
    IF pc[c] = "except_unstarted" /\ number[c] < MaxAttempts THEN "FAILED_RETRYABLE"
    ELSE "FAILED_TERMINAL"

\* Mutant: only failures of the adapter are recorded.
ResumeExceptMutant(c) ==
    /\ pc[c] \in {"except", "except_unstarted"} \/ (pc[c] = "raised" /\ op[c] = "resume")
    /\ seen' = [seen EXCEPT ![c] = status]
    /\ Goto(c, IF status = "EXECUTING" /\ pc[c] = "raised" THEN "fail" ELSE "finally")
    /\ UNCHANGED <<productVars, callers, request, crashes>>

\* The exception handler reads the row again ...
ResumeExcept(c) ==
    /\ pc[c] \in {"except", "except_unstarted"} \/ (pc[c] = "raised" /\ op[c] = "resume")
    /\ seen' = [seen EXCEPT ![c] = status]
    /\ Goto(c, IF status \notin {"EXECUTING", "VERIFYING"} THEN "finally"
               ELSE IF FailTarget(c) = "FAILED_RETRYABLE" THEN "fail_retryable" ELSE "fail")
    /\ UNCHANGED <<productVars, callers, request, crashes>>

\* ... and swaps from what it has read.
ResumeFail(c) ==
    \/ /\ pc[c] = "fail_retryable"
       /\ TransitionTo(c, "FAILED_RETRYABLE", "finally", "finally")
    \/ /\ pc[c] = "fail" /\ op[c] = "resume"
       /\ TransitionTo(c, "FAILED_TERMINAL", "close_failed", "finally")
    \/ /\ pc[c] = "fail_expired" \/ (pc[c] = "fail" /\ op[c] # "resume")
       /\ TransitionTo(c, "FAILED_TERMINAL", "close_failed", "return")

\* finally: revoke what was registered.
ResumeFinally(c) ==
    \/ RevokeGrant(c, "unfinished", "return")
    \/ number[c] \in granted /\ RevokeGrant(c, "finally", "return")
    \/ /\ pc[c] = "finally"
       /\ number[c] \notin granted
       /\ Return(c)
       /\ UNCHANGED <<productVars, request, crashes>>

ResumeStep(c) ==
    \/ ResumeStart(c)
    \/ ResumeChecks(c)
    \/ Queue(c)
    \/ pc[c] = "start" /\ TransitionTo(c, "EXECUTING", "register", "return")
    \/ RegisterGrant(c)
    \/ /\ pc[c] = "manifest" /\ op[c] = "resume"
       /\ TransitionTo(c, "VERIFYING", "accept", "except")
    \/ ResumeExcept(c)
    \/ ResumeFail(c)
    \/ RecordClosure(c, "close_failed", "FAILED_TERMINAL",
                     IF op[c] = "resume" THEN "finally" ELSE "return")
    \/ ResumeFinally(c)

----------------------------------------------------------------------------
(* _accept                                                                 *)

\* From the status the caller brought about or has read; losing the race to
\* another acceptance is success.
Accept(c) ==
    /\ pc[c] = "accept" \/ (pc[c] = "manifest" /\ op[c] # "resume")
    /\ \/ CanSwap(c, "ACCEPTED") /\ TransitionTo(c, "ACCEPTED", "close_accepted", "raised")
       \/ /\ ~CanSwap(c, "ACCEPTED")
          /\ Jump(c, IF op[c] # "resume" THEN "return"
                     ELSE IF status = "ACCEPTED" THEN "finally" ELSE "except")
          /\ UNCHANGED <<productVars, request, crashes>>

AcceptStep(c) ==
    \/ Accept(c)
    \/ RecordClosure(c, "close_accepted", "ACCEPTED", IF op[c] = "resume" THEN "finally" ELSE "return")

----------------------------------------------------------------------------
(* cancel                                                                  *)

CancelStart(c) ==
    /\ \/ status = "BLOCKED" /\ Enter(c, "cancel", "cancel_blocked")
       \/ status = "CANCELLING" /\ Enter(c, "cancel", "cancel_revoke")
       \/ /\ status \in {"PENDING_APPROVAL", "ADMITTED", "QUEUED", "EXECUTING", "VERIFYING",
                         "FAILED_RETRYABLE"}
          /\ Enter(c, "cancel", "cancel_swap")
    /\ ReadRow(c, GrantNumber)
    /\ UNCHANGED <<productVars, request, crashes>>

\* A finalizing product is finished instead of interrupted.
CancelProduct(c) ==
    /\ pc[c] = "cancel_product"
    /\ Goto(c, IF product_proofs = "finalizing" THEN "recover_finalizing" ELSE "interrupt")
    /\ UNCHANGED <<productVars, callers, request, seen, crashes>>

\* The state interrupt returns decides who won the race.
CancelInterrupted(c) ==
    /\ pc[c] = "interrupted" /\ op[c] = "cancel"
    /\ Goto(c, IF product_proofs = "accepted" THEN "accept" ELSE "cancel_close")
    /\ UNCHANGED <<productVars, callers, request, seen, crashes>>

CancelStep(c) ==
    \/ CancelStart(c)
    \/ pc[c] = "cancel_blocked" /\ TransitionTo(c, "CANCELLED", "close_cancelled", "return")
    \/ pc[c] = "cancel_swap" /\ TransitionTo(c, "CANCELLING", "cancel_revoke", "return")
    \/ RevokeGrant(c, "cancel_revoke", "cancel_product")
    \/ CancelProduct(c)
    \/ CancelInterrupted(c)
    \/ pc[c] = "cancel_close" /\ TransitionTo(c, "CANCELLED", "close_cancelled", "return")
    \/ RecordClosure(c, "close_cancelled", "CANCELLED", "return")

----------------------------------------------------------------------------
(* recover_stale and _reconcile_active                                     *)

\* recover_stale selects the active rows; the loop's body is this request's.
RecoverStart(c) ==
    /\ status \in Active
    /\ Enter(c, "recover", "product_state")
    /\ ReadRow(c, GrantNumber)
    /\ UNCHANGED <<productVars, request, crashes>>

\* adapter.state: finish what is finished, fail what failed, and interrupt
\* what is stale; resume also follows a product that was interrupted.
ProductState(c) ==
    /\ pc[c] = "product_state"
    /\ \/ product_proofs = "finalizing" /\ Jump(c, "recover_finalizing")
       \/ product_proofs = "accepted" /\ Jump(c, "accept")
       \/ product_proofs = "failed" /\ Jump(c, "fail")
       \/ product_proofs = "interrupted" /\ op[c] = "reconcile" /\ Jump(c, "interrupt_swap")
       \/ /\ product_proofs \in {"pending", "cancelled", "interrupted"}
          /\ op[c] = "reconcile" => product_proofs # "interrupted"
          /\ \E stale \in {"interrupt", "return"} : Jump(c, stale)
    /\ UNCHANGED <<productVars, request, crashes>>

RecoverStep(c) ==
    \/ RecoverStart(c)
    \/ ProductState(c)
    \/ op[c] \in {"recover", "reconcile"} /\ RevokeGrant(c, "interrupted", "interrupt_swap")
    \/ pc[c] = "interrupt_swap" /\ TransitionTo(c, "INTERRUPTED", "close_interrupted", "return")
    \/ RecordClosure(c, "close_interrupted", "INTERRUPTED", "return")

----------------------------------------------------------------------------

\* The process stops and is started again (between calls that is no event).
Crash ==
    /\ pc # Idle
    /\ crashes < MaxCrashes
    /\ crashes' = crashes + 1
    /\ pc' = Idle
    /\ op' = Idle
    /\ number' = [c \in Caller |-> 1]
    /\ seen' = [c \in Caller |-> "none"]
    /\ UNCHANGED <<productVars, request>>

CallerStep(c) ==
    \/ ProductStep(c) /\ UNCHANGED <<request, seen, crashes>>
    \/ DecisionStep(c)
    \/ ResumeStep(c)
    \/ AcceptStep(c)
    \/ CancelStep(c)
    \/ RecoverStep(c)
    \/ EndCall(c)

Next == Crash \/ \E c \in Caller : CallerStep(c)

Spec == Init /\ [][Next]_vars

----------------------------------------------------------------------------
(* Properties                                                              *)

\* Rows hold the values of their columns.
TypeOK ==
    /\ product_proofs \in {"none", "pending", "finalizing", "accepted", "failed", "cancelled",
                           "interrupted"}
    /\ product_proof_closure \in {"none", "accepted", "failed", "cancelled", "interrupted"}
    /\ jobs \in JobTerminal \union {"PENDING", "RUNNING", "VALIDATING"}
    /\ workflow \in WorkflowTerminal \union {"none", "ready", "video", "rendered", "delivering"}
    /\ lease \in {"none", "held"}
    /\ lease_json \in {"none", "stored"}
    /\ human_approval \in {"required", "not_required"}
    /\ decision \in {"none", "approved", "denied"}
    /\ governed_work \in {"none", "pending", "executed", "failed", "denied"}
    /\ granted \subseteq Attempts /\ revoked \subseteq Attempts /\ spent \subseteq Attempts
    /\ status \in Terminal \union Active \union
          {"none", "PENDING_APPROVAL", "ADMITTED", "BLOCKED", "QUEUED", "FAILED_RETRYABLE"}
    /\ attempt \in 0..MaxAttempts
    /\ execution_closure \in Terminal \union {"none"}
    /\ crashes \in 0..MaxCrashes

\* A product under acceptance is backed by the other stores: both tasks are
\* completed, the governed work was executed (a late denial may overwrite
\* that), the current attempt's grant was charged, no other closure exists.
FinishedIsProven ==
    product_proofs \in {"finalizing", "accepted"} =>
        /\ workflow = "completed"
        /\ governed_work \in {"executed", "denied"}
        /\ attempt \in spent
        /\ product_proof_closure \in {"none", product_proofs}

\* Whoever accepts a request - resume, a cancellation that lost, a recovery -
\* does so only once the product itself is accepted.
AcceptedIsFinished == status = "ACCEPTED" => product_proofs = "accepted"

\* Acceptance is backed by every store, in well-typed rows.
CoordinatorInv == TypeOK /\ FinishedIsProven /\ AcceptedIsFinished

\* However many threads swap the status, the first terminal one stays.
TerminalIsFinal == [][(status \in Terminal) => status' = status]_vars

\* The closures, written in a transaction after the status or next to it,
\* never contradict it.
ClosureMatches ==
    /\ execution_closure \in {"none", status}
    /\ product_proof_closure \in {"none", product_proofs}

\* While the process lives, calls that race and fail give everything back:
\* with no call under way no lease is held and no grant is open.
NothingLeaks ==
    crashes = 0 /\ pc = Idle => lease = "none" /\ granted \subseteq revoked

\* Nor do they leave the request running, or closed without its closure.
NothingHangs ==
    crashes = 0 /\ pc = Idle =>
        /\ status \notin {"QUEUED", "EXECUTING", "VERIFYING"}
        /\ status \in Terminal => execution_closure = status

\* Without a crash, calls that race and fail leave nothing behind: no lease, no
\* grant, no request that runs with nobody running it (resume, cancel).
NothingIsLeft == NothingLeaks /\ NothingHangs

\* For all its transactions, callers and crashes the request drives a single
\* product through the protocol ProductSaga states, which is what the
\* multi-capability coordinator (MultiExecution) relies on: charged before it
\* is finalized, never closed once it is finalizing, never reopened.
Saga == INSTANCE ProductSaga WITH
            Product <- {"request"},
            product <- [p \in {"request"} |-> product_proofs],
            charged <- {p \in {"request"} : spent # {}}

ImplementsSaga == Saga!SagaSpec

\* A cancelled request has no accepted product: "cancelled jobs fence late
\* results".
LateResultFenced == status = "CANCELLED" => product_proofs # "accepted"
=============================================================================
