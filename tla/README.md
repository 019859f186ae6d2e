# A TLA+ verification of the ILAIOS control plane

ILAIOS turns one authenticated goal into a governed execution and a verified product.  Its durable
state is a set of SQLite databases, one per store.  Every store opens a connection per call and is
used by the threads of several `ThreadingHTTPServer`s (`services/control_plane/server.py`,
`services/desktop_identity_server_core.py`, `apps/web_app_runtime/server.py`), by a thread per
resumed execution and by a timer that calls `recover_stale`.  There is no lock above the database:
what is atomic is one SQLite transaction, and a method that reads in one transaction and writes in
another can be overtaken in between (Python's `sqlite3` opens a transaction only at the first
write, so a read before it belongs to no transaction at all).  This project models the stores and
the coordinators that keep that state, one action per transaction, checks them with TLC and proves
with TLAPS the safety properties that the runs check.

## Inventory

| Component | Source | State | Operations | What makes it hard |
|---|---|---|---|---|
| Durable workflows | `services/control_plane/workflows.py` | workflows, tasks, attempts, terminations, closures, events, checkpoints, outbox, inbox | create, add_task, begin / complete / fail / timeout attempt, cancel, save_checkpoint, recover_expired_attempts, receive / acknowledge event | check-then-write methods; one closure and one termination whatever races |
| Worker scheduler | `services/runtime/durable_scheduler.py` | workers, leases, fences, effects | register, unregister, schedule, reschedule_expired, authorize, heartbeat, record_side_effect, release | expiry against late holders; fencing tokens; callers' clocks |
| Execution grants | `services/runtime/durable_grants.py` | grants, usage, revocations, kills | register, authorize_and_record, revoke, kill | budgets under concurrent charges; a stop that arrives first |
| Side-effect endpoint | `services/control_plane/server.py` | none of its own | authorize, reserve, record: three transactions in two stores | a revocation or a death in between |
| Governance gateway | `services/governance/runtime.py`, `gates.py` | governed work, approvals, ledger | submit, decide, authorize, execute, reconcile | decisions overturned during execution; hard cap |
| Video product runtime | `services/integrations/product_runtime.py`, `video_runtime.py` | product_proofs, closure; drives five stores | prepare, execute, interrupt, recover_finalizing | a saga over five databases, interrupted at any point |
| Execution coordinator | `services/execution_coordinator.py` | execution_requests, closure | prepare, decide, resume, cancel, recover_stale, reconcile | compare-and-swap races, crash recovery, retries |
| Multi-capability requests | `execution_coordinator.py` 1559-2480 | execution_steps, one product per step and attempt | the same calls over a DAG of steps | partial outcomes, deadlines, steps that outlive their parent |
| Control plane API | `services/control_plane/api.py` | goals, jobs, proposals, events | create, transition_job | read, validate, write without a transaction |
| Live state | `services/control_plane/live_state.py` | event log, snapshots, projections | publish, replay, reconcile, restore_snapshot | versions read outside the transaction; gaps, late and repeated batches |
| Evidence store | `services/evidence/store.py` | artifact files, hash chain | put_artifact, append_provenance, get_artifact, verify | file and row are not atomic; two threads write one file |
| Managed credits | `managed_credit_store.py`, `managed_provider_execution.py`, session and gateway (`src/video_automation/`) | credit account, authorizations, side-effect ledger, dispatch contexts | reserve, prepare, POST, record, settle, release, reconcile, poll | a paid call whose answer is lost; a process that stops around it |
| Publishing | `guarded_publishing.py`, `publication_ledger.py` (`src/video_automation/`) | side-effect row of a package | prepare, submitting, publish, published / ambiguous / failed | at most one post through races, lost answers and restarts |
| Commercial access | `commercial_access.py`, `identity_commercial_access.py`, `commercial_digital_goods.py`, `commercial_webhook.py` | bindings, grants, applied events, entitlements; products, orders, payment events, tokens | activate, reconcile, apply event; order, pay, refund, issue token, download | webhooks late, out of order and again; two transactions per event |
| Identity | `central_identity*.py`, `sqlite_central_identity.py`, `account_*_lifecycle.py`, `canonical_browser_session.py`, `email_auth.py` | accounts, links, sessions, entitlement, challenges | sign in, link, transfer, unlink, revoke, delete; issue, consume | checks made before the transaction; one-time secrets |

The remaining parts (HTTP parsing, classification of objectives, retrieval, factories, media tools,
agent catalogues, deployment, migrations, code analysis) keep no protocol state; see "Not
modelled".  PROJECT.json lists every component and every hazard at its line.

## Modules

Variables are tables or columns; a row that does not exist has status `"none"`.  A method under
`BEGIN IMMEDIATE` is one action; a method of several transactions is one action per transaction,
and what the caller has read in between is in a variable of the caller.  A rejected call is a
stuttering step, a crashed caller one that takes no further step.

* **`WorkflowStore`** - `add_task`, `save_checkpoint`, `timeout_attempt` and the loop of
  `recover_expired_attempts` are a check and a write (`adding`, `saving`, `expiring`, `sweep`).
* **`FencedTasks`** - the abstract promise of leases: a task is assigned under growing fences, and
  only the latest holder commits.
* **`WorkerScheduler`** - the scheduler's four tables.  `issued` remembers every lease ever handed
  out, so any old holder may come back at any time.  `MaxLag` is how old the `now` of a caller may
  be, `Zone` the UTC offsets callers write with.  It implements `FencedTasks`.
* **`GrantPolicy`** and **`SideEffects`** - the grant tables, and the HTTP handler that composes
  them with `WorkerScheduler`: `HandlerAuthorize`, `HandlerReserve`, `HandlerRecord` are its three
  transactions; `HandlerDies` ends it anywhere.
* **`GovernanceGateway`** - work requests, decisions and the ledger; `decide` and `execute` are
  sequences of transactions with any number of callers per request.
* **`ProductRuntime`** - the saga of one video product.  `pc[c]` names the next transaction of
  caller `c`; `execute`, its failure path and `finally`, `recover_finalizing` and `interrupt` are
  sequences of such steps.  The five stores it drives appear with the states it distinguishes.
  `transition_job` is a read and an unconditional write, as in `api.py`.
* **`ExecutionCoordinator`** - extends `ProductRuntime` with `execution_requests`: every call of
  one single-capability request, the compare-and-swap of `_transition`, `_fail` and `_accept`
  (`TransitionTo`, against the status the caller has `seen`), and a `Crash` that ends all threads
  and keeps all stores.
* **`ProductSaga`** - the abstract protocol of products: charged before finalized, never closed once
  finalizing, never reopened.  `ExecutionCoordinator` implements it (`ImplementsSaga`).
* **`MultiExecution`** - requests with several capabilities.  The products of its steps are the
  products of `ProductSaga`: instead of repeating the saga's transactions the module uses their
  abstraction, which is what the refinement is for.  Preparing, deciding, resuming, cancelling and
  recovering the parent walk the steps one transaction at a time (`todo` holds the rows of the walk
  that are left, as they were when it began);
  a step that is prepared again gets a new product.
* **`LiveState`**, **`EvidenceStore`**, **`Subscriptions`**, **`DigitalOrders`**, **`Accounts`**,
  **`EmailChallenges`**, **`Publications`** - one store each, with its callers.  They share no
  table, so `MCStores` puts them side by side: its variable `store` names the one that moves.
* **`ManagedCredits`** - the credit account, the authorizations, the side-effect ledger and the
  session that pays a provider and polls its jobs.
* **`WorkflowStoreProofs`**, **`WorkerSchedulerProofs`**, **`SideEffectsProofs`**,
  **`GovernanceGatewayProofs`**, **`ExecutionCoordinatorProofs`**, **`MultiExecutionProofs`**,
  **`CommerceProofs`** (credits, subscriptions, orders), **`StoresProofs`** (live state, evidence,
  challenges, publications, accounts) - theorems.  **`MC*`** - instances for TLC.

A run's invariant whose name ends in `Inv`, and `EndsOnce`, `ClosedWhenDone`, `NothingIsLeft` and
the like, are conjunctions of named parts, each stated where it is defined.  Definitions whose name
ends in `Mutant` are deliberate faults of the definition that follows them.  They are used by
nothing; substituting one for its original must break the property PROJECT.json pairs it with.

## Runs

| Run | Instance | Result |
|---|---|---|
| `workflow_store` | one workflow, two sibling tasks, up to 2 attempts, 2 instants | tasks agree with their attempts; one end per attempt and workflow; closed exactly when done; compensations exact; terminal states final |
| `workflow_sweep` | two workflows, one sweeper, weak fairness of the sweep | the sweep races every caller, times nothing out early, and returns |
| `worker_scheduler` | 2 workers, 2 tasks, 2 fences each, 3 instants | fences identify holders, late holders never commit, quotas hold, `FencedTasks` is implemented |
| `side_effects` | 1 worker, 2 tasks, 2 grants, 2 handlers | every effect was granted and charged, budgets hold, a stop is final |
| `governance_gateway` | 3 requests, cap for 2 | the cap holds, nothing runs twice or undecided, ledger and outcome agree |
| `execution_coordinator` | 3 threads, 2 attempts, 1 crash | acceptance is backed by every store; terminal states and closures stand; without a crash nothing is left behind; `ProductSaga` is implemented |
| `execution_late_result` | 2 threads | *violation*: a request becomes CANCELLED and its product accepted |
| `multi_execution` | 2 dependent steps, 2 threads, 1 repeated preparation, 1 crash | dependencies first; ACCEPTED, PARTIAL and CANCELLED are what the steps say; accepted steps and terminal states stand; no grant stays open |
| `multi_recovery` | the same with the timer's thread, fair | recovery closes every active request |
| `stores` | 2 or 3 callers of each of seven stores | see below |
| `subscription_reactivated` | the subscription store | *violation*: a cancelled subscription ends with an active entitlement |
| `managed_credits` | 2 requests, 2 threads, 1 crash | credits are conserved; a POST is repeated only after a recorded failure; jobs have traces, proven costs settlements |

What `stores` shows, store by store.  *Live state*: versions of an aggregate are dense in log order
although they are read outside the transaction (the primary key refuses the loser); a projection is
a prefix of the log until it restores a snapshot, and even then never steps over an event of an
aggregate it holds.  *Evidence*: the chain is unbroken and names stored artifacts; two threads that
store the same content may empty each other's file, but once no write is under way `verify`
succeeds - unless a write failed or a process died, after which the artifact stays damaged and its
content is refused for ever.  *Subscriptions*: a binding is what its latest event says; an
entitlement is the projection of applied events; an active one has a trusted grant.  *Orders*: a
revocation wins over any replay of the payment, usable tokens follow paid orders, and no download is
authorized for a revoked order.  *Accounts*: whatever links, transfers and unlinks race, no enabled
account is without a sign-in method.  *Challenges*: the rate limit is passed by at most one
challenge per other thread, and a challenge signs one caller in.  *Publications*: the platform is
called at most once for a package, after the call was recorded.

### Disagreements

The two violation runs are disagreements between the code and a line of its own documentation,
quoted in the "findings" of PROJECT.json.

`interrupt` looks at the product once and then closes lease, workflow and job one by one.  If the
executor passes its point of no return (`finalizing`) in between, the cancellation reports CANCELLED
for a product that is then accepted (`execution_late_result`).  `activate_from_trusted_grant` applies
an event and writes the entitlement in two transactions; a cancellation passes in between
(`subscription_reactivated`).

Other behaviour of the code that the models contain, and that keeps some stronger property from
being stated:

* `add_task` may add a task to a workflow that closed after its check; an attempt that ends while
  `recover_expired_attempts` walks its list makes the sweep raise and leave later ones running;
* an effect that was reserved before its grant was revoked is recorded after it; work denied after
  the gate read its approval still runs;
* a crash in the middle of the cancellation described above leaves a finalizing product with a
  cancelled job, which `recover_finalizing` refuses at every later attempt; `recover_stale` lets
  that exception out, so that the rows after it are not recovered either;
* multi-capability requests: a step may start after its parent was closed by the deadline; a
  recovery past the deadline fails the parent while a child is finalizing; a stale request whose
  parent may not move to INTERRUPTED makes `_interrupt_multi` raise out of `recover_stale`; of
  two callers that prepare a request at once, the slower one may reach the exception handler of
  `_continue_multi_prepare`, whose `UPDATE` has no guard on the status, when the other's step is
  under way or even accepted, and fails it.  What is said of the steps' rows is therefore checked and
  proved for one preparing thread (`OnePreparer`);
* an error status, or an answer without a job id, is recorded as FAILED although the provider may
  have created the job; a thread that passed the history check earlier dispatches again, so that a
  request may have two paid jobs ("Execute at most one paid POST" holds per recorded failure);
* two users who transfer each other's identity at once disable both accounts; nobody can then sign
  in to either (`EnabledHasSignIn` speaks of enabled accounts only).

### Bounds

Two of everything that can be confused (tasks, workers, grants, handlers, attempts, requests), one
crash and two or three instants are what the hazards need: a late holder needs one reassignment (two
fences), a retry two attempts, a race at a limit two callers and room for one, a race around a race
three callers (the writers of the evidence store, the posters).  The roles of the coordinator's
threads (`Roles`) let execution, cancellation, recovery and a crash race; approvals that race
denials are the subject of `governance_gateway`.  Named bounds in guards: `MaxTime`, `MaxDay`,
`MaxFence`, `MaxEvents`, `MaxRecords`, `MaxFaults`, `MaxDownloads`, `MaxJobs`, `MaxPosts`,
`MaxPrepare`, `MaxCrashes`.  A bound on calls to the outside (`MaxJobs`, `MaxPosts`) is above what
the property allows, so that a second call is visible.  `WorkerQuota` is checked for callers whose
clocks agree (`MaxLag = 0`) and who write UTC; it is not true otherwise, as the hazards say.
Deadlock is not checked where a system may rightly stop: a closed workflow, a terminal request, a
store at its bound.

### Fairness

`WorkflowStore!FairSpec`: a sweeper that has begun goes on - it is a loop without waiting.
`MultiExecution!FairSpec`: threads go on and the clock passes the deadline (weak); the timer of
`desktop_identity_server_core.py` calls `recover_stale` again and again (strong on `RecoverStart`,
because the thread is busy in between), and since the row's `updated_at` does not move while
nothing else happens to it, the request is found stale in the end (strong on `FoundStale`).

## Proofs

`WorkflowStoreProofs` proves, for every set of workflows, tasks and sweepers, every budget and every
time bound, all invariants of the store, and that terminal states are final.
The inductive invariant `StoreInv` is the conjunction of the invariants and of `CallersAreRight`:
what a suspended caller has read (an attempt is running, its deadline has passed) stays true or
makes its write a no-op.  Without it the timeout's second transaction cannot be shown to respect
the deadline.  The proof goes by `StepCases`, one case per transaction, and under each one step per
conjunct the transaction disturbs.

`WorkerSchedulerProofs` proves for any workers, tasks, durations, clock lags and offsets: type
correctness; a lease row is its task's only one and carries the latest fence; a fence belongs to
one worker; leased workers stay registered; only the latest holder commits, in fence order; and the
scheduler implements `FencedTasks`.  The strengthening (`SchedulerInv`) adds `FencesBounded`: no
token exceeds its task's fence, which makes the next one fresh.

Its last theorem, `QuotasHold`, says that no worker runs more leases than its quota.  It alone assumes
what the module leaves open: that the callers' clocks are the true one (`MaxLag = 0`) and that all of
them write their times with one offset.  Both are needed, and neither is enforced by the code: a late
heartbeat revives a lease whose place was given away, and the quota query compares ISO text.

`SideEffectsProofs` extends the scheduler's invariant to the handler that charges a grant before it
records an effect.  `EffectsInv` adds what a handler between its transactions can rely on
(`RequestsAreReal`): it serves a lease that was handed out, and once the grant is charged, that grant
covers the lease's holder and task, whatever was revoked since.  That effects are paid for is a
statement about two totals.  Totals are counted here as cardinalities of sets of units
(`UnitsCharged`, one element per unit of a grant), which the theorems on finite sets can add up: effects
on record and handlers that have charged and not recorded together are never more than the units.

`GovernanceGatewayProofs` proves, for any requests, prices and cap and any number of callers, that
nothing runs twice, unreserved or undecided, that the cap holds, and that ledger and outcome agree.
`GatesInv` adds `CallersKnow` (what passed a check in an earlier transaction: somebody has decided,
even if the decision is overturned later) and `StageMatches` (the progress of the one executor
determines ledger row, run and outcome).  The cap, too, is a count of units (`UnitsInUse`).

`ExecutionCoordinatorProofs` proves all invariants of the coordinator and the video runtime, that
terminal states stay, and the refinement of `ProductSaga`, for any threads, roles, retries and crashes.
`RequestInv` has two halves.  `SafeInv` and `SeenInv` hold through crashes: closures are those of the
rows (`RowsInv`), one thread creates the product and one runs the current attempt (`OneOfEach`), and
that thread knows what it has done so far by its label (`OwnerInv`, `FinisherInv`), with what a status
once seen says of the status now.  `HandsInv` holds until the first crash: whatever is open - a lease, a
grant, a queued, executing or verifying request, a closure not yet written - is in the hands of a
thread that will deal with it.  Its hard part is `CancelledUnder`: a job may be cancelled under a
product that is being finished, and then the thread that did so is about to interrupt the request.
There are some eighty transactions and as many clauses, so the proof does not multiply them: each
transaction is shown once to be in a few tables (`StatusTable`, `ProductTable`, `StoresTable`,
`OwnerTable`, `LeaveTable`, `SeenTable`...: who may change a row, from what, and at which label that
leaves the thread), and the clauses are shown from the tables.

`MultiExecutionProofs` proves the properties of multi-capability requests for any plan, threads, roles,
preparations and crashes, again by tables, one lemma per call.  `RequestInv` says what holds of the
parent and its grants: closures are those of the status, and until the first crash an open grant is in
the hands of the thread that runs its step (`GrantsInv`).  `StepRowsInv` is about the rows:

* `PhaseInv`: while a request is prepared nothing else goes on with it, and until it is admitted
  nothing is executed;
* `RowsInv`: the rows a loop has read name the child their step still has, however old they are;
* `RunnersInv`: one thread at most has claimed a step, and only that thread can finalize its child, so
  that a step about to be failed cannot have been accepted behind the thread's back;
* `KnownInv`: what a label means - dependencies that were accepted when the row was looked at still
  are, and a cancellation that has passed its loop has left every step accepted or closed;
* `StepsInv`: the outcome, as the steps say, and the order of the steps.

The first of these needs `OnePreparer`, the assumption on the roles explained above, and the others rest
on it; the runs' roles satisfy it.  That the parent's terminal status and its closure stand
(`ParentStands`) and that no grant leaks (`GrantsAreRevoked`) is proved without it.

`StoresProofs`, for any threads, clients, records, packages, identities and faults:

* *Live state.*  `LogInv`: what a publisher has read of a version may be old but is never ahead, every
  version up to the row's is in the log, and the versions of an aggregate rise with their positions.
  With it a batch that passes the contiguity check of `reconcile` continues the projection
  (`ViewsInv`), so that nothing is stepped over even after a snapshot was restored.
* *Evidence.*  `StoreInv`: who inserts a record holds the write lock and has read the end of the chain;
  what is about to be recorded was stored; and without a fault a file that is cut short is being
  written by somebody.
* *Challenges.*  The rate limit is inductive only with `PlacesTaken`: every thread that has counted and
  not yet inserted already takes a challenge's place.
* *Publications.*  `PublicationInv` adds that a package some thread is publishing is SUBMITTING
  (`SubmitterHolds`) and has one such thread (`OneSubmitter`), that a thread before its call finds none
  made (`FirstCall`), and that a thread that was told of a post has one (`ToldTruth`).  A process stop
  removes the threads and leaves the row SUBMITTING, from which nothing leads to another call.
* *Accounts.*  `SignInsInv` adds to `EnabledHasSignIn` that an identity is linked to one account at
  most, that links, sessions and entitlements belong to accounts that exist, and what each thread has
  read (`HandlerHolds`): the accounts it names exist, although they may have been disabled since.

`CommerceProofs`, for any requests, threads, quotes, costs, events, grants, orders and tokens:

* *Managed credits.*  `CreditInv` relates the ledger to the threads: a request some thread is posting is
  SUBMITTING, or COMPLETED by somebody who found the job (`BusyIsSubmitting`), and has one such thread
  (`OneBusy`); before its call every earlier POST was rejected (`BeforePost`, and `BeforeDispatch` for
  a row that is absent or FAILED); a thread past the reservation has its authorization
  (`PastReserve`), one that was told of a job has one (`ToldOfJob`); jobs come from POSTs and bills
  from jobs.  `MoneyInv` is the account: what is not available is on hold or was paid, counted in units.
  `PollInv` is the session: what it calls proven is what the ledger settled for that very job, because
  a settlement is never changed (`SettledStands`).
* *Subscriptions.*  `BillingInv`: the binding is what its latest event says (`BindingsInv`), the
  entitlement was written once for each projected event (`EntitledInv`), and an activation under way
  holds a grant of its subscription whose period its event belongs to (`ServerHolds`), without which an
  active entitlement could not be traced to a trusted grant.
* *Orders.*  `OrdersInv` is inductive as it stands - revocations win, usable tokens follow paid orders,
  paid orders were paid for - and no download is authorized for a revoked order.

The assumptions are those the modules state on their constants: `WorkflowOf` maps tasks to
workflows, workers are ordered (`schedule` picks the least), bounds are naturals, the lease
duration, the attempt budget, the lifetime of a token and the number of days are positive.

Only model-checked: liveness (`SweepReturns`, `RecoveryCloses`), because TLAPS has no fairness or
`ENABLED` reasoning here.  What a recursive definition computes for every input could not be
proved (induction over data needs theorems with operator parameters); no module defines one.

## Abstractions

Payloads, reasons, tokens, timestamps that are only recorded, and evidence rows written after a
transition (`_record_evidence`) are left out.  Identity checks that only reject are stuttering.

* `ProductRuntime`: a job that is read twice in a row with the same consequences is read once; goal,
  job, proposal and worker rows of `prepare` are private to the request and appear with its
  workflow; scheduler and workflow failures beyond those of their own modules are one
  nondeterministic refusal.  Whether a deadline has passed or a row is stale is left open, since an
  execution takes arbitrarily long.  `BLOCKED` requests have no product.
* `EvidenceStore`: SHA-256 is injective, so that a digest stands for its content; `write_bytes` is
  an open that empties the file and a write that fills it.
* `ManagedCredits`: one account, as a session has; what the provider does with a POST and what the
  caller learns of it are independent choices.
* `Subscriptions`: one user and tenant; an event is its subscription, type and time.
* `Accounts`: an account has a tenant of its own; reads that nothing can invalidate are merged with
  the step after them (nothing re-enables an account).
* `EmailChallenges`: one address; addresses share nothing.
* `Publications`: a package is immutable and its id stands for its content; the checks on it pass
  for every call or for none.

## Not modelled

* Content: the factories, media engines, prompts, series planning and document generators under
  `src/video_automation`, `services/*factory*.py`, `services/knowledge_*.py` and
  `services/code_intelligence.py` are most of the repository's lines.  They are pure functions on
  text and media or calls of external tools; their correctness is about data this project abstracts.
* The web, app, software and document product runtimes follow the saga of `ProductRuntime` with
  other content.
* HTTP parsing and dispatch, desktop and web user interfaces, OAuth and OIDC exchanges, signatures
  and encryption: what they let through are the inputs of the models.
* Provider job polling (`generation_job_polling.py`, `generation_execution_tracking.py`) normalises
  answers over immutable values; the state it leads to is in `ManagedCredits`.
* Deployment, backup, migrations, agent catalogues and operational reports: file copies, static
  tables and one-time schema changes.
* Tenants with several members (invitations, departures) and the administrator's direct entitlement.

For this reason the mapped lines are a small share of the repository, although every store
that several callers change concurrently and that the coordinators rely on has its module.

## Plan

Every invariant and action property that a run checks is stated by a theorem.  What is left is
narrower: which parts of `RecoveryCloses` have a safety core worth proving (a request that recovery has
found stale is left by that call only in a terminal state, or by an exception), and the stores that are
modelled in part - tenants with several members, and the control plane's jobs as a store of their own.
