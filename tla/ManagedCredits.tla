--------------------------- MODULE ManagedCredits ---------------------------
(***************************************************************************)
(* Paid provider work: the credit account and its authorizations and the   *)
(* side-effect ledger of managed_credit_store.py, the gateway and the      *)
(* coordinator that reserve credits and make the paid POST, and the        *)
(* session that polls the provider's jobs and settles them.  Threads may   *)
(* submit the same request, the provider may lose answers or break off,    *)
(* and the process may stop between any two steps: the tables survive,     *)
(* the threads and the session's dispatch contexts do not.                 *)
(*                                                                         *)
(* One account, as the session has; accounts share nothing.  A request     *)
(* has at most MaxJobs jobs at the provider, named <<request, n>>.         *)
(***************************************************************************)
EXTENDS Integers, FiniteSets

CONSTANTS Request,    \* request ids
          Thread,     \* threads of the session
          Balance,    \* credits the account is seeded with
          Quote,      \* maximum costs a quote may name
          Cost,       \* costs the provider may report
          MaxJobs,    \* bound on the POSTs of a request
          MaxCrashes  \* bound on process stops

ASSUME CreditsAssumption ==
    /\ Balance \in Nat
    /\ Quote \subseteq Nat \ {0}
    /\ Cost \subseteq Nat
    /\ MaxJobs \in Nat \ {0}
    /\ MaxCrashes \in Nat

VARIABLES
    available, reserved,  \* credit_accounts
    auth,      \* state of a request's row in credit_authorizations, or "none"
    hold,      \* its reserved_microusd
    paid,      \* its actual_cost_microusd
    payee,     \* its provider_job_id: the n of the job, 0 for none
    effect,    \* submission_state of its row in provider_side_effects, or "none"
    pc,        \* where a thread is
    work,      \* the <<request, quote, n>> it serves, in a set
    contexts,  \* jobs of the session's _contexts
    proven,    \* those whose actual cost is recorded
    posts,     \* POSTs made for a request
    rejects,   \* how often a POST of it was recorded as failed
    jobs,      \* jobs the provider has created for it
    billed,    \* finished jobs: a set of <<request, n, cost>>
    crashes

accountTables == <<available, reserved, auth, hold, paid, payee>>
session       == <<pc, work, contexts, proven>>
provider      == <<posts, rejects, jobs, billed>>
creditVars    == <<accountTables, effect, session, provider, crashes>>

AuthStates   == {"none", "RESERVED", "SETTLED", "RELEASED", "COST_POLICY_VIOLATION"}
EffectStates == {"none", "SUBMITTING", "ACCEPTED", "AMBIGUOUS", "FAILED", "COMPLETED"}
Steps        == {"idle", "reserve", "authorized", "prepare", "post", "accepted", "ambiguous",
                 "failed", "context", "settled"}

Job  == Request \X (1..MaxJobs)
Work == Request \X (Quote \union {0}) \X (0..MaxJobs)

TypeOK ==
    /\ available \in Nat /\ reserved \in Nat
    /\ auth \in [Request -> AuthStates]
    /\ hold \in [Request -> Quote \union {0}]
    /\ paid \in [Request -> Cost \union {0}]
    /\ payee \in [Request -> 0..MaxJobs]
    /\ effect \in [Request -> EffectStates]
    /\ pc \in [Thread -> Steps]
    /\ work \in [Thread -> SUBSET Work]
    /\ \A t \in Thread : pc[t] = "idle" <=> work[t] = {}
    /\ contexts \subseteq Job /\ proven \subseteq contexts
    /\ posts \in [Request -> 0..MaxJobs] /\ rejects \in [Request -> Nat]
    /\ jobs \in [Request -> 0..MaxJobs]
    /\ billed \subseteq Job \X Cost
    /\ crashes \in 0..MaxCrashes

\* The store as seed_account leaves it on the first start.
Init ==
    /\ available = Balance /\ reserved = 0
    /\ auth = [r \in Request |-> "none"]
    /\ hold = [r \in Request |-> 0]
    /\ paid = [r \in Request |-> 0]
    /\ payee = [r \in Request |-> 0]
    /\ effect = [r \in Request |-> "none"]
    /\ pc = [t \in Thread |-> "idle"]
    /\ work = [t \in Thread |-> {}]
    /\ contexts = {} /\ proven = {}
    /\ posts = [r \in Request |-> 0]
    /\ rejects = [r \in Request |-> 0]
    /\ jobs = [r \in Request |-> 0]
    /\ billed = {}
    /\ crashes = 0

Goto(t, step) == pc' = [pc EXCEPT ![t] = step]

\* The thread's call returns or raises.
Done(t) ==
    /\ Goto(t, "idle")
    /\ work' = [work EXCEPT ![t] = {}]

-----------------------------------------------------------------------------
(* submit *)

\* The gateway's look at the side-effect history of the request.
SubmitCheck(t, r, q) ==
    /\ pc[t] = "idle"
    /\ effect[r] = "none"
    /\ Goto(t, "reserve")
    /\ work' = [work EXCEPT ![t] = {<<r, q, 0>>}]
    /\ UNCHANGED <<accountTables, effect, contexts, proven, provider, crashes>>

\* An account that may be overdrawn by what is already on hold.
CoversMutant(q) == available + reserved >= q

\* The test of ManagedCreditAuthorizer.authorize.
Covers(q) == available >= q

\* reserve finds no authorization of the request.
New(r) == auth[r] = "none"

\* reserve, in one transaction: a new hold, the one the request already has if
\* the terms are the same, or an error.
SubmitReserve(t, r, q) ==
    /\ pc[t] = "reserve"
    /\ \/ /\ New(r) /\ Covers(q)
          /\ available' = available - q
          /\ reserved' = reserved + q
          /\ auth' = [auth EXCEPT ![r] = "RESERVED"]
          /\ hold' = [hold EXCEPT ![r] = q]
          /\ Goto(t, "authorized")
          /\ UNCHANGED <<paid, payee, work>>
       \/ /\ ~New(r) /\ hold[r] = q
          /\ Goto(t, "authorized")
          /\ UNCHANGED <<accountTables, work>>
       \/ /\ IF New(r) THEN ~Covers(q) ELSE hold[r] # q
          /\ Done(t)
          /\ UNCHANGED accountTables
    /\ UNCHANGED <<effect, contexts, proven, provider, crashes>>

\* prepare reads the authorization before its own transaction.
PrepareRead(t, r) ==
    /\ pc[t] = "authorized"
    /\ \/ auth[r] = "RESERVED" /\ Goto(t, "prepare") /\ UNCHANGED work
       \/ auth[r] # "RESERVED" /\ Done(t)
    /\ UNCHANGED <<accountTables, effect, contexts, proven, provider, crashes>>

\* A ledger that lets an unanswered submission be repeated.
DispatchableMutant(r) == effect[r] \in {"none", "FAILED", "AMBIGUOUS", "SUBMITTING"}

\* The states from which prepare lets a request be dispatched.
Dispatchable(r) == effect[r] \in {"none", "FAILED"}

\* A coordinator that records the submission only with its outcome.
SubmittingMutant(r) == UNCHANGED effect

Submitting(r) == effect' = [effect EXCEPT ![r] = "SUBMITTING"]

PrepareWrite(t, r) ==
    /\ pc[t] = "prepare"
    /\ \/ Dispatchable(r) /\ Submitting(r) /\ Goto(t, "post") /\ UNCHANGED work
       \/ ~Dispatchable(r) /\ Done(t) /\ UNCHANGED effect
    /\ UNCHANGED <<accountTables, contexts, proven, provider, crashes>>

\* The provider creates a job and says so, or the answer is lost on the way
\* ("transport_error"), or it is an error status or lacks the job id, which
\* the coordinator takes for a failure.
PostCreates(t, r, q) ==
    /\ pc[t] = "post"
    /\ posts[r] < MaxJobs
    /\ posts' = [posts EXCEPT ![r] = @ + 1]
    /\ jobs' = [jobs EXCEPT ![r] = @ + 1]
    /\ \E answer \in {"accepted", "ambiguous", "failed"} : Goto(t, answer)
    /\ work' = [work EXCEPT ![t] = {<<r, q, jobs[r] + 1>>}]
    /\ UNCHANGED <<accountTables, effect, contexts, proven, rejects, billed, crashes>>

\* The provider creates no job: it refuses, or cannot be reached.
PostRefused(t, r) ==
    /\ pc[t] = "post"
    /\ posts[r] < MaxJobs
    /\ posts' = [posts EXCEPT ![r] = @ + 1]
    /\ \E answer \in {"ambiguous", "failed"} : Goto(t, answer)
    /\ UNCHANGED <<accountTables, effect, work, contexts, proven, rejects, jobs, billed, crashes>>

\* A coordinator that takes a lost answer for an accepted job.
OutcomeMutant(step) == IF step = "failed" THEN "FAILED" ELSE "ACCEPTED"

\* The state execute records for each answer.
Outcome(step) ==
    CASE step = "accepted"  -> "ACCEPTED"
      [] step = "ambiguous" -> "AMBIGUOUS"
      [] step = "failed"    -> "FAILED"

\* The ledger's accepted, ambiguous or failed; only an accepted job goes on
\* to the session.
RecordOutcome(t, r) ==
    /\ pc[t] \in {"accepted", "ambiguous", "failed"}
    /\ effect' = [effect EXCEPT ![r] = Outcome(pc[t])]
    /\ rejects' = [rejects EXCEPT ![r] = IF pc[t] = "failed" THEN @ + 1 ELSE @]
    /\ IF pc[t] = "accepted" THEN Goto(t, "context") /\ UNCHANGED work ELSE Done(t)
    /\ UNCHANGED <<accountTables, contexts, proven, posts, jobs, billed, crashes>>

\* The session keeps the dispatch context of the job.
KeepContext(t, r, n) ==
    /\ pc[t] = "context"
    /\ contexts' = contexts \union {<<r, n>>}
    /\ Done(t)
    /\ UNCHANGED <<accountTables, effect, proven, provider, crashes>>

-----------------------------------------------------------------------------
(* settle, release and reconcile *)

\* A settlement that gives back what was spent.
GivenBackMutant(r, cost) == available' = available + cost

\* What a settlement returns to the account.
GivenBack(r, cost) == available' = available + (hold[r] - cost)

\* Only a reserved authorization is settled or released.
Open(r) == auth[r] = "RESERVED"

\* settle of an authorization that is still open: a cost above the hold keeps
\* the hold and raises.
SettleOpen(r, n, cost) ==
    /\ Open(r)
    /\ paid' = [paid EXCEPT ![r] = cost]
    /\ payee' = [payee EXCEPT ![r] = n]
    /\ \/ /\ cost > hold[r]
          /\ auth' = [auth EXCEPT ![r] = "COST_POLICY_VIOLATION"]
          /\ UNCHANGED <<available, reserved>>
       \/ /\ cost <= hold[r]
          /\ auth' = [auth EXCEPT ![r] = "SETTLED"]
          /\ GivenBack(r, cost)
          /\ reserved' = reserved - hold[r]
    /\ UNCHANGED hold

\* A settlement that answers a repeated call without comparing it.
SettledAlikeMutant(r, n, cost) == auth[r] = "SETTLED"

\* The settlement the store already has, which settle returns again.
SettledAlike(r, n, cost) == auth[r] = "SETTLED" /\ paid[r] = cost /\ payee[r] = n

\* settle_provider_spend, by whoever knows the bill.
SettleSpend(r, n, cost) ==
    /\ <<<<r, n>>, cost>> \in billed
    /\ SettleOpen(r, n, cost)
    /\ UNCHANGED <<effect, session, provider, crashes>>

\* release_provider_spend, which does not ask the side-effect ledger.
Release(r) ==
    /\ Open(r)
    /\ available' = available + hold[r]
    /\ reserved' = reserved - hold[r]
    /\ auth' = [auth EXCEPT ![r] = "RELEASED"]
    /\ UNCHANGED <<hold, paid, payee, effect, session, provider, crashes>>

\* The ledger's reconcile, once somebody has found the job at the provider.
Reconcile(r) ==
    /\ jobs[r] > 0
    /\ effect[r] = "AMBIGUOUS"
    /\ effect' = [effect EXCEPT ![r] = "ACCEPTED"]
    /\ UNCHANGED <<accountTables, session, provider, crashes>>

\* The ledger's complete, with the evidence of a finished job, from any state.
Complete(r) ==
    /\ effect[r] # "none"
    /\ \E b \in billed : b[1][1] = r
    /\ effect' = [effect EXCEPT ![r] = "COMPLETED"]
    /\ UNCHANGED <<accountTables, session, provider, crashes>>

\* poll of a terminal job that has a context: settle, or an error from it.
PollSettle(t, r, n, cost) ==
    /\ pc[t] = "idle"
    /\ <<r, n>> \in contexts \ proven
    /\ <<<<r, n>>, cost>> \in billed
    /\ \/ /\ SettleOpen(r, n, cost)
          /\ IF cost > hold[r]
             THEN UNCHANGED <<pc, work>>
             ELSE Goto(t, "settled") /\ work' = [work EXCEPT ![t] = {<<r, 0, n>>}]
       \/ /\ SettledAlike(r, n, cost)
          /\ Goto(t, "settled")
          /\ work' = [work EXCEPT ![t] = {<<r, 0, n>>}]
          /\ UNCHANGED accountTables
    /\ UNCHANGED <<effect, contexts, proven, provider, crashes>>

\* poll records the actual cost in the context and reports it as proven.
PollRecord(t, r, n) ==
    /\ pc[t] = "settled"
    /\ proven' = proven \union {<<r, n>>}
    /\ Done(t)
    /\ UNCHANGED <<accountTables, effect, contexts, provider, crashes>>

-----------------------------------------------------------------------------
(* The environment *)

\* The provider finishes a job and names its price.
ProviderFinishes(r, n, cost) ==
    /\ n <= jobs[r]
    /\ \A c \in Cost : <<<<r, n>>, c>> \notin billed
    /\ billed' = billed \union {<<<<r, n>>, cost>>}
    /\ UNCHANGED <<accountTables, effect, session, posts, rejects, jobs, crashes>>

Crash ==
    /\ crashes < MaxCrashes
    /\ crashes' = crashes + 1
    /\ pc' = [t \in Thread |-> "idle"]
    /\ work' = [t \in Thread |-> {}]
    /\ contexts' = {} /\ proven' = {}
    /\ UNCHANGED <<accountTables, effect, provider>>

ThreadStep(t) ==
    \E w \in work[t] :
        \/ SubmitReserve(t, w[1], w[2]) \/ PrepareRead(t, w[1]) \/ PrepareWrite(t, w[1])
        \/ PostCreates(t, w[1], w[2]) \/ PostRefused(t, w[1]) \/ RecordOutcome(t, w[1])
        \/ KeepContext(t, w[1], w[3]) \/ PollRecord(t, w[1], w[3])

Next ==
    \/ \E t \in Thread : ThreadStep(t)
    \/ \E t \in Thread, r \in Request, q \in Quote : SubmitCheck(t, r, q)
    \/ \E t \in Thread, r \in Request, n \in 1..MaxJobs, c \in Cost : PollSettle(t, r, n, c)
    \/ \E r \in Request, n \in 1..MaxJobs, c \in Cost : SettleSpend(r, n, c) \/ ProviderFinishes(r, n, c)
    \/ \E r \in Request : Release(r) \/ Reconcile(r) \/ Complete(r)
    \/ Crash

Spec == Init /\ [][Next]_creditVars

-----------------------------------------------------------------------------
(* Properties *)

In(states) == {r \in Request : auth[r] \in states}

\* The units of amount[r] credits for each request r of a set, told apart:
\* there are as many as the amounts add up to.
Units(amount, requests) == UNION {{r} \X (1..amount[r]) : r \in requests}

Held  == Units(hold, In({"RESERVED", "COST_POLICY_VIOLATION"}))
Spent == Units(paid, In({"SETTLED"}))

\* No credit is made or lost: what is not available is on hold for an open
\* request (or one whose provider overcharged) or was paid to a provider,
\* through every race of reserve, settle and release.
CreditsConserved ==
    /\ reserved = Cardinality(Held)
    /\ available + reserved + Cardinality(Spent) = Balance

\* A second POST for a request follows only a recorded failure of the one
\* before: never while one is under way, unanswered, ambiguous or accepted,
\* and never because the process restarted (prepare).
RepostOnlyAfterReject == \A r \in Request : posts[r] <= rejects[r] + 1

\* A paid job never exists without a durable trace: its authorization and its
\* side-effect row were written before the POST (execute).
JobHasTrace == \A r \in Request : jobs[r] > 0 => auth[r] # "none" /\ effect[r] # "none"

\* The ledger never knows of a job the provider does not have: accepted,
\* reconciled and completed rows have one.
AcceptedHasJob == \A r \in Request : effect[r] \in {"ACCEPTED", "COMPLETED"} => jobs[r] > 0

\* What the session reports as proven cost is what the ledger settled for that
\* very job, even if two jobs of one request finish (poll).
ProvenIsSettled ==
    \A r \in Request, n \in 1..MaxJobs :
        <<r, n>> \in proven => /\ auth[r] = "SETTLED" /\ payee[r] = n
                               /\ <<<<r, n>>, paid[r]>> \in billed

\* The ledger, the provider and the session agree, in well-typed tables: a job
\* has its trace, an accepted row its job, a proven cost its settlement.
CreditsInv == TypeOK /\ JobHasTrace /\ AcceptedHasJob /\ ProvenIsSettled
=============================================================================
