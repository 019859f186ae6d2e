--------------------------- MODULE CommerceProofs ---------------------------
(***************************************************************************)
(* Proofs about what is paid for: the side-effect ledger, the account and  *)
(* the session of managed credits, subscriptions and their entitlements,   *)
(* and digital orders, for any requests, threads, quotes, costs, events,   *)
(* grants, orders, tokens and crashes.                                     *)
(***************************************************************************)
EXTENDS ManagedCredits, Subscriptions, DigitalOrders, FiniteSetTheorems, TLAPS

-----------------------------------------------------------------------------
(* The side-effect ledger of paid provider work                            *)

\* What the proof needs of the types; the balance of the account is not part
\* of it.
CreditTypes ==
    /\ auth \in [Request -> AuthStates]
    /\ effect \in [Request -> EffectStates]
    /\ pc \in [Thread -> Steps]
    /\ work \in [Thread -> SUBSET Work]
    /\ \A t \in Thread : \A v, w \in work[t] : v = w
    /\ posts \in [Request -> 0..MaxJobs]
    /\ rejects \in [Request -> Nat]
    /\ jobs \in [Request -> 0..MaxJobs]

\* A thread between the ledger's SUBMITTING and the outcome it records.
Busy(t, w) == w \in work[t] /\ pc[t] \in {"post", "accepted", "ambiguous", "failed"}

\* The ledger knows of every request under way: its row is SUBMITTING, or was
\* completed by somebody who found the job.
BusyIsSubmitting ==
    \A t \in Thread, w \in Work : Busy(t, w) => effect[w[1]] \in {"SUBMITTING", "COMPLETED"}

\* A request is under way in one thread at most.
OneBusy ==
    \A t, u \in Thread, v, w \in Work : Busy(t, v) /\ Busy(u, w) /\ v[1] = w[1] => t = u

\* A thread about to make the POST, and any thread that could still get there,
\* finds a recorded failure for every POST made so far.
BeforePost ==
    \A t \in Thread, w \in Work :
        (w \in work[t] /\ pc[t] = "post") => posts[w[1]] <= rejects[w[1]]
BeforeDispatch ==
    \A r \in Request : effect[r] \in {"none", "FAILED"} => posts[r] <= rejects[r]

\* A thread past the reservation has one.
PastReserve ==
    \A t \in Thread, w \in Work :
        (w \in work[t] /\ pc[t] \in {"authorized", "prepare", "post", "accepted", "ambiguous",
                                     "failed"}) => auth[w[1]] # "none"

\* A thread that was told of a job has one.
ToldOfJob ==
    \A t \in Thread, w \in Work : (w \in work[t] /\ pc[t] = "accepted") => jobs[w[1]] > 0

\* Jobs come from POSTs, bills from jobs.
JobsHavePosts == \A r \in Request : jobs[r] <= posts[r]
BillsHaveJobs == \A b \in billed : b[1][1] \in Request /\ jobs[b[1][1]] > 0

\* The parts about the tables, the parts about threads, and the invariant.
TableInv ==
    RepostOnlyAfterReject /\ JobHasTrace /\ AcceptedHasJob /\ BeforeDispatch /\ JobsHavePosts
    /\ BillsHaveJobs
ThreadInv == BusyIsSubmitting /\ OneBusy /\ BeforePost /\ PastReserve /\ ToldOfJob
CreditInv == CreditTypes /\ TableInv /\ ThreadInv

\* The fresh store satisfies the invariant.
LEMMA CreditStart == Init => CreditInv
  <1> SUFFICES ASSUME Init PROVE CreditInv
    OBVIOUS
  <1>1. CreditTypes
    BY CreditsAssumption DEF Init, CreditTypes, AuthStates, EffectStates, Steps
  <1>2. TableInv
    BY DEF Init, TableInv, RepostOnlyAfterReject, JobHasTrace, AcceptedHasJob, BeforeDispatch,
           JobsHavePosts, BillsHaveJobs
  <1>3. ThreadInv
    BY DEF Init, ThreadInv, BusyIsSubmitting, OneBusy, Busy, BeforePost, PastReserve, ToldOfJob
  <1> QED
    BY <1>1, <1>2, <1>3 DEF CreditInv

\* A step of a thread that leaves the ledger and the provider as they are, and
\* brings the thread no nearer to a POST than its reservation allows.
LEMMA QuietStep ==
    ASSUME CreditInv, NEW t \in Thread,
           CreditTypes',
           UNCHANGED <<effect, posts, rejects, jobs, billed>>,
           \A r \in Request : auth[r] # "none" => auth'[r] # "none",
           \A u \in Thread \ {t} : pc'[u] = pc[u] /\ work'[u] = work[u],
           pc'[t] \in {"idle", "reserve", "context", "settled"}
              \/ (pc'[t] \in {"authorized", "prepare"} /\ \A w \in work'[t] : auth'[w[1]] # "none")
    PROVE  CreditInv'
  <1>1. TableInv'
    BY DEF CreditInv, TableInv, RepostOnlyAfterReject, JobHasTrace, AcceptedHasJob, BeforeDispatch,
           JobsHavePosts, BillsHaveJobs
  <1>2. \A u \in Thread, w \in Work : Busy(u, w)' => Busy(u, w)
    BY DEF Busy
  <1>3. BusyIsSubmitting' /\ OneBusy'
    BY <1>2 DEF CreditInv, ThreadInv, BusyIsSubmitting, OneBusy
  <1>4. BeforePost' /\ ToldOfJob'
    BY DEF CreditInv, ThreadInv, BeforePost, ToldOfJob
  <1>5. PastReserve'
    <2> SUFFICES ASSUME NEW u \in Thread, NEW w \in Work, w \in work'[u],
                        pc'[u] \in {"authorized", "prepare", "post", "accepted", "ambiguous",
                                    "failed"}
                 PROVE  auth'[w[1]] # "none"
      BY DEF PastReserve
    <2>1. w[1] \in Request
      BY DEF Work
    <2> QED
      BY <2>1 DEF CreditInv, ThreadInv, PastReserve
  <1> QED
    BY <1>1, <1>3, <1>4, <1>5 DEF CreditInv, ThreadInv

\* The gateway's check is quiet.
LEMMA SubmitKeeps ==
    ASSUME CreditInv, NEW t \in Thread, NEW r \in Request, NEW q \in Quote,
           SubmitCheck(t, r, q)
    PROVE  CreditInv'
  <1>1. <<r, q, 0>> \in Work
    BY CreditsAssumption DEF Work
  <1>2. CreditTypes'
    BY <1>1 DEF CreditInv, CreditTypes, SubmitCheck, Goto, accountTables, provider, Steps
  <1> QED
    BY <1>2, QuietStep DEF CreditInv, CreditTypes, SubmitCheck, Goto, accountTables, provider, Steps

\* The reservation, new or repeated, is quiet.
LEMMA ReserveKeeps ==
    ASSUME CreditInv, NEW t \in Thread, NEW w \in Work, w \in work[t], SubmitReserve(t, w[1], w[2])
    PROVE  CreditInv'
  <1>1. w[1] \in Request
    BY DEF Work
  <1>2. /\ UNCHANGED <<effect, posts, rejects, jobs, billed>>
        /\ \/ /\ auth' = [auth EXCEPT ![w[1]] = "RESERVED"]
              /\ pc' = [pc EXCEPT ![t] = "authorized"] /\ UNCHANGED work
           \/ /\ auth[w[1]] # "none" /\ UNCHANGED auth
              /\ pc' = [pc EXCEPT ![t] = "authorized"] /\ UNCHANGED work
           \/ /\ UNCHANGED auth
              /\ pc' = [pc EXCEPT ![t] = "idle"] /\ work' = [work EXCEPT ![t] = {}]
    BY DEF SubmitReserve, Goto, Done, New, accountTables, provider
  <1>3. CreditTypes'
    BY <1>1, <1>2 DEF CreditInv, CreditTypes, Steps, AuthStates
  <1>4. \A v \in work[t] : v = w
    BY DEF CreditInv, CreditTypes
  <1>5. /\ \A r \in Request : auth[r] # "none" => auth'[r] # "none"
        /\ \A u \in Thread \ {t} : pc'[u] = pc[u] /\ work'[u] = work[u]
        /\ pc'[t] = "idle" \/ (pc'[t] = "authorized" /\ \A v \in work'[t] : auth'[v[1]] # "none")
    BY <1>1, <1>2, <1>4 DEF CreditInv, CreditTypes
  <1> QED
    BY <1>2, <1>3, <1>5, QuietStep

\* prepare's read goes on only with a reservation.
LEMMA ReadKeeps ==
    ASSUME CreditInv, NEW t \in Thread, NEW w \in Work, w \in work[t], PrepareRead(t, w[1])
    PROVE  CreditInv'
  <1>1. /\ UNCHANGED <<auth, effect, posts, rejects, jobs, billed>>
        /\ \/ pc' = [pc EXCEPT ![t] = "prepare"] /\ auth[w[1]] # "none" /\ UNCHANGED work
           \/ pc' = [pc EXCEPT ![t] = "idle"] /\ work' = [work EXCEPT ![t] = {}]
    BY DEF PrepareRead, Goto, Done, accountTables, provider
  <1>2. CreditTypes'
    BY <1>1 DEF CreditInv, CreditTypes, Steps
  <1>3. \A v \in work[t] : v = w
    BY DEF CreditInv, CreditTypes
  <1>4. /\ \A u \in Thread \ {t} : pc'[u] = pc[u] /\ work'[u] = work[u]
        /\ pc'[t] = "idle" \/ (pc'[t] = "prepare" /\ \A v \in work'[t] : auth'[v[1]] # "none")
    BY <1>1, <1>3 DEF CreditInv, CreditTypes
  <1> QED
    BY <1>1, <1>2, <1>4, QuietStep

\* The thread keeps the context of its job, or the proof of its cost.
LEMMA ContextKeeps ==
    ASSUME CreditInv, NEW t \in Thread, NEW r, NEW n, KeepContext(t, r, n) \/ PollRecord(t, r, n)
    PROVE  CreditInv'
  <1>1. /\ UNCHANGED <<auth, effect, posts, rejects, jobs, billed>>
        /\ pc' = [pc EXCEPT ![t] = "idle"] /\ work' = [work EXCEPT ![t] = {}]
    BY DEF KeepContext, PollRecord, Goto, Done, accountTables, provider
  <1>2. CreditTypes'
    BY <1>1 DEF CreditInv, CreditTypes, Steps
  <1>3. /\ \A u \in Thread \ {t} : pc'[u] = pc[u] /\ work'[u] = work[u]
        /\ pc'[t] = "idle"
    BY <1>1 DEF CreditInv, CreditTypes
  <1> QED
    BY <1>1, <1>2, <1>3, QuietStep

\* A settlement leaves the request's authorization in place.
LEMMA PollKeeps ==
    ASSUME CreditInv, NEW t \in Thread, NEW r \in Request, NEW n \in 1..MaxJobs, NEW c \in Cost,
           PollSettle(t, r, n, c)
    PROVE  CreditInv'
  <1>1. /\ UNCHANGED <<effect, posts, rejects, jobs, billed>>
        /\ \/ UNCHANGED auth
           \/ \E state \in {"SETTLED", "COST_POLICY_VIOLATION"} : auth' = [auth EXCEPT ![r] = state]
        /\ \/ UNCHANGED <<pc, work>> /\ pc[t] = "idle"
           \/ pc' = [pc EXCEPT ![t] = "settled"] /\ work' = [work EXCEPT ![t] = {<<r, 0, n>>}]
    BY DEF PollSettle, SettleOpen, Goto, accountTables, provider
  <1>2. <<r, 0, n>> \in Work
    BY CreditsAssumption DEF Work
  <1>3. CreditTypes'
    BY <1>1, <1>2 DEF CreditInv, CreditTypes, Steps, AuthStates
  <1>4. /\ \A q \in Request : auth[q] # "none" => auth'[q] # "none"
        /\ \A u \in Thread \ {t} : pc'[u] = pc[u] /\ work'[u] = work[u]
        /\ pc'[t] \in {"idle", "settled"}
    BY <1>1 DEF CreditInv, CreditTypes
  <1> QED
    BY <1>1, <1>3, <1>4, QuietStep

\* A step that leaves threads, ledger, POSTs and jobs alone; new bills are
\* for jobs, and authorizations stay.
LEMMA OutsideStep ==
    ASSUME CreditInv,
           UNCHANGED <<effect, pc, work, posts, rejects, jobs>>,
           auth' \in [Request -> AuthStates],
           \A r \in Request : auth[r] # "none" => auth'[r] # "none",
           BillsHaveJobs'
    PROVE  CreditInv'
  <1>1. CreditTypes'
    BY DEF CreditInv, CreditTypes
  <1>2. TableInv'
    BY DEF CreditInv, TableInv, RepostOnlyAfterReject, JobHasTrace, AcceptedHasJob, BeforeDispatch,
           JobsHavePosts
  <1>3. BusyIsSubmitting' /\ OneBusy' /\ BeforePost' /\ ToldOfJob'
    BY DEF CreditInv, ThreadInv, BusyIsSubmitting, OneBusy, Busy, BeforePost, ToldOfJob
  <1>4. PastReserve'
    <2>1. \A w \in Work : w[1] \in Request
      BY DEF Work
    <2> QED
      BY <2>1 DEF CreditInv, ThreadInv, PastReserve
  <1> QED
    BY <1>1, <1>2, <1>3, <1>4 DEF CreditInv, ThreadInv

\* Settlement from outside, and the provider's bill.
LEMMA AccountKeeps ==
    ASSUME CreditInv, NEW r \in Request, NEW n \in 1..MaxJobs, NEW c \in Cost,
           SettleSpend(r, n, c) \/ ProviderFinishes(r, n, c)
    PROVE  CreditInv'
  <1>1. CASE SettleSpend(r, n, c)
    <2>1. /\ UNCHANGED <<effect, pc, work, posts, rejects, jobs, billed>>
          /\ \E state \in {"SETTLED", "COST_POLICY_VIOLATION"} :
                auth' = [auth EXCEPT ![r] = state]
      BY <1>1 DEF SettleSpend, SettleOpen, session, provider
    <2>2. /\ auth' \in [Request -> AuthStates]
          /\ \A q \in Request : auth[q] # "none" => auth'[q] # "none"
      BY <2>1 DEF CreditInv, CreditTypes, AuthStates
    <2>3. BillsHaveJobs'
      BY <2>1 DEF CreditInv, TableInv, BillsHaveJobs
    <2> QED
      BY <2>1, <2>2, <2>3, OutsideStep
  <1>2. CASE ProviderFinishes(r, n, c)
    <2>1. /\ UNCHANGED <<auth, effect, pc, work, posts, rejects, jobs>>
          /\ billed' = billed \union {<<<<r, n>>, c>>} /\ n <= jobs[r]
      BY <1>2 DEF ProviderFinishes, accountTables, session
    <2>2. jobs[r] > 0
      BY <2>1, CreditsAssumption DEF CreditInv, CreditTypes
    <2>3. BillsHaveJobs'
      <3> SUFFICES ASSUME NEW b \in billed'
                   PROVE  b[1][1] \in Request /\ jobs[b[1][1]] > 0
        BY <2>1 DEF BillsHaveJobs
      <3>1. CASE b \in billed
        BY <3>1 DEF CreditInv, TableInv, BillsHaveJobs
      <3>2. CASE b = <<<<r, n>>, c>>
        BY <3>2, <2>2
      <3> QED
        BY <2>1, <3>1, <3>2
    <2>4. auth' \in [Request -> AuthStates] /\ \A q \in Request : auth[q] # "none" => auth'[q] # "none"
      BY <2>1 DEF CreditInv, CreditTypes
    <2> QED
      BY <2>1, <2>3, <2>4, OutsideStep
  <1> QED
    BY <1>1, <1>2

\* A release gives the hold back and leaves the authorization's row.
LEMMA ReleaseKeeps ==
    ASSUME CreditInv, NEW r \in Request, Release(r)
    PROVE  CreditInv'
  <1>1. /\ UNCHANGED <<effect, pc, work, posts, rejects, jobs, billed>>
        /\ auth' = [auth EXCEPT ![r] = "RELEASED"]
    BY DEF Release, session, provider
  <1>2. auth' \in [Request -> AuthStates] /\ \A q \in Request : auth[q] # "none" => auth'[q] # "none"
    BY <1>1 DEF CreditInv, CreditTypes, AuthStates
  <1>3. BillsHaveJobs'
    BY <1>1 DEF CreditInv, TableInv, BillsHaveJobs
  <1> QED
    BY <1>1, <1>2, <1>3, OutsideStep

\* The ledger's reconcile and complete: no thread is under way on an ambiguous
\* row, and a completed one cannot be dispatched.
LEMMA LedgerKeeps ==
    ASSUME CreditInv, NEW r \in Request, Reconcile(r) \/ Complete(r)
    PROVE  CreditInv'
  <1>1. /\ UNCHANGED <<auth, pc, work, posts, rejects, jobs, billed>>
        /\ jobs[r] > 0
        /\ \/ effect[r] = "AMBIGUOUS" /\ effect' = [effect EXCEPT ![r] = "ACCEPTED"]
           \/ effect' = [effect EXCEPT ![r] = "COMPLETED"]
    BY DEF Reconcile, Complete, accountTables, session, provider, CreditInv, TableInv, BillsHaveJobs
  <1>2. CreditTypes'
    BY <1>1 DEF CreditInv, CreditTypes, EffectStates
  <1>3. TableInv'
    BY <1>1 DEF CreditInv, CreditTypes, TableInv, RepostOnlyAfterReject, JobHasTrace,
                AcceptedHasJob, BeforeDispatch, JobsHavePosts, BillsHaveJobs
  <1>4. BusyIsSubmitting'
    <2>1. \A w \in Work : w[1] \in Request
      BY DEF Work
    <2>2. \A t \in Thread, w \in Work : Busy(t, w)' => Busy(t, w)
      BY <1>1 DEF Busy
    <2> QED
      BY <1>1, <2>1, <2>2 DEF CreditInv, CreditTypes, ThreadInv, BusyIsSubmitting
  <1>5. OneBusy' /\ BeforePost' /\ PastReserve' /\ ToldOfJob'
    BY <1>1 DEF CreditInv, ThreadInv, OneBusy, Busy, BeforePost, PastReserve, ToldOfJob
  <1> QED
    BY <1>2, <1>3, <1>4, <1>5 DEF CreditInv, ThreadInv

\* prepare's swap: a row that may be dispatched has no thread under way, and a
\* recorded failure for every POST.
LEMMA WriteKeeps ==
    ASSUME CreditInv, NEW t \in Thread, NEW w \in Work, w \in work[t], PrepareWrite(t, w[1])
    PROVE  CreditInv'
  <1>1. w[1] \in Request /\ \A v \in work[t] : v = w
    BY DEF Work, CreditInv, CreditTypes
  <1>2. CASE ~Dispatchable(w[1])
    <2>1. /\ UNCHANGED <<auth, effect, posts, rejects, jobs, billed>>
          /\ pc' = [pc EXCEPT ![t] = "idle"] /\ work' = [work EXCEPT ![t] = {}]
      BY <1>2 DEF PrepareWrite, Goto, Done, accountTables, provider
    <2>2. CreditTypes'
      BY <2>1 DEF CreditInv, CreditTypes, Steps
    <2>3. /\ \A u \in Thread \ {t} : pc'[u] = pc[u] /\ work'[u] = work[u]
          /\ pc'[t] = "idle"
      BY <2>1 DEF CreditInv, CreditTypes
    <2> QED
      BY <2>1, <2>2, <2>3, QuietStep
  <1>3. CASE Dispatchable(w[1])
    <2>1. /\ UNCHANGED <<auth, work, posts, rejects, jobs, billed>>
          /\ effect[w[1]] \in {"none", "FAILED"}
          /\ effect' = [effect EXCEPT ![w[1]] = "SUBMITTING"]
          /\ pc[t] = "prepare" /\ pc' = [pc EXCEPT ![t] = "post"]
      BY <1>3 DEF PrepareWrite, Dispatchable, Submitting, Goto, accountTables, provider
    <2>2. CreditTypes'
      BY <1>1, <2>1 DEF CreditInv, CreditTypes, Steps, EffectStates
    <2>3. TableInv'
      BY <1>1, <2>1 DEF CreditInv, CreditTypes, TableInv, RepostOnlyAfterReject, JobHasTrace,
                        AcceptedHasJob, BeforeDispatch, JobsHavePosts, BillsHaveJobs
    <2>4. \A u \in Thread, v \in Work : v[1] = w[1] => ~Busy(u, v)
      BY <2>1 DEF CreditInv, ThreadInv, BusyIsSubmitting
    <2>5. \A u \in Thread, v \in Work : Busy(u, v)' => Busy(u, v) \/ (u = t /\ v = w)
      BY <1>1, <2>1 DEF Busy, CreditInv, CreditTypes
    <2>6. \A v \in Work : v[1] \in Request
      BY DEF Work
    <2>7. BusyIsSubmitting'
      BY <1>1, <2>1, <2>4, <2>5, <2>6 DEF CreditInv, CreditTypes, ThreadInv, BusyIsSubmitting
    <2>8. OneBusy'
      BY <2>4, <2>5 DEF CreditInv, ThreadInv, OneBusy
    <2>9. posts[w[1]] <= rejects[w[1]]
      BY <1>1, <2>1 DEF CreditInv, TableInv, BeforeDispatch
    <2>10. BeforePost' /\ ToldOfJob' /\ PastReserve'
      BY <1>1, <2>1, <2>9 DEF CreditInv, CreditTypes, ThreadInv, BeforePost, ToldOfJob, PastReserve
    <2> QED
      BY <2>2, <2>3, <2>7, <2>8, <2>10 DEF CreditInv, ThreadInv
  <1> QED
    BY <1>2, <1>3

\* The POST: it is the only one under way for its request, and the ones before
\* it were recorded as failures.
LEMMA PostKeeps ==
    ASSUME CreditInv, NEW t \in Thread, NEW w \in Work, w \in work[t],
           PostCreates(t, w[1], w[2]) \/ PostRefused(t, w[1])
    PROVE  CreditInv'
  <1> DEFINE r == w[1]
             job == <<r, w[2], jobs[r] + 1>>
  <1>1. r \in Request /\ \A v \in work[t] : v = w
    BY DEF Work, CreditInv, CreditTypes
  <1>2. /\ UNCHANGED <<auth, effect, rejects, billed>>
        /\ pc[t] = "post" /\ posts[r] < MaxJobs
        /\ posts' = [posts EXCEPT ![r] = posts[r] + 1]
    BY DEF PostCreates, PostRefused, accountTables
  <1>3. PICK answer \in {"accepted", "ambiguous", "failed"} :
           /\ pc' = [pc EXCEPT ![t] = answer]
           /\ \/ /\ jobs' = [jobs EXCEPT ![r] = jobs[r] + 1]
                 /\ work' = [work EXCEPT ![t] = {job}]
              \/ answer # "accepted" /\ UNCHANGED <<jobs, work>>
    BY DEF PostCreates, PostRefused, Goto
  <1>4. Busy(t, w) /\ effect[r] \in {"SUBMITTING", "COMPLETED"} /\ posts[r] <= rejects[r]
        /\ auth[r] # "none"
    BY <1>1, <1>2 DEF Busy, CreditInv, ThreadInv, BusyIsSubmitting, BeforePost, PastReserve
  <1>5. posts[r] \in Nat /\ rejects[r] \in Nat /\ jobs[r] \in Nat /\ jobs[r] <= posts[r]
    BY <1>1 DEF CreditInv, CreditTypes, TableInv, JobsHavePosts
  <1>6. posts[r] + 1 \in 0..MaxJobs /\ jobs[r] + 1 \in 0..MaxJobs
    BY <1>2, <1>5, CreditsAssumption
  <1>7. job \in Work /\ job[1] = r
    BY <1>1, <1>6 DEF Work
  <1> HIDE DEF r, job
  <1>8. CreditTypes'
    <2>1. posts' \in [Request -> 0..MaxJobs] /\ jobs' \in [Request -> 0..MaxJobs]
      BY <1>1, <1>2, <1>3, <1>6 DEF CreditInv, CreditTypes
    <2>2. pc' \in [Thread -> Steps]
      BY <1>3 DEF CreditInv, CreditTypes, Steps
    <2>3. work' \in [Thread -> SUBSET Work] /\ \A u \in Thread : \A x, y \in work'[u] : x = y
      BY <1>3, <1>7 DEF CreditInv, CreditTypes
    <2> QED
      BY <1>2, <2>1, <2>2, <2>3 DEF CreditInv, CreditTypes
  <1>9. TableInv'
    <2>1. /\ \A q \in Request \ {r} : posts'[q] = posts[q] /\ jobs'[q] = jobs[q]
          /\ posts'[r] = posts[r] + 1 /\ jobs'[r] \in {jobs[r], jobs[r] + 1}
      BY <1>1, <1>2, <1>3 DEF CreditInv, CreditTypes
    <2>2. RepostOnlyAfterReject'
      BY <1>2, <1>4, <1>5, <2>1 DEF CreditInv, TableInv, RepostOnlyAfterReject
    <2>3. JobHasTrace'
      BY <1>2, <1>4, <2>1 DEF CreditInv, TableInv, JobHasTrace
    <2>4. AcceptedHasJob'
      BY <1>2, <1>5, <2>1 DEF CreditInv, TableInv, AcceptedHasJob
    <2>5. BeforeDispatch'
      BY <1>2, <1>4, <2>1 DEF CreditInv, TableInv, BeforeDispatch
    <2>6. JobsHavePosts'
      BY <1>5, <2>1 DEF CreditInv, TableInv, JobsHavePosts
    <2>7. BillsHaveJobs'
      BY <1>2, <1>5, <2>1 DEF CreditInv, TableInv, BillsHaveJobs
    <2> QED
      BY <2>2, <2>3, <2>4, <2>5, <2>6, <2>7 DEF TableInv
  <1>10. \A u \in Thread, v \in Work :
            Busy(u, v)' => (u # t /\ Busy(u, v) /\ v[1] # r) \/ (u = t /\ v[1] = r)
    <2> SUFFICES ASSUME NEW u \in Thread, NEW v \in Work, Busy(u, v)'
                 PROVE  (u # t /\ Busy(u, v) /\ v[1] # r) \/ (u = t /\ v[1] = r)
      OBVIOUS
    <2>1. CASE u = t
      BY <1>1, <1>3, <1>7, <2>1 DEF Busy, CreditInv, CreditTypes, r
    <2>2. CASE u # t
      <3>1. Busy(u, v)
        BY <1>3, <2>2 DEF Busy, CreditInv, CreditTypes
      <3>2. v[1] # r
        BY <1>4, <2>2, <3>1 DEF CreditInv, ThreadInv, OneBusy, r
      <3> QED
        BY <2>2, <3>1, <3>2
    <2> QED
      BY <2>1, <2>2
  <1>11. BusyIsSubmitting'
    BY <1>2, <1>4, <1>10 DEF CreditInv, ThreadInv, BusyIsSubmitting
  <1>12. OneBusy'
    BY <1>10 DEF CreditInv, ThreadInv, OneBusy
  <1>13. BeforePost'
    <2> SUFFICES ASSUME NEW u \in Thread, NEW v \in Work, v \in work'[u], pc'[u] = "post"
                 PROVE  posts'[v[1]] <= rejects'[v[1]]
      BY DEF BeforePost
    <2>1. Busy(u, v)'
      BY DEF Busy
    <2>2. u # t
      BY <1>3 DEF CreditInv, CreditTypes
    <2>3. v[1] # r /\ v[1] \in Request
      BY <1>10, <2>1, <2>2 DEF Work
    <2>4. v \in work[u] /\ pc[u] = "post"
      BY <1>3, <2>2 DEF CreditInv, CreditTypes
    <2> QED
      BY <1>2, <2>3, <2>4 DEF CreditInv, CreditTypes, ThreadInv, BeforePost
  <1>14. PastReserve'
    <2> SUFFICES ASSUME NEW u \in Thread, NEW v \in Work, v \in work'[u],
                        pc'[u] \in {"authorized", "prepare", "post", "accepted", "ambiguous",
                                    "failed"}
                 PROVE  auth'[v[1]] # "none"
      BY DEF PastReserve
    <2>1. CASE u = t
      <3>1. v[1] = r
        BY <1>1, <1>3, <1>7, <2>1 DEF CreditInv, CreditTypes, r
      <3> QED
        BY <1>2, <1>4, <3>1
    <2>2. CASE u # t
      <3>1. work'[u] = work[u] /\ pc'[u] = pc[u]
        BY <1>3, <2>2 DEF CreditInv, CreditTypes
      <3> QED
        BY <1>2, <3>1 DEF CreditInv, ThreadInv, PastReserve
    <2> QED
      BY <2>1, <2>2
  <1>15. ToldOfJob'
    <2> SUFFICES ASSUME NEW u \in Thread, NEW v \in Work, v \in work'[u], pc'[u] = "accepted"
                 PROVE  jobs'[v[1]] > 0
      BY DEF ToldOfJob
    <2>1. CASE u = t
      <3>1. answer = "accepted"
        BY <1>3, <2>1 DEF CreditInv, CreditTypes
      <3>2. jobs' = [jobs EXCEPT ![r] = jobs[r] + 1] /\ work'[t] = {job}
        BY <1>3, <3>1 DEF CreditInv, CreditTypes
      <3> QED
        BY <1>1, <1>5, <1>7, <2>1, <3>2 DEF CreditInv, CreditTypes
    <2>2. CASE u # t
      <3>1. work'[u] = work[u] /\ pc'[u] = pc[u]
        BY <1>3, <2>2 DEF CreditInv, CreditTypes
      <3>2. v[1] \in Request /\ jobs[v[1]] > 0
        BY <3>1 DEF Work, CreditInv, ThreadInv, ToldOfJob
      <3> QED
        BY <1>1, <1>3, <1>5, <3>2 DEF CreditInv, CreditTypes
    <2> QED
      BY <2>1, <2>2
  <1> QED
    BY <1>8, <1>9, <1>11, <1>12, <1>13, <1>14, <1>15 DEF CreditInv, ThreadInv

\* Recording the outcome: a failure opens the request again and is counted, an
\* accepted job exists.
LEMMA OutcomeKeeps ==
    ASSUME CreditInv, NEW t \in Thread, NEW w \in Work, w \in work[t], RecordOutcome(t, w[1])
    PROVE  CreditInv'
  <1> DEFINE r == w[1]
  <1>1. r \in Request /\ \A v \in work[t] : v = w
    BY DEF Work, CreditInv, CreditTypes
  <1>2. /\ UNCHANGED <<auth, posts, jobs, billed>>
        /\ pc[t] \in {"accepted", "ambiguous", "failed"}
        /\ effect' = [effect EXCEPT ![r] = Outcome(pc[t])]
        /\ rejects' = [rejects EXCEPT ![r] = IF pc[t] = "failed" THEN rejects[r] + 1 ELSE rejects[r]]
        /\ \/ pc' = [pc EXCEPT ![t] = "context"] /\ UNCHANGED work
           \/ pc' = [pc EXCEPT ![t] = "idle"] /\ work' = [work EXCEPT ![t] = {}]
    BY DEF RecordOutcome, Goto, Done, accountTables
  <1>3. /\ Outcome(pc[t]) \in {"ACCEPTED", "AMBIGUOUS", "FAILED"}
        /\ Outcome(pc[t]) = "ACCEPTED" => pc[t] = "accepted"
        /\ Outcome(pc[t]) = "FAILED" => pc[t] = "failed"
    BY <1>2 DEF Outcome
  <1>4. Busy(t, w) /\ auth[r] # "none" /\ (pc[t] = "accepted" => jobs[r] > 0)
    BY <1>2 DEF Busy, CreditInv, ThreadInv, PastReserve, ToldOfJob
  <1>5. posts[r] \in Nat /\ rejects[r] \in Nat /\ posts[r] <= rejects[r] + 1
    BY <1>1 DEF CreditInv, CreditTypes, TableInv, RepostOnlyAfterReject
  <1>6. \A q \in Request : rejects'[q] \in Nat /\ rejects[q] <= rejects'[q]
    BY <1>1, <1>2, <1>5 DEF CreditInv, CreditTypes
  <1> HIDE DEF r
  <1>7. CreditTypes'
    <2>1. effect' \in [Request -> EffectStates] /\ rejects' \in [Request -> Nat]
      BY <1>1, <1>2, <1>3, <1>5 DEF CreditInv, CreditTypes, EffectStates
    <2>2. pc' \in [Thread -> Steps] /\ work' \in [Thread -> SUBSET Work]
      BY <1>2 DEF CreditInv, CreditTypes, Steps
    <2>3. \A u \in Thread : \A x, y \in work'[u] : x = y
      BY <1>2 DEF CreditInv, CreditTypes
    <2> QED
      BY <1>2, <2>1, <2>2, <2>3 DEF CreditInv, CreditTypes
  <1>8. TableInv'
    <2>1. /\ \A q \in Request \ {r} : effect'[q] = effect[q] /\ rejects'[q] = rejects[q]
          /\ effect'[r] = Outcome(pc[t])
          /\ pc[t] = "failed" => rejects'[r] = rejects[r] + 1
      BY <1>1, <1>2 DEF CreditInv, CreditTypes
    <2>2. RepostOnlyAfterReject'
      BY <1>2, <1>6 DEF CreditInv, CreditTypes, TableInv, RepostOnlyAfterReject
    <2>3. JobHasTrace'
      BY <1>2, <1>3, <2>1 DEF CreditInv, TableInv, JobHasTrace
    <2>4. AcceptedHasJob'
      BY <1>2, <1>3, <1>4, <2>1 DEF CreditInv, TableInv, AcceptedHasJob
    <2>5. BeforeDispatch'
      BY <1>2, <1>3, <1>5, <2>1 DEF CreditInv, TableInv, BeforeDispatch
    <2>6. JobsHavePosts' /\ BillsHaveJobs'
      BY <1>2 DEF CreditInv, TableInv, JobsHavePosts, BillsHaveJobs
    <2> QED
      BY <2>2, <2>3, <2>4, <2>5, <2>6 DEF TableInv
  <1>9. \A u \in Thread \ {t} : pc'[u] = pc[u] /\ work'[u] = work[u]
    BY <1>2 DEF CreditInv, CreditTypes
  <1>10. pc'[t] \in {"context", "idle"}
    BY <1>2 DEF CreditInv, CreditTypes
  <1>11. \A u \in Thread, v \in Work : Busy(u, v)' => u # t /\ Busy(u, v) /\ v[1] # r
    <2>1. \A u \in Thread, v \in Work : Busy(u, v)' => u # t /\ Busy(u, v)
      BY <1>9, <1>10 DEF Busy
    <2> QED
      BY <1>4, <2>1 DEF CreditInv, ThreadInv, OneBusy, r
  <1>12. BusyIsSubmitting'
    <2>1. \A v \in Work : v[1] \in Request
      BY DEF Work
    <2> QED
      BY <1>2, <1>11, <2>1 DEF CreditInv, CreditTypes, ThreadInv, BusyIsSubmitting
  <1>13. OneBusy'
    BY <1>11 DEF CreditInv, ThreadInv, OneBusy
  <1>14. BeforePost'
    <2> SUFFICES ASSUME NEW u \in Thread, NEW v \in Work, v \in work'[u], pc'[u] = "post"
                 PROVE  posts'[v[1]] <= rejects'[v[1]]
      BY DEF BeforePost
    <2>1. v[1] \in Request
      BY DEF Work
    <2>2. posts[v[1]] <= rejects[v[1]]
      BY <1>9, <1>10 DEF CreditInv, ThreadInv, BeforePost
    <2>3. posts[v[1]] \in Nat /\ rejects[v[1]] \in Nat /\ rejects'[v[1]] \in Nat
      BY <1>6, <2>1 DEF CreditInv, CreditTypes
    <2> QED
      BY <1>2, <1>6, <2>1, <2>2, <2>3
  <1>15. PastReserve' /\ ToldOfJob'
    BY <1>2, <1>9, <1>10 DEF CreditInv, ThreadInv, PastReserve, ToldOfJob
  <1> QED
    BY <1>7, <1>8, <1>12, <1>13, <1>14, <1>15 DEF CreditInv, ThreadInv

\* A crash ends the threads and keeps the tables.
LEMMA CrashKeeps ==
    ASSUME CreditInv, Crash
    PROVE  CreditInv'
  <1>1. /\ UNCHANGED <<auth, effect, posts, rejects, jobs, billed>>
        /\ pc' = [t \in Thread |-> "idle"] /\ work' = [t \in Thread |-> {}]
    BY DEF Crash, accountTables, provider
  <1>2. CreditTypes'
    BY <1>1 DEF CreditInv, CreditTypes, Steps
  <1>3. TableInv'
    BY <1>1 DEF CreditInv, TableInv, RepostOnlyAfterReject, JobHasTrace, AcceptedHasJob,
                BeforeDispatch, JobsHavePosts, BillsHaveJobs
  <1>4. ThreadInv'
    BY <1>1 DEF ThreadInv, BusyIsSubmitting, OneBusy, Busy, BeforePost, PastReserve, ToldOfJob
  <1> QED
    BY <1>2, <1>3, <1>4 DEF CreditInv

\* Every step keeps the invariant.
LEMMA CreditStep ==
    ASSUME CreditInv, [Next]_creditVars
    PROVE  CreditInv'
  <1>1. CASE UNCHANGED creditVars
    <2>1. UNCHANGED <<auth, effect, pc, work, posts, rejects, jobs, billed>>
      BY <1>1 DEF creditVars, accountTables, session, provider
    <2>2. auth' \in [Request -> AuthStates] /\ \A r \in Request : auth[r] # "none" => auth'[r] # "none"
      BY <2>1 DEF CreditInv, CreditTypes
    <2>3. BillsHaveJobs'
      BY <2>1 DEF CreditInv, TableInv, BillsHaveJobs
    <2> QED
      BY <2>1, <2>2, <2>3, OutsideStep
  <1>2. ASSUME NEW t \in Thread, ThreadStep(t) PROVE CreditInv'
    <2>1. PICK w \in work[t] :
             \/ SubmitReserve(t, w[1], w[2]) \/ PrepareRead(t, w[1]) \/ PrepareWrite(t, w[1])
             \/ PostCreates(t, w[1], w[2]) \/ PostRefused(t, w[1]) \/ RecordOutcome(t, w[1])
             \/ KeepContext(t, w[1], w[3]) \/ PollRecord(t, w[1], w[3])
      BY <1>2 DEF ThreadStep
    <2>2. w \in Work
      BY DEF CreditInv, CreditTypes
    <2> QED
      BY <2>1, <2>2, ReserveKeeps, ReadKeeps, WriteKeeps, PostKeeps, OutcomeKeeps, ContextKeeps
  <1>3. ASSUME NEW t \in Thread, NEW r \in Request, NEW q \in Quote, SubmitCheck(t, r, q)
        PROVE  CreditInv'
    BY <1>3, SubmitKeeps
  <1>4. ASSUME NEW t \in Thread, NEW r \in Request, NEW n \in 1..MaxJobs, NEW c \in Cost,
               PollSettle(t, r, n, c)
        PROVE  CreditInv'
    BY <1>4, PollKeeps
  <1>5. ASSUME NEW r \in Request, NEW n \in 1..MaxJobs, NEW c \in Cost,
               SettleSpend(r, n, c) \/ ProviderFinishes(r, n, c)
        PROVE  CreditInv'
    BY <1>5, AccountKeeps
  <1>6. ASSUME NEW r \in Request, Release(r) PROVE CreditInv'
    BY <1>6, ReleaseKeeps
  <1>7. ASSUME NEW r \in Request, Reconcile(r) \/ Complete(r) PROVE CreditInv'
    BY <1>7, LedgerKeeps
  <1>8. CASE Crash
    BY <1>8, CrashKeeps
  <1> QED
    BY <1>1, <1>2, <1>3, <1>4, <1>5, <1>6, <1>7, <1>8 DEF Next

\* The invariant holds in every reachable state.
LEMMA CreditInvariant == Spec => []CreditInv
  <1>1. CreditInv /\ [Next]_creditVars => CreditInv'
    BY CreditStep
  <1> QED
    BY CreditStart, <1>1, PTL DEF Spec

\* However many threads submit a request, whatever answers are lost and
\* wherever the process stops, a POST is repeated only after a recorded
\* failure of the one before.
THEOREM RepostsFollowRejects == Spec => []RepostOnlyAfterReject
  <1>1. CreditInv => RepostOnlyAfterReject
    BY DEF CreditInv, TableInv
  <1> QED
    BY <1>1, CreditInvariant, PTL

\* A paid job never exists without its authorization and its side-effect row,
\* and the ledger never knows of a job that does not exist.
THEOREM LedgerKnowsJobs == Spec => [](JobHasTrace /\ AcceptedHasJob)
  <1>1. CreditInv => JobHasTrace /\ AcceptedHasJob
    BY DEF CreditInv, TableInv
  <1> QED
    BY <1>1, CreditInvariant, PTL

----------------------------------------------------------------------------
(* The account                                                             *)

\* Amounts that are the same have the same units.
LEMMA UnitsSame ==
    ASSUME NEW f, NEW g, NEW S, \A r \in S : f[r] = g[r]
    PROVE  Units(f, S) = Units(g, S)
BY DEF Units

\* One more request adds its amount.
LEMMA UnitsAdd ==
    ASSUME NEW f, NEW S, NEW r, r \notin S, f[r] \in Nat, IsFiniteSet(Units(f, S))
    PROVE  /\ IsFiniteSet(Units(f, S \union {r}))
           /\ Cardinality(Units(f, S \union {r})) = Cardinality(Units(f, S)) + f[r]
  <1> DEFINE Added == {r} \X (1..f[r])
  <1>1. Units(f, S \union {r}) = Units(f, S) \union Added
    BY DEF Units
  <1>2. IsFiniteSet(Added) /\ Cardinality(Added) = f[r]
    <2>1. IsFiniteSet(1..f[r]) /\ Cardinality(1..f[r]) = f[r]
      BY FS_Interval
    <2>2. IsFiniteSet({r}) /\ Cardinality({r}) = 1
      BY FS_Singleton
    <2>3. IsFiniteSet(Added) /\ Cardinality(Added) = 1 * f[r]
      <3> DEFINE T == 1..f[r]
      <3>1. IsFiniteSet(T) /\ Cardinality(T) = f[r] /\ Added = {r} \X T
        BY <2>1
      <3> HIDE DEF T, Added
      <3>2. IsFiniteSet({r} \X T) /\ Cardinality({r} \X T) = Cardinality({r}) * Cardinality(T)
        BY <2>2, <3>1, FS_Product
      <3> QED
        BY <2>2, <3>1, <3>2
    <2> QED
      BY <2>3
  <1>3. Units(f, S) \intersect Added = {}
    BY DEF Units
  <1>4. Cardinality(Units(f, S) \intersect Added) = 0
    BY <1>3, FS_EmptySet
  <1>5. Cardinality(Units(f, S)) \in Nat
    BY FS_CardinalityType
  <1> DEFINE total == Cardinality(Units(f, S))  amount == f[r]
  <1> HIDE DEF Added
  <1>6. /\ IsFiniteSet(Units(f, S) \union Added)
        /\ Cardinality(Units(f, S) \union Added)
             = Cardinality(Units(f, S)) + Cardinality(Added) - Cardinality(Units(f, S) \intersect Added)
    BY <1>2, FS_Union
  <1>7. total \in Nat /\ amount \in Nat
        /\ Cardinality(Units(f, S) \union Added) = total + amount - 0
    BY <1>2, <1>4, <1>5, <1>6
  <1>8. total + amount - 0 = total + amount
    <2> HIDE DEF total, amount
    <2> QED
      BY <1>7
  <1> QED
    BY <1>1, <1>6, <1>7, <1>8

\* One request less takes its amount away.
LEMMA UnitsWithout ==
    ASSUME NEW f, NEW S, NEW r \in S, f[r] \in Nat, IsFiniteSet(Units(f, S))
    PROVE  /\ IsFiniteSet(Units(f, S \ {r}))
           /\ Cardinality(Units(f, S)) = Cardinality(Units(f, S \ {r})) + f[r]
  <1>1. Units(f, S \ {r}) \in SUBSET Units(f, S)
    BY DEF Units
  <1>2. IsFiniteSet(Units(f, S \ {r}))
    BY <1>1, FS_Subset
  <1>3. (S \ {r}) \union {r} = S /\ r \notin S \ {r}
    OBVIOUS
  <1>4. Cardinality(Units(f, (S \ {r}) \union {r})) = Cardinality(Units(f, S \ {r})) + f[r]
    BY <1>2, <1>3, UnitsAdd
  <1> QED
    BY <1>2, <1>3, <1>4

\* The inductive invariant of the account.
MoneyInv ==
    /\ available \in Nat /\ reserved \in Nat
    /\ hold \in [Request -> Quote \union {0}]
    /\ paid \in [Request -> Cost \union {0}]
    /\ payee \in [Request -> 0..MaxJobs]
    /\ IsFiniteSet(Held) /\ IsFiniteSet(Spent)
    /\ CreditsConserved

\* A settlement for a job the provider has billed.
Settled(r, n) == auth[r] = "SETTLED" /\ payee[r] = n /\ <<<<r, n>>, paid[r]>> \in billed

\* What a thread carries at the steps that use it.
Carries(t, w) ==
    /\ pc[t] = "reserve" => w[2] \in Quote
    /\ pc[t] \in {"accepted", "context"} => w[3] \in 1..MaxJobs
    /\ pc[t] = "settled" => <<w[1], w[3]>> \in contexts /\ Settled(w[1], w[3])

\* The inductive invariant of the session.
PollInv ==
    /\ contexts \subseteq Job /\ proven \subseteq contexts
    /\ billed \subseteq Job \X Cost
    /\ crashes \in 0..MaxCrashes
    /\ \A t \in Thread : pc[t] = "idle" <=> work[t] = {}
    /\ \A t \in Thread : \A w \in work[t] : Carries(t, w)
    /\ ProvenIsSettled

\* A settled request is settled for good, and bills stay.
SettledStands ==
    /\ \A r \in Request : auth[r] = "SETTLED" => /\ auth'[r] = "SETTLED"
                                                /\ paid'[r] = paid[r] /\ payee'[r] = payee[r]
    /\ billed \subseteq billed'

\* Amounts are numbers.
LEMMA Amounts ==
    ASSUME MoneyInv
    PROVE  /\ \A r \in Request : hold[r] \in Nat /\ paid[r] \in Nat
           /\ Cardinality(Held) \in Nat /\ Cardinality(Spent) \in Nat
  <1>1. Quote \union {0} \subseteq Nat /\ Cost \union {0} \subseteq Nat
    BY CreditsAssumption
  <1>2. \A r \in Request : hold[r] \in Nat /\ paid[r] \in Nat
    BY <1>1 DEF MoneyInv
  <1>3. Cardinality(Held) \in Nat /\ Cardinality(Spent) \in Nat
    BY FS_CardinalityType DEF MoneyInv
  <1> QED
    BY <1>2, <1>3

\* reserve moves the quote from what is available to what is on hold.
LEMMA ReserveMoney ==
    ASSUME CreditInv, MoneyInv, NEW r \in Request, NEW q \in Quote, New(r), Covers(q),
           available' = available - q, reserved' = reserved + q,
           auth' = [auth EXCEPT ![r] = "RESERVED"], hold' = [hold EXCEPT ![r] = q],
           UNCHANGED <<paid, payee, billed>>
    PROVE  MoneyInv' /\ SettledStands
  <1> DEFINE H == In({"RESERVED", "COST_POLICY_VIOLATION"})
             S == In({"SETTLED"})
  <1>1. q \in Nat /\ q <= available /\ available \in Nat /\ reserved \in Nat
    BY CreditsAssumption DEF Covers, MoneyInv
  <1>2. r \notin H /\ H' = H \union {r} /\ S' = S
    BY DEF In, New, CreditInv, CreditTypes
  <1>3. hold'[r] = q /\ \A o \in H : hold'[o] = hold[o]
    BY <1>2 DEF MoneyInv, In
  <1> HIDE DEF H, S
  <1>4. Units(hold', H) = Units(hold, H)
    BY <1>3, UnitsSame
  <1>5. Held = Units(hold, H) /\ Held' = Units(hold', H') /\ Spent = Units(paid, S) /\ Spent' = Units(paid', S')
    BY DEF Held, Spent, H, S
  <1>6. IsFiniteSet(Held') /\ Cardinality(Held') = Cardinality(Held) + q
    <2>1. IsFiniteSet(Units(hold', H)) /\ hold'[r] \in Nat
      BY <1>1, <1>3, <1>4, <1>5 DEF MoneyInv
    <2>2. /\ IsFiniteSet(Units(hold', H \union {r}))
          /\ Cardinality(Units(hold', H \union {r})) = Cardinality(Units(hold', H)) + hold'[r]
      BY <1>2, <2>1, UnitsAdd
    <2> QED
      BY <1>2, <1>3, <1>4, <1>5, <2>2
  <1>7. Spent' = Spent
    BY <1>2, <1>5
  <1>8. CreditsConserved'
    BY <1>1, <1>6, <1>7, Amounts DEF MoneyInv, CreditsConserved
  <1>9. hold' \in [Request -> Quote \union {0}] /\ available' \in Nat /\ reserved' \in Nat
    BY <1>1 DEF MoneyInv
  <1>10. SettledStands
    BY DEF SettledStands, New, CreditInv, CreditTypes
  <1> QED
    BY <1>6, <1>7, <1>8, <1>9, <1>10 DEF MoneyInv

\* An authorization that is no longer open gives its hold up.
LEMMA HoldEnds ==
    ASSUME CreditInv, MoneyInv, NEW r \in Request, Open(r), NEW state \in {"SETTLED", "RELEASED"},
           auth' = [auth EXCEPT ![r] = state], UNCHANGED hold
    PROVE  /\ IsFiniteSet(Held') /\ Cardinality(Held) = Cardinality(Held') + hold[r]
           /\ Cardinality(Held') \in Nat
           /\ reserved - hold[r] \in Nat /\ reserved - hold[r] = Cardinality(Held')
  <1> DEFINE H == In({"RESERVED", "COST_POLICY_VIOLATION"})
  <1>1. r \in H /\ H' = H \ {r}
    BY DEF In, Open, CreditInv, CreditTypes
  <1> HIDE DEF H
  <1>2. Held = Units(hold, H) /\ Held' = Units(hold, H')
    BY DEF Held, H
  <1>3. IsFiniteSet(Held') /\ Cardinality(Held) = Cardinality(Held') + hold[r]
    <2>1. hold[r] \in Nat /\ IsFiniteSet(Units(hold, H))
      BY <1>2, Amounts DEF MoneyInv
    <2> QED
      BY <1>1, <1>2, <2>1, UnitsWithout
  <1>4. Cardinality(Held') \in Nat
    BY <1>3, FS_CardinalityType
  <1> QED
    BY <1>3, <1>4, Amounts DEF MoneyInv, CreditsConserved

\* settle pays out of the hold and gives the rest back; a cost above the hold
\* keeps it.
LEMMA SettleMoney ==
    ASSUME CreditInv, MoneyInv, NEW r \in Request, NEW n \in 1..MaxJobs, NEW c \in Cost, SettleOpen(r, n, c),
           UNCHANGED billed
    PROVE  MoneyInv' /\ SettledStands
  <1> DEFINE S == In({"SETTLED"})
  <1>1. /\ Open(r) /\ UNCHANGED hold
        /\ paid' = [paid EXCEPT ![r] = c] /\ payee' = [payee EXCEPT ![r] = n]
        /\ \/ /\ auth' = [auth EXCEPT ![r] = "COST_POLICY_VIOLATION"] /\ UNCHANGED <<available, reserved>>
           \/ /\ c <= hold[r] /\ auth' = [auth EXCEPT ![r] = "SETTLED"]
              /\ available' = available + (hold[r] - c) /\ reserved' = reserved - hold[r]
    BY DEF SettleOpen, GivenBack
  <1>2. /\ paid' \in [Request -> Cost \union {0}] /\ payee' \in [Request -> 0..MaxJobs]
        /\ paid'[r] = c /\ c \in Nat
    BY <1>1, CreditsAssumption DEF MoneyInv
  <1>3. SettledStands
    BY <1>1 DEF SettledStands, Open, CreditInv, CreditTypes, MoneyInv
  <1>4. r \notin S /\ \A o \in S : paid'[o] = paid[o]
    BY <1>1 DEF In, Open, MoneyInv
  <1>5. CASE auth' = [auth EXCEPT ![r] = "COST_POLICY_VIOLATION"] /\ UNCHANGED <<available, reserved>>
    <2>1. Held' = Held
      <3>1. In({"RESERVED", "COST_POLICY_VIOLATION"})' = In({"RESERVED", "COST_POLICY_VIOLATION"})
        BY <1>1, <1>5 DEF In, Open, CreditInv, CreditTypes
      <3> QED
        BY <1>1, <3>1 DEF Held
    <2>2. S' = S
      BY <1>1, <1>5 DEF In, Open, CreditInv, CreditTypes
    <2> HIDE DEF S
    <2>3. Spent' = Spent
      <3>1. Units(paid', S) = Units(paid, S)
        BY <1>4, UnitsSame
      <3> QED
        BY <2>2, <3>1 DEF Spent, S
    <2> QED
      BY <1>1, <1>2, <1>3, <1>5, <2>1, <2>3 DEF MoneyInv, CreditsConserved
  <1>6. CASE /\ c <= hold[r] /\ auth' = [auth EXCEPT ![r] = "SETTLED"]
             /\ available' = available + (hold[r] - c) /\ reserved' = reserved - hold[r]
    <2>1. /\ IsFiniteSet(Held') /\ Cardinality(Held) = Cardinality(Held') + hold[r]
          /\ reserved' \in Nat /\ reserved' = Cardinality(Held')
      BY <1>1, <1>6, HoldEnds
    <2>2. S' = S \union {r}
      BY <1>6 DEF In, CreditInv, CreditTypes
    <2>3. Spent = Units(paid, S) /\ Spent' = Units(paid', S')
      BY DEF Spent
    <2> HIDE DEF S
    <2>4. Units(paid', S) = Units(paid, S)
      BY <1>4, UnitsSame
    <2>5. IsFiniteSet(Spent') /\ Cardinality(Spent') = Cardinality(Spent) + c
      <3>1. IsFiniteSet(Units(paid', S)) /\ paid'[r] \in Nat
        BY <1>2, <2>3, <2>4 DEF MoneyInv
      <3>2. /\ IsFiniteSet(Units(paid', S \union {r}))
            /\ Cardinality(Units(paid', S \union {r})) = Cardinality(Units(paid', S)) + paid'[r]
        BY <1>4, <3>1, UnitsAdd
      <3> QED
        BY <1>2, <2>2, <2>3, <2>4, <3>2
    <2>6. hold[r] \in Nat /\ available \in Nat /\ Cardinality(Held) \in Nat /\ Cardinality(Spent) \in Nat
      BY Amounts DEF MoneyInv
    <2>7. CreditsConserved'
      BY <1>2, <1>6, <2>1, <2>5, <2>6 DEF MoneyInv, CreditsConserved
    <2>8. available' \in Nat
      BY <1>2, <1>6, <2>6
    <2> QED
      BY <1>1, <1>2, <1>3, <2>1, <2>5, <2>7, <2>8 DEF MoneyInv
  <1> QED
    BY <1>1, <1>5, <1>6

\* release gives the hold back.
LEMMA ReleaseMoney ==
    ASSUME CreditInv, MoneyInv, NEW r \in Request, Release(r)
    PROVE  MoneyInv' /\ SettledStands
  <1>1. /\ Open(r) /\ UNCHANGED <<hold, paid, payee, billed>> /\ auth' = [auth EXCEPT ![r] = "RELEASED"]
        /\ available' = available + hold[r] /\ reserved' = reserved - hold[r]
    BY DEF Release, provider
  <1>2. /\ IsFiniteSet(Held') /\ Cardinality(Held) = Cardinality(Held') + hold[r]
        /\ reserved' \in Nat /\ reserved' = Cardinality(Held')
    BY <1>1, HoldEnds
  <1>3. Spent' = Spent
    <2>1. In({"SETTLED"})' = In({"SETTLED"})
      BY <1>1 DEF In, Open, CreditInv, CreditTypes
    <2> QED
      BY <1>1, <2>1 DEF Spent
  <1>4. hold[r] \in Nat /\ available \in Nat /\ Cardinality(Held) \in Nat /\ Cardinality(Spent) \in Nat
    BY Amounts DEF MoneyInv
  <1>5. CreditsConserved' /\ available' \in Nat
    BY <1>1, <1>2, <1>3, <1>4 DEF MoneyInv, CreditsConserved
  <1>6. SettledStands
    BY <1>1 DEF SettledStands, Open, CreditInv, CreditTypes
  <1> QED
    BY <1>1, <1>2, <1>3, <1>5, <1>6 DEF MoneyInv

\* Steps that leave the account alone.
LEMMA MoneyStays ==
    ASSUME MoneyInv, UNCHANGED accountTables, billed \subseteq billed'
    PROVE  MoneyInv' /\ SettledStands
  <1>1. UNCHANGED <<available, reserved, auth, hold, paid, payee>>
    BY DEF accountTables
  <1>2. Held' = Held /\ Spent' = Spent
    BY <1>1 DEF Held, Spent, In, Units
  <1> QED
    BY <1>1, <1>2 DEF MoneyInv, CreditsConserved, SettledStands

\* What a thread carries when it is about to reserve.
LEMMA MoneyStep ==
    ASSUME CreditInv, MoneyInv, PollInv, [Next]_creditVars
    PROVE  MoneyInv' /\ SettledStands
  <1>1. CASE UNCHANGED <<accountTables, billed>>
    BY <1>1, MoneyStays
  <1>2. ASSUME NEW t \in Thread, NEW w \in work[t], SubmitReserve(t, w[1], w[2])
        PROVE  MoneyInv' /\ SettledStands
    <2>1. w[1] \in Request /\ w[2] \in Quote
      <3>1. w \in Work /\ Carries(t, w) /\ pc[t] = "reserve"
        BY <1>2 DEF SubmitReserve, CreditInv, CreditTypes, PollInv
      <3> QED
        BY <3>1 DEF Work, Carries
    <2>2. \/ /\ New(w[1]) /\ Covers(w[2])
             /\ available' = available - w[2] /\ reserved' = reserved + w[2]
             /\ auth' = [auth EXCEPT ![w[1]] = "RESERVED"] /\ hold' = [hold EXCEPT ![w[1]] = w[2]]
             /\ UNCHANGED <<paid, payee, billed>>
          \/ UNCHANGED <<accountTables, billed>>
      BY <1>2 DEF SubmitReserve, provider
    <2> QED
      BY <2>1, <2>2, MoneyStays, ReserveMoney
  <1>3. ASSUME NEW r \in Request, NEW n \in 1..MaxJobs, NEW c \in Cost,
               SettleSpend(r, n, c) \/ \E t \in Thread : PollSettle(t, r, n, c)
        PROVE  MoneyInv' /\ SettledStands
    <2>1. UNCHANGED billed /\ (SettleOpen(r, n, c) \/ UNCHANGED accountTables)
      BY <1>3 DEF SettleSpend, PollSettle, provider
    <2> QED
      BY <2>1, MoneyStays, SettleMoney
  <1>4. ASSUME NEW r \in Request, NEW n \in 1..MaxJobs, NEW c \in Cost, ProviderFinishes(r, n, c)
        PROVE  MoneyInv' /\ SettledStands
    <2>1. UNCHANGED accountTables /\ billed \subseteq billed'
      BY <1>4 DEF ProviderFinishes
    <2> QED
      BY <2>1, MoneyStays
  <1>5. ASSUME NEW r \in Request, Release(r) PROVE MoneyInv' /\ SettledStands
    BY <1>5, ReleaseMoney
  <1>6. ASSUME NEW r \in Request, Reconcile(r) \/ Complete(r) PROVE UNCHANGED <<accountTables, billed>>
    BY <1>6 DEF Reconcile, Complete, provider
  <1>7. ASSUME Crash PROVE UNCHANGED <<accountTables, billed>>
    BY <1>7 DEF Crash, provider
  <1>8. ASSUME NEW t \in Thread, NEW r \in Request, NEW q \in Quote, SubmitCheck(t, r, q)
        PROVE  UNCHANGED <<accountTables, billed>>
    BY <1>8 DEF SubmitCheck, provider
  <1>9. ASSUME NEW t \in Thread, NEW w \in work[t],
               \/ PrepareRead(t, w[1]) \/ PrepareWrite(t, w[1])
               \/ PostCreates(t, w[1], w[2]) \/ PostRefused(t, w[1]) \/ RecordOutcome(t, w[1])
               \/ KeepContext(t, w[1], w[3]) \/ PollRecord(t, w[1], w[3])
        PROVE  UNCHANGED <<accountTables, billed>>
    BY <1>9 DEF PrepareRead, PrepareWrite, PostCreates, PostRefused, RecordOutcome, KeepContext,
       PollRecord, provider
  <1>10. ASSUME UNCHANGED creditVars PROVE UNCHANGED <<accountTables, billed>>
    BY <1>10 DEF creditVars, provider
  <1> QED
    BY <1>1, <1>2, <1>3, <1>4, <1>5, <1>6, <1>7, <1>8, <1>9, <1>10 DEF Next, ThreadStep

\* A settlement that stands.
LEMMA SettledRemains ==
    ASSUME SettledStands, NEW r \in Request, NEW n, Settled(r, n)
    PROVE  Settled(r, n)'
  BY DEF SettledStands, Settled

\* A thread's step keeps the session's facts, when what it then carries is right.
LEMMA PollStep ==
    ASSUME CreditInv, CreditInv', PollInv, SettledStands, NEW t \in Thread,
           contexts \subseteq contexts', contexts' \subseteq Job,
           billed' = billed, crashes' = crashes,
           \A u \in Thread \ {t} : pc'[u] = pc[u] /\ work'[u] = work[u],
           pc'[t] = "idle" <=> work'[t] = {},
           \A w \in work'[t] : Carries(t, w)',
           \A p \in proven' : p \in proven \/ (p \in contexts' /\ Settled(p[1], p[2])')
    PROVE  PollInv'
  <1>1. ASSUME NEW u \in Thread, NEW w \in work'[u] PROVE Carries(u, w)'
    <2>1. CASE u = t
      BY <2>1, <1>1
    <2>2. CASE u # t
      <3>1. pc'[u] = pc[u] /\ w \in work[u] /\ w[1] \in Request /\ Carries(u, w)
        BY <1>1, <2>2 DEF CreditInv, CreditTypes, Work, PollInv
      <3>2. Settled(w[1], w[3]) => Settled(w[1], w[3])'
        BY <3>1, SettledRemains
      <3> QED
        BY <3>1, <3>2 DEF Carries
    <2> QED
      BY <2>1, <2>2
  <1>2. ProvenIsSettled'
    <2> SUFFICES ASSUME NEW r \in Request, NEW n \in 1..MaxJobs, <<r, n>> \in proven'
                 PROVE  Settled(r, n)'
      BY DEF ProvenIsSettled, Settled
    <2>1. CASE <<r, n>> \in proven
      <3>1. Settled(r, n)
        BY <2>1 DEF PollInv, ProvenIsSettled, Settled
      <3> QED
        BY <3>1, SettledRemains
    <2>2. CASE <<r, n>> \notin proven
      BY <2>2
    <2> QED
      BY <2>1, <2>2
  <1>3. proven' \subseteq contexts'
    BY DEF PollInv
  <1>4. \A u \in Thread : pc'[u] = "idle" <=> work'[u] = {}
    BY DEF PollInv
  <1> QED
    BY <1>1, <1>2, <1>3, <1>4 DEF PollInv

\* Steps that leave the threads and the session as they are.
LEMMA PollStays ==
    ASSUME CreditInv, PollInv, SettledStands, UNCHANGED <<pc, work, contexts, proven, crashes>>,
           billed' \subseteq Job \X Cost
    PROVE  PollInv'
  <1>1. ASSUME NEW u \in Thread, NEW w \in work[u] PROVE Carries(u, w)'
    <2>1. w[1] \in Request /\ Carries(u, w)
      BY <1>1 DEF CreditInv, CreditTypes, Work, PollInv
    <2>2. Settled(w[1], w[3]) => Settled(w[1], w[3])'
      BY <2>1, SettledRemains
    <2> QED
      BY <2>1, <2>2 DEF Carries
  <1>2. ProvenIsSettled'
    <2> SUFFICES ASSUME NEW r \in Request, NEW n \in 1..MaxJobs, <<r, n>> \in proven'
                 PROVE  Settled(r, n)'
      BY DEF ProvenIsSettled, Settled
    <2>1. Settled(r, n)
      BY DEF PollInv, ProvenIsSettled, Settled
    <2> QED
      BY <2>1, SettledRemains
  <1> QED
    BY <1>1, <1>2 DEF PollInv

\* The submitting thread, step by step.
LEMMA SubmitPoll ==
    ASSUME CreditInv, CreditInv', PollInv, SettledStands, NEW t \in Thread, NEW w \in work[t],
           \/ SubmitReserve(t, w[1], w[2]) \/ PrepareRead(t, w[1]) \/ PrepareWrite(t, w[1])
           \/ PostCreates(t, w[1], w[2]) \/ PostRefused(t, w[1]) \/ RecordOutcome(t, w[1])
    PROVE  PollInv'
  <1>1. UNCHANGED <<contexts, proven, billed, crashes>>
    BY DEF SubmitReserve, PrepareRead, PrepareWrite, PostCreates, PostRefused, RecordOutcome,
       provider
  <1>2. \/ pc' = [pc EXCEPT ![t] = "idle"] /\ work' = [work EXCEPT ![t] = {}]
        \/ \E step \in {"authorized", "prepare", "post", "ambiguous", "failed"} :
              pc' = [pc EXCEPT ![t] = step] /\ work' = work
        \/ pc[t] = "accepted" /\ pc' = [pc EXCEPT ![t] = "context"] /\ work' = work
        \/ \E step \in {"accepted", "ambiguous", "failed"} :
              /\ pc' = [pc EXCEPT ![t] = step]
              /\ work' = [work EXCEPT ![t] = {<<w[1], w[2], jobs[w[1]] + 1>>}]
              /\ posts[w[1]] < MaxJobs
    BY DEF SubmitReserve, PrepareRead, PrepareWrite, PostCreates, PostRefused, RecordOutcome, Goto,
       Done
  <1>3. w[1] \in Request /\ \A v \in work[t] : v = w
    BY DEF CreditInv, CreditTypes, Work
  <1>4. \A u \in Thread \ {t} : pc'[u] = pc[u] /\ work'[u] = work[u]
    BY <1>2 DEF CreditInv, CreditTypes
  <1>5. posts[w[1]] < MaxJobs => jobs[w[1]] + 1 \in 1..MaxJobs
    BY <1>3, CreditsAssumption DEF CreditInv, CreditTypes, TableInv, JobsHavePosts
  <1>6. (pc'[t] = "idle" <=> work'[t] = {}) /\ \A v \in work'[t] : Carries(t, v)'
    <2>1. CASE pc' = [pc EXCEPT ![t] = "idle"] /\ work' = [work EXCEPT ![t] = {}]
      BY <2>1 DEF CreditInv, CreditTypes
    <2>2. ASSUME NEW step \in {"authorized", "prepare", "post", "ambiguous", "failed"},
                 pc' = [pc EXCEPT ![t] = step], work' = work
          PROVE  (pc'[t] = "idle" <=> work'[t] = {}) /\ \A v \in work'[t] : Carries(t, v)'
      <3>1. pc'[t] = step /\ work'[t] # {}
        BY <2>2 DEF CreditInv, CreditTypes
      <3> QED
        BY <3>1 DEF Carries
    <2>3. CASE pc[t] = "accepted" /\ pc' = [pc EXCEPT ![t] = "context"] /\ work' = work
      <3>1. pc'[t] = "context" /\ work'[t] # {} /\ work'[t] = work[t]
        BY <2>3 DEF CreditInv, CreditTypes
      <3>2. w[3] \in 1..MaxJobs
        BY <2>3 DEF PollInv, Carries
      <3> QED
        BY <1>3, <3>1, <3>2 DEF Carries
    <2>4. ASSUME NEW step \in {"accepted", "ambiguous", "failed"}, pc' = [pc EXCEPT ![t] = step],
                 work' = [work EXCEPT ![t] = {<<w[1], w[2], jobs[w[1]] + 1>>}], posts[w[1]] < MaxJobs
          PROVE  (pc'[t] = "idle" <=> work'[t] = {}) /\ \A v \in work'[t] : Carries(t, v)'
      <3>1. pc'[t] = step /\ work'[t] = {<<w[1], w[2], jobs[w[1]] + 1>>}
        BY <2>4 DEF CreditInv, CreditTypes
      <3>2. \A v \in work'[t] : v[3] \in 1..MaxJobs
        BY <1>5, <2>4, <3>1
      <3> QED
        BY <3>1, <3>2 DEF Carries
    <2> QED
      BY <1>2, <2>1, <2>2, <2>3, <2>4
  <1> QED
    BY <1>1, <1>4, <1>6, PollStep DEF PollInv

\* The gateway's check, the context and the poller.
LEMMA PollerKeeps ==
    ASSUME CreditInv, CreditInv', MoneyInv, PollInv, SettledStands, NEW t \in Thread,
           \/ \E r \in Request, q \in Quote : SubmitCheck(t, r, q)
           \/ \E w \in work[t] : KeepContext(t, w[1], w[3]) \/ PollRecord(t, w[1], w[3])
           \/ \E r \in Request, n \in 1..MaxJobs, c \in Cost : PollSettle(t, r, n, c)
    PROVE  PollInv'
  <1>1. ASSUME NEW r \in Request, NEW q \in Quote, SubmitCheck(t, r, q) PROVE PollInv'
    <2>1. /\ UNCHANGED <<contexts, proven, billed, crashes>>
          /\ pc' = [pc EXCEPT ![t] = "reserve"] /\ work' = [work EXCEPT ![t] = {<<r, q, 0>>}]
      BY <1>1 DEF SubmitCheck, Goto, provider
    <2>2. /\ pc'[t] = "reserve" /\ work'[t] = {<<r, q, 0>>}
          /\ \A u \in Thread \ {t} : pc'[u] = pc[u] /\ work'[u] = work[u]
      BY <2>1 DEF CreditInv, CreditTypes
    <2>3. \A v \in work'[t] : Carries(t, v)'
      BY <2>2 DEF Carries
    <2> QED
      BY <2>1, <2>2, <2>3, PollStep DEF PollInv
  <1>2. ASSUME NEW w \in work[t], KeepContext(t, w[1], w[3]) PROVE PollInv'
    <2>1. /\ UNCHANGED <<proven, billed, crashes>> /\ contexts' = contexts \union {<<w[1], w[3]>>}
          /\ pc[t] = "context"
          /\ pc' = [pc EXCEPT ![t] = "idle"] /\ work' = [work EXCEPT ![t] = {}]
      BY <1>2 DEF KeepContext, Done, Goto, provider
    <2>2. /\ pc'[t] = "idle" /\ work'[t] = {}
          /\ \A u \in Thread \ {t} : pc'[u] = pc[u] /\ work'[u] = work[u]
      BY <2>1 DEF CreditInv, CreditTypes
    <2>3. <<w[1], w[3]>> \in Job
      BY <2>1 DEF PollInv, Carries, CreditInv, CreditTypes, Work, Job
    <2> QED
      BY <2>1, <2>2, <2>3, PollStep DEF PollInv
  <1>3. ASSUME NEW w \in work[t], PollRecord(t, w[1], w[3]) PROVE PollInv'
    <2>1. /\ UNCHANGED <<contexts, billed, crashes>> /\ proven' = proven \union {<<w[1], w[3]>>}
          /\ pc[t] = "settled"
          /\ pc' = [pc EXCEPT ![t] = "idle"] /\ work' = [work EXCEPT ![t] = {}]
      BY <1>3 DEF PollRecord, Done, Goto, provider
    <2>2. /\ pc'[t] = "idle" /\ work'[t] = {}
          /\ \A u \in Thread \ {t} : pc'[u] = pc[u] /\ work'[u] = work[u]
      BY <2>1 DEF CreditInv, CreditTypes
    <2>3. w[1] \in Request /\ <<w[1], w[3]>> \in contexts /\ Settled(w[1], w[3])
      BY <2>1 DEF PollInv, Carries, CreditInv, CreditTypes, Work
    <2>4. Settled(w[1], w[3])'
      BY <2>3, SettledRemains
    <2>5. \A p \in proven' : p \in proven \/ (p \in contexts' /\ Settled(p[1], p[2])')
      <3> SUFFICES ASSUME NEW p \in proven', p \notin proven PROVE p \in contexts' /\ Settled(p[1], p[2])'
        OBVIOUS
      <3>1. p = <<w[1], w[3]>> /\ p[1] = w[1] /\ p[2] = w[3]
        BY <2>1
      <3> QED
        BY <2>1, <2>3, <2>4, <3>1
    <2> QED
      BY <2>1, <2>2, <2>5, PollStep DEF PollInv
  <1>4. ASSUME NEW r \in Request, NEW n \in 1..MaxJobs, NEW c \in Cost, PollSettle(t, r, n, c) PROVE PollInv'
    <2>1. /\ UNCHANGED <<contexts, proven, billed, crashes>> /\ pc[t] = "idle" /\ <<r, n>> \in contexts
          /\ <<<<r, n>>, c>> \in billed
      BY <1>4 DEF PollSettle, provider
    <2>2. CASE UNCHANGED <<pc, work>>
      BY <2>1, <2>2, PollStays DEF PollInv
    <2>3. CASE /\ pc' = [pc EXCEPT ![t] = "settled"] /\ work' = [work EXCEPT ![t] = {<<r, 0, n>>}]
               /\ \/ SettleOpen(r, n, c) /\ ~(c > hold[r])
                  \/ SettledAlike(r, n, c) /\ UNCHANGED accountTables
      <3>1. /\ pc'[t] = "settled" /\ work'[t] = {<<r, 0, n>>}
            /\ \A u \in Thread \ {t} : pc'[u] = pc[u] /\ work'[u] = work[u]
        BY <2>3 DEF CreditInv, CreditTypes
      <3>2. auth'[r] = "SETTLED" /\ payee'[r] = n /\ paid'[r] = c
        <4>1. CASE SettleOpen(r, n, c) /\ ~(c > hold[r])
          BY <4>1 DEF SettleOpen, CreditInv, CreditTypes, MoneyInv
        <4>2. CASE SettledAlike(r, n, c) /\ UNCHANGED accountTables
          BY <4>2 DEF SettledAlike, accountTables
        <4> QED
          BY <2>3, <4>1, <4>2
      <3>3. Settled(r, n)'
        BY <2>1, <3>2 DEF Settled
      <3>4. \A v \in work'[t] : Carries(t, v)'
        BY <2>1, <3>1, <3>3 DEF Carries
      <3> QED
        BY <2>1, <3>1, <3>4, PollStep DEF PollInv
    <2> QED
      BY <1>4, <2>2, <2>3 DEF PollSettle, Goto
  <1> QED
    BY <1>1, <1>2, <1>3, <1>4

\* Every step keeps the session's facts.
LEMMA PollNext ==
    ASSUME CreditInv, CreditInv', MoneyInv, PollInv, SettledStands, [Next]_creditVars
    PROVE  PollInv'
  <1>1. CASE UNCHANGED creditVars
    <2>1. UNCHANGED <<pc, work, contexts, proven, crashes, billed>>
      BY <1>1 DEF creditVars, session, provider
    <2> QED
      BY <2>1, PollStays DEF PollInv
  <1>2. ASSUME NEW r \in Request, NEW n \in 1..MaxJobs, NEW c \in Cost,
               SettleSpend(r, n, c) \/ ProviderFinishes(r, n, c)
        PROVE  PollInv'
    <2>1. UNCHANGED <<pc, work, contexts, proven, crashes>> /\ billed' \subseteq billed \union {<<<<r, n>>, c>>}
      BY <1>2 DEF SettleSpend, ProviderFinishes, session, provider
    <2>2. billed' \subseteq Job \X Cost
      BY <2>1 DEF PollInv, Job
    <2> QED
      BY <2>1, <2>2, PollStays
  <1>3. ASSUME NEW r \in Request, Release(r) \/ Reconcile(r) \/ Complete(r) PROVE PollInv'
    <2>1. UNCHANGED <<pc, work, contexts, proven, crashes, billed>>
      BY <1>3 DEF Release, Reconcile, Complete, session, provider
    <2> QED
      BY <2>1, PollStays DEF PollInv
  <1>4. CASE Crash
    <2>1. /\ pc' = [t \in Thread |-> "idle"] /\ work' = [t \in Thread |-> {}]
          /\ contexts' = {} /\ proven' = {} /\ billed' = billed /\ crashes' \in 0..MaxCrashes
      BY <1>4, CreditsAssumption DEF Crash, provider, PollInv
    <2> QED
      BY <2>1 DEF PollInv, ProvenIsSettled
  <1> QED
    BY <1>1, <1>2, <1>3, <1>4, SubmitPoll, PollerKeeps DEF Next, ThreadStep

\* Ledger, account and session together.
LEMMA AccountInvariant == Spec => [](CreditInv /\ MoneyInv /\ PollInv)
  <1>1. Init => MoneyInv /\ PollInv
    <2> SUFFICES ASSUME Init PROVE MoneyInv /\ PollInv
      OBVIOUS
    <2>1. Held = {} /\ Spent = {}
      BY DEF Init, Held, Spent, In, Units
    <2>2. /\ IsFiniteSet(Held) /\ IsFiniteSet(Spent) /\ Cardinality(Held) = 0 /\ Cardinality(Spent) = 0
      BY <2>1, FS_EmptySet
    <2>3. MoneyInv
      BY <2>2, CreditsAssumption DEF Init, MoneyInv, CreditsConserved
    <2>4. PollInv
      BY CreditsAssumption DEF Init, PollInv, ProvenIsSettled
    <2> QED
      BY <2>3, <2>4
  <1>2. CreditInv /\ MoneyInv /\ PollInv /\ [Next]_creditVars => CreditInv' /\ MoneyInv' /\ PollInv'
    BY CreditStep, MoneyStep, PollNext
  <1> QED
    BY CreditStart, <1>1, <1>2, PTL DEF Spec

\* No credit is made or lost: what is not available is on hold or was paid,
\* through every race of reserve, settle and release and every crash.
THEOREM NoCreditIsLost == Spec => []CreditsConserved
  <1>1. MoneyInv => CreditsConserved
    BY DEF MoneyInv
  <1> QED
    BY <1>1, AccountInvariant, PTL

\* Ledger, provider and session agree: jobs have their trace, accepted rows
\* their job, and what the session calls proven is what the ledger settled
\* for that very job.
THEOREM LedgerAndSessionAgree == Spec => []CreditsInv
  <1>1. CreditInv /\ MoneyInv /\ PollInv => CreditsInv
    BY DEF CreditInv, CreditTypes, TableInv, MoneyInv, PollInv, CreditsInv, TypeOK
  <1> QED
    BY <1>1, AccountInvariant, PTL

-----------------------------------------------------------------------------
(* Subscriptions                                                           *)

\* The inductive invariant of the bindings ...
BindingsInv ==
    /\ binding \in [Subscription -> Targets \union {"none", "PENDING"}]
    /\ last_event \in [Subscription -> 0..MaxTime]
    /\ applied \subseteq Event
    /\ BindingIsLatest

\* ... of the entitlement ...
EntitledInv ==
    /\ IsFiniteSet(projected) /\ EntitlementHasLineage
    /\ access \in Targets \union {"none"}
    /\ valid_until \in Nat /\ version \in Nat
    /\ source \subseteq projected
    /\ grants \subseteq Grant
    /\ ActiveIsGranted

\* ... and of a thread: an activation holds a grant of its subscription whose
\* period its event belongs to, and what goes on to the entitlement has been
\* applied to the binding.
ServerHolds(h) ==
    \/ serving[h] = "idle" /\ delivery[h] = {}
    \/ /\ serving[h] \in {"apply", "identity", "entitle"}
       /\ \E e \in Event, g \in grants :
             /\ delivery[h] = {<<e, g>>}
             /\ e[2] = "ACTIVE" /\ GrantOf[g] = e[1] /\ PeriodStart[g] <= e[3]
             /\ serving[h] # "apply" => e \in applied
    \/ /\ serving[h] = "deny"
       /\ \E e \in applied : delivery[h] = {<<e, 0>>} /\ e[2] # "ACTIVE"

ServersInv ==
    /\ serving \in [Server -> {"idle", "apply", "identity", "entitle", "deny"}]
    /\ delivery \in [Server -> SUBSET (Event \X (Grant \union {0}))]
    /\ \A h \in Server : ServerHolds(h)

BillingInv == BindingsInv /\ EntitledInv /\ ServersInv /\ clock \in 0..MaxTime /\ member \in {"active", "inactive"}

\* What an event is made of.
LEMMA EventParts ==
    ASSUME NEW e \in Event
    PROVE  e[1] \in Subscription /\ e[2] \in Targets /\ e[3] \in 1..MaxTime
BY DEF Event

\* Steps of one thread leave the others what they hold.
LEMMA OthersHold ==
    ASSUME BillingInv, NEW h \in Server, NEW g \in Server, g # h,
           serving'[g] = serving[g], delivery'[g] = delivery[g],
           applied \subseteq applied', grants \subseteq grants'
    PROVE  ServerHolds(g)'
<1>1. ServerHolds(g)
  BY DEF BillingInv, ServersInv
<1> QED  BY <1>1 DEF ServerHolds

\* A thread that goes on with what belongs to its new step.
LEMMA ServeKeeps ==
    ASSUME BillingInv, NEW h \in Server, NEW step \in {"idle", "apply", "identity", "entitle", "deny"},
           NEW held \in SUBSET (Event \X (Grant \union {0})),
           serving' = [serving EXCEPT ![h] = step], delivery' = [delivery EXCEPT ![h] = held],
           applied \subseteq applied', grants \subseteq grants',
           ServerHolds(h)'
    PROVE  ServersInv'
<1>1. ASSUME NEW g \in Server, g # h PROVE ServerHolds(g)'
  BY <1>1, OthersHold DEF BillingInv, ServersInv
<1>2. /\ serving' \in [Server -> {"idle", "apply", "identity", "entitle", "deny"}]
      /\ delivery' \in [Server -> SUBSET (Event \X (Grant \union {0}))]
  BY DEF BillingInv, ServersInv
<1> QED  BY <1>1, <1>2 DEF ServersInv

\* A thread that is done.
LEMMA FinishKeeps ==
    ASSUME BillingInv, NEW h \in Server, Finish(h), applied \subseteq applied', grants \subseteq grants'
    PROVE  ServersInv'
<1>1. ServerHolds(h)'
  BY DEF Finish, ServerHolds, BillingInv, ServersInv
<1> QED  BY <1>1, ServeKeeps DEF Finish

\* apply_verified_provider_event keeps the bindings what their latest event says.
LEMMA ApplyEventKeeps ==
    ASSUME BillingInv, NEW e \in Event, ApplyEvent(e)
    PROVE  BindingsInv' /\ e \in applied' /\ applied \subseteq applied'
<1>1. CASE e \in applied /\ UNCHANGED bindingTables
  BY <1>1 DEF BillingInv, BindingsInv, BindingIsLatest, bindingTables
<1>2. CASE /\ e \notin applied /\ InTime(e)
           /\ binding' = [binding EXCEPT ![e[1]] = e[2]]
           /\ last_event' = [last_event EXCEPT ![e[1]] = e[3]]
           /\ applied' = applied \union {e}
  <2>1. e[1] \in Subscription /\ e[2] \in Targets /\ e[3] \in 1..MaxTime
    BY EventParts
  <2>2. \A f \in applied : f[1] \in Subscription /\ f[3] \in 1..MaxTime
    BY EventParts DEF BillingInv, BindingsInv
  <2>3. e[3] > last_event[e[1]] /\ last_event[e[1]] \in Nat
    BY <1>2, <2>1 DEF InTime, BillingInv, BindingsInv
  <2>4. \A f \in applied : f[1] = e[1] => f[3] < e[3]
    <3> SUFFICES ASSUME NEW f \in applied, f[1] = e[1] PROVE f[3] < e[3]
      OBVIOUS
    <3>1. PICK l \in applied : /\ l[1] = e[1] /\ l[3] = last_event[e[1]]
                               /\ \A k \in applied : k[1] = e[1] /\ k # l => k[3] < l[3]
      BY <2>1 DEF BillingInv, BindingsInv, BindingIsLatest
    <3>2. f = l \/ f[3] < l[3]
      BY <3>1
    <3>3. f[3] \in Nat /\ l[3] \in Nat /\ e[3] \in Nat
      BY <2>1, <2>2
    <3> QED  BY <2>3, <3>1, <3>2, <3>3
  <2>5. BindingIsLatest'
    <3> SUFFICES ASSUME NEW s \in Subscription
                 PROVE  \/ {f \in applied' : f[1] = s} = {} /\ last_event'[s] = 0
                        \/ \E l \in {f \in applied' : f[1] = s} :
                              /\ l[3] = last_event'[s] /\ binding'[s] = l[2]
                              /\ \A f \in {f \in applied' : f[1] = s} \ {l} : f[3] < l[3]
      BY DEF BindingIsLatest
    <3>1. CASE s = e[1]
      <4>1. last_event'[s] = e[3] /\ binding'[s] = e[2]
        BY <1>2, <3>1, <2>1 DEF BillingInv, BindingsInv
      <4> QED  BY <1>2, <2>4, <3>1, <4>1
    <3>2. CASE s # e[1]
      <4>1. last_event'[s] = last_event[s] /\ binding'[s] = binding[s]
        BY <1>2, <3>2, <2>1 DEF BillingInv, BindingsInv
      <4>2. {f \in applied' : f[1] = s} = {f \in applied : f[1] = s}
        BY <1>2, <3>2
      <4> QED  BY <4>1, <4>2 DEF BillingInv, BindingsInv, BindingIsLatest
    <3> QED  BY <3>1, <3>2
  <2>6. /\ binding' \in [Subscription -> Targets \union {"none", "PENDING"}]
        /\ last_event' \in [Subscription -> 0..MaxTime]
        /\ applied' \subseteq Event
    BY <1>2, <2>1 DEF BillingInv, BindingsInv
  <2> QED  BY <1>2, <2>5, <2>6 DEF BindingsInv
<1> QED  BY <1>1, <1>2 DEF ApplyEvent

\* Grants and applied events are only added to: the entitlement stays what it is.
LEMMA EntitledStays ==
    ASSUME BillingInv, UNCHANGED entitlementTables, applied \subseteq applied',
           grants \subseteq grants', grants' \subseteq Grant
    PROVE  EntitledInv'
BY DEF BillingInv, EntitledInv, EntitlementHasLineage, ActiveIsGranted, entitlementTables

\* The bindings when nothing is applied.
LEMMA BindingsStay ==
    ASSUME BillingInv, UNCHANGED bindingTables PROVE BindingsInv'
BY DEF BillingInv, BindingsInv, BindingIsLatest, bindingTables

\* apply_entitlement writes for an applied event, an active one within a grant.
LEMMA ApplyEntitlementKeeps ==
    ASSUME BillingInv, NEW e \in applied, NEW until \in Nat, ApplyEntitlement(e, until),
           UNCHANGED <<applied, grants>>,
           e[2] = "ACTIVE" => \E g \in grants : /\ GrantOf[g] = e[1] /\ until = PeriodEnd[g]
                                                /\ PeriodStart[g] <= e[3]
    PROVE  EntitledInv'
<1>1. CASE ~Fresh(e) /\ UNCHANGED entitlementTables
  BY <1>1, EntitledStays DEF BillingInv, EntitledInv
<1>2. CASE /\ Fresh(e) /\ projected' = projected \union {e}
           /\ access' = e[2] /\ source' = {e} /\ valid_until' = until /\ version' = version + 1
  <2>1. e[2] \in Targets
    BY EventParts DEF BillingInv, BindingsInv
  <2>2. IsFiniteSet(projected') /\ Cardinality(projected') = Cardinality(projected) + 1
    BY <1>2, FS_AddElement DEF Fresh, BillingInv, EntitledInv
  <2>3. EntitlementHasLineage'
    BY <1>2, <2>1, <2>2 DEF BillingInv, EntitledInv, EntitlementHasLineage, Targets
  <2>4. ActiveIsGranted'
    BY <1>2 DEF ActiveIsGranted
  <2> QED  BY <1>2, <2>1, <2>2, <2>3, <2>4 DEF BillingInv, EntitledInv
<1> QED  BY <1>1, <1>2 DEF ApplyEntitlement

\* activate_from_trusted_grant, step by step.
LEMMA ActivateKeeps ==
    ASSUME BillingInv, NEW h \in Server,
           \/ \E e \in Event, g \in Grant : ActivateResolve(h, e, g)
           \/ \E d \in delivery[h] : \/ ActivateApply(h, d[1]) \/ ActivateIdentity(h)
                                     \/ ActivateEntitle(h, d[1], d[2])
    PROVE  BillingInv'
<1>1. ASSUME NEW e \in Event, NEW g \in Grant, ActivateResolve(h, e, g) PROVE BillingInv'
  <2>1. /\ UNCHANGED <<bindingTables, applied, grants, entitlementTables, member, clock>>
        /\ g \in grants /\ GrantOf[g] = e[1] /\ e[2] = "ACTIVE" /\ PeriodStart[g] <= e[3]
        /\ serving' = [serving EXCEPT ![h] = "apply"]
        /\ delivery' = [delivery EXCEPT ![h] = {<<e, g>>}]
    BY <1>1 DEF ActivateResolve, Current, Within, Take, bindingTables
  <2>2. serving'[h] = "apply" /\ delivery'[h] = {<<e, g>>}
    BY <2>1 DEF BillingInv, ServersInv
  <2>3. ServerHolds(h)'
    BY <2>1, <2>2 DEF ServerHolds
  <2>4. {<<e, g>>} \in SUBSET (Event \X (Grant \union {0})) /\ applied' = applied
    BY <2>1
  <2>5. ServersInv'
    BY <2>1, <2>3, <2>4, ServeKeeps
  <2> QED  BY <2>1, <2>5, BindingsStay, EntitledStays DEF BillingInv, EntitledInv
<1>2. ASSUME NEW d \in delivery[h], serving[h] \in {"apply", "identity", "entitle"},
             \/ ActivateApply(h, d[1]) \/ ActivateIdentity(h) \/ ActivateEntitle(h, d[1], d[2])
      PROVE  BillingInv'
  <2>1. PICK e \in Event, g \in grants :
               /\ delivery[h] = {<<e, g>>}
               /\ e[2] = "ACTIVE" /\ GrantOf[g] = e[1] /\ PeriodStart[g] <= e[3]
               /\ serving[h] # "apply" => e \in applied
    BY <1>2 DEF BillingInv, ServersInv, ServerHolds
  <2>2. d[1] = e /\ d[2] = g
    BY <1>2, <2>1
  <2>3. ASSUME GoOn(h, "identity") \/ GoOn(h, "entitle"), e \in applied',
               applied \subseteq applied', grants' = grants
        PROVE  ServersInv'
    <3>1. PICK step \in {"identity", "entitle"} : GoOn(h, step)
      BY <2>3
    <3>2. serving'[h] = step /\ delivery'[h] = {<<e, g>>}
      BY <2>1, <3>1 DEF GoOn, BillingInv, ServersInv
    <3>3. ServerHolds(h)'
      BY <2>1, <2>3, <3>2 DEF ServerHolds
    <3>4. delivery' = [delivery EXCEPT ![h] = delivery[h]] /\ delivery[h] \in SUBSET (Event \X (Grant \union {0}))
      BY <3>1 DEF GoOn, BillingInv, ServersInv
    <3> QED  BY <2>3, <3>1, <3>3, <3>4, ServeKeeps DEF GoOn
  <2>4. CASE ActivateApply(h, d[1])
    <3>1. UNCHANGED <<grants, entitlementTables, member, clock>>
      BY <2>4 DEF ActivateApply
    <3>2. CASE ApplyEvent(e) /\ GoOn(h, "identity")
      <4>1. BindingsInv' /\ e \in applied' /\ applied \subseteq applied'
        BY <3>2, ApplyEventKeeps
      <4> QED  BY <2>3, <3>1, <3>2, <4>1, EntitledStays DEF BillingInv, EntitledInv
    <3>3. CASE Finish(h) /\ UNCHANGED bindingTables
      <4>1. applied' = applied
        BY <3>3 DEF bindingTables
      <4> QED  BY <3>1, <3>3, <4>1, FinishKeeps, BindingsStay, EntitledStays DEF BillingInv,
                  EntitledInv
    <3> QED  BY <2>2, <2>4, <3>2, <3>3 DEF ActivateApply
  <2>5. CASE ActivateIdentity(h)
    <3>1. UNCHANGED <<bindingTables, applied, grants, entitlementTables, member, clock>> /\ serving[h] = "identity"
      BY <2>5 DEF ActivateIdentity, bindingTables
    <3>2. ServersInv'
      BY <2>1, <2>3, <2>5, <3>1, FinishKeeps DEF ActivateIdentity
    <3> QED  BY <3>1, <3>2, BindingsStay, EntitledStays DEF BillingInv, EntitledInv
  <2>6. CASE ActivateEntitle(h, d[1], d[2])
    <3>1. /\ UNCHANGED <<bindingTables, applied, grants, member, clock>>
          /\ ApplyEntitlement(e, PeriodEnd[g]) /\ Finish(h) /\ e \in applied
      BY <2>1, <2>2, <2>6 DEF ActivateEntitle, bindingTables
    <3>2. PeriodEnd[g] \in Nat
      BY SubscriptionAssumption DEF BillingInv, EntitledInv
    <3>3. EntitledInv'
      BY <2>1, <3>1, <3>2, ApplyEntitlementKeeps
    <3> QED  BY <3>1, <3>3, FinishKeeps, BindingsStay DEF BillingInv
  <2> QED  BY <1>2, <2>4, <2>5, <2>6
<1> QED  BY <1>1, <1>2 DEF ActivateApply, ActivateIdentity, ActivateEntitle

\* reconcile_verified_provider_entitlement.
LEMMA ReconcileKeeps ==
    ASSUME BillingInv, NEW h \in Server,
           \/ \E e \in Event : ReconcileApply(h, e)
           \/ \E d \in delivery[h] : ReconcileEntitle(h, d[1])
    PROVE  BillingInv'
<1>1. ASSUME NEW e \in Event, ReconcileApply(h, e) PROVE BillingInv'
  <2>1. UNCHANGED <<grants, entitlementTables, member, clock>> /\ ApplyEvent(e)
    BY <1>1 DEF ReconcileApply
  <2>2. BindingsInv' /\ e \in applied' /\ applied \subseteq applied'
    BY <2>1, ApplyEventKeeps
  <2>3. CASE UNCHANGED threads
    <3>1. ASSUME NEW g \in Server PROVE ServerHolds(g)'
      <4>1. ServerHolds(g) /\ UNCHANGED <<serving, delivery>>
        BY <2>3 DEF BillingInv, ServersInv, threads
      <4> QED  BY <2>1, <2>2, <4>1 DEF ServerHolds
    <3>2. ServersInv'
      BY <2>3, <3>1 DEF BillingInv, ServersInv, threads
    <3> QED  BY <2>1, <2>2, <3>2, EntitledStays DEF BillingInv, EntitledInv
  <2>4. CASE e[2] # "ACTIVE" /\ Take(h, "deny", e, 0)
    <3>1. serving'[h] = "deny" /\ delivery'[h] = {<<e, 0>>}
      BY <2>4 DEF Take, BillingInv, ServersInv
    <3>2. ServerHolds(h)'
      BY <2>2, <2>4, <3>1 DEF ServerHolds
    <3>3. {<<e, 0>>} \in SUBSET (Event \X (Grant \union {0}))
      OBVIOUS
    <3>4. ServersInv'
      BY <2>1, <2>2, <2>4, <3>2, <3>3, ServeKeeps DEF Take
    <3> QED  BY <2>1, <2>2, <3>4, EntitledStays DEF BillingInv, EntitledInv
  <2> QED  BY <1>1, <2>3, <2>4 DEF ReconcileApply
<1>2. ASSUME NEW d \in delivery[h], ReconcileEntitle(h, d[1]) PROVE BillingInv'
  <2>1. PICK e \in applied : delivery[h] = {<<e, 0>>} /\ e[2] # "ACTIVE"
    BY <1>2 DEF ReconcileEntitle, BillingInv, ServersInv, ServerHolds
  <2>2. d[1] = e
    BY <1>2, <2>1
  <2>3. UNCHANGED <<bindingTables, applied, grants, member, clock>> /\ ApplyEntitlement(e, 0) /\ Finish(h)
    BY <1>2, <2>2 DEF ReconcileEntitle, bindingTables
  <2>4. EntitledInv'
    BY <2>1, <2>3, ApplyEntitlementKeeps
  <2> QED  BY <2>3, <2>4, FinishKeeps, BindingsStay DEF BillingInv
<1> QED  BY <1>1, <1>2

\* Bindings, grants, the identity, the clock and a process that stops.
LEMMA AroundKeeps ==
    ASSUME BillingInv,
           \/ \E s \in Subscription : CreateBinding(s)
           \/ \E g \in Grant : CreateTrustedGrant(g)
           \/ MemberChanges \/ Tick \/ ServerStops
    PROVE  BillingInv'
<1>1. /\ UNCHANGED <<last_event, applied, entitlementTables>>
      /\ grants \subseteq grants' /\ grants' \subseteq Grant
      /\ clock' \in 0..MaxTime /\ member' \in {"active", "inactive"}
  BY SubscriptionAssumption DEF CreateBinding, CreateTrustedGrant, MemberChanges, Tick, ServerStops,
     bindingTables, BillingInv, EntitledInv
<1>2. EntitledInv'
  BY <1>1, EntitledStays
<1>3. BindingsInv'
  <2>1. CASE UNCHANGED binding
    BY <1>1, <2>1, BindingsStay DEF bindingTables
  <2>2. ASSUME NEW s \in Subscription, CreateBinding(s) PROVE BindingsInv'
    <3>1. {e \in applied : e[1] = s} = {}
      BY <2>2, EventParts DEF CreateBinding, BillingInv, BindingsInv, BindingIsLatest, Targets
    <3>2. BindingIsLatest'
      BY <1>1, <2>2, <3>1 DEF CreateBinding, BillingInv, BindingsInv, BindingIsLatest
    <3> QED  BY <1>1, <2>2, <3>2 DEF CreateBinding, BillingInv, BindingsInv
  <2> QED  BY <2>1, <2>2 DEF CreateTrustedGrant, MemberChanges, Tick, ServerStops, bindingTables
<1>4. ServersInv'
  <2>1. CASE UNCHANGED threads
    <3>1. ASSUME NEW g \in Server PROVE ServerHolds(g)'
      <4>1. ServerHolds(g) /\ UNCHANGED <<serving, delivery>>
        BY <2>1 DEF BillingInv, ServersInv, threads
      <4> QED  BY <1>1, <4>1 DEF ServerHolds
    <3> QED  BY <2>1, <3>1 DEF BillingInv, ServersInv, threads
  <2>2. CASE ServerStops
    BY <2>2 DEF ServerStops, ServersInv, ServerHolds
  <2> QED  BY <2>1, <2>2 DEF CreateBinding, CreateTrustedGrant, MemberChanges, Tick
<1> QED  BY <1>1, <1>2, <1>3, <1>4 DEF BillingInv

\* However events are delivered, the binding is what the latest of them says,
\* the entitlement was written once for each projected event, and an active
\* one ends with a trusted grant.
THEOREM SubscriptionsHold ==
    SubscriptionInit /\ [][SubscriptionNext]_subscriptionVars => []SubscriptionInv
<1>1. SubscriptionInit => BillingInv
  <2> SUFFICES ASSUME SubscriptionInit PROVE BillingInv
    OBVIOUS
  <2>1. EntitledInv
    BY FS_EmptySet DEF SubscriptionInit, EntitledInv, EntitlementHasLineage, ActiveIsGranted
  <2>2. BindingsInv
    BY SubscriptionAssumption DEF SubscriptionInit, BindingsInv, BindingIsLatest
  <2>3. ServersInv
    BY DEF SubscriptionInit, ServersInv, ServerHolds
  <2> QED  BY <2>1, <2>2, <2>3, SubscriptionAssumption DEF SubscriptionInit, BillingInv
<1>2. BillingInv /\ [SubscriptionNext]_subscriptionVars => BillingInv'
  <2> SUFFICES ASSUME BillingInv, [SubscriptionNext]_subscriptionVars PROVE BillingInv'
    OBVIOUS
  <2>1. CASE UNCHANGED subscriptionVars
    <3>1. UNCHANGED <<bindingTables, applied, grants, entitlementTables, member, serving, delivery, clock>>
      BY <2>1 DEF subscriptionVars, bindingTables, threads
    <3>2. ServersInv'
      BY <3>1 DEF BillingInv, ServersInv, ServerHolds
    <3> QED  BY <3>1, <3>2, BindingsStay, EntitledStays DEF BillingInv, EntitledInv
  <2> QED  BY <2>1, ActivateKeeps, ReconcileKeeps, AroundKeeps DEF SubscriptionNext
<1>3. BillingInv => SubscriptionInv
  <2> SUFFICES ASSUME BillingInv PROVE SubscriptionInv
    OBVIOUS
  <2>1. \A h \in Server : delivery[h] = {} <=> serving[h] = "idle"
    BY DEF BillingInv, ServersInv, ServerHolds
  <2>2. projected \subseteq Event /\ source \subseteq Event
    BY DEF BillingInv, EntitledInv, BindingsInv, EntitlementHasLineage
  <2>3. SubscriptionTypeOK
    BY <2>1, <2>2 DEF BillingInv, BindingsInv, EntitledInv, ServersInv, SubscriptionTypeOK
  <2> QED  BY <2>3 DEF BillingInv, BindingsInv, EntitledInv, SubscriptionInv
<1> QED  BY <1>1, <1>2, <1>3, PTL

-----------------------------------------------------------------------------
(* Digital orders                                                          *)

\* A step of OrdersNext is one of eight, with the types of what it concerns.
LEMMA OrderCases ==
    ASSUME OrdersTypeOK, [OrdersNext]_orderVars
    PROVE  \/ UNCHANGED orderVars
           \/ OrdersTick
           \/ \E p \in Product : RegisterProduct(p)
           \/ \E o \in Order : CreatePendingOrder(o)
           \/ \E o \in Order, type \in PaymentType, at \in 1..MaxDay : ApplyPayment(o, type, at)
           \/ \E o \in Order, t \in Token : IssueToken(o, t)
           \/ \E r \in Reader, t \in Token : DownloadToken(r, t)
           \/ \E r \in Reader, o \in Order : DownloadOrder(r, o)
  <1>1. \A r \in Reader : \A t \in reading[r] : t \in Token /\ tokens[t] \subseteq Order
    BY DEF OrdersTypeOK
  <1> QED
    BY <1>1 DEF OrdersNext

\* The empty store satisfies the invariant.
LEMMA OrdersStart == ASSUME OrdersInit, MaxDay >= 1 PROVE OrdersInv
  BY OrderAssumption
  DEF OrdersInit, OrdersInv, OrdersTypeOK, RevocationWins, TokensFollowOrder, PaidIsPaidFor

\* Registering a product concerns no order.
LEMMA RegisterKeeps ==
    ASSUME OrdersInv, NEW p \in Product, RegisterProduct(p)
    PROVE  OrdersInv'
  BY DEF OrdersInv, RegisterProduct, tokenTables, OrdersTypeOK, RevocationWins, TokensFollowOrder,
         PaidIsPaidFor

\* A new order has no events that took it back and no tokens.
LEMMA CreateKeeps ==
    ASSUME OrdersInv, NEW o \in Order, CreatePendingOrder(o)
    PROVE  OrdersInv'
  <1> USE DEF OrdersInv, CreatePendingOrder, tokenTables
  <1>1. OrdersTypeOK'
    BY DEF OrdersTypeOK
  <1>2. RevocationWins'
    <2>1. \A e \in payments : e[1] \in Order
      BY DEF OrdersTypeOK, Payment
    <2> QED
      BY <2>1 DEF RevocationWins, OrdersTypeOK
  <1>3. TokensFollowOrder'
    BY DEF TokensFollowOrder, OrdersTypeOK
  <1>4. PaidIsPaidFor'
    BY DEF PaidIsPaidFor, OrdersTypeOK
  <1> QED
    BY <1>1, <1>2, <1>3, <1>4

\* A payment event that is accepted keeps the invariant: a revoked order is
\* never paid again, and its tokens go with it.
LEMMA PaymentKeeps ==
    ASSUME OrdersInv, NEW o \in Order, NEW type \in PaymentType, NEW at \in 1..MaxDay,
           ApplyPayment(o, type, at)
    PROVE  OrdersInv'
  <1> USE DEF OrdersInv
  <1>1. /\ orders' = [orders EXCEPT ![o] = Target(type)]
        /\ payments' = payments \union {<<o, type, at>>}
        /\ revoked' = revoked \union RevokedWith(o, Target(type))
        /\ created[o] <= at
        /\ orders[o] = "REVOKED" => Target(type) = "REVOKED"
        /\ UNCHANGED <<products, created, tokens, expires, reading, downloads, day>>
    BY DEF ApplyPayment, InLife, Acceptable, Target
  <1>2. /\ Target(type) \in {"PAID", "REVOKED"}
        /\ Target(type) = "PAID" <=> type = "payment.succeeded"
    BY DEF Target, PaymentType
  <1>3. <<o, type, at>> \in Payment
    BY DEF Payment
  <1>4. \A e \in payments' : e \in payments \/ e = <<o, type, at>>
    BY <1>1
  <1>5. RevokedWith(o, Target(type)) \subseteq {t \in Token : o \in tokens[t]}
    BY DEF RevokedWith
  <1>6. OrdersTypeOK'
    BY <1>1, <1>2, <1>3, <1>5 DEF OrdersTypeOK
  <1>7. RevocationWins'
    <2>1. \A e \in payments : e[1] \in Order
      BY DEF OrdersTypeOK, Payment
    <2>2. ASSUME NEW e \in payments, e[2] # "payment.succeeded" PROVE orders'[e[1]] = "REVOKED"
      BY <1>1, <1>2, <2>1, <2>2 DEF RevocationWins, OrdersTypeOK
    <2>3. ASSUME type # "payment.succeeded" PROVE orders'[o] = "REVOKED"
      BY <1>1, <1>2, <2>3 DEF OrdersTypeOK
    <2> QED
      BY <1>4, <2>2, <2>3 DEF RevocationWins
  <1>8. TokensFollowOrder'
    <2> SUFFICES ASSUME NEW t \in Token \ revoked', NEW q \in tokens[t] PROVE orders'[q] = "PAID"
      BY <1>1 DEF TokensFollowOrder
    <2>1. q \in Order /\ orders[q] = "PAID"
      BY <1>1 DEF TokensFollowOrder, OrdersTypeOK
    <2>2. CASE q = o
      <3>1. Target(type) # "REVOKED"
        BY <1>1, <2>2 DEF RevokedWith
      <3> QED
        BY <1>1, <1>2, <2>2, <3>1 DEF OrdersTypeOK
    <2>3. CASE q # o
      BY <1>1, <2>1, <2>3 DEF OrdersTypeOK
    <2> QED
      BY <2>2, <2>3
  <1>9. PaidIsPaidFor'
    <2> SUFFICES ASSUME NEW q \in Order, orders'[q] = "PAID"
                 PROVE  \E e \in payments' : /\ e[1] = q /\ e[2] = "payment.succeeded"
                                             /\ created[q] <= e[3]
      BY <1>1 DEF PaidIsPaidFor
    <2>1. CASE q = o
      <3>1. type = "payment.succeeded"
        BY <1>1, <1>2, <2>1 DEF OrdersTypeOK
      <3>2. <<o, type, at>> \in payments'
        BY <1>1
      <3> QED
        BY <1>1, <2>1, <3>1, <3>2
    <2>2. CASE q # o
      <3>1. orders[q] = "PAID"
        BY <1>1, <2>2 DEF OrdersTypeOK
      <3> QED
        BY <1>1, <3>1 DEF PaidIsPaidFor
    <2> QED
      BY <2>1, <2>2
  <1> QED
    BY <1>6, <1>7, <1>8, <1>9

\* A token is issued for an order that is paid at that moment.
LEMMA IssueKeeps ==
    ASSUME OrdersInv, NEW o \in Order, NEW t \in Token, IssueToken(o, t)
    PROVE  OrdersInv'
  <1> USE DEF OrdersInv, IssueToken
  <1>1. Expiry \in 1..(MaxDay + TTL)
    BY OrderAssumption DEF Expiry, OrdersTypeOK
  <1>2. OrdersTypeOK'
    BY <1>1 DEF OrdersTypeOK
  <1>3. RevocationWins' /\ PaidIsPaidFor'
    BY DEF RevocationWins, PaidIsPaidFor
  <1>4. TokensFollowOrder'
    BY DEF TokensFollowOrder, OrdersTypeOK
  <1> QED
    BY <1>2, <1>3, <1>4

\* A thread that has accepted a token only remembers it.
LEMMA TokenReadKeeps ==
    ASSUME OrdersInv, NEW r \in Reader, NEW t \in Token, DownloadToken(r, t)
    PROVE  OrdersInv'
  <1> USE DEF OrdersInv, DownloadToken, tokenTables
  <1>1. OrdersTypeOK'
    BY DEF OrdersTypeOK
  <1>2. RevocationWins' /\ PaidIsPaidFor' /\ TokensFollowOrder'
    BY DEF RevocationWins, PaidIsPaidFor, TokensFollowOrder
  <1> QED
    BY <1>1, <1>2

\* A download changes nothing but its count.
LEMMA DownloadKeeps ==
    ASSUME OrdersInv, NEW r \in Reader, NEW o \in Order, DownloadOrder(r, o)
    PROVE  OrdersInv'
  <1> USE DEF OrdersInv, DownloadOrder, tokenTables
  <1>1. OrdersTypeOK'
    <2>1. downloads' \in [Order -> 0..MaxDownloads]
      BY OrderAssumption DEF OrdersTypeOK
    <2>2. reading' \in [Reader -> SUBSET Token] /\ \A q \in Reader : reading'[q] \subseteq reading[q]
      BY DEF OrdersTypeOK
    <2> QED
      BY <2>1, <2>2 DEF OrdersTypeOK
  <1>2. RevocationWins' /\ PaidIsPaidFor' /\ TokensFollowOrder'
    BY DEF RevocationWins, PaidIsPaidFor, TokensFollowOrder
  <1> QED
    BY <1>1, <1>2

\* Neither the clock nor a stuttering step concerns the tables.
LEMMA TickKeeps ==
    ASSUME OrdersInv, OrdersTick \/ UNCHANGED orderVars
    PROVE  OrdersInv'
  BY OrderAssumption
  DEF OrdersInv, OrdersTick, orderVars, tokenTables, OrdersTypeOK, RevocationWins,
      TokensFollowOrder, PaidIsPaidFor

\* Every step keeps the invariant.
LEMMA OrdersStep ==
    ASSUME OrdersInv, [OrdersNext]_orderVars
    PROVE  OrdersInv'
  <1>1. OrdersTypeOK
    BY DEF OrdersInv
  <1> QED
    BY <1>1, OrderCases, RegisterKeeps, CreateKeeps, PaymentKeeps, IssueKeeps, TokenReadKeeps,
       DownloadKeeps, TickKeeps

\* In every reachable state orders, events and tokens agree: the conjunction is
\* inductive, and none of its last three parts is without the others.
THEOREM OrdersInvariant == OrdersSpec => []OrdersInv
  <1>1. OrdersInit => OrdersInv
    BY OrdersStart, OrderAssumption
  <1>2. OrdersInv /\ [OrdersNext]_orderVars => OrdersInv'
    BY OrdersStep
  <1> QED
    BY <1>1, <1>2, PTL DEF OrdersSpec

\* The tables and the readers keep their types.
THEOREM OrdersTypeCorrect == OrdersSpec => []OrdersTypeOK
  <1>1. OrdersInv => OrdersTypeOK
    BY DEF OrdersInv
  <1> QED
    BY <1>1, OrdersInvariant, PTL

\* However the provider's events are ordered and repeated, an order that was
\* refunded, charged back or cancelled is revoked.
THEOREM RevocationPrevails == OrdersSpec => []RevocationWins
  <1>1. OrdersInv => RevocationWins
    BY DEF OrdersInv
  <1> QED
    BY <1>1, OrdersInvariant, PTL

\* A token that is not revoked belongs to an order that is paid.
THEOREM UsableTokensArePaid == OrdersSpec => []TokensFollowOrder
  <1>1. OrdersInv => TokensFollowOrder
    BY DEF OrdersInv
  <1> QED
    BY <1>1, OrdersInvariant, PTL

\* A paid order has a success event from its own lifetime.
THEOREM PaidOrdersWerePaid == OrdersSpec => []PaidIsPaidFor
  <1>1. OrdersInv => PaidIsPaidFor
    BY DEF OrdersInv
  <1> QED
    BY <1>1, OrdersInvariant, PTL

\* No download is authorized for a revoked order, not even one whose token was
\* accepted before the revocation.
THEOREM RevokedIsNotDownloaded == OrdersSpec => NoDownloadOnceRevoked
  <1> DEFINE Denied == \A o \in Order : orders[o] = "REVOKED" => downloads'[o] = downloads[o]
  <1>1. ASSUME OrdersInv, [OrdersNext]_orderVars
        PROVE  Denied
    <2>1. OrdersTypeOK
      BY <1>1 DEF OrdersInv
    <2>2. ASSUME NEW r \in Reader, NEW o \in Order, DownloadOrder(r, o) PROVE Denied
      BY <2>1, <2>2 DEF DownloadOrder, Entitled, OrdersTypeOK
    <2>3. CASE UNCHANGED downloads
      BY <2>3
    <2> QED
      BY <1>1, <2>1, <2>2, <2>3, OrderCases
      DEF orderVars, OrdersTick, RegisterProduct, CreatePendingOrder, ApplyPayment, IssueToken,
          DownloadToken
  <1>2. OrdersInv /\ [OrdersNext]_orderVars => [Denied]_orderVars
    BY <1>1
  <1> QED
    BY OrdersInvariant, <1>2, PTL DEF OrdersSpec, NoDownloadOnceRevoked
=============================================================================
