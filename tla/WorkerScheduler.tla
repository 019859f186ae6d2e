-------------------------- MODULE WorkerScheduler --------------------------
(***************************************************************************)
(* The durable worker scheduler of services/runtime/durable_scheduler.py:  *)
(* workers with quotas, expiring leases, heartbeats and fencing tokens.    *)
(*                                                                         *)
(* Every method that writes runs under BEGIN IMMEDIATE or is a single      *)
(* INSERT, so it is one action.  The scheduler has no clock: every call    *)
(* carries the caller's now, which was true when the caller looked at its  *)
(* clock but may have aged by up to MaxLag on its way to the transaction,  *)
(* and which carries the UTC offset the caller wrote it with.  expires_at  *)
(* is stored as ISO text: parsing recovers the instant, but the quota      *)
(* query compares the text, that is, the local time.                       *)
(*                                                                         *)
(* A caller keeps the Lease it was given and may use it at any later time. *)
(***************************************************************************)
EXTENDS Naturals, FiniteSets

CONSTANTS
    Worker,       \* worker_id values, numbered in the order of their text
    Task,         \* task_id values
    Capability,   \* capability names
    MaxQuota,     \* bound: the largest max_concurrent_tasks
    MaxFence,     \* bound: the largest fencing token
    Duration,     \* lease_duration
    MaxTime,      \* bound: the last instant of the clock
    MaxLag,       \* bound: how old a caller's now may be
    Zone          \* UTC offsets callers use

ASSUME SchedulerAssumption ==
    /\ Worker \subseteq Nat
    /\ MaxQuota \in Nat
    /\ MaxFence \in Nat
    /\ Duration \in Nat \ {0}
    /\ MaxTime \in Nat
    /\ MaxLag \in Nat
    /\ Zone \subseteq Nat

VARIABLES
    capabilities,       \* scheduler_workers.capabilities_json
    quota,              \* scheduler_workers.max_concurrent_tasks; 0: no row
    scheduler_fences,   \* fencing_token; 0: no row
    scheduler_leases,   \* a set of rows, see Lease
    scheduler_effects,  \* keys (task_id, fencing_token)
    issued,             \* every lease the scheduler has handed out
    clock               \* the true time

vars == <<capabilities, quota, scheduler_fences, scheduler_leases,
          scheduler_effects, issued, clock>>

Time == 0..MaxTime

\* <<task_id, worker_id, fencing_token, instant of expires_at, its offset>>.
\* The capability column is never read.
Lease == Task \X Worker \X Nat \X Nat \X Zone

\* The values of now a call may carry when it reaches the database.
Nows == {now \in Time : now <= clock /\ clock <= now + MaxLag}

\* An upsert that keeps the row it should replace.
LeasesOfOthersMutant(t) == scheduler_leases

\* The rows that remain when the row of t is replaced or deleted.
LeasesOfOthers(t) == {l \in scheduler_leases : l[1] # t}

Active(l, now) == l[4] > now

\* A quota query that misses the leases about to expire.
LoadMutant(w, now, zone) ==
    Cardinality({l \in scheduler_leases : l[2] = w /\ l[4] + l[5] > now + zone + 1})

\* SELECT COUNT(*) ... expires_at > ?, a comparison of local times.
Load(w, now, zone) ==
    Cardinality({l \in scheduler_leases : l[2] = w /\ l[4] + l[5] > now + zone})

\* A worker with a row, the capability and room for one more lease.
Eligible(w, cap, now, zone) ==
    /\ quota[w] > 0
    /\ cap \in capabilities[w]
    /\ Load(w, now, zone) < quota[w]

\* The least loaded eligible worker, the first by id among equals.
Selected(w, cap, now, zone) ==
    /\ Eligible(w, cap, now, zone)
    /\ \A v \in Worker : Eligible(v, cap, now, zone) =>
          \/ Load(w, now, zone) < Load(v, now, zone)
          \/ Load(w, now, zone) = Load(v, now, zone) /\ w <= v

----------------------------------------------------------------------------

Init ==
    /\ capabilities = [w \in Worker |-> {}]
    /\ quota = [w \in Worker |-> 0]
    /\ scheduler_fences = [t \in Task |-> 0]
    /\ scheduler_leases = {}
    /\ scheduler_effects = {}
    /\ issued = {}
    /\ clock = 0

\* register: WorkerProfile demands a positive quota, the key is the worker.
Register(w, caps, max) ==
    /\ max > 0
    /\ quota[w] = 0
    /\ quota' = [quota EXCEPT ![w] = max]
    /\ capabilities' = [capabilities EXCEPT ![w] = caps]
    /\ UNCHANGED <<scheduler_fences, scheduler_leases, scheduler_effects, issued, clock>>

\* An unregister that does not look for leases.
UnleasedMutant(w) == TRUE

Unleased(w) == \A l \in scheduler_leases : l[2] # w

Unregister(w) ==
    /\ quota[w] > 0
    /\ Unleased(w)
    /\ quota' = [quota EXCEPT ![w] = 0]
    /\ capabilities' = [capabilities EXCEPT ![w] = {}]
    /\ UNCHANGED <<scheduler_fences, scheduler_leases, scheduler_effects, issued, clock>>

\* A fence taken from the lease row, which release deletes.
NextFenceMutant(t) ==
    IF \E l \in scheduler_leases : l[1] = t THEN scheduler_fences[t] + 1 ELSE 1

NextFence(t) == scheduler_fences[t] + 1

NewLease(t, w, now, zone) == <<t, w, NextFence(t), now + Duration, zone>>

\* schedule.  reschedule_expired looks in a connection of its own whether the
\* lease it sees has expired and then calls schedule, which looks again: it
\* adds no behaviour to this one.
Schedule(t, cap, w, now, zone) ==
    /\ \A l \in scheduler_leases : l[1] = t => ~Active(l, now)
    /\ Selected(w, cap, now, zone)
    /\ NextFence(t) <= MaxFence
    /\ scheduler_leases' = LeasesOfOthers(t) \union {NewLease(t, w, now, zone)}
    /\ issued' = issued \union {NewLease(t, w, now, zone)}
    /\ scheduler_fences' = [scheduler_fences EXCEPT ![t] = NextFence(t)]
    /\ UNCHANGED <<capabilities, quota, scheduler_effects, clock>>

\* A check that trusts any unexpired lease for the same task.
AuthorizedMutant(lease, now) ==
    /\ \E l \in scheduler_leases : l[1] = lease[1]
    /\ Active(lease, now)

\* _authorize: the row is exactly the caller's lease, and has not expired.
Authorized(lease, now) ==
    /\ lease \in scheduler_leases
    /\ Active(lease, now)

\* The same holder and fence, expiring later.
Renewed(lease, now, zone) == <<lease[1], lease[2], lease[3], now + Duration, zone>>

Heartbeat(lease, now, zone) ==
    /\ Authorized(lease, now)
    /\ scheduler_leases' = LeasesOfOthers(lease[1]) \union {Renewed(lease, now, zone)}
    /\ issued' = issued \union {Renewed(lease, now, zone)}
    /\ UNCHANGED <<capabilities, quota, scheduler_fences, scheduler_effects, clock>>

RecordSideEffect(lease, now) ==
    /\ Authorized(lease, now)
    /\ <<lease[1], lease[3]>> \notin scheduler_effects
    /\ scheduler_effects' = scheduler_effects \union {<<lease[1], lease[3]>>}
    /\ UNCHANGED <<capabilities, quota, scheduler_fences, scheduler_leases, issued, clock>>

\* release: exactly the current row; an expired one too.
Release(lease) ==
    /\ lease \in scheduler_leases
    /\ scheduler_leases' = LeasesOfOthers(lease[1])
    /\ UNCHANGED <<capabilities, quota, scheduler_fences, scheduler_effects, issued, clock>>

Tick ==
    /\ clock < MaxTime
    /\ clock' = clock + 1
    /\ UNCHANGED <<capabilities, quota, scheduler_fences, scheduler_leases,
                   scheduler_effects, issued>>

WorkerStep(w) ==
    \/ \E caps \in SUBSET Capability, max \in 1..MaxQuota : Register(w, caps, max)
    \/ Unregister(w)

LeaseStep(lease) ==
    \/ \E now \in Nows, zone \in Zone : Heartbeat(lease, now, zone)
    \/ \E now \in Nows : RecordSideEffect(lease, now)
    \/ Release(lease)

Next ==
    \/ \E w \in Worker : WorkerStep(w)
    \/ \E t \in Task, cap \in Capability, w \in Worker, now \in Nows, zone \in Zone :
          Schedule(t, cap, w, now, zone)
    \/ \E lease \in issued : LeaseStep(lease)
    \/ Tick

Spec == Init /\ [][Next]_vars

----------------------------------------------------------------------------
(* Properties                                                              *)

\* Every table holds rows of its declared kind.
TypeOK ==
    /\ capabilities \in [Worker -> SUBSET Capability]
    /\ quota \in [Worker -> 0..MaxQuota]
    /\ scheduler_fences \in [Task -> 0..MaxFence]
    /\ scheduler_leases \subseteq Lease
    /\ scheduler_effects \subseteq Task \X Nat
    /\ issued \subseteq Lease
    /\ clock \in Time

\* A lease row is the only one of its task, carries the task's latest fence,
\* and is one the scheduler handed out.
LeaseIsLatest ==
    \A l \in scheduler_leases :
        /\ l[3] = scheduler_fences[l[1]]
        /\ l \in issued
        /\ \A m \in scheduler_leases : l[1] = m[1] => l = m

\* A fencing token identifies one worker: however leases expire, move, are
\* renewed or released, two leases of a task with the same token were given
\* to the same worker.
OneWorkerPerFence ==
    \A l, m \in issued : l[1] = m[1] /\ l[3] = m[3] => l[2] = m[2]

\* A leased worker is registered (the foreign key of scheduler_leases): its
\* profile and quota cannot be replaced under its leases.
LeasedWorkerRegistered == \A l \in scheduler_leases : quota[l[2]] > 0

\* Leases identify their holders: a row carries its task's latest fence and is
\* its only one, a fence belongs to one worker, and that worker is registered.
LeasesIdentifyHolders == LeaseIsLatest /\ OneWorkerPerFence /\ LeasedWorkerRegistered

\* A step that commits does so for the task's latest fence: a worker whose
\* lease was replaced or released never commits again, and the commits of a
\* task come in the order of their fences.
CommitStep ==
    \A t \in Task, f \in 1..MaxFence :
        <<t, f>> \in scheduler_effects' \ scheduler_effects =>
            /\ f = scheduler_fences[t]
            /\ \A g \in 1..MaxFence : <<t, g>> \in scheduler_effects => g < f

\* Every step is a CommitStep (durable_scheduler.py: "fencing-enforced side
\* effects").
StaleWorkerNeverCommits == [][CommitStep]_vars

\* Who holds a task now, expired or not.
HolderOf(t) == {l[2] : l \in {m \in scheduler_leases : m[1] = t}}

Abstract == INSTANCE FencedTasks WITH
    epoch  <- scheduler_fences,
    holder <- [t \in Task |-> HolderOf(t)],
    log    <- scheduler_effects

\* The scheduler implements FencedTasks.
ImplementsFencedTasks == Abstract!Spec

\* The leases of w that are running at the true time.
Running(w) == {l \in scheduler_leases : l[2] = w /\ Active(l, clock)}

\* No worker ever runs more leases than its quota.
WorkerQuota == \A w \in Worker : Cardinality(Running(w)) <= quota[w]
=============================================================================
